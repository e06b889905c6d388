---------------------------- MODULE ContextSwitch ----------------------------
(***************************************************************************)
(* What really happens on the stacks when kernel/task/scheduler.c calls    *)
(* task_switch of kernel/task/switch.S: the frame scheduler_create_task    *)
(* lays out, the words task_switch pushes, the pointer it writes through   *)
(* and the words it pops.  Words and addresses are abstract: an address is *)
(* a task's stack and the number of words below its top.                   *)
(***************************************************************************)
EXTENDS Integers, Sequences

CONSTANTS
  MAX_TASKS,  \* slots of the table (64)
  StackWords  \* bound: words of a stack (4096 bytes)

Slots == 0 .. MAX_TASKS - 1
Boot == -1
Flows == Slots \cup {Boot}

\* The words a stack may hold.
Value(n) == <<"value", n>>
Code(label) == <<"code", label>>
Address(f, n) == <<"address", f, n>>
Junk == Value("junk")
Entry == Code("entry")
Resume == Code("after task_switch")

VARIABLES
  stack,    \* of each flow of control: its words, from the top of the stack down
  esp,      \* of each slot, tasks[i].esp: the words below the top
  created,  \* slots scheduler_create_task has filled
  started,  \* slots that have run
  running,  \* the flow whose stack the processor uses
  depth,    \* the words it has pushed
  eip       \* where task_switch returned to

vars == <<stack, esp, created, started, running, depth, eip>>

\* The frame of a new task, in the order of the pushes.
Frame == <<Entry, Value("EFLAGS"), Value(0), Value(0), Value(0),
           Value(0), Value(0), Value(0), Value(0), Value(0)>>

\* scheduler_create_task.
Create(s) ==
  /\ s \notin created
  /\ stack' = [stack EXCEPT ![s] = Frame \o SubSeq(@, Len(Frame) + 1, StackWords)]
  /\ esp' = [esp EXCEPT ![s] = Len(Frame)]
  /\ created' = created \cup {s}
  /\ UNCHANGED <<started, running, depth, eip>>

\* What the call and task_switch push: both arguments, the return address and
\* the four registers.
Pushed(s) == <<Address(s, esp[s]),
               IF running = Boot THEN Junk ELSE Address(running, esp[running]),
               Resume, Junk, Junk, Junk, Junk>>

AfterPush(s) == SubSeq(stack[running], 1, depth) \o Pushed(s)
                  \o SubSeq(stack[running], depth + Len(Pushed(s)) + 1, StackWords)

\* scheduler_switch from its call of task_switch on, as long as the processor is in
\* code; which slot it chose is Scheduler's concern.  The stack pointer is stored
\* where the old task's saved one points, not into tasks[old_task].esp; four
\* registers are popped, and the fifth word is where the processor goes on.
task_switch(s) ==
  /\ eip \in {Entry, Resume}
  /\ s \in created /\ s # running
  /\ depth + Len(Pushed(s)) <= StackWords
  /\ LET saved == Address(running, depth + Len(Pushed(s)))
     IN stack' = [stack EXCEPT ![running] =
                   IF running = Boot THEN AfterPush(s)
                   ELSE [AfterPush(s) EXCEPT ![esp[running]] = saved]]
  /\ eip' = stack'[s][esp[s] - 4]
  /\ depth' = esp[s] - 5
  /\ running' = s
  /\ started' = started \cup {s}
  /\ UNCHANGED <<esp, created>>

Init == /\ stack = [f \in Flows |-> [n \in 1 .. StackWords |-> Junk]]
        /\ esp = [s \in Slots |-> 0]
        /\ created = {}
        /\ started = {}
        /\ running = Boot
        /\ depth = 0
        /\ eip = Resume

Next == \E s \in Slots : Create(s) \/ task_switch(s)

Spec == Init /\ [][Next]_vars

-----------------------------------------------------------------------------
\* "Setup initial stack frame for task_switch return", "EIP" (scheduler.c:71, 72):
\* the first switch to a task returns to its entry.
FirstReturnIsEntry ==
  [][\A s \in Slots : s \in started' \ started => eip' = Entry]_vars
==============================================================================

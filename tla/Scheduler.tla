------------------------------ MODULE Scheduler ------------------------------
(***************************************************************************)
(* The preemptive scheduler, kernel/task/scheduler.c: the task table, the  *)
(* round-robin scheduler_switch the timer interrupt calls, and             *)
(* scheduler_create_task, whose statements that switch may separate.       *)
(* A flow of control is a slot of the table, or Boot, the code that runs   *)
(* before the first switch.  task_switch is taken for what scheduler.c     *)
(* expects of it: the flow of the new slot goes on (ContextSwitch models   *)
(* what switch.S really does).                                             *)
(***************************************************************************)
EXTENDS Integers

CONSTANTS
  MAX_TASKS,   \* slots of the table (64)
  MaxCreates   \* bound: calls of scheduler_create_task

ASSUME SchedulerAssumption ==
  MAX_TASKS \in Nat \ {0} /\ MaxCreates \in Nat

Slots == 0 .. MAX_TASKS - 1
Boot == -1
Flows == Slots \cup {Boot}
Jobs == 1 .. MaxCreates
NoSlot == MAX_TASKS

VARIABLES
  state,         \* of each slot: 0 dead, 1 ready, 2 running
  frame,         \* the job whose entry is on the stack of each slot, 0 for none
  id,            \* of each slot
  current_task,
  next_task_id,
  pc, job, task_id, seen,  \* of each flow: where it is in scheduler_create_task,
                           \* for which job, with which slot and which number
  jobs,          \* calls of scheduler_create_task so far
  clobbered,     \* a live task's stack was overwritten: nothing is said after it
  results,       \* history: <<job, id returned>>
  overlapped,    \* history: two tasks were inside scheduler_create_task at once
  waited         \* history: of each slot, the switches to others while it was ready

table == <<state, frame, id, current_task, next_task_id>>
calls == <<pc, job, task_id, seen, jobs, results, overlapped>>
vars == <<table, calls, clobbered, waited>>

-----------------------------------------------------------------------------
(* scheduler_switch.                                                       *)

\* The steps the search takes from slot c to reach slot s.
Distance(c, s) == IF s > c THEN s - c ELSE s - c + MAX_TASKS

Ready == { s \in Slots : state[s] = 1 }

\* Mutant of IsNext: the search starts at the first slot every time.
IsLowestReady(s) == s \in Ready /\ \A r \in Ready : s <= r

\* The first ready slot after current_task, in the order of the table.
IsNext(s) == /\ s \in Ready
             /\ \A r \in Ready : Distance(current_task, s) <= Distance(current_task, r)

\* Mutant of scheduler_switch: the old task is not made ready again.
scheduler_switch_forgets ==
  \E s \in Slots :
    /\ ~clobbered /\ IsNext(s)
    /\ state' = [state EXCEPT ![s] = 2]
    /\ current_task' = s
    /\ waited' = [r \in Slots |-> IF r \in Ready \ {s} THEN waited[r] + 1 ELSE 0]
    /\ UNCHANGED <<frame, id, next_task_id, calls, clobbered>>

\* A tick that finds a ready task; a tick that finds none puts current_task back.
\* The first switch writes the state of Boot before the start of the table.
scheduler_switch ==
  \E s \in Slots :
    /\ ~clobbered /\ IsNext(s)
    /\ state' = [r \in Slots |-> IF r = s THEN 2
                                 ELSE IF r = current_task THEN 1 ELSE state[r]]
    /\ current_task' = s
    /\ waited' = [r \in Slots |-> IF r \in Ready \ {s} THEN waited[r] + 1 ELSE 0]
    /\ UNCHANGED <<frame, id, next_task_id, calls, clobbered>>

-----------------------------------------------------------------------------
(* scheduler_create_task, called by the flow f that runs.                  *)

At(f, line) == ~clobbered /\ current_task = f /\ pc[f] = line

Goto(f, line) == pc' = [pc EXCEPT ![f] = line]

Return(f, value) == /\ Goto(f, "out")
                    /\ results' = results \cup {<<job[f], value>>}

Dead == { s \in Slots : state[s] = 0 }

Call(f) ==
  /\ At(f, "out")
  /\ jobs < MaxCreates
  /\ jobs' = jobs + 1
  /\ job' = [job EXCEPT ![f] = jobs + 1]
  /\ Goto(f, "find")
  /\ overlapped' = (overlapped \/ \E g \in Slots : pc[g] # "out")
  /\ UNCHANGED <<table, task_id, seen, results, clobbered, waited>>

\* Mutant of Find: a full table is not noticed.
FindAlways(f) ==
  /\ At(f, "find")
  /\ task_id' = [task_id EXCEPT ![f] = IF Dead = {} THEN NoSlot
                                       ELSE CHOOSE s \in Dead : \A r \in Dead : s <= r]
  /\ Goto(f, "fill")
  /\ UNCHANGED <<table, job, seen, jobs, results, overlapped, clobbered, waited>>

\* Mutant of Find: the first slot that does not run is taken.
FindStopped(f) ==
  /\ At(f, "find")
  /\ \E s \in { r \in Slots : state[r] # 2 } :
       /\ \A r \in Slots : state[r] # 2 => s <= r
       /\ task_id' = [task_id EXCEPT ![f] = s]
  /\ Goto(f, "fill")
  /\ UNCHANGED <<table, job, seen, jobs, results, overlapped, clobbered, waited>>

\* The search for a dead slot.
Find(f) ==
  /\ At(f, "find")
  /\ \/ /\ Dead = {}
        /\ Return(f, -1)
        /\ UNCHANGED task_id
     \/ \E s \in Dead :
          /\ \A r \in Dead : s <= r
          /\ task_id' = [task_id EXCEPT ![f] = s]
          /\ Goto(f, "fill")
          /\ UNCHANGED results
  /\ UNCHANGED <<table, job, seen, jobs, overlapped, clobbered, waited>>

\* The stack frame, esp and ebp.
Fill(f) ==
  /\ At(f, "fill")
  /\ frame' = [frame EXCEPT ![task_id[f]] = job[f]]
  /\ clobbered' = (state[task_id[f]] # 0)
  /\ Goto(f, "number")
  /\ UNCHANGED <<state, id, current_task, next_task_id>>
  /\ UNCHANGED <<job, task_id, seen, jobs, results, overlapped, waited>>

\* next_task_id++ reads and writes apart.
Number(f) ==
  /\ At(f, "number")
  /\ seen' = [seen EXCEPT ![f] = next_task_id]
  /\ Goto(f, "count")
  /\ UNCHANGED <<table, job, task_id, jobs, results, overlapped, clobbered, waited>>

Count(f) ==
  /\ At(f, "count")
  /\ next_task_id' = seen[f] + 1
  /\ id' = [id EXCEPT ![task_id[f]] = seen[f]]
  /\ Goto(f, "publish")
  /\ UNCHANGED <<state, frame, current_task>>
  /\ UNCHANGED <<job, task_id, seen, jobs, results, overlapped, clobbered, waited>>

\* Mutant of Publish: the new task is marked as running.
PublishRunning(f) ==
  /\ At(f, "publish")
  /\ state' = [state EXCEPT ![task_id[f]] = 2]
  /\ Goto(f, "return")
  /\ UNCHANGED <<frame, id, current_task, next_task_id>>
  /\ UNCHANGED <<job, task_id, seen, jobs, results, overlapped, clobbered, waited>>

Publish(f) ==
  /\ At(f, "publish")
  /\ state' = [state EXCEPT ![task_id[f]] = 1]
  /\ Goto(f, "return")
  /\ UNCHANGED <<frame, id, current_task, next_task_id>>
  /\ UNCHANGED <<job, task_id, seen, jobs, results, overlapped, clobbered, waited>>

\* Mutant of Back: the counter, which is one ahead, is returned.
BackNext(f) ==
  /\ At(f, "return")
  /\ Return(f, next_task_id)
  /\ UNCHANGED <<table, job, task_id, seen, jobs, overlapped, clobbered, waited>>

\* The id is read once more, from the table.
Back(f) ==
  /\ At(f, "return")
  /\ Return(f, id[task_id[f]])
  /\ UNCHANGED <<table, job, task_id, seen, jobs, overlapped, clobbered, waited>>

Create(f) == \/ Call(f) \/ Find(f) \/ Fill(f) \/ Number(f)
             \/ Count(f) \/ Publish(f) \/ Back(f)

-----------------------------------------------------------------------------
\* scheduler_init.
Init == /\ state = [s \in Slots |-> 0]
        /\ frame = [s \in Slots |-> 0]
        /\ id = [s \in Slots |-> 0]
        /\ current_task = Boot
        /\ next_task_id = 1
        /\ pc = [f \in Flows |-> "out"]
        /\ job = [f \in Flows |-> 0]
        /\ task_id = [f \in Flows |-> NoSlot]
        /\ seen = [f \in Flows |-> 0]
        /\ jobs = 0
        /\ clobbered = FALSE
        /\ results = {}
        /\ overlapped = FALSE
        /\ waited = [s \in Slots |-> 0]

Next == scheduler_switch \/ \E f \in Flows : Create(f)

Spec == Init /\ [][Next]_vars

\* The timer keeps ticking.
FairSpec == Spec /\ WF_vars(scheduler_switch)

-----------------------------------------------------------------------------
Lines == {"out", "find", "fill", "number", "count", "publish", "return"}

TableTypeOK ==
  /\ state \in [Slots -> 0 .. 2]
  /\ frame \in [Slots -> Jobs \cup {0}]
  /\ id \in [Slots -> Nat]
  /\ current_task \in Flows
  /\ next_task_id \in Nat
  /\ waited \in [Slots -> Nat]

CallsTypeOK ==
  /\ pc \in [Flows -> Lines]
  /\ job \in [Flows -> Jobs \cup {0}]
  /\ task_id \in [Flows -> Slots \cup {NoSlot}]
  /\ seen \in [Flows -> Nat]
  /\ jobs \in 0 .. MaxCreates
  /\ \A f \in Flows : pc[f] \notin {"out", "find"} => task_id[f] \in Slots
  /\ \A f \in Flows : pc[f] # "out" => job[f] \in Jobs

OutcomeTypeOK ==
  /\ results \subseteq Jobs \X (Nat \cup {-1})
  /\ clobbered \in BOOLEAN
  /\ overlapped \in BOOLEAN

\* The shape of the state; what a flow holds is a slot while it needs one.
SchedTypeOK == TableTypeOK /\ CallsTypeOK /\ OutcomeTypeOK

\* The table knows who runs: exactly the slot current_task names is marked
\* running, and none before the first switch, at every point where a tick may
\* come, in particular between the statements of scheduler_create_task.
OneRunning ==
  ~clobbered => \A s \in Slots : state[s] = 2 <=> s = current_task

\* Round robin: no task is passed over by more than MAX_TASKS - 1 switches in a
\* row, wherever the search starts and whatever is created meanwhile.
BoundedWait == \A s \in Slots : waited[s] < MAX_TASKS

\* While no two tasks are inside scheduler_create_task at once, a slot that holds
\* a task is never given to another one, wherever the ticks fall: the slot that
\* was free when the search passed it is still free when it is filled.
LiveTaskKept ==
  [][~overlapped' => \A s \in Slots : state[s] # 0 =>
       state'[s] # 0 /\ frame'[s] = frame[s] /\ id'[s] = id[s]]_vars

\* On the same condition, what scheduler_create_task has returned can be relied
\* on: the task is in the table, under the number its creator got.
CreateKeepsPromise ==
  ~overlapped => \A r \in results : r[2] # -1 =>
    \E s \in Slots : frame[s] = r[1] /\ id[s] = r[2] /\ state[s] # 0

\* Every task runs again and again while the ticks come.
EveryTaskRuns == \A s \in Slots : state[s] # 0 ~> current_task = s \/ clobbered
==============================================================================

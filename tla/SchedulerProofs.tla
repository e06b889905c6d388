--------------------------- MODULE SchedulerProofs ---------------------------
(***************************************************************************)
(* Proofs about scheduler.c for every table size and any number of calls.  *)
(* The invariant relates the table to the calls of scheduler_create_task   *)
(* that a tick has interrupted: what each of them still relies on when it  *)
(* goes on.                                                                *)
(***************************************************************************)
EXTENDS Scheduler, TLAPS

-----------------------------------------------------------------------------
(* Type correctness.                                                       *)

\* Boot is a flow of its own, and the error value is no slot.
LEMMA FlowFacts ==
  /\ Slots \subseteq Flows /\ Boot \in Flows /\ Boot \notin Slots
  /\ NoSlot \notin Slots /\ 0 \in Nat /\ MaxCreates \in Nat
BY SchedulerAssumption DEF Slots, Flows, Boot, NoSlot

LEMMA TypeInit == Init => SchedTypeOK
<1> SUFFICES ASSUME Init PROVE SchedTypeOK
  OBVIOUS
<1> USE FlowFacts DEF Init
<1>1. TableTypeOK
  BY DEF TableTypeOK
<1>2. CallsTypeOK
  BY DEF CallsTypeOK, Lines
<1>3. OutcomeTypeOK
  BY DEF OutcomeTypeOK
<1> QED
  BY <1>1, <1>2, <1>3 DEF SchedTypeOK

\* A tick leaves the calls alone.
LEMMA TypeSwitch ==
  ASSUME SchedTypeOK, scheduler_switch PROVE SchedTypeOK'
<1> USE FlowFacts DEF SchedTypeOK, scheduler_switch, calls
<1>1. TableTypeOK'
  BY DEF TableTypeOK
<1>2. CallsTypeOK'
  BY DEF CallsTypeOK
<1>3. OutcomeTypeOK'
  BY SchedulerAssumption DEF OutcomeTypeOK
<1> QED
  BY <1>1, <1>2, <1>3

\* Every statement of scheduler_create_task leaves the table well formed.
LEMMA TypeCreateTable ==
  ASSUME SchedTypeOK, NEW f \in Flows, Create(f) PROVE TableTypeOK'
<1> USE FlowFacts DEF SchedTypeOK, TableTypeOK, At
<1>1. CASE Call(f) \/ Find(f) \/ Number(f) \/ Back(f)
  BY <1>1 DEF Call, Find, Number, Back, table
<1>2. CASE Fill(f)
  <2>1. task_id[f] \in Slots /\ job[f] \in Jobs
    BY <1>2 DEF Fill, CallsTypeOK
  <2> QED
    BY <1>2, <2>1 DEF Fill
<1>3. CASE Count(f)
  <2>1. task_id[f] \in Slots /\ seen[f] \in Nat
    BY <1>3 DEF Count, CallsTypeOK
  <2> QED
    BY <1>3, <2>1 DEF Count
<1>4. CASE Publish(f)
  <2>1. state' \in [Slots -> 0 .. 2]
    <3>1. state \in [Slots -> 0 .. 2] /\ 1 \in 0 .. 2
      OBVIOUS
    <3>2. state' = [state EXCEPT ![task_id[f]] = 1]
      BY <1>4 DEF Publish
    <3> QED
      BY ONLY <3>1, <3>2
  <2> QED
    BY <1>4, <2>1 DEF Publish
<1> QED
  BY <1>1, <1>2, <1>3, <1>4 DEF Create

\* ... and what it holds itself.
LEMMA TypeCreateCalls ==
  ASSUME SchedTypeOK, NEW f \in Flows, Create(f) PROVE CallsTypeOK'
<1> USE FlowFacts DEF SchedTypeOK, CallsTypeOK, At, Goto, Lines
<1>1. CASE Call(f)
  <2>1. jobs + 1 \in Jobs /\ jobs + 1 \in 0 .. MaxCreates
    BY <1>1 DEF Call, Jobs
  <2> QED
    BY <1>1, <2>1 DEF Call
<1>2. CASE Find(f)
  <2>1. Dead \subseteq Slots
    BY DEF Dead
  <2> QED
    BY <1>2, <2>1 DEF Find, Return
<1>3. CASE Fill(f)
  BY <1>3 DEF Fill
<1>4. CASE Number(f)
  <2>1. next_task_id \in Nat
    BY DEF TableTypeOK
  <2> QED
    BY <1>4, <2>1 DEF Number
<1>5. CASE Count(f)
  BY <1>5 DEF Count
<1>6. CASE Publish(f)
  BY <1>6 DEF Publish
<1>7. CASE Back(f)
  BY <1>7 DEF Back, Return
<1> QED
  BY <1>1, <1>2, <1>3, <1>4, <1>5, <1>6, <1>7 DEF Create

LEMMA TypeCreateOutcome ==
  ASSUME SchedTypeOK, NEW f \in Flows, Create(f) PROVE OutcomeTypeOK'
<1> USE FlowFacts DEF SchedTypeOK, OutcomeTypeOK, At
<1>1. CASE Number(f) \/ Count(f) \/ Publish(f) \/ Fill(f)
  BY <1>1 DEF Number, Count, Publish, Fill
<1>2. CASE Call(f)
  BY <1>2 DEF Call
<1>3. CASE Find(f)
  <2>1. job[f] \in Jobs
    BY <1>3 DEF Find, CallsTypeOK
  <2>2. results' \subseteq results \cup {<<job[f], -1>>}
    BY <1>3 DEF Find, Return
  <2> QED
    BY <1>3, <2>1, <2>2 DEF Find
<1>4. CASE Back(f)
  <2>1. job[f] \in Jobs /\ id[task_id[f]] \in Nat
    BY <1>4 DEF Back, CallsTypeOK, TableTypeOK
  <2> QED
    BY <1>4, <2>1 DEF Back, Return
<1> QED
  BY <1>1, <1>2, <1>3, <1>4 DEF Create

\* The state of scheduler.c keeps its shape; in particular the slot a call of
\* scheduler_create_task writes to is a slot of the table, however it is interrupted.
THEOREM SchedTypeCorrect == Spec => []SchedTypeOK
<1>1. SchedTypeOK /\ [Next]_vars => SchedTypeOK'
  <2> SUFFICES ASSUME SchedTypeOK, [Next]_vars PROVE SchedTypeOK'
    OBVIOUS
  <2>1. ASSUME NEW f \in Flows, Create(f) PROVE SchedTypeOK'
    BY <2>1, TypeCreateTable, TypeCreateCalls, TypeCreateOutcome DEF SchedTypeOK
  <2>2. CASE UNCHANGED vars
    BY <2>2 DEF vars, table, calls, SchedTypeOK, TableTypeOK, CallsTypeOK, OutcomeTypeOK
  <2> QED
    BY <2>1, <2>2, TypeSwitch DEF Next
<1> QED
  BY <1>1, TypeInit, PTL DEF Spec

-----------------------------------------------------------------------------
(* Who runs.                                                               *)

\* A flow past the search creates a task in a slot other than its own.
OwnSlotKept ==
  ~clobbered => \A f \in Flows : pc[f] \in {"number", "count", "publish"} => task_id[f] # f

RunningInv == SchedTypeOK /\ OneRunning /\ OwnSlotKept

\* The table names the one task that runs, wherever the ticks fall and however the
\* calls of scheduler_create_task interleave.
THEOREM OneRunningHolds == Spec => []OneRunning
<1>1. Init => OneRunning /\ OwnSlotKept
  BY FlowFacts DEF Init, OneRunning, OwnSlotKept
<1>2. RunningInv /\ SchedTypeOK' /\ [Next]_vars => (OneRunning /\ OwnSlotKept)'
  <2> SUFFICES ASSUME RunningInv, SchedTypeOK', [Next]_vars PROVE OneRunning' /\ OwnSlotKept'
    OBVIOUS
  <2> USE FlowFacts DEF RunningInv, OneRunning, OwnSlotKept
  <2>1. state \in [Slots -> 0 .. 2] /\ pc \in [Flows -> Lines] /\ Slots \subseteq Int
    BY DEF SchedTypeOK, TableTypeOK, CallsTypeOK, Slots
  <2>2. CASE scheduler_switch
    <3>1. PICK s \in Slots :
            /\ ~clobbered /\ s \in Ready
            /\ state' = [r \in Slots |-> IF r = s THEN 2
                                          ELSE IF r = current_task THEN 1 ELSE state[r]]
            /\ current_task' = s
            /\ UNCHANGED <<calls, clobbered>>
      BY <2>2 DEF scheduler_switch, IsNext
    <3>2. OneRunning'
      <4>1. \A r \in Slots : state'[r] = 2 <=> r = s
        BY <2>1, <3>1
      <4> QED
        BY <3>1, <4>1
    <3>3. OwnSlotKept'
      BY <3>1 DEF calls
    <3> QED
      BY <3>2, <3>3
  <2>3. ASSUME NEW f \in Flows, Create(f) PROVE OneRunning' /\ OwnSlotKept'
    <3> USE DEF At, Goto
    <3>1. CASE Call(f) \/ Find(f) \/ Number(f) \/ Back(f)
      <4>1. UNCHANGED <<state, current_task, clobbered>>
        BY <3>1 DEF Call, Find, Number, Back, table
      <4>2. CASE Call(f) \/ Back(f)
        BY <2>1, <4>1, <4>2 DEF Call, Back, Return
      <4>3. CASE Find(f)
        <5>1. /\ pc[f] = "find"
              /\ \/ pc' = [pc EXCEPT ![f] = "out"]
                 \/ pc' = [pc EXCEPT ![f] = "fill"]
          BY <4>3 DEF Find, Return
        <5>2. \A g \in Flows : g # f => task_id'[g] = task_id[g]
          BY <4>3 DEF Find, SchedTypeOK, CallsTypeOK
        <5> QED
          BY <2>1, <4>1, <5>1, <5>2
      <4>4. CASE Number(f)
        BY <2>1, <4>1, <4>4 DEF Number
      <4> QED
        BY <3>1, <4>2, <4>3, <4>4
    <3>2. CASE Fill(f)
      <4>1. task_id[f] \in Slots
        BY <3>2 DEF Fill, SchedTypeOK, CallsTypeOK
      <4>2. /\ ~clobbered /\ current_task = f
            /\ clobbered' = (state[task_id[f]] # 0)
            /\ pc' = [pc EXCEPT ![f] = "number"]
            /\ UNCHANGED <<state, current_task, task_id>>
        BY <3>2 DEF Fill
      <4>3. ~clobbered' => state[task_id[f]] = 0
        BY <4>2, Zenon
      <4>4. ~clobbered' => task_id[f] # f
        BY <4>1, <4>2, <4>3
      <4> QED
        BY <2>1, <4>2, <4>4
    <3>3. CASE Count(f)
      <4>1. /\ pc' = [pc EXCEPT ![f] = "publish"] /\ pc[f] = "count"
            /\ UNCHANGED <<state, current_task, task_id, clobbered>>
        BY <3>3 DEF Count
      <4> QED
        BY <2>1, <4>1
    <3>4. CASE Publish(f)
      <4>1. task_id[f] # f /\ current_task = f
        BY <3>4 DEF Publish
      <4> QED
        BY <2>1, <3>4, <4>1 DEF Publish
    <3> QED
      BY <2>3, <3>1, <3>2, <3>3, <3>4 DEF Create
  <2>4. CASE UNCHANGED vars
    BY <2>4 DEF vars, table, calls
  <2> QED
    BY <2>2, <2>3, <2>4 DEF Next
<1> QED
  BY <1>1, <1>2, SchedTypeCorrect, PTL DEF Spec, RunningInv

-----------------------------------------------------------------------------
(* Round robin.                                                            *)

\* A ready task has been passed over once per slot the search has left behind.
WaitInv ==
  \A s \in Slots :
    /\ s \in Ready => waited[s] + Distance(current_task, s) <= MAX_TASKS
    /\ s \notin Ready => waited[s] = 0

\* The search reaches every slot within one round.
LEMMA DistanceBounds ==
  ASSUME NEW c \in Flows, NEW s \in Slots PROVE Distance(c, s) \in 1 .. MAX_TASKS
BY SchedulerAssumption DEF Distance, Flows, Slots, Boot

\* Moving on to the first ready slot takes as many steps off the way to any other.
LEMMA DistanceSplit ==
  ASSUME NEW c \in Flows, NEW s \in Slots, NEW r \in Slots, r # s,
         Distance(c, s) <= Distance(c, r)
  PROVE  Distance(s, r) = Distance(c, r) - Distance(c, s)
BY SchedulerAssumption DEF Distance, Flows, Slots, Boot

\* No ready task is passed over MAX_TASKS times in a row.
THEOREM BoundedWaitHolds == Spec => []BoundedWait
<1>1. Init => WaitInv
  BY FlowFacts DEF Init, WaitInv, Ready
<1>2. SchedTypeOK /\ WaitInv /\ [Next]_vars => WaitInv'
  <2> SUFFICES ASSUME SchedTypeOK, WaitInv, [Next]_vars, NEW r \in Slots
               PROVE  /\ r \in Ready' => waited'[r] + Distance(current_task', r) <= MAX_TASKS
                      /\ r \notin Ready' => waited'[r] = 0
    BY DEF WaitInv
  <2> USE SchedulerAssumption
  <2>1. /\ state \in [Slots -> 0 .. 2] /\ waited \in [Slots -> Nat]
        /\ current_task \in Flows
    BY DEF SchedTypeOK, TableTypeOK
  <2>2. CASE scheduler_switch
    <3>1. PICK s \in Slots : IsNext(s) /\ scheduler_switch!(s)
      BY <2>2 DEF scheduler_switch
    <3>2. s \in Ready /\ current_task' = s
      BY <3>1 DEF IsNext
    <3>3. CASE r \in Ready \ {s}
      <4>1. Distance(current_task, s) <= Distance(current_task, r)
        BY <3>1, <3>3 DEF IsNext
      <4>2. Distance(s, r) = Distance(current_task, r) - Distance(current_task, s)
        BY <2>1, <3>3, <4>1, DistanceSplit
      <4>3. waited'[r] = waited[r] + 1 /\ r \in Ready'
        BY <2>1, <3>1, <3>3 DEF Ready
      <4>4. waited[r] + Distance(current_task, r) <= MAX_TASKS
        BY <3>3 DEF WaitInv
      <4>5. /\ Distance(current_task, s) \in 1 .. MAX_TASKS
            /\ Distance(current_task, r) \in 1 .. MAX_TASKS
        BY <2>1, DistanceBounds
      <4> QED
        BY <2>1, <3>2, <4>2, <4>3, <4>4, <4>5
    <3>4. CASE r \notin Ready \ {s}
      <4>1. waited'[r] = 0
        BY <3>1, <3>4
      <4>2. Distance(s, r) \in 1 .. MAX_TASKS
        BY FlowFacts, DistanceBounds
      <4> QED
        BY <3>2, <4>1, <4>2
    <3> QED
      BY <3>3, <3>4
  <2>3. ASSUME NEW f \in Flows, Create(f)
        PROVE  /\ r \in Ready' => waited'[r] + Distance(current_task', r) <= MAX_TASKS
               /\ r \notin Ready' => waited'[r] = 0
    <3>1. UNCHANGED <<current_task, waited>>
      BY <2>3 DEF Create, Call, Find, Fill, Number, Count, Publish, Back, table
    <3>2. state' = state \/ \E s \in Slots : state' = [state EXCEPT ![s] = 1]
      <4>1. CASE Publish(f)
        BY <4>1 DEF Publish, At, SchedTypeOK, CallsTypeOK
      <4> QED
        BY <2>3, <4>1 DEF Create, Call, Find, Fill, Number, Count, Back, table
    <3>3. r \in Ready => r \in Ready'
      BY <2>1, <3>2 DEF Ready
    <3>4. Distance(current_task, r) \in 1 .. MAX_TASKS
      BY <2>1, DistanceBounds
    <3> QED
      BY <2>1, <3>1, <3>3, <3>4 DEF WaitInv
  <2>4. CASE UNCHANGED vars
    BY <2>4 DEF vars, table, WaitInv, Ready
  <2> QED
    BY <2>2, <2>3, <2>4 DEF Next
<1>3. SchedTypeOK /\ WaitInv => BoundedWait
  <2> SUFFICES ASSUME SchedTypeOK, WaitInv, NEW s \in Slots PROVE waited[s] < MAX_TASKS
    BY DEF BoundedWait
  <2>1. waited[s] \in Nat /\ Distance(current_task, s) \in 1 .. MAX_TASKS
    BY DistanceBounds DEF SchedTypeOK, TableTypeOK
  <2> QED
    BY <2>1, SchedulerAssumption DEF WaitInv
<1> QED
  BY <1>1, <1>2, <1>3, SchedTypeCorrect, PTL DEF Spec

-----------------------------------------------------------------------------
(* Interrupted calls.                                                      *)

\* Flows that may still go on: Boot is left for good at the first switch.
Alive(f) == f \in Slots \/ current_task = Boot

\* What a call that has not returned relies on.
CallInv(f) ==
  /\ pc[f] \in {"fill", "number", "count", "publish"} => state[task_id[f]] = 0
  /\ pc[f] \in {"number", "count", "publish", "return"} => frame[task_id[f]] = job[f]
  /\ pc[f] = "publish" => id[task_id[f]] = seen[f]
  /\ pc[f] = "return" => state[task_id[f]] # 0

Promise(r) == \E s \in Slots : frame[s] = r[1] /\ id[s] = r[2] /\ state[s] # 0

CreateInv ==
  /\ current_task = Boot => \A g \in Slots : pc[g] = "out"
  /\ ~overlapped =>
       /\ ~clobbered
       /\ \A f, g \in Slots : pc[f] # "out" /\ pc[g] # "out" => f = g
       /\ \A f \in Flows : Alive(f) => CallInv(f)
       /\ \A r \in results : r[2] # -1 => Promise(r)

CreateIInv == SchedTypeOK /\ OneRunning /\ CreateInv

LEMMA CreateIInvInit == Init => CreateInv
BY FlowFacts DEF Init, CreateInv, CallInv

\* A call of scheduler_create_task that makes no step with another one open is the
\* only one open.
LEMMA OthersOut ==
  ASSUME CreateIInv, NEW f \in Flows, Create(f), ~overlapped'
  PROVE  /\ ~overlapped /\ ~clobbered /\ current_task = f /\ current_task' = f
         /\ CallInv(f)
         /\ \A g \in Flows : g # f /\ Alive(g) => pc[g] = "out" /\ pc'[g] = "out"
<1> USE FlowFacts DEF CreateIInv
<1>1. pc \in [Flows -> Lines]
  BY DEF SchedTypeOK, CallsTypeOK
<1>2. /\ current_task = f /\ current_task' = current_task
      /\ \A g \in Flows : g # f => pc'[g] = pc[g]
  BY <1>1 DEF Create, Call, Find, Fill, Number, Count, Publish, Back, At, Goto, Return, table
<1>3. ~overlapped /\ (pc[f] = "out" => \A g \in Slots : pc[g] = "out")
  <2>1. CASE Call(f)
    BY <2>1, Zenon DEF Call
  <2>2. CASE ~Call(f)
    BY <2>2 DEF Create, Find, Fill, Number, Count, Publish, Back, At
  <2> QED
    BY <2>1, <2>2
<1>4. ~clobbered /\ CallInv(f)
  BY <1>2, <1>3 DEF CreateInv, Alive, Flows
<1>5. ASSUME NEW g \in Flows, g # f, Alive(g) PROVE pc[g] = "out"
  <2>1. CASE f = Boot
    BY <1>2, <1>5, <2>1 DEF CreateInv, Flows
  <2>2. CASE f # Boot
    BY <1>2, <1>3, <1>5, <2>2 DEF CreateInv, Flows, Alive
  <2> QED
    BY <2>1, <2>2
<1> QED
  BY <1>2, <1>3, <1>4, <1>5

\* A step that takes no live task's slot.
LEMMA KeptStep ==
  ASSUME CreateIInv, [Next]_vars, ~overlapped', NEW s \in Slots, state[s] # 0
  PROVE  state'[s] # 0 /\ frame'[s] = frame[s] /\ id'[s] = id[s]
<1>1. /\ state \in [Slots -> 0 .. 2] /\ frame \in [Slots -> Jobs \cup {0}]
      /\ id \in [Slots -> Nat]
  BY DEF CreateIInv, SchedTypeOK, TableTypeOK
<1>2. CASE scheduler_switch
  BY <1>1, <1>2 DEF scheduler_switch
<1>3. ASSUME NEW f \in Flows, Create(f)
      PROVE  state'[s] # 0 /\ frame'[s] = frame[s] /\ id'[s] = id[s]
  <2>1. CallInv(f)
    BY <1>3, OthersOut
  <2>2. CASE Call(f) \/ Find(f) \/ Number(f) \/ Back(f)
    BY <2>2 DEF Call, Find, Number, Back, table
  <2>3. CASE Fill(f)
    <3>1. s # task_id[f]
      BY <2>1, <2>3 DEF CallInv, Fill, At
    <3> QED
      BY <1>1, <2>3, <3>1 DEF Fill
  <2>4. CASE Count(f)
    <3>1. s # task_id[f]
      BY <2>1, <2>4 DEF CallInv, Count, At
    <3> QED
      BY <1>1, <2>4, <3>1 DEF Count
  <2>5. CASE Publish(f)
    <3>1. state' = [state EXCEPT ![task_id[f]] = 1] /\ UNCHANGED <<frame, id>>
      BY <2>5 DEF Publish
    <3> QED
      BY <1>1, <3>1
  <2> QED
    BY <1>3, <2>2, <2>3, <2>4, <2>5 DEF Create
<1>4. CASE UNCHANGED vars
  BY <1>4 DEF vars, table
<1> QED
  BY <1>2, <1>3, <1>4 DEF Next

\* What an interrupted call relies on survives the switch: no free slot changes.
LEMMA CreateSwitch ==
  ASSUME CreateIInv, scheduler_switch PROVE CreateInv'
<1> USE FlowFacts DEF CreateIInv
<1>1. /\ state \in [Slots -> 0 .. 2] /\ current_task' \in Slots /\ ~clobbered
      /\ UNCHANGED <<frame, id, calls, clobbered>>
  BY DEF scheduler_switch, SchedTypeOK, TableTypeOK
<1>2. \A s \in Slots : state'[s] = 0 <=> state[s] = 0
  BY <1>1 DEF scheduler_switch, IsNext, Ready, OneRunning
<1>3. ASSUME ~overlapped, NEW f \in Flows, Alive(f)' PROVE CallInv(f)'
  <2>1. CallInv(f)
    BY <1>1, <1>3 DEF Alive, CreateInv, calls
  <2>2. pc[f] \notin {"out", "find"} => task_id[f] \in Slots
    BY DEF SchedTypeOK, CallsTypeOK
  <2> QED
    BY <1>1, <1>2, <2>1, <2>2 DEF CallInv, calls
<1>4. ASSUME ~overlapped, NEW r \in results, r[2] # -1 PROVE Promise(r)'
  <2>1. Promise(r)
    BY <1>4 DEF CreateInv
  <2> QED
    BY <1>1, <1>2, <2>1 DEF Promise
<1> QED
  BY <1>1, <1>3, <1>4 DEF CreateInv, calls

\* The call itself keeps what it relies on for its next statement.
LEMMA CallStep ==
  ASSUME CreateIInv, NEW f \in Flows, Create(f), ~overlapped'
  PROVE  CallInv(f)' /\ ~clobbered'
<1>1. CallInv(f) /\ ~clobbered
  BY OthersOut
<1>2. /\ state \in [Slots -> 0 .. 2] /\ frame \in [Slots -> Jobs \cup {0}]
      /\ id \in [Slots -> Nat] /\ pc \in [Flows -> Lines]
      /\ task_id \in [Flows -> Slots \cup {NoSlot}] /\ seen \in [Flows -> Nat]
      /\ pc[f] \notin {"out", "find"} => task_id[f] \in Slots
  BY DEF CreateIInv, SchedTypeOK, TableTypeOK, CallsTypeOK
<1> USE DEF At, Goto, CallInv
<1>3. CASE Call(f)
  BY <1>1, <1>2, <1>3 DEF Call
<1>4. CASE Find(f)
  <2>1. CASE Dead = {}
    BY <1>1, <1>2, <1>4, <2>1 DEF Find, Return, table
  <2>2. CASE Dead # {}
    <3>1. PICK s \in Dead : task_id' = [task_id EXCEPT ![f] = s] /\ Goto(f, "fill")
      BY <1>4, <2>2 DEF Find
    <3>2. state[s] = 0 /\ task_id'[f] = s /\ pc'[f] = "fill" /\ state' = state
      BY <1>2, <1>4, <3>1 DEF Dead, Find, table
    <3> QED
      BY <1>1, <1>4, <3>2 DEF Find
  <2> QED
    BY <2>1, <2>2
<1>5. CASE Fill(f)
  <2>1. state[task_id[f]] = 0 /\ clobbered' = (state[task_id[f]] # 0)
    BY <1>1, <1>5 DEF Fill
  <2>2. ~clobbered'
    BY <2>1, Zenon
  <2> QED
    BY <1>2, <1>5, <2>1, <2>2 DEF Fill
<1>6. CASE Number(f)
  BY <1>1, <1>2, <1>6 DEF Number, table
<1>7. CASE Count(f)
  BY <1>1, <1>2, <1>7 DEF Count
<1>8. CASE Publish(f)
  BY <1>1, <1>2, <1>8 DEF Publish
<1>9. CASE Back(f)
  BY <1>1, <1>2, <1>9 DEF Back, Return, table
<1> QED
  BY <1>3, <1>4, <1>5, <1>6, <1>7, <1>8, <1>9 DEF Create

\* A call that returns a number has put its task into the table under it.
LEMMA PromiseStep ==
  ASSUME CreateIInv, NEW f \in Flows, Create(f), ~overlapped',
         NEW r \in results', r[2] # -1
  PROVE  Promise(r)'
<1>1. ~overlapped /\ CallInv(f)
  BY OthersOut
<1>2. CASE r \in results
  <2>1. PICK s \in Slots : frame[s] = r[1] /\ id[s] = r[2] /\ state[s] # 0
    BY <1>1, <1>2 DEF CreateIInv, CreateInv, Promise
  <2>2. state'[s] # 0 /\ frame'[s] = frame[s] /\ id'[s] = id[s]
    BY <2>1, KeptStep DEF Next
  <2> QED
    BY <2>1, <2>2 DEF Promise
<1>3. CASE r \notin results
  <2>1. CASE Find(f)
    BY <1>3, <2>1 DEF Find, Return
  <2>2. CASE Back(f)
    <3>1. r = <<job[f], id[task_id[f]]>> /\ pc[f] = "return" /\ UNCHANGED table
      BY <1>3, <2>2 DEF Back, Return, At
    <3>2. task_id[f] \in Slots
      BY <3>1 DEF CreateIInv, SchedTypeOK, CallsTypeOK
    <3> QED
      BY <1>1, <3>1, <3>2 DEF CallInv, Promise, table
  <2> QED
    BY <1>3, <2>1, <2>2 DEF Create, Call, Fill, Number, Count, Publish
<1> QED
  BY <1>2, <1>3

LEMMA CreateStep ==
  ASSUME CreateIInv, NEW f \in Flows, Create(f) PROVE CreateInv'
<1> USE FlowFacts DEF CreateIInv
<1>1. pc \in [Flows -> Lines]
  BY DEF SchedTypeOK, CallsTypeOK
<1>2. /\ current_task = f /\ current_task' = current_task
      /\ \A g \in Flows : g # f => pc'[g] = pc[g]
  BY <1>1 DEF Create, Call, Find, Fill, Number, Count, Publish, Back, At, Goto, Return, table
<1>3. current_task' = Boot => \A g \in Slots : pc'[g] = "out"
  BY <1>2 DEF CreateInv
<1>4. ASSUME ~overlapped'
      PROVE  /\ ~clobbered'
             /\ \A g, h \in Slots : pc'[g] # "out" /\ pc'[h] # "out" => g = h
             /\ \A g \in Flows : Alive(g)' => CallInv(g)'
  <2>1. \A g \in Flows : g # f /\ Alive(g) => pc'[g] = "out"
    BY <1>4, OthersOut
  <2>2. CallInv(f)' /\ ~clobbered'
    BY <1>4, CallStep
  <2>3. \A g \in Flows : g # f /\ Alive(g)' => CallInv(g)'
    BY <1>2, <2>1 DEF Alive, CallInv
  <2> QED
    BY <2>1, <2>2, <2>3 DEF Alive
<1> QED
  BY <1>3, <1>4, PromiseStep DEF CreateInv

LEMMA CreateIInvHolds == Spec => []CreateIInv
<1>1. CreateIInv /\ [Next]_vars => CreateInv'
  <2> SUFFICES ASSUME CreateIInv, [Next]_vars PROVE CreateInv'
    OBVIOUS
  <2>1. CASE UNCHANGED vars
    BY <2>1 DEF vars, table, calls, CreateIInv, CreateInv, Alive, CallInv, Promise
  <2> QED
    BY <2>1, CreateSwitch, CreateStep DEF Next
<1> QED
  BY <1>1, CreateIInvInit, SchedTypeCorrect, OneRunningHolds, PTL DEF Spec, CreateIInv

\* As long as its calls do not overlap, scheduler_create_task gives no slot that
\* holds a task to another, whatever statement a tick interrupts.
THEOREM LiveTaskKeptHolds == Spec => LiveTaskKept
<1>1. CreateIInv /\ [Next]_vars =>
        [~overlapped' => \A s \in Slots : state[s] # 0 =>
           state'[s] # 0 /\ frame'[s] = frame[s] /\ id'[s] = id[s]]_vars
  BY KeptStep
<1> QED
  BY <1>1, CreateIInvHolds, PTL DEF Spec, LiveTaskKept

\* ... and the number it returned stays that of its task.
THEOREM CreateKeepsPromiseHolds == Spec => []CreateKeepsPromise
<1>1. CreateIInv => CreateKeepsPromise
  BY DEF CreateIInv, CreateInv, CreateKeepsPromise, Promise
<1> QED
  BY <1>1, CreateIInvHolds, PTL
==============================================================================

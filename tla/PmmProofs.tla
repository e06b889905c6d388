------------------------------ MODULE PmmProofs ------------------------------
(***************************************************************************)
(* Proofs about the page allocator for every number of pages: the bitmap   *)
(* accounts for every frame, and the allocator implements its contract.    *)
(***************************************************************************)
EXTENDS Pmm, TLAPS

\* The inductive invariant.  Accounting alone is not inductive: that Alloc
\* leaves held inside Frames needs Accounting, and that Free returns a page to
\* the pool rather than a reserved one needs held \subseteq Frames.
IInv == TypeOK /\ Accounting /\ OnlyRealMemory

\* A page picked by the search has a clear bit.
LEMMA PickedIsFree ==
  ASSUME NEW bits, NEW cursor, NEW p, NextFit(bits, cursor, p)
  PROVE  p \in Pages /\ p \notin bits
BY DEF NextFit, IsLowest, FreeFrom, FreeBelow

\* The two loops together look at every page, wherever the cursor stands.
LEMMA SearchIsComplete ==
  ASSUME NEW bits, NEW cursor \in 0 .. PageCount, Exhausted(bits, cursor)
  PROVE  Pages \subseteq bits
BY PmmAssumption DEF Exhausted, FreeFrom, FreeBelow, Pages

LEMMA InitEstablishesIInv == Init => IInv
BY PmmAssumption
   DEF Init, IInv, TypeOK, Accounting, OnlyRealMemory, Frames, Pages, NULL

LEMMA NextPreservesIInv == IInv /\ [Next]_vars => IInv'
<1> SUFFICES ASSUME IInv, [Next]_vars PROVE IInv'
  OBVIOUS
<1> USE DEF IInv
<1>1. CASE Alloc
  <2>1. PICK p \in Pages :
          /\ NextFit(memory_bitmap, last_allocated, p)
          /\ memory_bitmap' = memory_bitmap \cup {p}
          /\ last_allocated' = p + 1
          /\ held' = held \cup {p}
          /\ reply' = p
    BY <1>1 DEF Alloc
  <2>2. p \in Frames \ held
    BY <2>1, PickedIsFree DEF Accounting
  <2>3. p + 1 \in 0 .. PageCount
    BY PmmAssumption DEF Pages
  <2>4. TypeOK'
    BY <2>1, <2>3 DEF TypeOK
  <2>5. Accounting'
    BY <2>1, <2>2 DEF Accounting
  <2>6. OnlyRealMemory'
    BY <2>1, <2>2, PmmAssumption DEF OnlyRealMemory, Frames, Pages, NULL
  <2> QED BY <2>4, <2>5, <2>6
<1>2. CASE OutOfMemory
  BY <1>2, PmmAssumption
     DEF OutOfMemory, TypeOK, Accounting, OnlyRealMemory, NULL, Pages
<1>3. CASE Free
  <2>1. PICK p \in held : /\ memory_bitmap' = memory_bitmap \ {p}
                          /\ held' = held \ {p}
                          /\ UNCHANGED <<last_allocated, reply>>
    BY <1>3 DEF Free
  <2>2. p \in Frames /\ p \in Pages
    BY DEF OnlyRealMemory, Frames
  <2>3. TypeOK'
    BY <2>1 DEF TypeOK
  <2>4. Accounting'
    BY <2>1, <2>2 DEF Accounting
  <2>5. OnlyRealMemory'
    BY <2>1 DEF OnlyRealMemory
  <2> QED BY <2>3, <2>4, <2>5
<1>4. CASE UNCHANGED vars
  BY <1>4 DEF vars, TypeOK, Accounting, OnlyRealMemory, Frames, Pages, NULL
<1> QED BY <1>1, <1>2, <1>3, <1>4 DEF Next

\* Every reachable state of the allocator satisfies the inductive invariant.
THEOREM Invariance == Spec => []IInv
BY InitEstablishesIInv, NextPreservesIInv, PTL DEF Spec

\* The state of pmm.c keeps its shape; the cursor never runs past the bitmap.
THEOREM TypeCorrect == Spec => []TypeOK
<1>1. IInv => TypeOK BY DEF IInv
<1> QED BY <1>1, Invariance, PTL

\* No page leaks and none is handed out twice, for any amount of memory.
THEOREM AccountingHolds == Spec => []Accounting
<1>1. IInv => Accounting BY DEF IInv
<1> QED BY <1>1, Invariance, PTL

\* Reserved pages, NULL among them, are never handed out.
THEOREM OnlyRealMemoryHolds == Spec => []OnlyRealMemory
<1>1. IInv => OnlyRealMemory BY DEF IInv
<1> QED BY <1>1, Invariance, PTL

-----------------------------------------------------------------------------
\* Each step of pmm.c is a step of the contract of pmm.h, or leaves its state.
LEMMA StepRefines == IInv /\ [Next]_vars => [Contract!ANext]_(Contract!avars)
<1> SUFFICES ASSUME IInv, [Next]_vars
             PROVE  Contract!ANext \/ UNCHANGED Contract!avars
  OBVIOUS
<1> USE DEF IInv
<1>1. CASE Alloc
  <2>1. PICK p \in Pages : /\ NextFit(memory_bitmap, last_allocated, p)
                           /\ held' = held \cup {p}
                           /\ reply' = p
    BY <1>1 DEF Alloc
  <2>2. p \in Frames \ held
    BY <2>1, PickedIsFree DEF Accounting
  <2>3. Contract!Take
    BY <2>1, <2>2 DEF Contract!Take
  <2> QED BY <2>3 DEF Contract!ANext
<1>2. CASE OutOfMemory
  <2>1. Frames \subseteq held
    BY <1>2, SearchIsComplete DEF OutOfMemory, TypeOK, Accounting, Frames
  <2>2. Contract!Refuse
    BY <1>2, <2>1 DEF OutOfMemory, Contract!Refuse
  <2> QED BY <2>2 DEF Contract!ANext
<1>3. CASE Free
  <2>1. Contract!Return
    BY <1>3 DEF Free, Contract!Return
  <2> QED BY <2>1 DEF Contract!ANext
<1>4. CASE UNCHANGED vars
  BY <1>4 DEF vars, Contract!avars
<1> QED BY <1>1, <1>2, <1>3, <1>4 DEF Next

\* The next-fit search with its cursor implements the abstract allocator: a
\* frame nobody holds each time, NULL only when every frame is held.
THEOREM ImplementsContractHolds == Spec => ImplementsContract
<1>1. Init => Contract!AInit
  BY DEF Init, Contract!AInit
<1> QED
  BY <1>1, Invariance, StepRefines, PTL
     DEF Spec, ImplementsContract, Contract!ASpec
==============================================================================

------------------------------ MODULE VmmProofs ------------------------------
(***************************************************************************)
(* Proofs about the virtual memory manager for every size of memory and of *)
(* the tables, every set of calls and any number of other callers of the   *)
(* allocator: the tables stay apart, the kernel faults only where it must, *)
(* and the MMU translates the map that was asked for.                      *)
(***************************************************************************)
EXTENDS Vmm, PmmProofs

-----------------------------------------------------------------------------
(* Page numbers and their two indices.                                     *)

LEMMA Indices ==
  ASSUME NEW v \in Pages
  PROVE  /\ v \div Entries \in Slots /\ v % Entries \in Slots
         /\ v = Entries * (v \div Entries) + (v % Entries)
<1> DEFINE i == v \div Entries
           k == v % Entries
<1>1. v \in Nat /\ v < Entries * Entries /\ Entries \in Nat \ {0}
  BY VmmAssumption, PmmAssumption DEF Pages
<1>2. i \in Int /\ k \in 0 .. Entries - 1 /\ v = Entries * i + k
  BY <1>1
<1> HIDE DEF i, k
<1>3. i >= 0
  <2> SUFFICES ASSUME i <= -1 PROVE FALSE
    BY <1>2
  <2>1. Entries * i <= -Entries
    BY <1>1, <1>2
  <2> QED
    BY <1>1, <1>2, <2>1
<1>4. i < Entries
  <2> SUFFICES ASSUME i >= Entries PROVE FALSE
    BY <1>1, <1>2
  <2>1. Entries * i >= Entries * Entries
    BY <1>1, <1>2
  <2> QED
    BY <1>1, <1>2, <2>1
<1> QED
  BY <1>1, <1>2, <1>3, <1>4 DEF i, k, Slots

\* The indices determine the page.
LEMMA IndicesDiffer ==
  ASSUME NEW v \in Pages, NEW w \in Pages, v # w
  PROVE  v \div Entries # w \div Entries \/ v % Entries # w % Entries
BY Indices

\* The pages of the kernel are those of the first table.
LEMMA KernelIndices ==
  /\ Slots \subseteq Pages /\ 0 \in Slots /\ Entries \in Nat \ {0}
  /\ \A v \in Pages : v \in Slots <=> v \div Entries = 0
  /\ \A v \in Slots : v % Entries = v
<1>1. Entries \in Nat \ {0} /\ Entries <= Entries * Entries /\ PageCount = Entries * Entries
  BY VmmAssumption
<1>2. Slots \subseteq Pages /\ 0 \in Slots
  BY <1>1, PmmAssumption DEF Slots, Pages
<1>3. ASSUME NEW v \in Slots PROVE v \div Entries = 0 /\ v % Entries = v
  BY <1>1, <1>3 DEF Slots
<1>4. ASSUME NEW v \in Pages, v \div Entries = 0 PROVE v \in Slots
  <2>1. v = Entries * 0 + (v % Entries) /\ v % Entries \in Slots
    BY <1>4, Indices
  <2> QED
    BY <1>1, <2>1 DEF Slots
<1> QED
  BY <1>1, <1>2, <1>3, <1>4

-----------------------------------------------------------------------------
(* The allocator.                                                          *)

\* What Pmm keeps, of a bitmap, a cursor and the pages held.
PmmInv(bits, cursor, h) ==
  /\ bits \subseteq Pages /\ cursor \in 0 .. PageCount
  /\ Pages \ bits = Frames \ h /\ h \subseteq Frames

LEMMA IInvIsPmmInv ==
  IInv <=> PmmInv(memory_bitmap, last_allocated, held) /\ reply \in Pages
BY PmmAssumption DEF IInv, TypeOK, Accounting, OnlyRealMemory, PmmInv, Frames, Pages, NULL

LEMMA NullIsNoFrame == NULL \notin Frames /\ NULL \in Pages /\ Frames \subseteq Pages
BY PmmAssumption DEF Frames, Pages, NULL

\* An answer is NULL and changes nothing, or a frame nobody had.
LEMMA Answers ==
  ASSUME NEW bits, NEW cursor, NEW h, PmmInv(bits, cursor, h), NEW r \in AllocPage(bits, cursor)
  PROVE  /\ r.page \in Pages
         /\ r.page = NULL \/ r.page \in Frames \ h
         /\ PmmInv(r.bits, r.cursor, h \cup ({r.page} \ {NULL}))
<1>1. CASE r = [page |-> NULL, bits |-> bits, cursor |-> cursor]
  <2>1. r.page = NULL /\ r.bits = bits /\ r.cursor = cursor
    BY <1>1
  <2>2. h \cup ({r.page} \ {NULL}) = h
    BY <2>1
  <2> QED
    BY <2>1, <2>2, NullIsNoFrame
<1>2. ASSUME NEW p \in Pages, NextFit(bits, cursor, p),
             r = [page |-> p, bits |-> bits \cup {p}, cursor |-> p + 1]
      PROVE  /\ r.page \in Pages
             /\ r.page = NULL \/ r.page \in Frames \ h
             /\ PmmInv(r.bits, r.cursor, h \cup ({r.page} \ {NULL}))
  <2>1. p \in Frames \ h
    BY <1>2, PickedIsFree DEF PmmInv
  <2>2. p # NULL
    BY <2>1, NullIsNoFrame
  <2>3. p + 1 \in 0 .. PageCount
    BY PmmAssumption DEF Pages
  <2>4. h \cup ({r.page} \ {NULL}) = h \cup {p}
    BY <1>2, <2>2
  <2>5. r.page = p /\ r.bits = bits \cup {p} /\ r.cursor = p + 1
    BY <1>2
  <2> QED
    BY <2>1, <2>3, <2>4, <2>5 DEF PmmInv
<1> QED
  BY <1>1, <1>2 DEF AllocPage

-----------------------------------------------------------------------------
(* Directory, tables and the walk, of any memory m and directory d.        *)

Memory == [Pages -> [Slots -> EntryType]]

WalkAt(m, d, i, k) ==
  LET pde == m[d][i]
      pte == m[pde.frame][k]
  IN  IF pde.present /\ pte.present
        THEN Entry(pte.frame, pde.rw /\ pte.rw, pde.user /\ pte.user)
        ELSE Absent

WalkIn(m, d, v) == WalkAt(m, d, v \div Entries, v % Entries)

LEMMA SameWalk ==
  ASSUME NEW m, NEW m2, NEW d, NEW i, NEW k, m2[d][i] = m[d][i],
         m[d][i].present => m2[m[d][i].frame][k] = m[m[d][i].frame][k]
  PROVE  WalkAt(m2, d, i, k) = WalkAt(m, d, i, k)
BY Zenon DEF WalkAt

LEMMA NoWalk ==
  ASSUME NEW m, NEW d, NEW i, NEW k, ~(m[d][i].present /\ m[m[d][i].frame][k].present)
  PROVE  WalkAt(m, d, i, k) = Absent
BY Zenon DEF WalkAt

\* The tables lie in pages of own, and one in page 0 if n = 1, each in one of its own.
Apart(m, d, own, n) ==
  /\ d \in own /\ m[d][0].present
  /\ \A i \in Slots : m[d][i].present =>
       /\ m[d][i].rw
       /\ m[d][i].frame \in own \cup {NULL} /\ m[d][i].frame # d
       /\ m[d][i].frame = NULL => n = 1
  /\ \A i, j \in Slots : m[d][i].present /\ m[d][j].present /\ i # j =>
       m[d][i].frame # m[d][j].frame

\* The pages the kernel reaches its tables by are at their own addresses or nowhere.
Straight(m, d) ==
  \A p \in Frames \cup {NULL} :
    /\ p \in Slots => WalkIn(m, d, p).present
    /\ WalkIn(m, d, p).present => WalkIn(m, d, p).frame = p

SetIn(m, d, v, e) == [m EXCEPT ![m[d][v \div Entries].frame][v % Entries] = e]
EnterIn(m, d, i, t, e) == [m EXCEPT ![t] = Zeroed, ![d][i] = e]

\* No directory entry points at page t or at the directory.
Unused(m, d, t) ==
  \A j \in Slots : m[d][j].present => m[d][j].frame # t /\ m[d][j].frame # d

\* The walk e ends at frame f.
Mapped(e, f, rw, user) == e.present /\ e.frame = f /\ (e.rw <=> rw) /\ (e.user <=> user)

LEMMA EntryTyped ==
  /\ \A f \in Pages, rw \in BOOLEAN, user \in BOOLEAN : Entry(f, rw, user) \in EntryType
  /\ Absent \in EntryType /\ Zeroed \in [Slots -> EntryType]
  /\ IdentityTable \in [Slots -> EntryType] /\ Junk \in [Slots -> EntryType]
<1>1. \A f \in Pages, rw \in BOOLEAN, user \in BOOLEAN : Entry(f, rw, user) \in EntryType
  BY DEF Entry, EntryType
<1>2. Absent \in EntryType
  BY KernelIndices DEF Absent, EntryType
<1>3. Zeroed \in [Slots -> EntryType]
  BY <1>2 DEF Zeroed
<1>4. IdentityTable \in [Slots -> EntryType] /\ Junk \in [Slots -> EntryType]
  BY <1>1, KernelIndices DEF IdentityTable, Junk
<1> QED
  BY <1>1, <1>2, <1>3, <1>4

\* An entry is set in the table of page v.
LEMMA SetInTable ==
  ASSUME NEW m \in Memory, NEW d \in Pages, NEW v \in Pages,
         NEW f \in Pages, NEW rw \in BOOLEAN, NEW user \in BOOLEAN,
         m[d][v \div Entries].present, m[d][v \div Entries].rw,
         m[d][v \div Entries].frame # d,
         \A j \in Slots \ {v \div Entries} :
           m[d][j].present => m[d][j].frame # m[d][v \div Entries].frame,
         NEW m2, m2 = SetIn(m, d, v, Entry(f, rw, user))
  PROVE  /\ m2 \in Memory /\ m2[d] = m[d]
         /\ \A w \in Pages \ {v} : WalkIn(m2, d, w) = WalkIn(m, d, w)
         /\ Mapped(WalkIn(m2, d, v), f, rw, m[d][v \div Entries].user /\ user)
<1> DEFINE i == v \div Entries
           k == v % Entries
           t == m[d][i].frame
           e == Entry(f, rw, user)
<1>9. e \in EntryType
  BY EntryTyped
<1>8. e.present /\ e.frame = f /\ e.rw = rw /\ e.user = user
  BY DEF Entry
<1> HIDE DEF e
<1>1. i \in Slots /\ k \in Slots
  BY Indices
<1>2. t \in Pages
  BY <1>1 DEF Memory, EntryType
<1>3. m2 = [m EXCEPT ![t] = [m[t] EXCEPT ![k] = e]]
  BY <1>2 DEF e, SetIn
<1>4. m2 \in Memory
  BY <1>1, <1>2, <1>3, <1>9 DEF Memory
<1>5. m2[t][k] = e /\ m2[d] = m[d]
      /\ \A q \in Pages \ {t} : m2[q] = m[q]
      /\ \A l \in Slots \ {k} : m2[t][l] = m[t][l]
  BY <1>1, <1>2, <1>3 DEF Memory
<1>6. ASSUME NEW w \in Pages, w # v PROVE WalkIn(m2, d, w) = WalkIn(m, d, w)
  <2>1. w \div Entries \in Slots /\ w % Entries \in Slots
    BY Indices
  <2>2. m[d][w \div Entries].frame \in Pages
    BY <2>1 DEF Memory, EntryType
  <2>3. m2[d][w \div Entries] = m[d][w \div Entries]
    BY <1>5
  <2>4. ASSUME m[d][w \div Entries].present
        PROVE  m2[m[d][w \div Entries].frame][w % Entries] = m[m[d][w \div Entries].frame][w % Entries]
    <3>1. CASE w \div Entries = i
      <4>1. w % Entries # k
        BY <3>1, <1>6, IndicesDiffer
      <4> QED
        BY <2>1, <3>1, <4>1, <1>5
    <3>2. CASE w \div Entries # i
      <4>1. m[d][w \div Entries].frame # t
        BY <2>1, <2>4, <3>2
      <4> QED
        BY <2>2, <4>1, <1>5
    <3> QED
      BY <3>1, <3>2
  <2>5. WalkAt(m2, d, w \div Entries, w % Entries) = WalkAt(m, d, w \div Entries, w % Entries)
    BY ONLY <2>3, <2>4, SameWalk
  <2> QED
    BY <2>5 DEF WalkIn
<1>7. Mapped(WalkIn(m2, d, v), f, rw, m[d][i].user /\ user)
  <2>1. m2[d][i] = m[d][i] /\ m2[m[d][i].frame][k] = e /\ m[d][i].present
    BY <1>5
  <2>2. WalkIn(m2, d, v) = Entry(e.frame, m2[d][i].rw /\ e.rw, m2[d][i].user /\ e.user)
    BY ONLY <2>1, <1>8, Zenon DEF WalkIn, WalkAt, i, k
  <2> QED
    <3> DEFINE e2 == WalkIn(m2, d, v)
    <3>1. /\ e2.present /\ e2.frame = e.frame /\ e2.rw = (m2[d][i].rw /\ e.rw)
          /\ e2.user = (m2[d][i].user /\ e.user)
      BY ONLY <2>2 DEF Entry
    <3> HIDE DEF e2
    <3>2. e2.rw <=> rw
      BY <1>8, <2>1, <3>1
    <3>3. e2.user <=> m[d][i].user /\ user
      BY <1>8, <2>1, <3>1
    <3>4. Mapped(e2, f, rw, m[d][i].user /\ user)
      BY <1>8, <3>1, <3>2, <3>3 DEF Mapped
    <3> QED
      BY <3>4 DEF e2
<1> QED
  BY <1>4, <1>5, <1>6, <1>7

\* A cleared table in page t is entered at i of the directory.
LEMMA EnterTable ==
  ASSUME NEW m \in Memory, NEW d \in Pages, NEW i \in Slots, NEW t \in Pages,
         NEW e \in EntryType, e.frame = t, ~m[d][i].present, t # d,
         Unused(m, d, t),
         NEW m2, m2 = EnterIn(m, d, i, t, e)
  PROVE  /\ m2 \in Memory
         /\ m2[d][i] = e
         /\ \A j \in Slots \ {i} : m2[d][j] = m[d][j]
         /\ \A w \in Pages : WalkIn(m2, d, w) = WalkIn(m, d, w)
<1>1. m2 = [[m EXCEPT ![t] = Zeroed] EXCEPT ![d] = [m[d] EXCEPT ![i] = e]]
  BY DEF Memory, EnterIn
<1>2. Zeroed \in [Slots -> EntryType]
  BY EntryTyped
<1>3. m2 \in Memory
  <2>1. [m EXCEPT ![t] = Zeroed] \in Memory
    BY <1>2 DEF Memory
  <2>2. [m[d] EXCEPT ![i] = e] \in [Slots -> EntryType]
    BY <1>2 DEF Memory
  <2> QED
    BY <1>1, <2>1, <2>2 DEF Memory
<1>4. /\ m2[d] = [m[d] EXCEPT ![i] = e] /\ m2[t] = Zeroed
      /\ \A q \in Pages \ {t, d} : m2[q] = m[q]
  BY <1>1 DEF Memory
<1>5. m2[d][i] = e /\ \A j \in Slots \ {i} : m2[d][j] = m[d][j]
  BY <1>4 DEF Memory
<1>6. ASSUME NEW w \in Pages PROVE WalkIn(m2, d, w) = WalkIn(m, d, w)
  <2>1. w \div Entries \in Slots /\ w % Entries \in Slots
    BY Indices
  <2>2. CASE w \div Entries = i
    <3>1. m2[d][w \div Entries].frame = t
      BY <2>2, <1>5
    <3>2. ~m2[t][w % Entries].present
      BY <2>1, <1>4 DEF Zeroed, Absent
    <3>3. WalkIn(m2, d, w) = Absent
      BY <3>1, <3>2, NoWalk, Zenon DEF WalkIn
    <3>4. WalkIn(m, d, w) = Absent
      BY <2>2, NoWalk, Zenon DEF WalkIn
    <3> QED
      BY <3>3, <3>4
  <2>3. CASE w \div Entries # i
    <3>1. m2[d][w \div Entries] = m[d][w \div Entries]
      BY <2>1, <2>3, <1>5
    <3>2. m[d][w \div Entries].frame \in Pages
      BY <2>1 DEF Memory, EntryType
    <3>3. ASSUME m[d][w \div Entries].present
          PROVE  m2[m[d][w \div Entries].frame][w % Entries] = m[m[d][w \div Entries].frame][w % Entries]
      <4>1. m[d][w \div Entries].frame \notin {t, d}
        BY <2>1, <3>3 DEF Unused
      <4> QED
        BY <3>2, <4>1, <1>4
    <3>4. WalkAt(m2, d, w \div Entries, w % Entries) = WalkAt(m, d, w \div Entries, w % Entries)
      BY ONLY <3>1, <3>3, SameWalk
    <3> QED
      BY <3>4 DEF WalkIn
  <2> QED
    BY <2>2, <2>3
<1> QED
  BY <1>3, <1>5, <1>6

-----------------------------------------------------------------------------
(* What each kind of write leaves of Apart, of Straight and of the map.    *)

LEMMA WalkTyped ==
  ASSUME NEW m \in Memory, NEW d \in Pages, NEW v \in Pages
  PROVE  WalkIn(m, d, v) \in EntryType
<1> DEFINE i == v \div Entries
           k == v % Entries
<1>1. i \in Slots /\ k \in Slots
  BY Indices
<1> HIDE DEF i, k
<1>2. m[d][i] \in EntryType
  BY <1>1 DEF Memory
<1>3. m[d][i].frame \in Pages
  BY <1>2 DEF EntryType
<1>4. m[m[d][i].frame][k] \in EntryType
  BY <1>1, <1>3 DEF Memory
<1>5. WalkAt(m, d, i, k) \in EntryType
  <2>1. CASE m[d][i].present /\ m[m[d][i].frame][k].present
    <3>1. WalkAt(m, d, i, k) = Entry(m[m[d][i].frame][k].frame, m[d][i].rw /\ m[m[d][i].frame][k].rw,
                                     m[d][i].user /\ m[m[d][i].frame][k].user)
      BY <2>1, Zenon DEF WalkAt
    <3>2. m[m[d][i].frame][k].frame \in Pages
      BY <1>4 DEF EntryType
    <3>3. /\ (m[d][i].rw /\ m[m[d][i].frame][k].rw) \in BOOLEAN
          /\ (m[d][i].user /\ m[m[d][i].frame][k].user) \in BOOLEAN
      OBVIOUS
    <3> QED
      BY <3>1, <3>2, <3>3, EntryTyped, Zenon
  <2>2. CASE ~(m[d][i].present /\ m[m[d][i].frame][k].present)
    BY <2>2, NoWalk, EntryTyped, Zenon
  <2> QED
    BY <2>1, <2>2
<1> QED
  BY <1>5 DEF WalkIn, i, k

\* A page is mapped in a table that is there.
LEMMA MapKeeps ==
  ASSUME NEW m \in Memory, NEW d \in Pages, NEW own \in SUBSET Frames, NEW n \in 0 .. 2,
         Apart(m, d, own, n), Straight(m, d),
         NEW v \in Pages, m[d][v \div Entries].present,
         NEW f \in Pages, NEW rw \in BOOLEAN, NEW user \in BOOLEAN,
         v \in Frames \cup {NULL} => f = v,
         NEW m2, m2 = SetIn(m, d, v, Entry(f, rw, user))
  PROVE  /\ m2 \in Memory /\ Apart(m2, d, own, n) /\ Straight(m2, d)
         /\ \A w \in Pages \ {v} : WalkIn(m2, d, w) = WalkIn(m, d, w)
         /\ Mapped(WalkIn(m2, d, v), f, rw, m[d][v \div Entries].user /\ user)
<1> DEFINE i == v \div Entries
<1>1. i \in Slots
  BY Indices
<1>2. m[d][i].frame # d /\ m[d][i].rw
      /\ \A j \in Slots \ {i} : m[d][j].present => m[d][j].frame # m[d][i].frame
  BY <1>1 DEF Apart
<1>5. /\ m2 \in Memory /\ m2[d] = m[d]
      /\ \A w \in Pages \ {v} : WalkIn(m2, d, w) = WalkIn(m, d, w)
      /\ Mapped(WalkIn(m2, d, v), f, rw, m[d][i].user /\ user)
  BY <1>2, SetInTable
<1>7. Apart(m2, d, own, n)
  BY <1>5 DEF Apart
<1>8. Straight(m2, d)
  <2> SUFFICES ASSUME NEW p \in Frames \cup {NULL}
               PROVE  /\ p \in Slots => WalkIn(m2, d, p).present
                      /\ WalkIn(m2, d, p).present => WalkIn(m2, d, p).frame = p
    BY DEF Straight
  <2>1. CASE p = v
    <3>1. WalkIn(m2, d, p).present /\ WalkIn(m2, d, p).frame = f
      BY <2>1, <1>5 DEF Mapped
    <3> QED
      BY <2>1, <3>1
  <2>2. CASE p # v
    BY <2>2, <1>5, NullIsNoFrame DEF Straight
  <2> QED
    BY <2>1, <2>2
<1> QED
  BY <1>5, <1>7, <1>8

\* Where the walks agree and the first table stays, the kernel's pages stay straight.
LEMMA StraightKept ==
  ASSUME NEW m, NEW m2, NEW d, Straight(m, d),
         \A w \in Pages : WalkIn(m2, d, w) = WalkIn(m, d, w)
  PROVE  Straight(m2, d)
BY NullIsNoFrame DEF Straight

\* What the entry e of a cleared table in page t, at i of the directory, must find.
CanEnter(m, d, own, n, i, t, e, own2, n2) ==
  /\ m \in Memory /\ d \in Pages /\ own \in SUBSET Frames /\ n \in 0 .. 2
  /\ Apart(m, d, own, n) /\ Straight(m, d)
  /\ i \in Slots /\ ~m[d][i].present
  /\ t \in Frames \cup {NULL} /\ t \notin own
  /\ t # NULL => n2 = n
  /\ t = NULL => n = 0 /\ n2 = 1
  /\ e \in EntryType /\ e.present /\ e.rw /\ e.frame = t
  /\ own2 = own \cup ({t} \ {NULL})

\* What it leaves.
Entered(m2, m, d, i, e, own2, n2) ==
  /\ m2 \in Memory /\ Straight(m2, d) /\ Apart(m2, d, own2, n2) /\ m2[d][i] = e
  /\ \A w \in Pages : WalkIn(m2, d, w) = WalkIn(m, d, w)

\* Then the table stays apart from the others and the map stays what it is.
LEMMA EnterKeeps ==
  ASSUME NEW m, NEW d, NEW own, NEW n, NEW i, NEW t, NEW e, NEW own2, NEW n2,
         CanEnter(m, d, own, n, i, t, e, own2, n2),
         NEW m2, m2 = EnterIn(m, d, i, t, e)
  PROVE  Entered(m2, m, d, i, e, own2, n2)
<1> USE DEF CanEnter
<1>1. t \in Pages /\ t # d
  BY NullIsNoFrame DEF Apart
<1>2. Unused(m, d, t)
  BY DEF Apart, Unused
<1>3. /\ m2 \in Memory
      /\ m2[d][i] = e
      /\ \A j \in Slots \ {i} : m2[d][j] = m[d][j]
      /\ \A w \in Pages : WalkIn(m2, d, w) = WalkIn(m, d, w)
  <2>1. /\ m \in Memory /\ d \in Pages /\ i \in Slots /\ t \in Pages /\ e \in EntryType /\ e.frame = t
        /\ ~m[d][i].present /\ t # d /\ m2 = EnterIn(m, d, i, t, e)
    BY <1>1
  <2> QED
    BY ONLY <1>2, <2>1, EnterTable
<1>4. Straight(m2, d)
  <2>1. Straight(m, d) /\ \A w \in Pages : WalkIn(m2, d, w) = WalkIn(m, d, w)
    BY <1>3
  <2> QED
    BY ONLY <2>1, StraightKept
<1>5. m2[d][i].present /\ m2[d][i].rw /\ m2[d][i].frame = t
  <2>1. m2[d][i] = e
    BY <1>3
  <2> QED
    BY <2>1
<1>6. ASSUME NEW j \in Slots, m2[d][j].present, j # i
      PROVE  /\ m[d][j].present /\ m2[d][j] = m[d][j] /\ m2[d][j].rw
             /\ m2[d][j].frame \in own \cup {NULL} /\ m2[d][j].frame \notin {t, d}
             /\ m2[d][j].frame = NULL => n = 1
  <2>1. m2[d][j] = m[d][j]
    BY <1>3, <1>6
  <2> QED
    BY <2>1, <1>2, <1>6 DEF Apart, Unused
<1>7. ASSUME NEW j \in Slots, NEW l \in Slots, m2[d][j].present, m2[d][l].present, j # l
      PROVE  m2[d][j].frame # m2[d][l].frame
  <2>1. CASE j # i /\ l # i
    BY <2>1, <1>6, <1>7 DEF Apart
  <2>2. CASE j = i \/ l = i
    BY <2>2, <1>5, <1>6, <1>7
  <2> QED
    BY <2>1, <2>2
<1>8. m2[d][0].present /\ d \in own
  BY <1>3, <1>5, KernelIndices DEF Apart
<1>9. Apart(m2, d, own2, n2)
  <2>1. ASSUME NEW j \in Slots, m2[d][j].present
        PROVE  /\ m2[d][j].rw
               /\ m2[d][j].frame \in own2 \cup {NULL} /\ m2[d][j].frame # d
               /\ m2[d][j].frame = NULL => n2 = 1
    BY <1>1, <1>5, <1>6, <2>1
  <2> QED
    BY <1>7, <1>8, <2>1 DEF Apart
<1> QED
  BY <1>3, <1>4, <1>9 DEF Entered

\* The first two tables, written over whatever was in their pages.
BootIn(m, d, t) ==
  LET cleared == [m EXCEPT ![d] = Zeroed]
      filled  == [cleared EXCEPT ![t] = IdentityTable]
  IN  [filled EXCEPT ![d][0] = Entry(t, TRUE, FALSE)]

LEMMA BootTyped ==
  ASSUME NEW m \in Memory, NEW d \in Pages, NEW t \in Pages
  PROVE  BootIn(m, d, t) \in Memory
<1> DEFINE e == Entry(t, TRUE, FALSE)
           cleared == [m EXCEPT ![d] = Zeroed]
           filled  == [cleared EXCEPT ![t] = IdentityTable]
<1>1. e \in EntryType /\ Zeroed \in [Slots -> EntryType] /\ IdentityTable \in [Slots -> EntryType]
  BY EntryTyped
<1>2. cleared \in Memory
  BY <1>1 DEF Memory
<1>3. BootIn(m, d, t) = [filled EXCEPT ![d] = [filled[d] EXCEPT ![0] = e]]
  BY DEF BootIn
<1> HIDE DEF e, cleared
<1>4. filled \in Memory
  BY <1>1, <1>2 DEF Memory
<1> HIDE DEF filled
<1>5. [filled[d] EXCEPT ![0] = e] \in [Slots -> EntryType]
  BY <1>1, <1>4 DEF Memory
<1> QED
  BY <1>3, <1>4, <1>5 DEF Memory

LEMMA BootKeeps ==
  ASSUME NEW m \in Memory, NEW d \in Frames, NEW t \in Frames \cup {NULL}, t # d,
         NEW n, t = NULL => n = 1,
         NEW m2, m2 = BootIn(m, d, t)
  PROVE  /\ Apart(m2, d, {d} \cup ({t} \ {NULL}), n) /\ Straight(m2, d)
         /\ \A v \in Slots : Mapped(WalkIn(m2, d, v), v, TRUE, FALSE)
         /\ \A v \in Pages \ Slots : ~WalkIn(m2, d, v).present
<1> DEFINE e == Entry(t, TRUE, FALSE)
<1>1. d \in Pages /\ t \in Pages /\ d # NULL
  BY NullIsNoFrame
<1>2. e.present /\ e.rw /\ e.frame = t /\ ~e.user
  BY DEF Entry
<1>3. m2 = [[[m EXCEPT ![d] = Zeroed] EXCEPT ![t] = IdentityTable] EXCEPT ![d] = [Zeroed EXCEPT ![0] = e]]
  BY <1>1 DEF BootIn, Memory
<1> HIDE DEF e
<1>4. m2[d] = [Zeroed EXCEPT ![0] = e] /\ m2[t] = IdentityTable
  BY <1>1, <1>3 DEF Memory
<1>5. m2[d][0] = e /\ \A i \in Slots \ {0} : ~m2[d][i].present
  BY <1>4, KernelIndices DEF Zeroed, Absent
<1>6. \A k \in Slots : /\ m2[t][k].present /\ m2[t][k].frame = k
                       /\ m2[t][k].rw /\ ~m2[t][k].user
  BY <1>4 DEF IdentityTable, Entry
<1>7. ASSUME NEW v \in Slots PROVE Mapped(WalkIn(m2, d, v), v, TRUE, FALSE)
  <2>1. v \div Entries = 0 /\ v % Entries = v
    BY KernelIndices
  <2>2. /\ m2[d][0].present /\ m2[d][0].frame = t /\ m2[d][0].rw /\ ~m2[d][0].user
        /\ m2[t][v].present /\ m2[t][v].frame = v /\ m2[t][v].rw /\ ~m2[t][v].user
    BY <1>2, <1>5, <1>6
  <2>3. Mapped(WalkAt(m2, d, 0, v), v, TRUE, FALSE)
    <3>1. WalkAt(m2, d, 0, v) = Entry(v, TRUE, FALSE)
      <4>1. WalkAt(m2, d, 0, v) = Entry(m2[t][v].frame, m2[d][0].rw /\ m2[t][v].rw,
                                        m2[d][0].user /\ m2[t][v].user)
        BY ONLY <2>2, Zenon DEF WalkAt
      <4>2. (m2[d][0].rw /\ m2[t][v].rw) = TRUE /\ (m2[d][0].user /\ m2[t][v].user) = FALSE
        BY ONLY <2>2
      <4> QED
        BY ONLY <2>2, <4>1, <4>2, Zenon
    <3> QED
      BY ONLY <3>1 DEF Mapped, Entry
  <2> QED
    BY ONLY <2>1, <2>3 DEF WalkIn
<1>8. ASSUME NEW v \in Pages \ Slots PROVE ~WalkIn(m2, d, v).present
  <2>1. v \div Entries \in Slots \ {0}
    BY Indices, KernelIndices
  <2>2. WalkAt(m2, d, v \div Entries, v % Entries) = Absent
    <3>1. ~m2[d][v \div Entries].present
      BY <1>5, <2>1
    <3> QED
      BY ONLY <3>1, NoWalk
  <2> QED
    BY <2>2 DEF WalkIn, Absent
<1>9. Straight(m2, d)
  BY <1>7, <1>8, NullIsNoFrame DEF Straight, Mapped
<1>10. Apart(m2, d, {d} \cup ({t} \ {NULL}), n)
  BY <1>2, <1>5 DEF Apart
<1> QED
  BY <1>7, <1>8, <1>9, <1>10

JunkIn(m, p) == [m EXCEPT ![p] = Junk]

\* Another caller of the allocator writes into its page.
LEMMA JunkKeeps ==
  ASSUME NEW m \in Memory, NEW d \in Pages, NEW own \in SUBSET Frames, NEW n \in 0 .. 2,
         Apart(m, d, own, n), Straight(m, d),
         NEW p \in Frames \ own, NEW m2, m2 = JunkIn(m, p)
  PROVE  /\ Apart(m2, d, own, n) /\ Straight(m2, d)
         /\ \A w \in Pages : WalkIn(m2, d, w) = WalkIn(m, d, w)
<1>1. m2[d] = m[d] /\ \A q \in Pages \ {p} : m2[q] = m[q]
  BY DEF Memory, Apart, JunkIn
<1>2. ASSUME NEW w \in Pages PROVE WalkIn(m2, d, w) = WalkIn(m, d, w)
  <2>1. w \div Entries \in Slots
    BY Indices
  <2>2. m2[d][w \div Entries] = m[d][w \div Entries]
    BY <1>1
  <2>3. ASSUME m[d][w \div Entries].present
        PROVE  m2[m[d][w \div Entries].frame][w % Entries] = m[m[d][w \div Entries].frame][w % Entries]
    <3>1. m[d][w \div Entries].frame \in own \cup {NULL}
      BY <2>1, <2>3 DEF Apart
    <3>2. m[d][w \div Entries].frame \in Pages \ {p}
      BY <3>1, NullIsNoFrame
    <3> QED
      BY <3>2, <1>1
  <2>4. WalkAt(m2, d, w \div Entries, w % Entries) = WalkAt(m, d, w \div Entries, w % Entries)
    BY ONLY <2>2, <2>3, SameWalk
  <2> QED
    BY <2>4 DEF WalkIn
<1>3. Straight(m2, d)
  <2>1. Straight(m, d) /\ \A w \in Pages : WalkIn(m2, d, w) = WalkIn(m, d, w)
    BY <1>2
  <2> QED
    BY ONLY <2>1, StraightKept
<1>4. Apart(m2, d, own, n)
  BY <1>1 DEF Apart
<1> QED
  BY <1>2, <1>3, <1>4

-----------------------------------------------------------------------------
(* The kernel's own accesses.                                              *)

LEMMA WalkIsWalkIn ==
  \A m, v : Walk(m, v) = WalkIn(m, current_directory, v)
BY DEF Walk, WalkIn, WalkAt, PAGE_DIRECTORY_INDEX, PAGE_TABLE_INDEX

LEMMA FaultIsNoPage == Fault \notin Pages
BY PmmAssumption DEF Fault, Pages

\* An access to a page of the allocator reaches that page, or faults beyond the 4 MB.
LEMMA ReachOwn ==
  ASSUME NEW m \in Memory, Straight(m, current_directory), NEW p \in Frames \cup {NULL}
  PROVE  /\ Reach(m, p) \in {p, Fault}
         /\ Reach(m, p) = Fault => paging /\ p \notin Slots
<1>1. p \in Pages /\ p # Fault
  BY NullIsNoFrame, FaultIsNoPage
<1>2. /\ p \in Slots => Walk(m, p).present
      /\ Walk(m, p).present => Walk(m, p).frame = p
  <2>1. Walk(m, p) = WalkIn(m, current_directory, p)
    BY WalkIsWalkIn
  <2> QED
    BY <2>1 DEF Straight
<1>3. CASE ~paging
  <2>1. Reach(m, p) = p
    BY <1>3 DEF Reach
  <2> QED
    BY <1>1, <2>1
<1>4. CASE paging /\ ~Walk(m, p).present
  <2>1. Reach(m, p) = Fault
    BY <1>4 DEF Reach
  <2> QED
    BY <1>2, <1>4, <2>1
<1>5. CASE paging /\ Walk(m, p).present
  <2>1. Reach(m, p) = Walk(m, p).frame
    BY <1>5 DEF Reach
  <2> QED
    BY <1>1, <1>2, <1>5, <2>1
<1> QED
  BY <1>3, <1>4, <1>5

LEMMA ReachTyped ==
  ASSUME NEW m \in Memory, NEW p \in Pages, current_directory \in Pages
  PROVE  Reach(m, p) \in Pages \cup {Fault}
<1>1. Walk(m, p) \in EntryType
  BY WalkTyped, WalkIsWalkIn
<1>2. Walk(m, p).frame \in Pages
  BY <1>1 DEF EntryType
<1> QED
  BY <1>2 DEF Reach

LEMMA FlagsTyped ==
  \A flags \in Flags : Rw(flags) \in BOOLEAN /\ User(flags) \in BOOLEAN
BY DEF Rw, User

\* The second half of vmm_map_page keeps the memory a memory in any case ...
LEMMA SetEntryTyped ==
  ASSUME NEW m \in Memory, current_directory \in Pages,
         NEW v \in Pages, NEW f \in Pages, NEW flags \in Flags,
         SetEntry(m, current_directory, v, f, flags)
  PROVE  mem' \in Memory /\ (panic' = TRUE \/ panic' = panic)
<1> DEFINE table == Reach(m, m[current_directory][PAGE_DIRECTORY_INDEX(v)].frame)
           e == Entry(f, Rw(flags), User(flags))
<1>1. e \in EntryType
  BY EntryTyped, FlagsTyped
<1>2. PAGE_DIRECTORY_INDEX(v) \in Slots /\ PAGE_TABLE_INDEX(v) \in Slots
  BY Indices DEF PAGE_DIRECTORY_INDEX, PAGE_TABLE_INDEX
<1>3. m[current_directory][PAGE_DIRECTORY_INDEX(v)].frame \in Pages
  BY <1>2 DEF Memory, EntryType
<1>4. table \in Pages \cup {Fault}
  BY <1>3, ReachTyped
<1>5. CASE table = Fault
  <2>1. panic' = TRUE /\ mem' = m
    BY <1>5, Zenon DEF SetEntry
  <2> QED
    BY <2>1
<1>6. CASE table # Fault
  <2>1. mem' = [m EXCEPT ![table][PAGE_TABLE_INDEX(v)] = e] /\ panic' = panic
    BY <1>6, Zenon DEF SetEntry
  <2>2. table \in Pages
    BY <1>4, <1>6
  <2> HIDE DEF table, e
  <2> QED
    BY <1>1, <1>2, <2>1, <2>2 DEF Memory
<1> QED
  BY <1>5, <1>6

\* ... and, with its tables apart, maps the page or faults on a table beyond the 4 MB.
LEMMA SetEntryKeeps ==
  ASSUME NEW m \in Memory, current_directory \in Pages,
         NEW own \in SUBSET Frames, NEW n \in 0 .. 2,
         Apart(m, current_directory, own, n), Straight(m, current_directory),
         NEW v \in Pages, m[current_directory][v \div Entries].present,
         NEW f \in Pages, NEW flags \in Flags, v \in Frames \cup {NULL} => f = v,
         SetEntry(m, current_directory, v, f, flags)
  PROVE  /\ Apart(mem', current_directory, own, n) /\ Straight(mem', current_directory)
         /\ \A w \in Pages \ {v} :
              WalkIn(mem', current_directory, w) = WalkIn(m, current_directory, w)
         /\ \/ /\ panic' = TRUE /\ paging /\ \E p \in own : p \notin Slots
               /\ WalkIn(mem', current_directory, v) = WalkIn(m, current_directory, v)
            \/ /\ panic' = panic
               /\ Mapped(WalkIn(mem', current_directory, v), f, Rw(flags),
                         m[current_directory][v \div Entries].user /\ User(flags))
<1> DEFINE d == current_directory
           i == v \div Entries
           t == m[d][i].frame
           e == Entry(f, Rw(flags), User(flags))
<1>1. i \in Slots
  BY Indices
<1>2. t \in own \cup {NULL}
  BY <1>1 DEF Apart
<1>3. Reach(m, t) \in {t, Fault} /\ (Reach(m, t) = Fault => paging /\ t \notin Slots)
  <2>1. t \in Frames \cup {NULL}
    BY <1>2
  <2> HIDE DEF t
  <2> QED
    BY <2>1, ReachOwn
<1>4. CASE Reach(m, t) = Fault
  <2>1. panic' = TRUE /\ mem' = m
    BY <1>4, Zenon DEF SetEntry, PAGE_DIRECTORY_INDEX
  <2>2. t \in own /\ t \notin Slots
    BY <1>2, <1>3, <1>4, KernelIndices DEF NULL
  <2> QED
    BY <1>3, <1>4, <2>1, <2>2
<1>5. CASE Reach(m, t) # Fault
  <2>1. mem' = SetIn(m, d, v, e) /\ panic' = panic
    <3>1. Reach(m, t) = t
      BY <1>3, <1>5
    <3>2. mem' = [m EXCEPT ![Reach(m, t)][v % Entries] = e] /\ panic' = panic
      BY <1>5, Zenon DEF SetEntry, PAGE_DIRECTORY_INDEX, PAGE_TABLE_INDEX
    <3> QED
      BY ONLY <3>1, <3>2 DEF SetIn
  <2>2. Rw(flags) \in BOOLEAN /\ User(flags) \in BOOLEAN
    BY FlagsTyped
  <2>3. /\ Apart(mem', d, own, n) /\ Straight(mem', d)
        /\ \A w \in Pages \ {v} : WalkIn(mem', d, w) = WalkIn(m, d, w)
        /\ Mapped(WalkIn(mem', d, v), f, Rw(flags), m[d][v \div Entries].user /\ User(flags))
    BY <2>1, <2>2, MapKeeps
  <2> QED
    BY <2>1, <2>3
<1> QED
  BY <1>4, <1>5

-----------------------------------------------------------------------------
(* The inductive invariant.                                                *)

TablesFit ==
  ready /\ atNull < 2 =>
    /\ Apart(mem, current_directory, held \ client, atNull)
    /\ Straight(mem, current_directory)

NotYet == ~ready => ~paging /\ ~panic /\ atNull = 0 /\ client = held

Shape == /\ PmmInv(memory_bitmap, last_allocated, held) /\ reply \in Pages
         /\ mem \in Memory /\ current_directory \in Pages
         /\ ready \in BOOLEAN /\ paging \in BOOLEAN /\ panic \in BOOLEAN
         /\ client \subseteq held /\ atNull \in 0 .. 2

VInv == Shape /\ NotYet /\ TablesFit /\ FaultsOnlyBeyondIdentity

LEMMA VInvImplies == VInv => VmmTypeOK /\ TablesOwned /\ IInv
<1> SUFFICES ASSUME VInv PROVE VmmTypeOK /\ TablesOwned /\ IInv
  OBVIOUS
<1>1. IInv
  BY IInvIsPmmInv DEF VInv, Shape
<1>2. VmmTypeOK
  BY <1>1 DEF VInv, Shape, IInv, VmmTypeOK, Memory
<1>3. TablesOwned
  BY DEF VInv, TablesFit, Apart, TablesOwned, Used, Directory
<1> QED
  BY <1>1, <1>2, <1>3

LEMMA IInvIsPmmInvNext ==
  IInv' <=> PmmInv(memory_bitmap', last_allocated', held') /\ reply' \in Pages
BY PmmAssumption DEF IInv, TypeOK, Accounting, OnlyRealMemory, PmmInv, Frames, Pages, NULL

LEMMA StartEstablishesVInv == VmmStart => VInv
<1> SUFFICES ASSUME VmmStart PROVE VInv
  OBVIOUS
<1>1. IInv
  BY InitEstablishesIInv DEF VmmStart
<1>2. mem \in Memory
  BY EntryTyped DEF VmmStart, Memory
<1>3. Shape
  <2>1. PmmInv(memory_bitmap, last_allocated, held) /\ reply \in Pages /\ held = {}
    BY <1>1, IInvIsPmmInv DEF VmmStart, Init
  <2>2. ready \in BOOLEAN /\ paging \in BOOLEAN /\ panic \in BOOLEAN
    BY Zenon DEF VmmStart
  <2>3. current_directory \in Pages /\ client = {} /\ atNull \in 0 .. 2
    BY NullIsNoFrame DEF VmmStart
  <2> QED
    BY <1>2, <2>1, <2>2, <2>3 DEF Shape
<1>4. NotYet
  BY DEF VmmStart, NotYet, Init
<1> QED
  BY <1>3, <1>4 DEF VInv, TablesFit, FaultsOnlyBeyondIdentity, VmmStart

\* What a step leaves of the map the MMU translates.
SameMap == \A w \in Pages : WalkIn(mem', current_directory', w) = WalkIn(mem, current_directory, w)

OneMapped(v, f, flags) ==
  /\ \A w \in Pages \ {v} : WalkIn(mem', current_directory', w) = WalkIn(mem, current_directory, w)
  /\ \E granted \in BOOLEAN : /\ granted => User(flags)
                              /\ Mapped(WalkIn(mem', current_directory', v), f, Rw(flags), granted)

LEMMA EnableKeeps == VInv /\ VmmEnable => VInv' /\ SameMap /\ UNCHANGED <<ready, atNull>>
<1> SUFFICES ASSUME VInv, VmmEnable PROVE VInv' /\ SameMap /\ UNCHANGED <<ready, atNull>>
  OBVIOUS
<1>1. /\ UNCHANGED <<vars, mem, current_directory, ready, client, panic, atNull>>
      /\ paging' = TRUE /\ ready /\ ~panic
  BY DEF VmmEnable, GoesOn
<1>2. Shape'
  BY <1>1 DEF VInv, Shape, vars
<1>3. NotYet' /\ TablesFit' /\ FaultsOnlyBeyondIdentity'
  BY <1>1 DEF VInv, TablesFit, NotYet, FaultsOnlyBeyondIdentity, vars
<1> QED
  BY <1>1, <1>2, <1>3 DEF VInv, SameMap

LEMMA ClientFreeKeeps == VInv /\ ClientFree => VInv' /\ SameMap /\ UNCHANGED <<ready, atNull>>
<1> SUFFICES ASSUME VInv, ClientFree PROVE VInv' /\ SameMap /\ UNCHANGED <<ready, atNull>>
  OBVIOUS
<1>1. PICK p \in client : Free /\ held' = held \ {p} /\ client' = client \ {p}
  BY DEF ClientFree
<1>2. UNCHANGED <<mem, current_directory, ready, paging, panic, atNull>>
  BY DEF ClientFree
<1>3. IInv'
  BY <1>1, VInvImplies, NextPreservesIInv DEF Next
<1>4. Shape'
  BY <1>1, <1>2, <1>3, IInvIsPmmInvNext DEF VInv, Shape
<1>5. held' \ client' = held \ client
  BY <1>1
<1>6. NotYet' /\ TablesFit' /\ FaultsOnlyBeyondIdentity'
  BY <1>1, <1>2, <1>5 DEF VInv, TablesFit, NotYet, FaultsOnlyBeyondIdentity
<1> QED
  BY <1>2, <1>4, <1>6 DEF VInv, SameMap

LEMMA ClientRefusedKeeps == VInv /\ ClientRefused => VInv' /\ SameMap /\ UNCHANGED <<ready, atNull>>
<1> SUFFICES ASSUME VInv, ClientRefused PROVE VInv' /\ SameMap /\ UNCHANGED <<ready, atNull>>
  OBVIOUS
<1>1. OutOfMemory /\ held' = held
  BY DEF ClientRefused, OutOfMemory
<1>2. UNCHANGED <<mem, current_directory, ready, paging, client, panic, atNull>>
  BY DEF ClientRefused
<1>3. IInv'
  BY <1>1, VInvImplies, NextPreservesIInv DEF Next
<1>4. Shape'
  BY <1>1, <1>2, <1>3, IInvIsPmmInvNext DEF VInv, Shape
<1>5. NotYet' /\ TablesFit' /\ FaultsOnlyBeyondIdentity'
  BY <1>1, <1>2 DEF VInv, TablesFit, NotYet, FaultsOnlyBeyondIdentity
<1> QED
  BY <1>2, <1>4, <1>5 DEF VInv, SameMap

LEMMA ClientAllocKeeps ==
  VInv /\ ClientAlloc => VInv' /\ (ready => SameMap) /\ UNCHANGED <<ready, atNull>>
<1> SUFFICES ASSUME VInv, ClientAlloc
             PROVE  VInv' /\ (ready => SameMap) /\ UNCHANGED <<ready, atNull>>
  OBVIOUS
<1>1. PICK p \in Pages : /\ Alloc /\ reply' = p
                         /\ client' = client \cup {p}
                         /\ mem' = [mem EXCEPT ![p] = Junk]
  BY DEF ClientAlloc
<1>2. UNCHANGED <<current_directory, ready, paging, panic, atNull>> /\ atNull < 2
  BY DEF ClientAlloc, GoesOn
<1>3. IInv'
  BY <1>1, VInvImplies, NextPreservesIInv DEF Next
<1>4. p \in Frames \ held /\ held' = held \cup {p}
  <2>1. NextFit(memory_bitmap, last_allocated, p) /\ held' = held \cup {p}
    BY <1>1 DEF Alloc
  <2> QED
    BY <2>1, PickedIsFree DEF VInv, Shape, PmmInv
<1>5. mem' \in Memory
  BY <1>1, EntryTyped DEF VInv, Shape, Memory
<1>6. Shape'
  BY <1>1, <1>2, <1>3, <1>4, <1>5, IInvIsPmmInvNext DEF VInv, Shape
<1>7. held' \ client' = held \ client
  BY <1>1, <1>4 DEF VInv, Shape
<1>8. ASSUME ready
      PROVE  /\ Apart(mem', current_directory, held \ client, atNull)
             /\ Straight(mem', current_directory) /\ SameMap
  <2>1. Apart(mem, current_directory, held \ client, atNull) /\ Straight(mem, current_directory)
    BY <1>2, <1>8 DEF VInv, TablesFit
  <2>2. /\ mem \in Memory /\ current_directory \in Pages /\ held \ client \in SUBSET Frames
        /\ atNull \in 0 .. 2 /\ p \in Frames \ (held \ client)
    BY <1>4 DEF VInv, Shape, PmmInv
  <2>3. /\ Apart(mem', current_directory, held \ client, atNull)
        /\ Straight(mem', current_directory)
        /\ \A w \in Pages : WalkIn(mem', current_directory, w) = WalkIn(mem, current_directory, w)
    <3> DEFINE own == held \ client
    <3>1. mem' = JunkIn(mem, p)
      BY <1>1 DEF JunkIn
    <3> HIDE DEF own
    <3>2. /\ Apart(mem, current_directory, own, atNull) /\ own \in SUBSET Frames
          /\ p \in Frames \ own
      BY <2>1, <2>2 DEF own
    <3>3. /\ Apart(mem', current_directory, own, atNull)
          /\ Straight(mem', current_directory)
          /\ \A w \in Pages : WalkIn(mem', current_directory, w) = WalkIn(mem, current_directory, w)
      BY ONLY <2>1, <2>2, <3>1, <3>2, JunkKeeps
    <3> QED
      BY <3>3 DEF own
  <2> QED
    BY <1>2, <2>3 DEF SameMap
<1>9. NotYet' /\ TablesFit' /\ FaultsOnlyBeyondIdentity'
  BY <1>1, <1>2, <1>4, <1>7, <1>8 DEF VInv, TablesFit, NotYet, FaultsOnlyBeyondIdentity
<1> QED
  BY <1>2, <1>6, <1>8, <1>9 DEF VInv

LEMMA PutCounts ==
  ASSUME NEW n \in 0 .. 2, NEW r
  PROVE  /\ Put(n, r) \in 0 .. 2 /\ Put(n, r) >= n
         /\ r.page # NULL => Put(n, r) = n
         /\ r.page = NULL /\ Put(n, r) < 2 => n = 0 /\ Put(n, r) = 1
BY DEF Put

\* An allocator that has nothing left has nothing the next time either.
LEMMA StillExhausted ==
  ASSUME NEW bits, NEW cursor, NEW h, PmmInv(bits, cursor, h),
         NEW r1 \in AllocPage(bits, cursor), NEW r2 \in AllocPage(r1.bits, r1.cursor),
         r1.page = NULL
  PROVE  r2.page = NULL
<1>1. CASE Exhausted(bits, cursor)
  <2>1. r1.bits = bits /\ r1.cursor = cursor
    BY <1>1 DEF AllocPage
  <2>2. r2 \in AllocPage(bits, cursor)
    BY <2>1
  <2> QED
    BY <1>1, <2>2 DEF AllocPage
<1>2. CASE ~Exhausted(bits, cursor)
  <2>1. PICK p \in Pages : /\ NextFit(bits, cursor, p)
                           /\ r1 = [page |-> p, bits |-> bits \cup {p}, cursor |-> p + 1]
    BY <1>2 DEF AllocPage
  <2>2. p \in Frames
    BY <2>1, PickedIsFree DEF PmmInv
  <2> QED
    BY <2>1, <2>2, NullIsNoFrame
<1> QED
  BY <1>1, <1>2

BootMap ==
  /\ \A v \in Slots : Mapped(WalkIn(mem', current_directory', v), v, TRUE, FALSE)
  /\ \A v \in Pages \ Slots : ~WalkIn(mem', current_directory', v).present

LEMMA InitKeeps ==
  VInv /\ VmmInit => VInv' /\ ~ready /\ ready' = TRUE /\ atNull = 0 /\ (atNull' < 2 => BootMap)
<1> SUFFICES ASSUME VInv, VmmInit
             PROVE  VInv' /\ ~ready /\ ready' = TRUE /\ atNull = 0 /\ (atNull' < 2 => BootMap)
  OBVIOUS
<1>1. PICK r1 \in AllocPage(memory_bitmap, last_allocated) :
        \E r2 \in AllocPage(r1.bits, r1.cursor) :
          /\ Took(r2)
          /\ held' = held \cup ({r1.page, r2.page} \ {NULL})
          /\ current_directory' = r1.page
          /\ mem' = BootIn(mem, r1.page, r2.page)
          /\ atNull' = Put(Put(0, r1), r2)
  BY DEF VmmInit, BootIn
<1>2. PICK r2 \in AllocPage(r1.bits, r1.cursor) :
        /\ Took(r2)
        /\ held' = held \cup ({r1.page, r2.page} \ {NULL})
        /\ current_directory' = r1.page
        /\ mem' = BootIn(mem, r1.page, r2.page)
        /\ atNull' = Put(Put(0, r1), r2)
  BY <1>1
<1>3. /\ ~ready /\ ready' = TRUE /\ paging' = paging /\ client' = client /\ panic' = panic
      /\ ~panic /\ ~paging /\ atNull = 0 /\ client = held
  BY DEF VmmInit, VInv, NotYet
<1> DEFINE d == r1.page
           t == r2.page
           h1 == held \cup ({d} \ {NULL})
<1>4. /\ d \in Pages /\ (d = NULL \/ d \in Frames \ held)
      /\ PmmInv(r1.bits, r1.cursor, h1)
  BY Answers DEF VInv, Shape
<1>5. /\ t \in Pages /\ (t = NULL \/ t \in Frames \ h1)
      /\ PmmInv(r2.bits, r2.cursor, h1 \cup ({t} \ {NULL}))
  <2> HIDE DEF h1
  <2> QED
    BY <1>4, Answers
<1>6. held' = h1 \cup ({t} \ {NULL})
  BY <1>2
<1>7. mem' \in Memory
  BY <1>2, <1>4, <1>5, BootTyped DEF VInv, Shape
<1>8. atNull' \in 0 .. 2
  <2>1. Put(0, r1) \in 0 .. 2
    BY PutCounts
  <2> QED
    BY <1>2, <2>1, PutCounts
<1>9. Shape'
  <2>1. PmmInv(memory_bitmap', last_allocated', held') /\ reply' \in Pages
    BY <1>2, <1>5, <1>6 DEF Took
  <2>2. paging' \in BOOLEAN /\ panic' \in BOOLEAN /\ ready' \in BOOLEAN
    BY <1>3, Zenon DEF VInv, Shape
  <2>3. client' \subseteq held' /\ current_directory' \in Pages
    BY <1>2, <1>3, <1>4
  <2> QED
    BY <1>7, <1>8, <2>1, <2>2, <2>3 DEF Shape
<1>10. ASSUME atNull' < 2
       PROVE  /\ Apart(mem', current_directory', held' \ client', atNull')
              /\ Straight(mem', current_directory') /\ BootMap
  <2>1. d # NULL
    <3> SUFFICES ASSUME d = NULL PROVE FALSE
      OBVIOUS
    <3>1. t = NULL
      BY StillExhausted DEF VInv, Shape
    <3>2. Put(0, r1) = 1
      BY DEF Put
    <3>3. Put(Put(0, r1), r2) = 2
      BY <3>1, <3>2 DEF Put
    <3> QED
      BY <1>2, <1>10, <3>3
  <2>2. d \in Frames /\ t \in Frames \cup {NULL} /\ t # d
    BY <1>4, <1>5, <2>1, NullIsNoFrame
  <2>3. t = NULL => atNull' = 1
    <3>1. Put(0, r1) = 0
      BY <2>1 DEF Put
    <3> QED
      BY <1>2, <3>1 DEF Put
  <2>4. /\ Apart(mem', d, {d} \cup ({t} \ {NULL}), atNull') /\ Straight(mem', d)
        /\ \A v \in Slots : Mapped(WalkIn(mem', d, v), v, TRUE, FALSE)
        /\ \A v \in Pages \ Slots : ~WalkIn(mem', d, v).present
    <3>1. mem \in Memory /\ mem' = BootIn(mem, d, t)
      BY <1>2 DEF VInv, Shape
    <3> HIDE DEF d, t
    <3> QED
      BY ONLY <2>2, <2>3, <3>1, BootKeeps
  <2>5. held' \ client' = {d} \cup ({t} \ {NULL})
    BY <1>3, <1>4, <1>5, <1>6, <2>1
  <2> QED
    BY <1>2, <2>4, <2>5 DEF BootMap
<1>11. NotYet' /\ TablesFit' /\ FaultsOnlyBeyondIdentity'
  BY <1>3, <1>10 DEF NotYet, TablesFit, FaultsOnlyBeyondIdentity
<1> QED
  BY <1>3, <1>9, <1>10, <1>11 DEF VInv

-----------------------------------------------------------------------------
(* vmm_map_page, branch by branch.                                         *)

\* What a call starts from.
Called(v, f, flags) ==
  /\ VInv /\ ready /\ atNull < 2 /\ ~panic
  /\ v \in Pages /\ f \in Pages /\ flags \in Flags
  /\ v \in Frames \cup {NULL} => f = v
  /\ UNCHANGED <<current_directory, ready, paging, client>>

LEMMA CalledFacts ==
  ASSUME NEW v, NEW f, NEW flags, Called(v, f, flags)
  PROVE  /\ Apart(mem, current_directory, held \ client, atNull)
         /\ Straight(mem, current_directory)
         /\ mem \in Memory /\ current_directory \in Frames \cap held
         /\ held \ client \in SUBSET Frames
         /\ Reach(mem, current_directory) \in {current_directory, Fault}
         /\ Reach(mem, current_directory) = Fault => paging /\ current_directory \notin Slots
<1>1. /\ Apart(mem, current_directory, held \ client, atNull)
      /\ Straight(mem, current_directory)
  BY DEF Called, VInv, TablesFit
<1>2. mem \in Memory /\ held \subseteq Frames
  BY DEF Called, VInv, Shape, PmmInv
<1>3. current_directory \in held \ client
  BY <1>1 DEF Apart
<1>4. current_directory \in Frames \cup {NULL}
  BY <1>2, <1>3
<1> QED
  BY <1>1, <1>2, <1>3, <1>4, ReachOwn

LEMMA MapFaultsKeeps ==
  ASSUME NEW v, NEW f, NEW flags, Called(v, f, flags), MapFaults
  PROVE  VInv' /\ SameMap
<1>1. UNCHANGED <<vars, mem, atNull>> /\ panic' = TRUE
  BY DEF MapFaults
<1>2. paging /\ \E p \in held \ client : p \notin Slots
  <2>1. current_directory \in held \ client
    BY CalledFacts DEF Apart
  <2>2. paging /\ current_directory \notin Slots
    BY CalledFacts DEF MapFaults
  <2> QED
    BY <2>1, <2>2
<1>3. UNCHANGED <<current_directory, ready, paging, client>> /\ ready
  BY DEF Called
<1>4. Shape'
  BY <1>1, <1>3 DEF Called, VInv, Shape, vars
<1>5. NotYet' /\ TablesFit' /\ FaultsOnlyBeyondIdentity'
  BY <1>1, <1>2, <1>3 DEF Called, VInv, NotYet, TablesFit, FaultsOnlyBeyondIdentity, vars
<1> QED
  BY <1>1, <1>3, <1>4, <1>5 DEF VInv, SameMap

LEMMA MapInTableKeeps ==
  ASSUME NEW v, NEW f, NEW flags, Called(v, f, flags), MapInTable(v, f, flags)
  PROVE  VInv' /\ (SameMap \/ OneMapped(v, f, flags)) /\ atNull' = atNull
<1> DEFINE d == current_directory
           own == held \ client
<1>1. /\ mem[d][v \div Entries].present /\ SetEntry(mem, d, v, f, flags)
      /\ UNCHANGED <<vars, atNull>>
  <2>1. Reach(mem, d) = d
    BY CalledFacts DEF MapInTable
  <2> QED
    BY <2>1 DEF MapInTable, PAGE_DIRECTORY_INDEX
<1>2. /\ Apart(mem, d, own, atNull) /\ Straight(mem, d) /\ mem \in Memory
      /\ d \in Pages /\ own \in SUBSET Frames
  BY CalledFacts, NullIsNoFrame
<1>3. /\ UNCHANGED <<current_directory, ready, paging, client>> /\ ready /\ ~panic /\ atNull \in 0 .. 2
      /\ v \in Pages /\ f \in Pages /\ flags \in Flags /\ (v \in Frames \cup {NULL} => f = v)
  BY DEF Called, VInv, Shape
<1>4. mem' \in Memory /\ (panic' = TRUE \/ panic' = panic)
  BY <1>1, <1>2, <1>3, SetEntryTyped
<1> HIDE DEF own
<1>5. /\ Apart(mem', d, own, atNull) /\ Straight(mem', d)
      /\ \A w \in Pages \ {v} : WalkIn(mem', d, w) = WalkIn(mem, d, w)
      /\ \/ /\ panic' = TRUE /\ paging /\ \E p \in own : p \notin Slots
            /\ WalkIn(mem', d, v) = WalkIn(mem, d, v)
         \/ /\ panic' = panic
            /\ Mapped(WalkIn(mem', d, v), f, Rw(flags), mem[d][v \div Entries].user /\ User(flags))
  BY ONLY <1>1, <1>2, <1>3, SetEntryKeeps
<1>6. held' = held /\ held' \ client' = own
  BY <1>1, <1>3 DEF vars, own
<1>7. Shape'
  <2>1. panic' \in BOOLEAN
    BY <1>4, Zenon DEF Called, VInv, Shape
  <2> QED
    BY <1>1, <1>3, <1>4, <2>1 DEF Called, VInv, Shape, vars
<1>8. NotYet' /\ TablesFit' /\ FaultsOnlyBeyondIdentity'
  BY <1>1, <1>3, <1>5, <1>6 DEF NotYet, TablesFit, FaultsOnlyBeyondIdentity
<1>9. SameMap \/ OneMapped(v, f, flags)
  <2>1. CASE WalkIn(mem', d, v) = WalkIn(mem, d, v)
    BY <1>3, <1>5, <2>1 DEF SameMap
  <2>2. CASE Mapped(WalkIn(mem', d, v), f, Rw(flags), mem[d][v \div Entries].user /\ User(flags))
    <3> DEFINE granted == mem[d][v \div Entries].user /\ User(flags)
    <3>1. granted \in BOOLEAN /\ (granted => User(flags))
      OBVIOUS
    <3> HIDE DEF granted
    <3>2. Mapped(WalkIn(mem', d, v), f, Rw(flags), granted)
      BY <2>2 DEF granted
    <3> QED
      BY <1>3, <1>5, <3>1, <3>2 DEF OneMapped
  <2> QED
    BY <1>5, <2>1, <2>2
<1> QED
  BY <1>1, <1>7, <1>8, <1>9 DEF VInv
LEMMA MapInNewTableKeeps ==
  ASSUME NEW v, NEW f, NEW flags, Called(v, f, flags), MapInNewTable(v, f, flags)
  PROVE  VInv' /\ (atNull' < 2 => SameMap \/ OneMapped(v, f, flags))
<1> DEFINE d == current_directory
           i == v \div Entries
           own == held \ client
<1>1. /\ Apart(mem, d, own, atNull) /\ Straight(mem, d) /\ mem \in Memory
      /\ d \in Pages /\ d \in held /\ d \in Frames /\ own \in SUBSET Frames
  BY CalledFacts, NullIsNoFrame
<1>2. /\ UNCHANGED <<current_directory, ready, paging, client>> /\ ready /\ ~panic
      /\ atNull \in 0 .. 2 /\ atNull < 2 /\ client \subseteq held
      /\ v \in Pages /\ f \in Pages /\ flags \in Flags /\ (v \in Frames \cup {NULL} => f = v)
      /\ PmmInv(memory_bitmap, last_allocated, held)
  BY DEF Called, VInv, Shape
<1>3. PICK r \in AllocPage(memory_bitmap, last_allocated) :
        /\ Took(r) /\ held' = held \cup ({r.page} \ {NULL}) /\ atNull' = Put(atNull, r)
        /\ IF Reach(mem, r.page) = Fault
             THEN panic' = TRUE /\ UNCHANGED mem
             ELSE SetEntry([mem EXCEPT ![Reach(mem, r.page)] = Zeroed,
                                       ![d][i] = Entry(r.page, TRUE, User(flags))],
                           d, v, f, flags)
  <2>1. Reach(mem, d) = d
    BY CalledFacts DEF MapInNewTable
  <2> QED
    BY <2>1, Zenon DEF MapInNewTable, PAGE_DIRECTORY_INDEX
<1>4. i \in Slots /\ ~mem[d][i].present
  <2>1. Reach(mem, d) = d
    BY CalledFacts DEF MapInNewTable
  <2>2. ~mem[d][i].present
    BY <2>1, Zenon DEF MapInNewTable, PAGE_DIRECTORY_INDEX
  <2> QED
    BY <1>2, <2>2, Indices
<1> DEFINE t == r.page
           e == Entry(t, TRUE, User(flags))
           m == EnterIn(mem, d, i, t, e)
           own2 == own \cup ({t} \ {NULL})
<1>5. /\ t \in Pages /\ (t = NULL \/ t \in Frames \ held)
      /\ PmmInv(memory_bitmap', last_allocated', held') /\ reply' \in Pages
  <2>1. /\ t \in Pages /\ (t = NULL \/ t \in Frames \ held)
        /\ PmmInv(r.bits, r.cursor, held \cup ({t} \ {NULL}))
    BY <1>2, Answers
  <2> QED
    BY <1>3, <2>1 DEF Took
<1>6. /\ atNull' \in 0 .. 2
      /\ t # NULL => atNull' = atNull
      /\ t = NULL /\ atNull' < 2 => atNull = 0 /\ atNull' = 1
  BY <1>2, <1>3, PutCounts
<1>7. held' \ client' = own2 /\ client' \subseteq held'
  <2>1. t \notin client
    BY <1>2, <1>5, NullIsNoFrame DEF PmmInv
  <2> QED
    BY <1>2, <1>3, <2>1
<1>8. Reach(mem, t) \in {t, Fault} /\ (Reach(mem, t) = Fault => paging /\ t \notin Slots)
  <2>1. t \in Frames \cup {NULL}
    BY <1>5
  <2> HIDE DEF t
  <2> QED
    BY <1>1, <2>1, ReachOwn
<1>9. CASE Reach(mem, t) = Fault
  <2>1. panic' = TRUE /\ mem' = mem
    BY <1>3, <1>9, Zenon
  <2>2. paging /\ t # NULL /\ t \notin Slots
    BY <1>8, <1>9, KernelIndices DEF NULL
  <2>3. /\ atNull' = atNull /\ t \in own2
    BY <1>6, <2>2
  <2>4. Apart(mem', d, own2, atNull')
    BY <1>1, <2>1, <2>3 DEF Apart
  <2>5. Shape'
    BY <1>2, <1>5, <1>6, <1>7, <2>1 DEF Called, VInv, Shape
  <2>6. NotYet' /\ TablesFit' /\ FaultsOnlyBeyondIdentity'
    <3> HIDE DEF own2
    <3> QED
      BY <1>1, <1>2, <1>7, <2>1, <2>2, <2>3, <2>4 DEF NotYet, TablesFit, FaultsOnlyBeyondIdentity
  <2> QED
    BY <1>2, <2>1, <2>5, <2>6 DEF VInv, SameMap
<1>10. CASE Reach(mem, t) # Fault
  <2>1. SetEntry(m, d, v, f, flags)
    <3>1. Reach(mem, t) = t
      BY <1>8, <1>10
    <3>2. SetEntry([mem EXCEPT ![Reach(mem, t)] = Zeroed, ![d][i] = e], d, v, f, flags)
      BY <1>3, <1>10, Zenon
    <3>3. SetEntry([mem EXCEPT ![t] = Zeroed, ![d][i] = e], d, v, f, flags)
      BY ONLY <3>1, <3>2, Zenon
    <3> QED
      BY <3>3 DEF EnterIn
  <2>2. e \in EntryType /\ e.present /\ e.rw /\ e.frame = t
    <3>1. User(flags) \in BOOLEAN
      BY <1>2, FlagsTyped
    <3>2. e \in EntryType
      BY <1>5, <3>1 DEF Entry, EntryType
    <3>3. e.present /\ e.frame = t /\ e.rw
      BY DEF Entry
    <3> QED
      BY <3>2, <3>3
  <2> HIDE DEF e
  <2>3. m \in Memory
    <3>1. [mem EXCEPT ![t] = Zeroed] \in Memory
      BY <1>1, EntryTyped DEF Memory
    <3> DEFINE cleared == [mem EXCEPT ![t] = Zeroed]
    <3>2. m = [cleared EXCEPT ![d] = [cleared[d] EXCEPT ![i] = e]]
      BY DEF EnterIn
    <3> HIDE DEF cleared
    <3>3. cleared \in Memory
      BY <3>1 DEF cleared
    <3>4. [cleared[d] EXCEPT ![i] = e] \in [Slots -> EntryType]
      BY <1>1, <1>4, <2>2, <3>3 DEF Memory
    <3> QED
      BY <1>1, <3>2, <3>3, <3>4 DEF Memory
  <2>4. mem' \in Memory /\ (panic' = TRUE \/ panic' = panic)
    <3> HIDE DEF m
    <3> QED
      BY <1>1, <1>2, <2>1, <2>3, SetEntryTyped
  <2>5. Shape'
    <3>1. panic' \in BOOLEAN
      BY <2>4, Zenon DEF Called, VInv, Shape
    <3> QED
      BY <1>2, <1>5, <1>6, <1>7, <2>4, <3>1 DEF Called, VInv, Shape
  <2>6. ASSUME atNull' < 2
        PROVE  /\ Apart(mem', d, own2, atNull') /\ Straight(mem', d)
               /\ \A w \in Pages \ {v} : WalkIn(mem', d, w) = WalkIn(mem, d, w)
               /\ \/ /\ panic' = TRUE /\ paging /\ \E p \in own2 : p \notin Slots
                     /\ WalkIn(mem', d, v) = WalkIn(mem, d, v)
                  \/ /\ panic' = panic
                     /\ Mapped(WalkIn(mem', d, v), f, Rw(flags), m[d][i].user /\ User(flags))
    <3>1. /\ t \in Frames \cup {NULL} /\ t \notin own
          /\ t # NULL => atNull' = atNull
          /\ t = NULL => atNull = 0 /\ atNull' = 1
      BY <1>1, <1>5, <1>6, <2>6, NullIsNoFrame
    <3>2. own2 \in SUBSET Frames
      BY <1>1, <3>1
    <3> HIDE DEF own, t, i, own2, m
    <3>6. m = EnterIn(mem, d, i, t, e) /\ own2 = own \cup ({t} \ {NULL})
      BY DEF m, own2
    <3>7. CanEnter(mem, d, own, atNull, i, t, e, own2, atNull')
      BY <1>1, <1>2, <1>4, <1>6, <2>2, <3>1, <3>6 DEF CanEnter
    <3>8. Entered(m, mem, d, i, e, own2, atNull')
      BY ONLY <3>6, <3>7, EnterKeeps
    <3>3. /\ m \in Memory /\ Straight(m, d) /\ Apart(m, d, own2, atNull') /\ m[d][i] = e
          /\ \A w \in Pages : WalkIn(m, d, w) = WalkIn(mem, d, w)
      BY ONLY <3>8 DEF Entered
    <3>4. m[d][v \div Entries].present
      BY <2>2, <3>3 DEF i
    <3>5. /\ Apart(mem', d, own2, atNull') /\ Straight(mem', d)
          /\ \A w \in Pages \ {v} : WalkIn(mem', d, w) = WalkIn(m, d, w)
          /\ \/ /\ panic' = TRUE /\ paging /\ \E p \in own2 : p \notin Slots
                /\ WalkIn(mem', d, v) = WalkIn(m, d, v)
             \/ /\ panic' = panic
                /\ Mapped(WalkIn(mem', d, v), f, Rw(flags), m[d][v \div Entries].user /\ User(flags))
      BY ONLY <1>1, <1>2, <1>6, <2>1, <3>2, <3>3, <3>4, SetEntryKeeps
    <3> QED
      BY <1>2, <3>3, <3>5 DEF i
  <2> HIDE DEF own2, m
  <2>7. NotYet' /\ TablesFit' /\ FaultsOnlyBeyondIdentity'
    <3>1. atNull' < 2 => Apart(mem', d, own2, atNull') /\ Straight(mem', d)
      BY <2>6
    <3>2. atNull' < 2 /\ panic' => paging /\ \E p \in own2 : p \notin Slots
      BY <1>2, <2>6
    <3>3. NotYet' /\ TablesFit'
      BY <1>2, <1>7, <3>1 DEF NotYet, TablesFit
    <3>4. FaultsOnlyBeyondIdentity'
      BY <1>2, <1>7, <3>2 DEF FaultsOnlyBeyondIdentity
    <3> QED
      BY <3>3, <3>4
  <2>8. ASSUME atNull' < 2 PROVE SameMap \/ OneMapped(v, f, flags)
    <3>1. CASE WalkIn(mem', d, v) = WalkIn(mem, d, v)
      BY <1>2, <2>6, <2>8, <3>1 DEF SameMap
    <3>2. CASE Mapped(WalkIn(mem', d, v), f, Rw(flags), m[d][i].user /\ User(flags))
      <4> DEFINE granted == m[d][i].user /\ User(flags)
      <4>1. granted \in BOOLEAN /\ (granted => User(flags))
        OBVIOUS
      <4> HIDE DEF granted
      <4>2. Mapped(WalkIn(mem', d, v), f, Rw(flags), granted)
        BY <3>2 DEF granted
      <4> QED
        BY <1>2, <2>6, <2>8, <4>1, <4>2 DEF OneMapped
    <3> QED
      BY <2>6, <2>8, <3>1, <3>2
  <2> QED
    BY <2>5, <2>7, <2>8 DEF VInv
<1> QED
  BY <1>9, <1>10

-----------------------------------------------------------------------------
(* Every step.                                                             *)

\* What a step does to the map, unless two tables are at page 0 after it.
MapStep ==
  \/ ready' = ready /\ (ready => SameMap)
  \/ ~ready /\ ready' = TRUE /\ BootMap
  \/ /\ ready /\ ready' = ready
     /\ \E v \in VirtPages, f \in PhysPages, flags \in Flags : OneMapped(v, f, flags)

LEMMA MapPageKeeps == VInv /\ MapPage => VInv' /\ (atNull' < 2 => MapStep)
<1> SUFFICES ASSUME VInv, MapPage PROVE VInv' /\ (atNull' < 2 => MapStep)
  OBVIOUS
<1>1. PICK v \in VirtPages, f \in PhysPages, flags \in Flags :
        /\ v \in Frames \cup {NULL} => f = v
        /\ \/ MapFaults
           \/ MapInTable(v, f, flags)
           \/ MapInNewTable(v, f, flags)
  BY Zenon DEF MapPage
<1>2. v \in Pages /\ f \in Pages
  BY VmmAssumption
<1>3. Called(v, f, flags)
  BY <1>1, <1>2 DEF MapPage, GoesOn, Called
<1>4. ready /\ ready' = ready
  BY <1>3 DEF Called
<1>5. VInv' /\ (atNull' < 2 => SameMap \/ OneMapped(v, f, flags))
  <2>1. CASE MapFaults
    BY <1>3, <2>1, MapFaultsKeeps
  <2>2. CASE MapInTable(v, f, flags)
    BY <1>3, <2>2, MapInTableKeeps
  <2>3. CASE MapInNewTable(v, f, flags)
    BY <1>3, <2>3, MapInNewTableKeeps
  <2> QED
    BY <1>1, <2>1, <2>2, <2>3
<1> QED
  BY <1>4, <1>5 DEF MapStep

LEMMA StepKeeps ==
  VInv /\ [VmmNext]_allVars =>
    VInv' /\ (UNCHANGED allVars \/ (atNull < 2 /\ (atNull' < 2 => MapStep)))
<1> SUFFICES ASSUME VInv, [VmmNext]_allVars
             PROVE  VInv' /\ (UNCHANGED allVars \/ (atNull < 2 /\ (atNull' < 2 => MapStep)))
  OBVIOUS
<1>1. CASE VmmInit
  <2>1. VInv' /\ ~ready /\ ready' = TRUE /\ atNull = 0 /\ (atNull' < 2 => BootMap)
    BY <1>1, InitKeeps
  <2>2. atNull' < 2 => MapStep
    BY <2>1, Zenon DEF MapStep
  <2> QED
    BY <2>1, <2>2
<1>2. CASE VmmEnable
  BY <1>2, EnableKeeps DEF MapStep, VmmEnable, GoesOn
<1>3. CASE MapPage
  BY <1>3, MapPageKeeps DEF MapPage, GoesOn
<1>4. CASE ClientAlloc
  BY <1>4, ClientAllocKeeps DEF MapStep, ClientAlloc, GoesOn
<1>5. CASE ClientFree
  BY <1>5, ClientFreeKeeps DEF MapStep, ClientFree, GoesOn
<1>6. CASE ClientRefused
  BY <1>6, ClientRefusedKeeps DEF MapStep, ClientRefused, GoesOn
<1>7. CASE UNCHANGED allVars
  <2>1. /\ UNCHANGED <<memory_bitmap, last_allocated, held, reply, mem, current_directory>>
        /\ UNCHANGED <<ready, paging, client, panic, atNull>>
    BY <1>7 DEF allVars, vars
  <2>2. Shape'
    BY <2>1 DEF VInv, Shape
  <2>3. NotYet' /\ TablesFit' /\ FaultsOnlyBeyondIdentity'
    BY <2>1 DEF VInv, NotYet, TablesFit, FaultsOnlyBeyondIdentity
  <2> QED
    BY <1>7, <2>2, <2>3 DEF VInv
<1> QED
  BY <1>1, <1>2, <1>3, <1>4, <1>5, <1>6, <1>7 DEF VmmNext

-----------------------------------------------------------------------------
\* What is proved of vmm.c below rests on VInv: a step of vmm_init, vmm_enable and
\* vmm_map_page or of another caller of the allocator keeps it.
THEOREM VmmInvariance == VmmSpec => []VInv
BY StartEstablishesVInv, StepKeeps, PTL DEF VmmSpec

\* The bitmap, the cursor, the memory and the flags of vmm.c keep their shape.
THEOREM VmmTypeCorrect == VmmSpec => []VmmTypeOK
<1>1. VInv => VmmTypeOK BY VInvImplies
<1> QED BY <1>1, VmmInvariance, PTL

\* The directory and the tables stay pages of their own until a second allocation fails,
\* for every memory, every set of calls and whatever other callers allocate and free.
THEOREM TablesOwnedHolds == VmmSpec => []TablesOwned
<1>1. VInv => TablesOwned BY VInvImplies
<1> QED BY <1>1, VmmInvariance, PTL

\* The kernel faults on its own tables only when one lies beyond the identity mapping.
THEOREM FaultsOnlyBeyondIdentityHolds == VmmSpec => []FaultsOnlyBeyondIdentity
<1>1. VInv => FaultsOnlyBeyondIdentity BY DEF VInv
<1> QED BY <1>1, VmmInvariance, PTL

-----------------------------------------------------------------------------
(* Vmm implements AddressSpace.                                            *)

\* The abstract value of a page whose walk ends at the entry e.
Seen(on, e) == IF on /\ e.present
                 THEN [frame |-> e.frame, rw |-> e.rw, user |-> e.user]
                 ELSE Unmapped

SpaceMap == [v \in Pages |-> Seen(ready, WalkIn(mem, current_directory, v))]

LEMMA SeenMapped ==
  ASSUME NEW e \in EntryType, NEW f, NEW rw \in BOOLEAN, NEW user \in BOOLEAN,
         Mapped(e, f, rw, user)
  PROVE  Seen(TRUE, e) = Space!Mapping(f, rw, user)
<1>1. e.present /\ e.frame = f /\ e.rw = rw /\ e.user = user
  <2>1. e.rw \in BOOLEAN /\ e.user \in BOOLEAN
    BY DEF EntryType
  <2> QED
    BY <2>1 DEF Mapped
<1>2. Seen(TRUE, e) = [frame |-> e.frame, rw |-> e.rw, user |-> e.user]
  BY <1>1, Zenon DEF Seen
<1> QED
  BY <1>1, <1>2, Zenon DEF Space!Mapping

LEMMA BootIsBoot ==
  ASSUME VInv, VInv', ~ready, ready' = TRUE, BootMap
  PROVE  /\ SpaceMap = [v \in Pages |-> Unmapped]
         /\ SpaceMap' = [v \in Pages |-> IF v \in Slots THEN Space!Mapping(v, TRUE, FALSE)
                                                      ELSE Unmapped]
<1>1. SpaceMap = [v \in Pages |-> Unmapped]
  <2>1. \A e : Seen(ready, e) = Unmapped
    BY Zenon DEF Seen
  <2> QED
    BY <2>1 DEF SpaceMap
<1>2. ASSUME NEW v \in Pages
      PROVE  Seen(ready', WalkIn(mem', current_directory', v))
               = IF v \in Slots THEN Space!Mapping(v, TRUE, FALSE) ELSE Unmapped
  <2> DEFINE e == WalkIn(mem', current_directory', v)
  <2>1. e \in EntryType
    BY WalkTyped DEF VInv, Shape
  <2>2. CASE v \in Slots
    <3>1. Mapped(e, v, TRUE, FALSE)
      BY <2>2 DEF BootMap
    <3> HIDE DEF e
    <3>2. Seen(TRUE, e) = Space!Mapping(v, TRUE, FALSE)
      BY <2>1, <3>1, SeenMapped
    <3> QED
      BY <2>2, <3>2 DEF e
  <2>3. CASE v \notin Slots
    <3>1. ~e.present
      BY <2>3 DEF BootMap
    <3>2. Seen(TRUE, e) = Unmapped
      BY <3>1, Zenon DEF Seen
    <3> QED
      BY <2>3, <3>2
  <2> QED
    BY <2>2, <2>3
<1>3. SpaceMap' = [v \in Pages |-> Seen(ready', WalkIn(mem', current_directory', v))]
  BY DEF SpaceMap
<1> QED
  BY <1>1, <1>2, <1>3

LEMMA MapIsMap ==
  ASSUME VInv, VInv', ready, ready' = ready,
         NEW v \in VirtPages, NEW f \in PhysPages, NEW flags \in Flags, OneMapped(v, f, flags)
  PROVE  \E w \in Pages, g \in PhysPages, asked \in Asked, granted \in BOOLEAN :
           /\ granted => asked.user
           /\ SpaceMap'[w] = Space!Mapping(g, asked.rw, granted)
           /\ SpaceMap' = [SpaceMap EXCEPT ![w] = SpaceMap'[w]]
<1>1. ready = TRUE /\ ready' = TRUE /\ v \in Pages
  BY VmmAssumption DEF VInv, Shape
<1>2. /\ \A w \in Pages \ {v} : WalkIn(mem', current_directory', w) = WalkIn(mem, current_directory, w)
      /\ WalkIn(mem', current_directory', v) \in EntryType
  BY <1>1, WalkTyped DEF OneMapped, VInv, Shape
<1>3. PICK granted \in BOOLEAN :
        /\ granted => User(flags)
        /\ Mapped(WalkIn(mem', current_directory', v), f, Rw(flags), granted)
  BY DEF OneMapped
<1> DEFINE asked == [rw |-> Rw(flags), user |-> User(flags)]
<1>4. asked \in Asked /\ asked.rw = Rw(flags) /\ asked.user = User(flags)
  BY DEF Asked
<1>5. SpaceMap'[v] = Space!Mapping(f, asked.rw, granted)
  <2>1. Rw(flags) \in BOOLEAN
    BY FlagsTyped
  <2>2. Seen(TRUE, WalkIn(mem', current_directory', v)) = Space!Mapping(f, Rw(flags), granted)
    BY <1>2, <1>3, <2>1, SeenMapped
  <2>3. SpaceMap'[v] = Seen(TRUE, WalkIn(mem', current_directory', v))
    BY <1>1 DEF SpaceMap
  <2> QED
    BY <1>4, <2>2, <2>3
<1>6. SpaceMap' = [SpaceMap EXCEPT ![v] = SpaceMap'[v]]
  <2>1. \A w \in Pages \ {v} : SpaceMap'[w] = SpaceMap[w]
    BY <1>1, <1>2 DEF SpaceMap
  <2>2. SpaceMap = [w \in Pages |-> SpaceMap[w]] /\ SpaceMap' = [w \in Pages |-> SpaceMap'[w]]
    BY DEF SpaceMap
  <2> QED
    BY <2>1, <2>2
<1> HIDE DEF asked
<1> QED
  BY <1>1, <1>3, <1>4, <1>5, <1>6

LEMMA SpaceMapIs == SpaceMap = Translated /\ SpaceMap' = Translated'
BY DEF SpaceMap, Translated, Seen, Walk, WalkIn, WalkAt, PAGE_DIRECTORY_INDEX, PAGE_TABLE_INDEX

LEMMA StepMaps ==
  VInv /\ VInv' /\ (UNCHANGED allVars \/ (atNull < 2 /\ (atNull' < 2 => MapStep))) =>
    [Space!ANext]_(Space!avars)
<1> SUFFICES ASSUME VInv, VInv', UNCHANGED allVars \/ (atNull < 2 /\ (atNull' < 2 => MapStep))
             PROVE  Space!ANext \/ UNCHANGED Space!avars
  OBVIOUS
<1>1. CASE UNCHANGED allVars
  BY <1>1 DEF allVars, Space!avars, Translated, Walk
<1>2. CASE atNull < 2 /\ atNull' = 2
  BY <1>2 DEF Space!ANext
<1>3. CASE atNull < 2 /\ atNull' < 2 /\ MapStep
  <2>1. (atNull' = 2) = (atNull = 2)
    BY <1>3
  <2>2. CASE ready' = ready /\ (ready => SameMap)
    <3>1. SpaceMap' = SpaceMap
      <4>1. CASE ready
        BY <2>2, <4>1 DEF SpaceMap, SameMap
      <4>2. CASE ~ready
        <5>1. \A e : Seen(ready, e) = Unmapped /\ Seen(ready', e) = Unmapped
          BY <2>2, <4>2, Zenon DEF Seen
        <5> QED
          BY <5>1 DEF SpaceMap
      <4> QED
        BY <4>1, <4>2
    <3> QED
      BY <2>1, <3>1, SpaceMapIs DEF Space!avars
  <2>3. CASE ~ready /\ ready' = TRUE /\ BootMap
    <3>1. Space!Boot
      BY <2>3, BootIsBoot, SpaceMapIs DEF Space!Boot
    <3> QED
      BY <2>1, <3>1 DEF Space!ANext
  <2>4. CASE /\ ready /\ ready' = ready
             /\ \E v \in VirtPages, f \in PhysPages, flags \in Flags : OneMapped(v, f, flags)
    <3>2. PICK w \in Pages, g \in PhysPages, asked \in Asked, granted \in BOOLEAN :
            /\ granted => asked.user
            /\ SpaceMap'[w] = Space!Mapping(g, asked.rw, granted)
            /\ SpaceMap' = [SpaceMap EXCEPT ![w] = SpaceMap'[w]]
      BY <2>4, MapIsMap
    <3>1. Space!Map
      BY <3>2, SpaceMapIs DEF Space!Map
    <3> QED
      BY <2>1, <3>1 DEF Space!ANext
  <2> QED
    BY <1>3, <2>2, <2>3, <2>4 DEF MapStep
<1>4. atNull' \in 0 .. 2
  BY DEF VInv, Shape
<1> QED
  BY <1>1, <1>2, <1>3, <1>4

\* The MMU translates the map that vmm.h promises, until two tables are at page 0.
THEOREM ImplementsAddressSpaceHolds == VmmSpec => ImplementsAddressSpace
<1>1. VmmStart => Space!AInit
  BY DEF VmmStart, Space!AInit, Translated
<1> QED
  BY <1>1, VmmInvariance, StepKeeps, StepMaps, PTL
     DEF VmmSpec, ImplementsAddressSpace, Space!ASpec
=============================================================================

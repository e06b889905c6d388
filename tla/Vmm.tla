--------------------------------- MODULE Vmm ---------------------------------
(***************************************************************************)
(* The virtual memory manager, kernel/mm/vmm.c, over the page allocator.   *)
(* Page directories and tables live in physical pages, so a table that the *)
(* allocator placed badly, or did not place at all, shows in the walk the  *)
(* MMU makes.  A page number stands for an address, virtual or physical.   *)
(***************************************************************************)
EXTENDS Pmm, FiniteSets

CONSTANTS
  Entries,     \* entries of a directory or a table (1024)
  VirtPages,   \* the virtual pages mapped by callers in this instance
  PhysPages,   \* the frames they are mapped to in this instance
  Flags,       \* the flags they are mapped with in this instance
  ClientMax    \* bound: pages other callers of pmm.c hold at once

ASSUME VmmAssumption ==
  /\ Entries \in Nat \ {0} /\ PageCount = Entries * Entries
  /\ VirtPages \subseteq Pages /\ PhysPages \subseteq Pages
  /\ Flags \subseteq 0 .. 3
  /\ ClientMax \in Nat

VARIABLES
  mem,                \* what each physical page holds, read as a table
  current_directory,  \* the page of the directory, loaded in cr3 by vmm_enable
  ready,              \* vmm_init has returned
  paging,             \* the PG bit of cr0
  client,             \* the pages other callers of pmm.c hold
  panic,              \* the kernel is at a page fault, and gets no further
  atNull              \* history: how many of the directory and the tables were put at
                      \* page 0 because memory had run out; 2 for more

allVars == <<vars, mem, current_directory, ready, paging, client, panic, atNull>>

-----------------------------------------------------------------------------
(* Tables, and the MMU.                                                    *)

Fault == PageCount  \* the answer of the MMU for a page it cannot reach
Slots == 0 .. Entries - 1

\* The two bits of the flags that vmm_map_page reads.
Rw(flags) == flags % 2 = 1
User(flags) == flags \div 2 = 1

Entry(f, rw, user) == [present |-> TRUE, frame |-> f, rw |-> rw, user |-> user]
Absent == [present |-> FALSE, frame |-> 0, rw |-> FALSE, user |-> FALSE]
Zeroed == [i \in Slots |-> Absent]

\* Mutant of IdentityTable: the loop stops one page short.
IdentityTableShort ==
  [i \in Slots |-> IF i < Entries - 1 THEN Entry(i, TRUE, FALSE) ELSE Absent]

IdentityTable == [i \in Slots |-> Entry(i, TRUE, FALSE)]
Junk == [i \in Slots |-> Entry(0, TRUE, TRUE)]  \* what was in a page, or a caller leaves there

PAGE_DIRECTORY_INDEX(v) == v \div Entries

PAGE_TABLE_INDEX(v) == v % Entries

\* The entry the two-level walk of the MMU ends at, with the rights of both
\* levels combined.
Walk(m, v) ==
  LET pde == m[current_directory][PAGE_DIRECTORY_INDEX(v)]
      pte == m[pde.frame][PAGE_TABLE_INDEX(v)]
  IN  IF pde.present /\ pte.present
        THEN Entry(pte.frame, pde.rw /\ pte.rw, pde.user /\ pte.user)
        ELSE Absent

\* The physical page behind an access of the kernel to the page at v.
Reach(m, v) ==
  CASE ~paging                          -> v
    [] paging /\ ~Walk(m, v).present    -> Fault
    [] paging /\ Walk(m, v).present     -> Walk(m, v).frame

\* The answers of pmm_alloc_page and the bitmap and cursor it leaves.
AllocPage(bits, cursor) ==
  IF Exhausted(bits, cursor)
    THEN {[page |-> NULL, bits |-> bits, cursor |-> cursor]}
    ELSE {[page |-> p, bits |-> bits \cup {p}, cursor |-> p + 1] :
            p \in {q \in Pages : NextFit(bits, cursor, q)}}

\* A table more, made with the answer r, where n lie at page 0.
Put(n, r) == IF r.page = NULL /\ n < 2 THEN n + 1 ELSE n

\* The allocator's state after the answer r.
Took(r) == /\ memory_bitmap' = r.bits
           /\ last_allocated' = r.cursor
           /\ reply' = r.page

\* The kernel gets past its own accesses: isr_handler stops it at a page fault, or, where
\* it reads another number, has the same instruction run and fault again.  What it does
\* once two tables share page 0 is not followed.
GoesOn == ~panic /\ atNull < 2

-----------------------------------------------------------------------------
\* Nothing has cleared the memory yet.
VmmStart == /\ Init
            /\ mem = [p \in Pages |-> Junk]
            /\ current_directory = NULL
            /\ ready = FALSE
            /\ paging = FALSE
            /\ client = {}
            /\ panic = FALSE
            /\ atNull = 0

\* vmm_init: neither answer of the allocator is tested.
VmmInit ==
  /\ ~ready /\ GoesOn
  /\ \E r1 \in AllocPage(memory_bitmap, last_allocated) :
     \E r2 \in AllocPage(r1.bits, r1.cursor) :
       LET cleared == [mem EXCEPT ![r1.page] = Zeroed]
           filled  == [cleared EXCEPT ![r2.page] = IdentityTable]
       IN  /\ Took(r2)
           /\ held' = held \cup ({r1.page, r2.page} \ {NULL})
           /\ current_directory' = r1.page
           /\ mem' = [filled EXCEPT ![r1.page][0] = Entry(r2.page, TRUE, FALSE)]
           /\ atNull' = Put(Put(0, r1), r2)
  /\ ready' = TRUE
  /\ UNCHANGED <<paging, client, panic>>

\* vmm_enable.
VmmEnable == /\ ready /\ ~paging /\ GoesOn
             /\ paging' = TRUE
             /\ UNCHANGED <<vars, mem, current_directory, ready, client, panic, atNull>>

\* vmm_map_page once the directory entry is there: m is the memory by then.
SetEntry(m, dir, v, f, flags) ==
  LET table == Reach(m, m[dir][PAGE_DIRECTORY_INDEX(v)].frame)
  IN  IF table = Fault
        THEN panic' = TRUE /\ mem' = m
        ELSE /\ mem' = [m EXCEPT ![table][PAGE_TABLE_INDEX(v)] = Entry(f, Rw(flags), User(flags))]
             /\ UNCHANGED panic

\* The first access to the directory faults.
MapFaults == /\ Reach(mem, current_directory) = Fault
             /\ panic' = TRUE
             /\ UNCHANGED <<vars, mem, atNull>>

\* The branch where the table exists.
MapInTable(v, f, flags) ==
  LET dir == Reach(mem, current_directory)
  IN  /\ dir # Fault
      /\ mem[dir][PAGE_DIRECTORY_INDEX(v)].present
      /\ SetEntry(mem, dir, v, f, flags)
      /\ UNCHANGED <<vars, atNull>>

\* Mutant of MapInNewTable: the memset of the new table is missing.
MapInUncleared(v, f, flags) ==
  LET dir == Reach(mem, current_directory)
  IN  /\ dir # Fault
      /\ ~mem[dir][PAGE_DIRECTORY_INDEX(v)].present
      /\ \E r \in AllocPage(memory_bitmap, last_allocated) :
           /\ Took(r)
           /\ held' = held \cup ({r.page} \ {NULL})
           /\ atNull' = Put(atNull, r)
           /\ IF Reach(mem, r.page) = Fault
                THEN panic' = TRUE /\ UNCHANGED mem
                ELSE SetEntry([mem EXCEPT
                                 ![dir][PAGE_DIRECTORY_INDEX(v)] = Entry(r.page, TRUE, User(flags))],
                              dir, v, f, flags)

\* Mutant of MapInNewTable: the new table is not recorded in the bitmap.
MapLeavesBit(v, f, flags) ==
  LET dir == Reach(mem, current_directory)
  IN  /\ dir # Fault
      /\ ~mem[dir][PAGE_DIRECTORY_INDEX(v)].present
      /\ \E r \in AllocPage(memory_bitmap, last_allocated) :
           /\ UNCHANGED vars
           /\ atNull' = Put(atNull, r)
           /\ IF Reach(mem, r.page) = Fault
                THEN panic' = TRUE /\ UNCHANGED mem
                ELSE SetEntry([mem EXCEPT ![r.page] = Zeroed,
                                 ![dir][PAGE_DIRECTORY_INDEX(v)] = Entry(r.page, TRUE, User(flags))],
                              dir, v, f, flags)

\* The branch that makes the table: the answer of the allocator is not tested,
\* and the table is cleared and filled through its physical address.
MapInNewTable(v, f, flags) ==
  LET dir == Reach(mem, current_directory)
  IN  /\ dir # Fault
      /\ ~mem[dir][PAGE_DIRECTORY_INDEX(v)].present
      /\ \E r \in AllocPage(memory_bitmap, last_allocated) :
           LET table == Reach(mem, r.page)
           IN  /\ Took(r)
               /\ held' = held \cup ({r.page} \ {NULL})
               /\ atNull' = Put(atNull, r)
               /\ IF table = Fault
                    THEN panic' = TRUE /\ UNCHANGED mem
                    ELSE SetEntry([mem EXCEPT
                                     ![table] = Zeroed,
                                     ![dir][PAGE_DIRECTORY_INDEX(v)] = Entry(r.page, TRUE, User(flags))],
                                  dir, v, f, flags)

\* vmm_map_page, called after vmm_init.  It takes physical addresses for virtual ones,
\* so that its callers may not map other frames where the allocator's pages, or page 0,
\* would be; they may map such a page at its own address.
MapPage == /\ ready /\ GoesOn
           /\ \E v \in VirtPages, f \in PhysPages, flags \in Flags :
                /\ v \in Frames \cup {NULL} => f = v
                /\ \/ MapFaults
                   \/ MapInTable(v, f, flags)
                   \/ MapInNewTable(v, f, flags)
           /\ UNCHANGED <<current_directory, ready, paging, client>>

-----------------------------------------------------------------------------
(* The other callers of pmm.c; they write into the pages they get.         *)

ClientAlloc == /\ GoesOn
               /\ \E p \in Pages :
                    /\ Cardinality(client) < ClientMax
                    /\ Alloc /\ reply' = p
                    /\ client' = client \cup {p}
                    /\ mem' = [mem EXCEPT ![p] = Junk]
               /\ UNCHANGED <<current_directory, ready, paging, panic, atNull>>

ClientFree == /\ GoesOn
              /\ \E p \in client :
                   /\ Free /\ held' = held \ {p}
                   /\ client' = client \ {p}
              /\ UNCHANGED <<mem, current_directory, ready, paging, panic, atNull>>

ClientRefused == /\ GoesOn
                 /\ OutOfMemory
                 /\ UNCHANGED <<mem, current_directory, ready, paging, client, panic, atNull>>

VmmNext == \/ VmmInit \/ VmmEnable \/ MapPage
           \/ ClientAlloc \/ ClientFree \/ ClientRefused

VmmSpec == VmmStart /\ [][VmmNext]_allVars

-----------------------------------------------------------------------------
EntryType == [present : BOOLEAN, frame : Pages, rw : BOOLEAN, user : BOOLEAN]

\* The shape of the state.
VmmTypeOK == /\ TypeOK
             /\ mem \in [Pages -> [Slots -> EntryType]]
             /\ current_directory \in Pages
             /\ ready \in BOOLEAN /\ paging \in BOOLEAN /\ panic \in BOOLEAN
             /\ client \subseteq held /\ atNull \in 0 .. 2

Directory == mem[current_directory]
Used == { i \in Slots : Directory[i].present }

\* The directory and the tables are pages of their own: allocated, held by no other
\* caller of pmm.c, and no two directory entries share one.  Neither answer of the
\* allocator is tested (vmm.c:50, 97), so this survives one failed allocation, whose
\* table is page 0, but not a second.
TablesOwned ==
  ready /\ atNull < 2 =>
    /\ current_directory \in held \ client
    /\ \A i \in Used : /\ Directory[i].frame \in (held \ client) \cup {NULL}
                       /\ Directory[i].frame # current_directory
                       /\ \A j \in Used \ {i} : Directory[j].frame # Directory[i].frame

\* The kernel faults on its own tables only after vmm_enable, and only when one of them
\* lies beyond the 4 MB that vmm_init maps (vmm.c:53, 98, 107), unless two were put at
\* page 0.
FaultsOnlyBeyondIdentity ==
  panic /\ atNull < 2 => paging /\ \E p \in held \ client : p \notin Slots

\* What the MMU translates is the map that vmm.h promises: the identity over the kernel,
\* then each mapping where it was asked, with rights that were asked for, and nothing
\* else disturbed, whatever the allocator did in between, until two tables are at page 0.
Unmapped == Absent
Translated == [v \in Pages |->
                 LET entry == Walk(mem, v)
                 IN  IF ready /\ entry.present
                       THEN [frame |-> entry.frame, rw |-> entry.rw, user |-> entry.user]
                       ELSE Unmapped]
Asked == { [rw |-> Rw(flags), user |-> User(flags)] : flags \in Flags }
Space == INSTANCE AddressSpace WITH
  VPages <- Pages, KernelPages <- Slots, Targets <- PhysPages, Rights <- Asked,
  map <- Translated, void <- atNull = 2
ImplementsAddressSpace == Space!ASpec
==============================================================================

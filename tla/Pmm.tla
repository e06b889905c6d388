--------------------------------- MODULE Pmm ---------------------------------
(***************************************************************************)
(* The physical memory manager, kernel/mm/pmm.c: one bit per 4 KB page and *)
(* a cursor from which the next search starts.  A page number stands for   *)
(* the address page * PAGE_SIZE, so NULL is page 0.                        *)
(***************************************************************************)
EXTENDS Integers

CONSTANTS
  PageCount,   \* PAGE_COUNT: the pages the bitmap covers
  LowPages,    \* the pages of the first megabyte, (1024*1024) / PAGE_SIZE
  MemPages     \* total_pages: memory_size / PAGE_SIZE of the argument of pmm_init

\* memory_size is a uint32_t, so total_pages never reaches PAGE_COUNT.
ASSUME PmmAssumption ==
  /\ PageCount \in Nat /\ LowPages \in Nat \ {0} /\ MemPages \in Nat
  /\ LowPages <= PageCount /\ MemPages < PageCount

VARIABLES
  memory_bitmap,   \* the pages whose bit is set: used, or never usable
  last_allocated,  \* where the next search starts
  held,            \* the pages callers got and did not give back
  reply            \* what the last pmm_alloc_page returned

vars == <<memory_bitmap, last_allocated, held, reply>>

Pages == 0 .. PageCount - 1
NULL == 0

\* The pages pmm_init clears: real memory above the first megabyte.
Frames == { i \in Pages : LowPages <= i /\ i < MemPages }

-----------------------------------------------------------------------------
(* pmm_alloc_page: the two loops, as a relation between the bitmap, the    *)
(* cursor and the page returned.                                           *)

FreeFrom(bits, cursor)  == { i \in Pages : cursor <= i /\ i \notin bits }
FreeBelow(bits, cursor) == { i \in Pages : i < cursor /\ i \notin bits }
IsLowest(p, S) == p \in S /\ \A q \in S : p <= q

NextFit(bits, cursor, p) ==
  \/ IsLowest(p, FreeFrom(bits, cursor))
  \/ FreeFrom(bits, cursor) = {} /\ IsLowest(p, FreeBelow(bits, cursor))

\* Mutant of Exhausted: the search never wraps around.
ExhaustedNoWrap(bits, cursor) == FreeFrom(bits, cursor) = {}

Exhausted(bits, cursor) ==
  FreeFrom(bits, cursor) = {} /\ FreeBelow(bits, cursor) = {}

-----------------------------------------------------------------------------
\* Mutant of Init: the first megabyte is left free.
InitLowFree == /\ memory_bitmap = { i \in Pages : i >= MemPages }
               /\ last_allocated = 0
               /\ held = {}
               /\ reply = NULL

\* The state pmm_init leaves; last_allocated keeps its static initial value.
Init == /\ memory_bitmap = Pages \ Frames
        /\ last_allocated = 0
        /\ held = {}
        /\ reply = NULL

Alloc == \E p \in Pages :
           /\ NextFit(memory_bitmap, last_allocated, p)
           /\ memory_bitmap' = memory_bitmap \cup {p}
           /\ last_allocated' = p + 1
           /\ held' = held \cup {p}
           /\ reply' = p

\* Mutant of OutOfMemory: a failed search moves the cursor.
OutOfMemoryMoves == /\ Exhausted(memory_bitmap, last_allocated)
                    /\ reply' = NULL
                    /\ last_allocated' = last_allocated + 1
                    /\ UNCHANGED <<memory_bitmap, held>>

OutOfMemory == /\ Exhausted(memory_bitmap, last_allocated)
               /\ reply' = NULL
               /\ UNCHANGED <<memory_bitmap, last_allocated, held>>

\* Mutant of Free: the bit stays set.
FreeKeepsBit == \E p \in held :
                  /\ held' = held \ {p}
                  /\ UNCHANGED <<memory_bitmap, last_allocated, reply>>

\* pmm_free_page, called by the holder of the page.  Every 32-bit address is
\* below PAGE_COUNT * PAGE_SIZE, so the range test never rejects one.
Free == \E p \in held :
          /\ memory_bitmap' = memory_bitmap \ {p}
          /\ held' = held \ {p}
          /\ UNCHANGED <<last_allocated, reply>>

Next == Alloc \/ OutOfMemory \/ Free

Spec == Init /\ [][Next]_vars

-----------------------------------------------------------------------------
\* The shape of the state: a bitmap over the pages and a cursor that may stand
\* one past the last page (pmm.c:53) but no further.
TypeOK == /\ memory_bitmap \subseteq Pages
          /\ last_allocated \in 0 .. PageCount
          /\ held \subseteq Pages
          /\ reply \in Pages

\* The bitmap accounts for every page: a clear bit is exactly a usable page
\* nobody holds.  No page is lost for ever and none can be handed out twice,
\* whatever sequence of allocations, failures and frees led here.
Accounting == Pages \ memory_bitmap = Frames \ held

\* Nothing below 1 MB and nothing beyond the installed memory is ever handed
\* out (pmm.c:34-43), which is also what keeps NULL unambiguous for the callers.
OnlyRealMemory == held \subseteq Frames /\ NULL \notin held

\* The allocator implements the contract of pmm.h: a fresh page each time, and
\* NULL only when no page is left, in spite of the moving cursor.
Contract == INSTANCE PageAllocator WITH Null <- NULL
ImplementsContract == Contract!ASpec
==============================================================================

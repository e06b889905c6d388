----------------------------- MODULE AddressSpace -----------------------------
(***************************************************************************)
(* What kernel/mm/vmm.h promises: a map from virtual pages to frames that  *)
(* starts as the identity over the kernel's 4 MB and that vmm_map_page     *)
(* changes at the page it is given and nowhere else.  The functions have   *)
(* no answer for a lack of memory; once it has cost two tables nothing is  *)
(* promised any more.                                                      *)
(***************************************************************************)
CONSTANTS
  VPages,       \* the virtual pages
  KernelPages,  \* those the kernel is identity mapped at
  Targets,      \* the frames callers map
  Rights,       \* what callers ask for: records of rw and user
  Unmapped      \* the value of an unmapped page

VARIABLES
  map,
  void          \* nothing is promised any more

avars == <<map, void>>

Mapping(f, rw, user) == [frame |-> f, rw |-> rw, user |-> user]

AInit == map = [v \in VPages |-> Unmapped] /\ void = FALSE

Boot == /\ map = [v \in VPages |-> Unmapped]
        /\ map' = [v \in VPages |-> IF v \in KernelPages
                                      THEN Mapping(v, TRUE, FALSE)
                                      ELSE Unmapped]

\* The user never gets more than was asked.  It may get less: a page table the
\* kernel made for itself stays closed to the user.
Map == \E v \in VPages, f \in Targets, asked \in Rights, granted \in BOOLEAN :
         /\ granted => asked.user
         /\ map'[v] = Mapping(f, asked.rw, granted)
         /\ map' = [map EXCEPT ![v] = map'[v]]

ANext == \/ void'
         \/ (Boot \/ Map) /\ UNCHANGED void

ASpec == AInit /\ [][ANext]_avars
==============================================================================

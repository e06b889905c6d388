---------------------------- MODULE PageAllocator ----------------------------
(***************************************************************************)
(* What kernel/mm/pmm.h promises its callers, with no bitmap and no        *)
(* search order: a pool of frames, some of them held by callers.  A call   *)
(* of pmm_alloc_page hands out one frame nobody holds, and it answers      *)
(* Null only when every frame is held.                                     *)
(***************************************************************************)
CONSTANTS
  Frames,  \* the frames the pool owns
  Null     \* the answer that means "out of memory", no frame of the pool

VARIABLES
  held,    \* the frames callers hold
  reply    \* what the last pmm_alloc_page answered

avars == <<held, reply>>

AInit == held = {} /\ reply = Null

Take == \E f \in Frames \ held :
          /\ held' = held \cup {f}
          /\ reply' = f

Refuse == /\ Frames \subseteq held
          /\ reply' = Null
          /\ UNCHANGED held

Return == \E f \in held :
            /\ held' = held \ {f}
            /\ UNCHANGED reply

ANext == Take \/ Refuse \/ Return

ASpec == AInit /\ [][ANext]_avars
==============================================================================

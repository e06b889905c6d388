-------------------------------- MODULE MCVmm --------------------------------
(***************************************************************************)
(* The virtual memory manager for TLC.  Four entries to a table; the low   *)
(* megabyte is pages 0 and 1, the frames are pages 2 to 5, and the kernel  *)
(* is mapped at 0 to 3, so the fourth page the allocator gives out already *)
(* lies beyond the reach of the kernel once paging is on.                  *)
(***************************************************************************)
EXTENDS Vmm

\* A page of low memory, under the table of the kernel, and one under each of two others;
\* page 5 is a frame, which may be mapped at its own address.
MCVirtPages == {1, 5, 9}

MCPhysPages == {5}
==============================================================================

----------------------------- MODULE MCInterrupts -----------------------------
(***************************************************************************)
(* The interrupts for TLC: a device on the last line of the master, where  *)
(* spurious interrupts come too, and one on the first line of the slave;   *)
(* the non-maskable interrupt, which has no error code and may come        *)
(* anywhere, and the alignment check, where both the processor and the     *)
(* stub push one.  Where a C handler reads int_no, memory holds the number *)
(* of either device, or one just outside the range of the irqs, which      *)
(* isr_handler takes for an exception and irq_handler for no irq.          *)
(***************************************************************************)
EXTENDS Interrupts

MCDevices == {7, 8}
MCMaskable == {8}
MCFaults == {2, 17}
MCFound == {31, 39, 40}

\* What isr.c says of irq_handler, "Send EOI to PIC if this is an IRQ (0-15)": when Main
\* goes on, no controller waits for an EOI.
EveryIrqGetsItsEoi == at = "main" => \A p \in Pics : pic[p].isr = {}
==============================================================================

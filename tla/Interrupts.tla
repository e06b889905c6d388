------------------------------ MODULE Interrupts ------------------------------
(***************************************************************************)
(* Interrupts of the i386 port: the descriptor table of idt.c, the stubs   *)
(* of isr_asm.S, isr_handler, irq_handler and its table of handlers        *)
(* (isr.c), the PIC code of pic.c and timer_install (drivers/timer.c).     *)
(* The pair of 8259 controllers, the devices and the processor's own part  *)
(* of an interrupt are external.  The code that runs when no interrupt is  *)
(* served is Main: it may call any function of these files, one at a time. *)
(***************************************************************************)
EXTENDS Integers, Sequences

CONSTANTS
  Devices,      \* the interrupt lines with a device (not 2, the cascade)
  Maskable,     \* the lines Main masks and unmasks
  Faults,       \* exceptions the running code may cause
  Found,        \* the numbers memory may hold where a C handler reads int_no
  MaxRequests,  \* bound: requests of each device
  MaxSpurious   \* bound: interrupts that no device asked for

Irqs == 0 .. 15
Cascade == 2
Vectors == 0 .. 255
Exceptions == 0 .. 31
Pics == 1 .. 2
Lines == 0 .. 7
Byte == SUBSET Lines  \* a byte is the set of its bits

ASSUME InterruptsAssumption ==
  /\ Devices \subseteq Irqs \ {Cascade}
  /\ Maskable \subseteq Irqs
  /\ Faults \subseteq Exceptions
  /\ Found \subseteq Nat
  /\ MaxRequests \in Nat /\ MaxSpurious \in Nat

Places ==
  {"main", "isr_handler", "irq_handler", "handler", "eoi", "eoi master", "leave",
   "stopped", "astray"}

NoGate == -1
NoHandler == -1
NoIrq == -1

VARIABLES
  pic,         \* both controllers
  idt,         \* of each vector: the number its stub pushes, or NoGate
  handlers,    \* irq_handlers: of each irq, the irq its handler serves, or NoHandler
  interrupts,  \* the interrupt flag of the processor
  at,          \* what the processor executes
  nmi,         \* the processor holds the next non-maskable interrupt back
  stack,       \* the frames of what is being served
  irq,         \* irq in irq_handler, or NoIrq
  todo,        \* the outb calls left of the function Main is in
  requests,    \* history: of each irq, the requests of its device
  spurious,    \* history: of each PIC, the interrupts no device asked for
  calls,       \* history: of each irq, the calls of its handler (timer_ticks of 0)
  mistakes,    \* history: <<n, r>>: for interrupt n, irq_handler read the number r
  wanted       \* history: of each PIC, the mask asked for

main == <<todo, wanted>>
processor == <<interrupts, at, nmi, stack, irq>>
history == <<requests, spurious, calls, mistakes>>
vars == <<pic, idt, handlers, processor, main, history>>

-----------------------------------------------------------------------------
(* The 8259.                                                               *)

PicOf(i) == i \div 8 + 1
LineOf(i) == i % 8

\* The vector of a line: its low three bits replace those of the base.
Vector(p, line) ==
  LET bit(k, weight) == IF k \in p.base THEN weight ELSE 0
  IN  bit(7, 128) + bit(6, 64) + bit(5, 32) + bit(4, 16) + bit(3, 8) + line

EOI == {5}       \* 0x20
ICW1 == {0, 4}   \* ICW1_INIT | ICW1_ICW4
ICW4_8086 == {0}

Highest(S) == CHOOSE l \in S : \A k \in S : l <= k

\* A write to the command port: ICW1 resets the controller, an EOI ends the
\* service of the line of highest priority.
Command(p, b) ==
  IF 4 \in b THEN [p EXCEPT !.irr = {}, !.isr = {}, !.imr = {}, !.icw = 3]
  ELSE IF p.isr # {} THEN [p EXCEPT !.isr = @ \ {Highest(@)}]
  ELSE p

\* A write to the data port: one of the three words that follow ICW1, or the mask.
Data(p, b) ==
  CASE p.icw = 3 -> [p EXCEPT !.base = b, !.icw = 2]
    [] p.icw \in 1 .. 2 -> [p EXCEPT !.icw = @ - 1]
    [] OTHER -> [p EXCEPT !.imr = b]

\* The lines whose requests interrupt what is in service.
Asks(p, lines) == { l \in lines \ p.imr : \A s \in p.isr : l < s }

SlaveAsks == Asks(pic[2], pic[2].irr)
MasterAsks == Asks(pic[1], pic[1].irr \cup (IF SlaveAsks = {} THEN {} ELSE {Cascade}))

Accept(p, line) == [p EXCEPT !.irr = @ \ {line}, !.isr = @ \cup {line}]

-----------------------------------------------------------------------------
(* Into a handler: the processor and the stubs.                            *)

\* The exceptions for which the processor pushes an error code.
PushesCode == {8, 10, 11, 12, 13, 14, 17}

\* Mutant of StubsWithCode: isr2 pushes no zero, like isr8.
StubsWithCodeAnd2 == {2, 8, 10, 11, 12, 13, 14}

\* The stubs that push no zero in the place of the code, irq0 to irq15 not among them.
StubsWithCode == {8, 10, 11, 12, 13, 14}

\* The words a stub pushes: its number, most of them a zero before it.
StubWords(n) == IF n \in StubsWithCode THEN 1 ELSE 2

\* A frame: eflags and eip; the words above them, which are the code if the processor
\* pushes one and what the stub pushes; the registers.
Frame(v) ==
  [eflags |-> interrupts, eip |-> at, number |-> idt[v],
   above |-> (IF v \in PushesCode THEN 1 ELSE 0) + StubWords(idt[v])]

\* Mutant of Enter: trap gates, and stubs without cli.
EnterOpen(v) ==
  /\ idt[v] # NoGate
  /\ stack' = Append(stack, Frame(v))
  /\ UNCHANGED interrupts
  /\ at' = IF idt[v] \in Exceptions THEN "isr_handler" ELSE "irq_handler"

\* An interrupt gate clears the flag, and every stub does so once more.
Enter(v) ==
  /\ idt[v] # NoGate
  /\ stack' = Append(stack, Frame(v))
  /\ interrupts' = FALSE
  /\ at' = IF idt[v] \in Exceptions THEN "isr_handler" ELSE "irq_handler"

Top == stack[Len(stack)]

-----------------------------------------------------------------------------
(* The devices and the processor.                                          *)

Raise(i) ==
  /\ requests[i] < MaxRequests
  /\ requests' = [requests EXCEPT ![i] = @ + 1]
  /\ pic' = [pic EXCEPT ![PicOf(i)].irr = @ \cup {LineOf(i)}]
  /\ UNCHANGED <<idt, handlers, processor, main, spurious, calls, mistakes>>

Deliver ==
  /\ interrupts
  /\ MasterAsks # {}
  /\ LET line == Highest(MasterAsks)
         slave == Highest(SlaveAsks)
     IN  IF line # Cascade
           THEN /\ pic' = [pic EXCEPT ![1] = Accept(@, line)]
                /\ Enter(Vector(pic[1], line))
           ELSE /\ pic' = [pic EXCEPT ![1] = Accept(@, Cascade), ![2] = Accept(@, slave)]
                /\ Enter(Vector(pic[2], slave))
  /\ UNCHANGED <<idt, handlers, nmi, irq, main, history>>

\* A request goes away before the processor asks for it: the PIC that signalled,
\* nothing of highest priority being in service, answers with its last line, and that
\* one is not in service.
Spurious(p) ==
  /\ interrupts
  /\ spurious[1] + spurious[2] < MaxSpurious
  /\ spurious' = [spurious EXCEPT ![p] = @ + 1]
  /\ 0 \notin pic[p].isr
  /\ \/ p = 1 /\ UNCHANGED pic
     \/ /\ p = 2 /\ Cascade \in Asks(pic[1], {Cascade})
        /\ pic' = [pic EXCEPT ![1] = Accept(@, Cascade)]
  /\ Enter(Vector(pic[p], 7))
  /\ UNCHANGED <<idt, handlers, nmi, irq, main, requests, calls, mistakes>>

NMI == 2

\* An exception of Main or of a handler; a non-maskable interrupt may come anywhere,
\* but for one already being served.  What comes once the kernel has stopped or gone
\* astray is left out.
Fault(v) ==
  /\ IF v = NMI THEN ~nmi /\ at \notin {"stopped", "astray"} ELSE at \in {"main", "handler"}
  /\ nmi' = (nmi \/ v = NMI)
  /\ Enter(v)
  /\ UNCHANGED <<pic, idt, handlers, irq, main, history>>

-----------------------------------------------------------------------------
(* isr.c and the way back.                                                 *)

\* No stub pushes a pointer to the frame for the C function it calls.  Where this one
\* looks for its argument r lies the word pushed last, ds below the upper half of eax,
\* so that r->int_no is whatever number memory holds there.  With one below 32
\* isr_handler prints and stops the processor: cli, hlt and an empty loop.  With
\* another it returns, to where the exception came from.
isr_handler ==
  /\ at = "isr_handler"
  /\ interrupts' = FALSE
  /\ \E int_no \in Found : at' = IF int_no < 32 THEN "stopped" ELSE "leave"
  /\ UNCHANGED <<pic, idt, handlers, nmi, stack, irq, main, history>>

\* irq_handler up to the call of the handler, if there is one, with the same r.
irq_handler ==
  /\ at = "irq_handler"
  /\ \E int_no \in Found :
       /\ \/ /\ int_no \in 32 .. 47
             /\ irq' = int_no - 32
             /\ at' = IF handlers[irq'] # NoHandler THEN "handler" ELSE "eoi"
          \/ int_no \notin 32 .. 47 /\ at' = "leave" /\ UNCHANGED irq
       /\ mistakes' = mistakes \cup ({<<Top.number, int_no>>} \ {<<int_no, int_no>>})
  /\ UNCHANGED <<pic, idt, handlers, interrupts, nmi, stack, main, requests, spurious, calls>>

\* The handler returns; that of the timer counts.
Handle ==
  /\ at = "handler"
  /\ calls' = [calls EXCEPT ![handlers[irq]] = @ + 1]
  /\ at' = "eoi"
  /\ UNCHANGED <<pic, idt, handlers, interrupts, nmi, stack, irq, main, requests, spurious, mistakes>>

\* Mutant of SlaveEoi: the line at the boundary is taken for one of the master.
SlaveEoiAbove8 ==
  /\ at = "eoi"
  /\ pic' = [pic EXCEPT ![2] = IF irq > 8 THEN Command(@, EOI) ELSE @]
  /\ at' = "eoi master"
  /\ UNCHANGED <<idt, handlers, interrupts, nmi, stack, irq, main, history>>

SlaveEoi ==
  /\ at = "eoi"
  /\ pic' = [pic EXCEPT ![2] = IF irq >= 8 THEN Command(@, EOI) ELSE @]
  /\ at' = "eoi master"
  /\ UNCHANGED <<idt, handlers, interrupts, nmi, stack, irq, main, history>>

\* Mutant of MasterEoi: the master gets an EOI for its own lines only.
MasterEoiElse ==
  /\ at = "eoi master"
  /\ pic' = [pic EXCEPT ![1] = IF irq < 8 THEN Command(@, EOI) ELSE @]
  /\ at' = "leave" /\ irq' = NoIrq
  /\ UNCHANGED <<idt, handlers, interrupts, nmi, stack, main, history>>

MasterEoi ==
  /\ at = "eoi master"
  /\ pic' = [pic EXCEPT ![1] = Command(@, EOI)]
  /\ at' = "leave" /\ irq' = NoIrq
  /\ UNCHANGED <<idt, handlers, interrupts, nmi, stack, main, history>>

\* The words both stubs skip (add $8, %esp) between the registers and iret.
Dropped == 2

\* iret finds eip and eflags only if no more words lie above them.
Leave ==
  /\ at = "leave"
  /\ IF Top.above = Dropped
       THEN /\ at' = Top.eip /\ interrupts' = Top.eflags /\ nmi' = FALSE
            /\ stack' = SubSeq(stack, 1, Len(stack) - 1)
       ELSE at' = "astray" /\ UNCHANGED <<interrupts, nmi, stack>>
  /\ UNCHANGED <<pic, idt, handlers, irq, main, history>>

Return == isr_handler \/ irq_handler \/ Handle \/ SlaveEoi \/ MasterEoi \/ Leave

-----------------------------------------------------------------------------
(* Main.                                                                   *)

Idle == at = "main" /\ todo = <<>>

\* Mutant of idt_install: the last gate of the master is set twice, for the first
\* one of the slave too.
idt_install_twice ==
  /\ Idle /\ ~interrupts
  /\ idt' = [v \in Vectors |-> IF v = 40 THEN 39 ELSE IF v < 48 THEN v ELSE NoGate]
  /\ UNCHANGED <<pic, handlers, processor, main, history>>

idt_install ==
  /\ Idle /\ ~interrupts
  /\ idt' = [v \in Vectors |-> IF v < 48 THEN v ELSE NoGate]
  /\ UNCHANGED <<pic, handlers, processor, main, history>>

irq_register_handler(i) ==
  /\ Idle
  /\ handlers' = [handlers EXCEPT ![i] = i]
  /\ UNCHANGED <<pic, idt, processor, main, history>>

irq_unregister_handler(i) ==
  /\ Idle
  /\ handlers' = [handlers EXCEPT ![i] = NoHandler]
  /\ UNCHANGED <<pic, idt, processor, main, history>>

\* Registers timer_handler; the rate the PIT is set to is left out.
timer_install == irq_register_handler(0)

\* outb to the command or the data port of a PIC.
outb(p, port, b) == [pic |-> p, port |-> port, byte |-> b]

Masks == [p \in Pics |-> pic[p].imr]

Do(writes, masks) ==
  /\ Idle
  /\ todo' = writes
  /\ wanted' = masks
  /\ UNCHANGED <<pic, idt, handlers, processor, history>>

\* The offsets irq_handler and idt_install count on: 0x20 and 0x28.
Offset == <<{5}, {3, 5}>>

RemapWrites(a1, a2) ==
  <<outb(1, "command", ICW1), outb(2, "command", ICW1),
    outb(1, "data", Offset[1]), outb(2, "data", Offset[2]),
    outb(1, "data", {2}), outb(2, "data", {1}),
    outb(1, "data", ICW4_8086), outb(2, "data", ICW4_8086),
    outb(1, "data", a1), outb(2, "data", a2)>>

pic_remap ==
  /\ ~interrupts /\ pic[1].base # Offset[1]
  /\ Do(RemapWrites(pic[1].imr, pic[2].imr), Masks)

pic_disable == Do(<<outb(1, "data", Lines), outb(2, "data", Lines)>>, [p \in Pics |-> Lines])

\* Mutant of pic_set_mask: no irq -= 8, so that the bit falls off the byte.
pic_set_mask_unshifted(i) ==
  LET p == PicOf(i)
  IN  Do(<<outb(p, "data", pic[p].imr \cup ({i} \cap Lines))>>,
         [Masks EXCEPT ![p] = @ \cup {LineOf(i)}])

pic_set_mask(i) ==
  LET p == PicOf(i)
      value == pic[p].imr \cup {LineOf(i)}
  IN  Do(<<outb(p, "data", value)>>, [Masks EXCEPT ![p] = value])

pic_clear_mask(i) ==
  LET p == PicOf(i)
      value == pic[p].imr \ {LineOf(i)}
  IN  Do(<<outb(p, "data", value)>>, [Masks EXCEPT ![p] = value])

\* The next outb of the function Main is in; an interrupt may come before it.
Outb ==
  /\ at = "main" /\ todo # <<>>
  /\ LET w == Head(todo)
     IN  pic' = [pic EXCEPT ![w.pic] =
                   IF w.port = "command" THEN Command(@, w.byte) ELSE Data(@, w.byte)]
  /\ todo' = Tail(todo)
  /\ UNCHANGED <<idt, handlers, processor, wanted, history>>

\* The caller allows interrupts once the tables are in place.
Sti ==
  /\ Idle /\ ~interrupts
  /\ idt[32] # NoGate /\ pic[1].base = Offset[1]
  /\ interrupts' = TRUE
  /\ UNCHANGED <<pic, idt, handlers, at, nmi, stack, irq, main, history>>

Main ==
  \/ idt_install \/ timer_install \/ pic_remap \/ pic_disable \/ Outb \/ Sti
  \/ \E i \in Devices : irq_register_handler(i) \/ irq_unregister_handler(i)
  \/ \E i \in Maskable : pic_set_mask(i) \/ pic_clear_mask(i)

-----------------------------------------------------------------------------
\* The machine as the boot loader leaves it: the BIOS's bases, no line masked.
Reset(base, mask) == [irr |-> {}, isr |-> {}, imr |-> mask, base |-> base, icw |-> 0]

Init ==
  /\ pic = <<Reset({3}, {}), Reset({4, 5, 6}, {})>>
  /\ wanted = Masks
  /\ idt = [v \in Vectors |-> NoGate]
  /\ handlers = [i \in Irqs |-> NoHandler]
  /\ interrupts = FALSE
  /\ at = "main" /\ nmi = FALSE /\ irq = NoIrq
  /\ stack = <<>> /\ todo = <<>> /\ mistakes = {}
  /\ requests = [i \in Irqs |-> 0] /\ calls = [i \in Irqs |-> 0]
  /\ spurious = [p \in Pics |-> 0]

Next ==
  \/ Main \/ Deliver \/ Return
  \/ \E i \in Devices : Raise(i)
  \/ \E p \in Pics : Spurious(p)
  \/ \E v \in Faults : Fault(v)

Spec == Init /\ [][Next]_vars

\* The processor goes on, handlers return, and a PIC that asks is answered.
FairSpec == Spec /\ WF_vars(Deliver) /\ WF_vars(Return)

-----------------------------------------------------------------------------
PicType == [irr : Byte, isr : Byte, imr : Byte, base : Byte, icw : 0 .. 3]

FrameType == [eflags : BOOLEAN, eip : Places, number : 0 .. 47, above : 1 .. 3]

\* The shape of the state; an interrupt finds the flag set and clears it.
IrqTypeOK ==
  /\ pic \in [Pics -> PicType]
  /\ idt \in [Vectors -> 0 .. 47 \cup {NoGate}]
  /\ handlers \in [Irqs -> Irqs \cup {NoHandler}]
  /\ interrupts \in BOOLEAN /\ nmi \in BOOLEAN
  /\ at \in Places
  /\ at # "main" => ~interrupts
  /\ stack \in Seq(FrameType) /\ irq \in Irqs \cup {NoIrq}
  /\ calls \in [Irqs -> Nat]
  /\ wanted \in [Pics -> Byte]

\* The lines of a PIC in service for an irq: its own, and the cascade below the slave's.
Takes(i, p) == IF PicOf(i) = p THEN {LineOf(i)} ELSE IF p = 1 THEN {Cascade} ELSE {}

\* The lines of the irqs whose interrupt irq_handler took for another, or for none.
Left(p) == UNION { Takes(m[1] - 32, p) : m \in mistakes }

\* Whatever interrupts come while Main runs, each is over when Main goes on: its frame
\* is off the stack, and a line that still waits for an EOI, and holds back all of
\* lower priority, is one whose interrupt irq_handler read another number for.  With
\* the right number both EOIs are sent and end the services they are meant for,
\* whatever was left before; an EOI for a spurious interrupt leaves nothing.
InterruptLeavesNoTrace ==
  at = "main" => stack = <<>> /\ \A p \in Pics : pic[p].isr \subseteq Left(p)

\* Where the interrupt of a PIC stands, under the exceptions that came on top of it.
Service ==
  IF stack = <<>> THEN at
  ELSE IF stack[1].number < 32 THEN "main"
  ELSE IF Len(stack) = 1 THEN at ELSE stack[2].eip

Pending(i) == IF LineOf(i) \in pic[PicOf(i)].irr THEN 1 ELSE 0
Entered(i) ==
  IF \/ Service = "irq_handler" /\ stack[1].number = 32 + i
     \/ Service = "handler" /\ irq = i
  THEN 1 ELSE 0

\* A handler no other interrupt was ever taken for is called for its own device, at
\* most once for a request; only those of irq 7 and 15 may also be called for a
\* spurious interrupt, which irq_handler does not tell from a real one.
CalledOnlyOnRequest ==
  \A i \in Devices :
    \/ \E m \in mistakes : m[2] = 32 + i
    \/ calls[i] + Pending(i) + Entered(i) <=
         requests[i] + (CASE i = 7 -> spurious[1] [] i = 15 -> spurious[2] [] OTHER -> 0)

\* The way back from a handler misses the interrupted code for one exception only, the
\* alignment check, where the stub pushes a zero on top of the processor's code: for
\* all others the stubs agree with the processor on which exceptions have a code.
ReturnsWhereInterrupted ==
  [][at # "astray" /\ at' = "astray" => Top.number = 17]_vars

\* Between two calls the masks are what the calls so far asked for, through the
\* controller's reset in pic_remap and with interrupts and exceptions between its
\* twelve accesses to the ports.
MasksAsAsked == todo = <<>> => Masks = wanted

Unmasked(i) == /\ LineOf(i) \notin pic[PicOf(i)].imr
               /\ i >= 8 => Cascade \notin pic[1].imr

Misread(i) == \E m \in mistakes : m[1] = 32 + i

\* A line left in service holds the irq back.
HeldBack(i) ==
  \E p \in Pics : \E l \in pic[p].isr \cap Left(p) : \E k \in Takes(i, p) : l <= k

\* A request of an unmasked line with a handler gets its call, once the devices of
\* higher priority are quiet, unless irq_handler reads another number for it or left a
\* line of no lower priority in service, the line is masked or the handler removed
\* meanwhile, or there is an exception.
EveryRequestServed ==
  \A i \in Devices :
    (interrupts /\ Pending(i) = 1 /\ Unmasked(i) /\ handlers[i] # NoHandler) ~>
      \/ at = "handler" /\ irq = i
      \/ Misread(i) \/ HeldBack(i)
      \/ ~Unmasked(i) \/ handlers[i] = NoHandler
      \/ at \in {"isr_handler", "stopped", "astray"}
==============================================================================

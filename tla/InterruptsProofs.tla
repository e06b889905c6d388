--------------------------- MODULE InterruptsProofs ---------------------------
(***************************************************************************)
(* Proofs about the interrupts for any devices, any exceptions, any number *)
(* of requests and any numbers that memory may hold where the C handlers   *)
(* look for that of the interrupt: what the stubs, irq_handler and the PIC *)
(* code leave behind, whatever comes between two of their steps.           *)
(***************************************************************************)
EXTENDS Interrupts, SequenceTheorems, WellFoundedInduction, TLAPS

(* The inductive invariant.                                                *)

Installed == [v \in Vectors |-> IF v < 48 THEN v ELSE NoGate]

BiosBase == <<{3}, {4, 5, 6}>>

\* Interrupts are on, or were on in Main.
Live == interrupts \/ (stack # <<>> /\ stack[1].eflags)

\* What the BIOS set up, or what pic_remap did.
Steady == /\ \A p \in Pics : pic[p].icw = 0
          /\ \/ \A p \in Pics : pic[p].base = BiosBase[p]
             \/ \A p \in Pics : pic[p].base = Offset[p]

\* A mask function has one outb left, pic_disable up to two; with them done the
\* masks are as asked.
Masking ==
  /\ Steady
  /\ \/ todo = <<>> /\ \A p \in Pics : pic[p].imr = wanted[p]
     \/ \E p \in Pics : /\ todo = <<outb(p, "data", wanted[p])>>
                        /\ \A q \in Pics \ {p} : pic[q].imr = wanted[q]
     \/ todo = <<outb(1, "data", wanted[1]), outb(2, "data", wanted[2])>>

\* What is left of pic_remap after k of its ten outb calls.
Rest(k) == [i \in 1 .. 10 - k |-> RemapWrites(wanted[1], wanted[2])[i + k]]

\* What the controllers are after k of them.
RemappedMaster(k) ==
  /\ pic[1].icw = (CASE k \in {0, 7, 8, 9} -> 0 [] k \in 1 .. 2 -> 3
                     [] k \in 3 .. 4 -> 2 [] k \in 5 .. 6 -> 1)
  /\ pic[1].base = IF k >= 3 THEN Offset[1] ELSE BiosBase[1]
  /\ k = 9 => pic[1].imr = wanted[1]

RemappedSlave(k) ==
  /\ pic[2].icw = (CASE k \in {0, 1, 8, 9} -> 0 [] k \in 2 .. 3 -> 3
                     [] k \in 4 .. 5 -> 2 [] k \in 6 .. 7 -> 1)
  /\ pic[2].base = IF k >= 4 THEN Offset[2] ELSE BiosBase[2]

Remapping == \E k \in 0 .. 9 : /\ ~Live /\ todo = Rest(k)
                               /\ RemappedMaster(k) /\ RemappedSlave(k)

\* Tables and controllers: interrupts are on only once both are set up.
SetUpInv == /\ idt \in {Installed, [v \in Vectors |-> NoGate]}
            /\ Masking \/ Remapping
            /\ Live => idt = Installed /\ pic[1].base = Offset[1] /\ pic[2].base = Offset[2]

\* Where irq_handler is, and where nothing goes on.
IrqPlaces == {"irq_handler", "handler", "eoi", "eoi master"}
Ends == {"stopped", "astray"}

\* On a stack s, a place may have k frames below it.
Fits(s, place, k) ==
  /\ place = "main" => k = 0
  /\ place \in IrqPlaces => k = 1 /\ s[1].number \in 32 .. 47
  /\ place \in {"isr_handler", "leave"} => k > 0
  /\ place = "isr_handler" => s[k].number < 32

\* Interrupts of the PICs come to Main only, exceptions on top of them with the flag
\* off; above the way back lie two words, but for the alignment check.
FrameOK(s, j) ==
  /\ s[j].eip \notin Ends /\ Fits(s, s[j].eip, j - 1)
  /\ s[j].number >= 32 => j = 1
  /\ j > 1 => ~s[j].eflags
  /\ s[j].above = Dropped \/ s[j].number = 17

FrameInv ==
  /\ at \notin Ends => Fits(stack, at, Len(stack))
  /\ \A j \in 1 .. Len(stack) : FrameOK(stack, j)

\* The irq whose interrupt is being served.
Served == stack[1].number - 32

\* Nothing is in service but what was left there.
Quiet(p) == pic[p].isr \subseteq Left(p)

\* Nothing but that and the lines of the irq being served, which are the highest.
Busy(p) ==
  /\ pic[p].isr \subseteq Left(p) \cup Takes(Served, p)
  /\ \A c \in pic[p].isr \ Left(p) : \A l \in pic[p].isr : c <= l

ServiceInv ==
  /\ Cascade \notin pic[1].irr
  /\ Service \in {"main", "leave"} => Quiet(1) /\ Quiet(2)
  /\ Service \in {"irq_handler", "handler", "eoi"} => Busy(1) /\ Busy(2)
  /\ Service \in {"handler", "eoi", "eoi master"} => irq \in Irqs
  /\ Service \in {"handler", "eoi"} =>
       irq = Served \/ <<stack[1].number, irq + 32>> \in mistakes
  /\ Service = "eoi master" => Busy(1) /\ Quiet(2)

\* The types IrqTypeOK leaves out.
HistoryOK == /\ requests \in [Irqs -> Nat] /\ spurious \in [Pics -> Nat]
             /\ mistakes \subseteq Int \X Int

IInv == IrqTypeOK /\ HistoryOK /\ SetUpInv /\ FrameInv /\ ServiceInv

-----------------------------------------------------------------------------
(* The controllers.                                                        *)

LEMMA HighestOfMany ==
  ASSUME NEW S, S \subseteq Lines, S # {} PROVE Highest(S) \in S /\ \A k \in S : Highest(S) <= k
<1> DEFINE R == { ss \in Nat \X Nat : ss[1] < ss[2] }
<1>1. IsWellFoundedOn(R, Nat)
  BY NatLessThanWellFounded, Zenon DEF OpToRel
<1>2. S \subseteq Nat
  BY DEF Lines
<1> HIDE DEF R
<1>3. PICK l \in S : \A k \in S : <<k, l>> \notin R
  BY <1>1, <1>2, WFMin
<1>4. \A k \in S : ~(k < l)
  BY <1>2, <1>3 DEF R
<1>5. \A k \in S : l <= k
  BY <1>2, <1>4
<1> QED
  BY <1>5 DEF Highest

\* An EOI ends one service, and of lines that are the highest there is one at most.
LEMMA EoiFields ==
  ASSUME NEW p \in PicType
  PROVE  LET q == Command(p, EOI)
         IN  /\ q \in PicType
             /\ q.irr = p.irr /\ q.imr = p.imr /\ q.base = p.base /\ q.icw = p.icw
             /\ q.isr \subseteq p.isr
             /\ \A L : (\A c \in p.isr \ L : \A l \in p.isr : c <= l) => q.isr \subseteq L
<1>1. CASE p.isr = {}
  BY <1>1 DEF Command, EOI, PicType
<1>2. CASE p.isr # {}
  <2> DEFINE h == Highest(p.isr)
  <2>1. Command(p, EOI) = [p EXCEPT !.isr = @ \ {h}]
    BY <1>2 DEF Command, EOI
  <2>2. p.isr \subseteq Lines
    BY DEF PicType, Byte
  <2>3. h \in p.isr /\ \A k \in p.isr : h <= k
    BY <1>2, <2>2, HighestOfMany
  <2> HIDE DEF h
  <2>4. ASSUME NEW L, \A c \in p.isr \ L : \A l \in p.isr : c <= l
        PROVE  p.isr \ {h} \subseteq L
    <3>1. \A c \in p.isr \ L : c <= h /\ h <= c
      BY <2>3, <2>4
    <3>2. \A c \in p.isr \ L : c = h
      BY <2>2, <2>3, <3>1 DEF Lines
    <3> QED
      BY <3>2
  <2>5. /\ Command(p, EOI) \in PicType /\ Command(p, EOI).isr = p.isr \ {h}
        /\ Command(p, EOI).irr = p.irr /\ Command(p, EOI).imr = p.imr
        /\ Command(p, EOI).base = p.base /\ Command(p, EOI).icw = p.icw
    BY <2>1 DEF PicType, Byte
  <2> QED
    BY <2>4, <2>5
<1> QED
  BY <1>1, <1>2

LEMMA ResetFields ==
  ASSUME NEW p \in PicType
  PROVE  LET q == Command(p, ICW1)
         IN  q \in PicType /\ q.irr = {} /\ q.isr = {} /\ q.base = p.base /\ q.icw = 3
<1>1. Command(p, ICW1) = [p EXCEPT !.irr = {}, !.isr = {}, !.imr = {}, !.icw = 3]
  BY DEF Command, ICW1
<1>2. {} \in Byte /\ 3 \in 0 .. 3
  BY DEF Byte
<1> QED
  BY <1>1, <1>2 DEF PicType

LEMMA DataFields ==
  ASSUME NEW p \in PicType, NEW b \in Byte
  PROVE  LET q == Data(p, b)
         IN  /\ q \in PicType
             /\ q.irr = p.irr /\ q.isr = p.isr
             /\ q.base = IF p.icw = 3 THEN b ELSE p.base
             /\ q.imr = IF p.icw = 0 THEN b ELSE p.imr
             /\ q.icw = IF p.icw = 0 THEN 0 ELSE p.icw - 1
<1>1. p.icw \in 0 .. 3
  BY DEF PicType
<1>2. CASE p.icw = 3
  <2> DEFINE q == [p EXCEPT !.base = b, !.icw = 2]
  <2>1. Data(p, b) = q
    BY <1>2 DEF Data
  <2>2. /\ q \in PicType /\ q.irr = p.irr /\ q.isr = p.isr
        /\ q.base = b /\ q.imr = p.imr /\ q.icw = 2
    BY 2 \in 0 .. 3 DEF PicType
  <2> HIDE DEF q
  <2> QED
    BY <1>2, <2>1, <2>2
<1>3. CASE p.icw \in 1 .. 2
  <2> DEFINE n == p.icw - 1
             q == [p EXCEPT !.icw = n]
  <2>1. n \in 0 .. 3 /\ p.icw # 0 /\ p.icw # 3
    BY <1>3
  <2>2. Data(p, b) = q
    BY <1>3 DEF Data
  <2> HIDE DEF n
  <2>3. /\ q \in PicType /\ q.irr = p.irr /\ q.isr = p.isr
        /\ q.base = p.base /\ q.imr = p.imr /\ q.icw = n
    BY <2>1 DEF PicType
  <2> HIDE DEF q
  <2> QED
    BY <2>1, <2>2, <2>3 DEF n
<1>4. CASE p.icw = 0
  <2>1. Data(p, b) = [p EXCEPT !.imr = b]
    BY <1>4 DEF Data
  <2> QED
    BY <1>4, <2>1 DEF PicType
<1> QED
  BY <1>1, <1>2, <1>3, <1>4

LEMMA AcceptFields ==
  ASSUME NEW p \in PicType, NEW l \in Lines
  PROVE  LET q == Accept(p, l)
         IN  /\ q \in PicType
             /\ q.irr = p.irr \ {l} /\ q.isr = p.isr \cup {l}
             /\ q.imr = p.imr /\ q.base = p.base /\ q.icw = p.icw
BY DEF Accept, PicType, Byte

\* Set up as they are, the controllers give the lines the vectors of the IRQ stubs.
LEMMA Vectors32 ==
  ASSUME NEW p, NEW l \in Lines
  PROVE  /\ p.base = Offset[1] => Vector(p, l) = 32 + l
         /\ p.base = Offset[2] => Vector(p, l) = 40 + l
BY DEF Vector, Offset, Lines

-----------------------------------------------------------------------------
(* Frames and services.                                                    *)

LEMMA PicsLines ==
  /\ Pics = {1, 2} /\ 0 \in Lines /\ Cascade \in Lines /\ 7 \in Lines
  /\ \A i \in Irqs : PicOf(i) \in Pics /\ LineOf(i) \in Lines
  /\ \A i \in Devices : i \in Irqs /\ ~(PicOf(i) = 1 /\ LineOf(i) = Cascade)
BY InterruptsAssumption DEF Pics, Lines, Irqs, Cascade, PicOf, LineOf

\* The lines an irq of the master and one of the slave take.
LEMMA TakesLines ==
  ASSUME NEW l \in Lines
  PROVE  /\ PicOf(l) = 1 /\ LineOf(l) = l /\ Takes(l, 1) = {l} /\ Takes(l, 2) = {}
         /\ PicOf(8 + l) = 2 /\ LineOf(8 + l) = l
         /\ Takes(8 + l, 1) = {Cascade} /\ Takes(8 + l, 2) = {l}
<1>1. PicOf(l) = 1 /\ LineOf(l) = l /\ PicOf(8 + l) = 2 /\ LineOf(8 + l) = l
  BY DEF Lines, PicOf, LineOf
<1> QED
  BY <1>1 DEF Takes

\* What lies below a place or a frame does not change with what comes above.
LEMMA FitsKept ==
  ASSUME NEW s, NEW t, NEW place, NEW k \in Nat, Fits(s, place, k),
         k > 0 => t[k] = s[k] /\ t[1] = s[1]
  PROVE  Fits(t, place, k)
<1>1. CASE k = 0
  <2>1. place \notin IrqPlaces \cup {"isr_handler", "leave"}
    BY <1>1 DEF Fits
  <2> QED
    BY <1>1, <2>1 DEF Fits
<1>2. CASE k > 0
  BY <1>2 DEF Fits
<1> QED
  BY <1>1, <1>2

LEMMA FrameKept ==
  ASSUME NEW s, NEW t, NEW j \in Nat \ {0}, FrameOK(s, j), \A i \in 1 .. j : t[i] = s[i]
  PROVE  FrameOK(t, j)
<1>1. t[j] = s[j] /\ j - 1 \in Nat
  OBVIOUS
<1>2. j - 1 > 0 => t[j - 1] = s[j - 1] /\ t[1] = s[1]
  <2>1. j - 1 > 0 => j - 1 \in 1 .. j /\ 1 \in 1 .. j
    OBVIOUS
  <2> QED
    BY <2>1
<1>3. Fits(t, s[j].eip, j - 1)
  BY <1>1, <1>2, FitsKept DEF FrameOK
<1> QED
  BY <1>1, <1>3 DEF FrameOK

\* Where a PIC's interrupt stands, and the frames, in the state of a service.
LEMMA InService ==
  ASSUME IInv
  PROVE  /\ stack \in Seq(FrameType) /\ Len(stack) \in Nat
         /\ \A j \in 1 .. Len(stack) : stack[j] \in FrameType /\ FrameOK(stack, j)
         /\ stack = <<>> <=> Len(stack) = 0
         /\ at = "main" => stack = <<>> /\ Service = "main" /\ (Live <=> interrupts)
         /\ at \in IrqPlaces => /\ Len(stack) = 1 /\ stack[1].number \in 32 .. 47
                                /\ Service = at /\ Top = stack[1]
         /\ at \notin Ends \cup {"main"} => Len(stack) > 0
         /\ at # "main" => ~interrupts
<1>1. stack \in Seq(FrameType) /\ FrameInv
  BY DEF IInv, IrqTypeOK
<1> HIDE DEF FrameType
<1>2. /\ Len(stack) \in Nat /\ \A j \in 1 .. Len(stack) : stack[j] \in FrameType /\ FrameOK(stack, j)
      /\ stack = <<>> <=> Len(stack) = 0
  BY <1>1, EmptySeq DEF FrameInv
<1>3. at = "main" => stack = <<>> /\ Service = "main" /\ (Live <=> interrupts)
  BY <1>1, <1>2 DEF FrameInv, Fits, Ends, Service, Live
<1>4. at \in IrqPlaces => /\ Len(stack) = 1 /\ stack[1].number \in 32 .. 47
                          /\ Service = at /\ Top = stack[1]
  <2> SUFFICES ASSUME at \in IrqPlaces
               PROVE  /\ Len(stack) = 1 /\ stack[1].number \in 32 .. 47
                      /\ Service = at /\ Top = stack[1]
    OBVIOUS
  <2>1. Len(stack) = 1 /\ stack[1].number \in 32 .. 47
    BY <1>1 DEF FrameInv, Fits, IrqPlaces, Ends
  <2>2. ~(stack[1].number < 32) /\ stack # <<>>
    BY <1>2, <2>1
  <2> QED
    BY <2>1, <2>2 DEF Service, Top
<1>5. at \notin Ends \cup {"main"} => Len(stack) > 0
  <2>1. at \notin Ends \cup {"main"} => at \in IrqPlaces \cup {"isr_handler", "leave"}
    BY DEF IInv, IrqTypeOK, Places, Ends, IrqPlaces
  <2>2. at \notin Ends => Fits(stack, at, Len(stack))
    BY <1>1 DEF FrameInv
  <2>3. at \in {"isr_handler", "leave"} => Len(stack) > 0
    BY <2>2 DEF Fits, Ends
  <2> QED
    BY <1>4, <2>1, <2>3
<1> QED
  BY <1>1, <1>2, <1>3, <1>4, <1>5 DEF IInv, IrqTypeOK

\* What is in service, when neither that nor the state of the service changes.
LEMMA ServiceKept ==
  ASSUME ServiceInv, UNCHANGED irq, mistakes' = mistakes, Service' = Service,
         Service \in IrqPlaces => stack'[1] = stack[1],
         \A p \in Pics : pic'[p].isr = pic[p].isr, Cascade \notin pic'[1].irr
  PROVE  ServiceInv'
<1> USE PicsLines
<1>1. \A p \in Pics : Left(p)' = Left(p) /\ (Quiet(p)' <=> Quiet(p))
  BY DEF Left, Takes, Quiet
<1>2. Service \in IrqPlaces =>
        Served' = Served /\ \A p \in Pics : Takes(Served, p)' = Takes(Served, p)
  BY DEF Served, Takes
<1>3. Service \in IrqPlaces => \A p \in Pics : Busy(p)' <=> Busy(p)
  BY <1>1, <1>2 DEF Busy
<1> QED
  BY <1>1, <1>2, <1>3 DEF ServiceInv, IrqPlaces

\* What is left in service is left for good.
LEMMA LeftGrows ==
  ASSUME mistakes \subseteq mistakes', NEW p PROVE Left(p) \subseteq Left(p)'
BY DEF Left, Takes

\* Nothing more in service leaves a PIC quiet.
LEMMA QuietKept ==
  ASSUME mistakes \subseteq mistakes', NEW p \in Pics, Quiet(p), pic'[p].isr \subseteq pic[p].isr
  PROVE  Quiet(p)'
BY LeftGrows DEF Quiet

-----------------------------------------------------------------------------
(* Each step keeps the invariant.                                          *)

LEMMA IInvInit == Init => IInv
<1> SUFFICES ASSUME Init PROVE IInv
  OBVIOUS
<1>1. pic = <<Reset({3}, {}), Reset({4, 5, 6}, {})>>
  BY DEF Init
<1>2. Reset({3}, {}) \in PicType /\ Reset({4, 5, 6}, {}) \in PicType
  BY DEF Reset, PicType, Byte, Lines
<1>3. IrqTypeOK
  <2>1. pic \in [Pics -> PicType] /\ wanted \in [Pics -> Byte]
    BY <1>1, <1>2 DEF Init, Masks, Pics, PicType
  <2>2. idt \in [Vectors -> 0 .. 47 \cup {NoGate}]
    BY DEF Init
  <2>3. stack \in Seq(FrameType)
    <3> HIDE DEF FrameType
    <3> QED
      BY DEF Init
  <2> QED
    BY <2>1, <2>2, <2>3 DEF Init, IrqTypeOK, Places
<1>4. HistoryOK
  BY DEF Init, HistoryOK
<1>5. SetUpInv
  <2>1. Steady
    BY <1>1 DEF Steady, BiosBase, Reset, Pics
  <2>2. Masking
    BY <1>1, <2>1 DEF Masking, Init, Masks
  <2> QED
    BY <2>2 DEF SetUpInv, Init, Live
<1>6. FrameInv
  BY DEF FrameInv, Init, Fits, IrqPlaces
<1>7. ServiceInv
  <2>1. Service = "main"
    BY DEF Service, Init
  <2> QED
    BY <1>1, <2>1 DEF ServiceInv, Quiet, Reset
<1> QED
  BY <1>3, <1>4, <1>5, <1>6, <1>7 DEF IInv

\* The masks and the controllers' set-up, when neither changes.
LEMMA SetUpSame ==
  ASSUME SetUpInv, UNCHANGED <<idt, todo, wanted>>, Live' => Live,
         \A p \in Pics : /\ pic'[p].imr = pic[p].imr /\ pic'[p].base = pic[p].base
                         /\ pic'[p].icw = pic[p].icw
  PROVE  SetUpInv'
<1> USE PicsLines
<1>1. Masking => Masking'
  BY DEF Masking, Steady
<1>2. Remapping => Remapping'
  <2> SUFFICES ASSUME NEW k \in 0 .. 9, ~Live, todo = Rest(k),
                      RemappedMaster(k), RemappedSlave(k)
               PROVE  Remapping'
    BY DEF Remapping
  <2>1. ~Live' /\ todo' = Rest(k)'
    BY DEF Rest
  <2>2. RemappedMaster(k)'
    BY DEF RemappedMaster
  <2>3. RemappedSlave(k)'
    BY DEF RemappedSlave
  <2> QED
    BY <2>1, <2>2, <2>3 DEF Remapping
<1> QED
  BY <1>1, <1>2 DEF SetUpInv

\* The frames, when nothing moves but the place within the service on top.
LEMMA FramesSame ==
  ASSUME FrameInv, UNCHANGED stack, at' \notin Ends => Fits(stack, at', Len(stack))
  PROVE  FrameInv'
BY DEF FrameInv, Fits, FrameOK

\* A request.
LEMMA RaiseStep == ASSUME IInv, NEW i \in Devices, Raise(i) PROVE IInv'
<1> USE PicsLines DEF IInv
<1> DEFINE P == PicOf(i)
           l == LineOf(i)
<1>1. P \in Pics /\ l \in Lines /\ i \in Irqs /\ ~(P = 1 /\ l = Cascade)
  OBVIOUS
<1>2. /\ pic' = [pic EXCEPT ![P].irr = @ \cup {l}] /\ pic \in [Pics -> PicType]
      /\ UNCHANGED <<idt, handlers, interrupts, at, nmi, stack, irq, todo, wanted,
                     spurious, calls, mistakes>>
  BY DEF Raise, IrqTypeOK, processor, main
<1> HIDE DEF P, l
<1>3. pic'[P] \in PicType /\ pic' \in [Pics -> PicType]
  BY <1>1, <1>2 DEF PicType, Byte
<1>4. \A q \in Pics : /\ pic'[q].isr = pic[q].isr /\ pic'[q].imr = pic[q].imr
                      /\ pic'[q].base = pic[q].base /\ pic'[q].icw = pic[q].icw
  BY <1>1, <1>2 DEF PicType
<1>5. Cascade \notin pic'[1].irr
  BY <1>1, <1>2 DEF ServiceInv, PicType
<1>6. IrqTypeOK'
  BY <1>2, <1>3 DEF IrqTypeOK
<1>7. HistoryOK'
  BY <1>1, <1>2 DEF HistoryOK, Raise
<1>8. SetUpInv'
  BY <1>2, <1>4, SetUpSame DEF Live
<1>9. FrameInv'
  BY <1>2, FramesSame DEF FrameInv
<1>10. ServiceInv'
  BY <1>2, <1>4, <1>5, ServiceKept DEF Service
<1> QED
  BY <1>6, <1>7, <1>8, <1>9, <1>10

\* A new frame on the stack.
LEMMA Pushed ==
  ASSUME IInv, NEW v \in Vectors, Enter(v), at \notin Ends
  PROVE  LET k == Len(stack)
         IN  /\ idt[v] \in 0 .. 47 /\ stack' \in Seq(FrameType) /\ Len(stack') = k + 1
             /\ \A j \in 1 .. k : stack'[j] = stack[j] /\ FrameOK(stack', j)
             /\ stack'[k + 1] = Frame(v)
             /\ Live' <=> Live
<1> DEFINE k == Len(stack)
<1>1. /\ stack' = Append(stack, Frame(v)) /\ interrupts' = FALSE /\ idt[v] # NoGate
      /\ idt \in [Vectors -> 0 .. 47 \cup {NoGate}] /\ interrupts \in BOOLEAN /\ at \in Places
  BY DEF Enter, IInv, IrqTypeOK
<1>2. idt[v] \in 0 .. 47
  BY <1>1
<1>3. Frame(v) \in FrameType
  BY <1>1, <1>2 DEF Frame, FrameType, StubWords
<1>4. /\ stack \in Seq(FrameType) /\ k \in Nat /\ (stack = <<>> <=> k = 0)
      /\ \A j \in 1 .. k : FrameOK(stack, j) /\ stack[j] \in FrameType
      /\ at # "main" => ~interrupts
      /\ at = "main" => stack = <<>>
  BY InService
<1>5. Frame(v).eflags = interrupts
  BY DEF Frame
<1> HIDE DEF FrameType
<1>6. /\ stack' \in Seq(FrameType) /\ Len(stack') = k + 1 /\ stack'[k + 1] = Frame(v)
      /\ \A j \in 1 .. k : stack'[j] = stack[j]
  BY <1>1, <1>3, <1>4, AppendProperties
<1> HIDE DEF k
<1>7. \A j \in 1 .. k : FrameOK(stack', j)
  <2> SUFFICES ASSUME NEW j \in 1 .. k PROVE FrameOK(stack', j)
    OBVIOUS
  <2>1. j \in Nat \ {0} /\ \A i \in 1 .. j : i \in 1 .. k
    BY <1>4
  <2> QED
    BY <1>4, <1>6, <2>1, FrameKept
<1>8. Live' <=> Live
  <2>1. stack' # <<>>
    BY <1>4, <1>6, EmptySeq
  <2>2. CASE k = 0
    BY <1>1, <1>4, <1>5, <1>6, <2>1, <2>2 DEF Live
  <2>3. CASE k # 0
    <3>1. 1 \in 1 .. k /\ ~interrupts /\ stack # <<>>
      BY <1>4, <2>3
    <3> QED
      BY <1>1, <1>6, <2>1, <3>1 DEF Live
  <2> QED
    BY <2>2, <2>3
<1> QED
  BY <1>2, <1>6, <1>7, <1>8 DEF k

\* An interrupt of a PIC, or what passes for one, interrupts Main only.
LEMMA EnterIrq ==
  ASSUME IInv, interrupts, NEW v \in 32 .. 47, Enter(v)
  PROVE  /\ at = "main" /\ at' = "irq_handler" /\ interrupts' = FALSE
         /\ stack' \in Seq(FrameType) /\ Len(stack') = 1 /\ stack'[1].number = v
         /\ FrameInv' /\ Service' = "irq_handler" /\ (Live' <=> Live)
<1> USE DEF IInv
<1>1. at = "main" /\ stack = <<>> /\ idt[v] = v /\ v \in Vectors
  <2>1. at = "main"
    BY DEF IrqTypeOK
  <2>2. v \in Vectors /\ v < 48
    BY DEF Vectors
  <2> QED
    BY <2>1, <2>2, InService DEF SetUpInv, Live, Installed
<1>2. /\ stack' \in Seq(FrameType) /\ Len(stack') = 1 /\ stack'[1] = Frame(v)
      /\ Live' <=> Live
  <2>1. Len(stack) = 0 /\ at \notin Ends
    BY <1>1 DEF Ends
  <2> QED
    BY <1>1, <2>1, Pushed
<1>3. at' = "irq_handler" /\ interrupts' = FALSE
  BY <1>1 DEF Enter, Exceptions
<1>4. /\ Frame(v).number = v /\ Frame(v).eip = "main" /\ Frame(v).above = 2
  BY <1>1 DEF Frame, PushesCode, StubWords, StubsWithCode
<1>5. Fits(stack', at', Len(stack'))
  BY <1>2, <1>3, <1>4 DEF Fits, IrqPlaces
<1>6. FrameOK(stack', 1)
  BY <1>2, <1>4 DEF FrameOK, Fits, Ends, IrqPlaces, Dropped
<1>7. FrameInv'
  BY <1>2, <1>5, <1>6 DEF FrameInv
<1>8. Service' = "irq_handler"
  <2> HIDE DEF IInv
  <2>1. stack'[1].number = v
    BY <1>2, <1>4
  <2>2. ~(stack'[1].number < 32)
    BY <2>1
  <2>3. stack' # <<>>
    BY <1>2
  <2> QED
    BY <1>2, <1>3, <2>2, <2>3 DEF Service
<1> QED
  BY <1>1, <1>2, <1>3, <1>4, <1>7, <1>8

\* The request of an irq becomes its interrupt.
Accepted(i) ==
  /\ Service' = "irq_handler" /\ stack'[1].number = 32 + i
  /\ LineOf(i) \in pic[PicOf(i)].irr /\ LineOf(i) \notin pic'[PicOf(i)].irr
  /\ \A p \in Pics : pic'[p].irr \subseteq pic[p].irr

\* A line that asked is the highest in service.
LEMMA BusyAfter ==
  ASSUME NEW p \in Pics, NEW l \in Lines, Quiet(p), pic[p].isr \subseteq Lines,
         \A s \in pic[p].isr : l < s, pic'[p].isr = pic[p].isr \cup {l},
         mistakes' = mistakes, l \in Takes(Served, p)'
  PROVE  Busy(p)'
<1>1. Left(p)' = Left(p)
  BY DEF Left, Takes
<1>2. pic'[p].isr \subseteq Left(p)' \cup Takes(Served, p)'
  BY <1>1 DEF Quiet
<1>3. \A c \in pic'[p].isr \ Left(p)' : c = l
  BY <1>1 DEF Quiet
<1>4. \A s \in pic'[p].isr : l <= s
  BY DEF Lines
<1> QED
  BY <1>2, <1>3, <1>4 DEF Busy

\* Where nothing new is in service, nothing new is the highest.
LEMMA QuietIsBusy ==
  ASSUME NEW p \in Pics, Quiet(p), pic'[p].isr = pic[p].isr, mistakes' = mistakes
  PROVE  Busy(p)'
<1>1. Left(p)' = Left(p)
  BY DEF Left, Takes
<1> QED
  BY <1>1 DEF Quiet, Busy

LEMMA DeliverStep == ASSUME IInv, Deliver PROVE IInv' /\ \E i \in Irqs : Accepted(i)
<1> USE PicsLines DEF IInv
<1>1. /\ at = "main" /\ interrupts /\ pic \in [Pics -> PicType]
      /\ Quiet(1) /\ Quiet(2) /\ Cascade \notin pic[1].irr
      /\ pic[1].base = Offset[1] /\ pic[2].base = Offset[2]
      /\ pic[1].isr \subseteq Lines /\ pic[2].isr \subseteq Lines
  <2>1. at = "main" /\ interrupts /\ pic \in [Pics -> PicType]
    BY DEF Deliver, IrqTypeOK
  <2>2. pic[1] \in PicType /\ pic[2] \in PicType
    BY <2>1
  <2> QED
    BY <2>1, <2>2, InService DEF ServiceInv, SetUpInv, Live, PicType, Byte
<1>2. /\ IInv' <=> IrqTypeOK' /\ HistoryOK' /\ SetUpInv' /\ FrameInv' /\ ServiceInv'
      /\ UNCHANGED <<idt, handlers, nmi, irq, todo, wanted, requests, spurious, calls,
                     mistakes>>
  BY DEF Deliver, main, history
<1> DEFINE line == Highest(MasterAsks)
           slave == Highest(SlaveAsks)
<1>3. MasterAsks \subseteq Lines /\ SlaveAsks \subseteq Lines
  BY <1>1 DEF MasterAsks, SlaveAsks, Asks, PicType, Byte
<1>4. line \in Lines /\ line \in MasterAsks
  BY <1>3, HighestOfMany DEF Deliver
<1>5. \A s \in pic[1].isr : line < s
  BY <1>4 DEF MasterAsks, Asks
<1>6. CASE line # Cascade
  <2>1. pic' = [pic EXCEPT ![1] = Accept(@, line)] /\ Enter(Vector(pic[1], line))
    BY <1>6 DEF Deliver
  <2>2. Vector(pic[1], line) = 32 + line
    BY <1>1, <1>4, Vectors32
  <2>3. line \in pic[1].irr
    BY <1>4, <1>6 DEF MasterAsks, Asks
  <2> HIDE DEF line
  <2>4. 32 + line \in 32 .. 47
    BY <1>4 DEF Lines
  <2>5. /\ at' = "irq_handler" /\ interrupts' = FALSE
        /\ stack' \in Seq(FrameType) /\ stack'[1].number = 32 + line
        /\ FrameInv' /\ Service' = "irq_handler" /\ (Live' <=> Live)
    <3>1. Enter(32 + line)
      BY <2>1, <2>2
    <3> QED
      BY <1>1, <2>4, <3>1, EnterIrq, Zenon
  <2>6. /\ pic' \in [Pics -> PicType] /\ pic'[1].isr = pic[1].isr \cup {line}
        /\ pic'[1].irr = pic[1].irr \ {line} /\ pic'[2] = pic[2]
        /\ \A p \in Pics : /\ pic'[p].imr = pic[p].imr /\ pic'[p].base = pic[p].base
                           /\ pic'[p].icw = pic[p].icw
    <3>1. pic[1] \in PicType /\ pic'[1] = Accept(pic[1], line) /\ pic'[2] = pic[2]
      BY <1>1, <2>1
    <3>2. pic' \in [Pics -> PicType]
      BY <1>1, <1>4, <2>1, AcceptFields
    <3>3. LET q == Accept(pic[1], line)
          IN  /\ q.irr = pic[1].irr \ {line} /\ q.isr = pic[1].isr \cup {line}
              /\ q.imr = pic[1].imr /\ q.base = pic[1].base /\ q.icw = pic[1].icw
      BY ONLY <1>4, <3>1, AcceptFields
    <3> QED
      BY <1>1, <3>1, <3>2, <3>3
  <2>7. IrqTypeOK' /\ HistoryOK'
    <3> HIDE DEF FrameType
    <3> QED
      BY <1>2, <2>5, <2>6 DEF IrqTypeOK, HistoryOK, Places
  <2>8. SetUpInv'
    BY <1>2, <2>5, <2>6, SetUpSame
  <2>9. Served' = line
    BY <1>4, <2>5 DEF Served, Lines
  <2>10. ServiceInv'
    <3>1. Takes(Served, 1)' = {line}
      <4>1. Takes(line, 1) = {line}
        BY <1>4, TakesLines
      <4> QED
        BY <2>9, <4>1 DEF Takes
    <3>2. Busy(1)'
      BY <1>1, <1>2, <1>4, <1>5, <2>6, <3>1, BusyAfter
    <3>3. Busy(2)'
      BY <1>1, <1>2, <2>6, QuietIsBusy
    <3> QED
      BY <1>1, <2>5, <2>6, <3>2, <3>3 DEF ServiceInv
  <2>11. Accepted(line) /\ line \in Irqs
    <3>1. line \in Irqs /\ PicOf(line) = 1 /\ LineOf(line) = line
      BY <1>4, TakesLines DEF Irqs, Lines
    <3> QED
      BY <2>3, <2>5, <2>6, <3>1 DEF Accepted
  <2> QED
    BY <1>2, <2>5, <2>7, <2>8, <2>10, <2>11
<1>7. CASE line = Cascade
  <2>1. /\ pic' = [pic EXCEPT ![1] = Accept(@, Cascade), ![2] = Accept(@, slave)]
        /\ Enter(Vector(pic[2], slave))
    BY <1>7 DEF Deliver
  <2>2. SlaveAsks # {}
    BY <1>1, <1>4, <1>7 DEF MasterAsks, Asks
  <2>3. slave \in Lines /\ slave \in SlaveAsks
    BY <1>3, <2>2, HighestOfMany
  <2>4. Vector(pic[2], slave) = 40 + slave
    BY <1>1, <2>3, Vectors32
  <2>5. slave \in pic[2].irr /\ \A s \in pic[2].isr : slave < s
    BY <2>3 DEF SlaveAsks, Asks
  <2> HIDE DEF slave
  <2>6. 40 + slave \in 32 .. 47
    BY <2>3 DEF Lines
  <2>7. /\ at' = "irq_handler" /\ interrupts' = FALSE
        /\ stack' \in Seq(FrameType) /\ stack'[1].number = 40 + slave
        /\ FrameInv' /\ Service' = "irq_handler" /\ (Live' <=> Live)
    <3>1. Enter(40 + slave)
      BY <2>1, <2>4
    <3> QED
      BY <1>1, <2>6, <3>1, EnterIrq, Zenon
  <2>8. /\ pic' \in [Pics -> PicType]
        /\ pic'[1].isr = pic[1].isr \cup {Cascade} /\ pic'[2].isr = pic[2].isr \cup {slave}
        /\ pic'[1].irr = pic[1].irr \ {Cascade} /\ pic'[2].irr = pic[2].irr \ {slave}
        /\ \A p \in Pics : /\ pic'[p].imr = pic[p].imr /\ pic'[p].base = pic[p].base
                           /\ pic'[p].icw = pic[p].icw
    <3>1. /\ pic[1] \in PicType /\ pic'[1] = Accept(pic[1], Cascade)
          /\ pic[2] \in PicType /\ pic'[2] = Accept(pic[2], slave)
      BY <1>1, <2>1
    <3>2. pic' \in [Pics -> PicType]
      BY <1>1, <2>1, <2>3, <3>1, AcceptFields
    <3>3. LET q == Accept(pic[1], Cascade)
          IN  /\ q.irr = pic[1].irr \ {Cascade} /\ q.isr = pic[1].isr \cup {Cascade}
              /\ q.imr = pic[1].imr /\ q.base = pic[1].base /\ q.icw = pic[1].icw
      BY ONLY PicsLines, <3>1, AcceptFields
    <3>4. LET q == Accept(pic[2], slave)
          IN  /\ q.irr = pic[2].irr \ {slave} /\ q.isr = pic[2].isr \cup {slave}
              /\ q.imr = pic[2].imr /\ q.base = pic[2].base /\ q.icw = pic[2].icw
      BY ONLY <2>3, <3>1, AcceptFields
    <3> QED
      BY <1>1, <3>1, <3>2, <3>3, <3>4
  <2>9. IrqTypeOK' /\ HistoryOK'
    <3> HIDE DEF FrameType
    <3> QED
      BY <1>2, <2>7, <2>8 DEF IrqTypeOK, HistoryOK, Places
  <2>10. SetUpInv'
    BY <1>2, <2>7, <2>8, SetUpSame
  <2>11. Served' = 8 + slave
    BY <2>3, <2>7 DEF Served, Lines
  <2>12. ServiceInv'
    <3>1. Takes(Served, 1)' = {Cascade} /\ Takes(Served, 2)' = {slave}
      <4>1. Takes(8 + slave, 1) = {Cascade} /\ Takes(8 + slave, 2) = {slave}
        BY <2>3, TakesLines
      <4> QED
        BY <2>11, <4>1 DEF Takes
    <3>2. Busy(1)'
      BY <1>1, <1>2, <1>5, <1>7, <2>8, <3>1, BusyAfter
    <3>3. Busy(2)'
      BY <1>1, <1>2, <2>3, <2>5, <2>8, <3>1, BusyAfter
    <3> QED
      BY <1>1, <2>7, <2>8, <3>2, <3>3 DEF ServiceInv
  <2>13. Accepted(8 + slave) /\ 8 + slave \in Irqs
    <3>1. /\ 8 + slave \in Irqs /\ PicOf(8 + slave) = 2 /\ LineOf(8 + slave) = slave
          /\ 40 + slave = 32 + (8 + slave)
      BY <2>3, TakesLines DEF Irqs, Lines
    <3> QED
      BY <2>5, <2>7, <2>8, <3>1 DEF Accepted
  <2> QED
    BY <1>2, <2>7, <2>9, <2>10, <2>12, <2>13
<1> QED
  BY <1>6, <1>7

LEMMA SpuriousStep ==
  ASSUME IInv, NEW p \in Pics, Spurious(p)
  PROVE  /\ IInv'
         /\ Service' = "irq_handler" /\ stack'[1].number = (IF p = 1 THEN 39 ELSE 47)
         /\ \A q \in Pics : pic'[q].irr \subseteq pic[q].irr
<1> USE PicsLines DEF IInv
<1>1. /\ at = "main" /\ interrupts /\ pic \in [Pics -> PicType]
      /\ Quiet(1) /\ Quiet(2) /\ Cascade \notin pic[1].irr
      /\ pic[1].base = Offset[1] /\ pic[2].base = Offset[2]
      /\ pic[1].isr \subseteq Lines
  <2>1. at = "main" /\ interrupts /\ pic \in [Pics -> PicType]
    BY DEF Spurious, IrqTypeOK
  <2>2. pic[1] \in PicType
    BY <2>1
  <2> QED
    BY <2>1, <2>2, InService DEF ServiceInv, SetUpInv, Live, PicType, Byte
<1>2. /\ UNCHANGED <<idt, handlers, nmi, irq, todo, wanted, requests, calls, mistakes>>
      /\ spurious' = [spurious EXCEPT ![p] = @ + 1]
  BY DEF Spurious, main
<1> DEFINE v == IF p = 1 THEN 39 ELSE 47
<1>3. Vector(pic[p], 7) = v
  BY <1>1, Vectors32
<1>4. Enter(v) /\ v \in 32 .. 47
  BY <1>3 DEF Spurious
<1>5. /\ at' = "irq_handler" /\ interrupts' = FALSE
      /\ stack' \in Seq(FrameType) /\ stack'[1].number = v
      /\ FrameInv' /\ Service' = "irq_handler" /\ (Live' <=> Live)
  BY <1>1, <1>4, EnterIrq, Zenon
<1>6. /\ pic' \in [Pics -> PicType]
      /\ pic'[1].irr \subseteq pic[1].irr /\ pic'[2] = pic[2]
      /\ \A q \in Pics : /\ pic'[q].imr = pic[q].imr /\ pic'[q].base = pic[q].base
                         /\ pic'[q].icw = pic[q].icw
      /\ p = 1 => pic' = pic
      /\ p = 2 => /\ pic'[1].isr = pic[1].isr \cup {Cascade}
                  /\ \A s \in pic[1].isr : Cascade < s
  <2>1. CASE p = 1
    BY <1>1, <2>1 DEF Spurious
  <2>2. CASE p = 2
    <3>1. /\ pic' = [pic EXCEPT ![1] = Accept(@, Cascade)]
          /\ \A s \in pic[1].isr : Cascade < s
      BY <2>2 DEF Spurious, Asks
    <3>2. /\ pic[1] \in PicType /\ pic'[1] = Accept(pic[1], Cascade) /\ pic'[2] = pic[2]
      BY <1>1, <3>1
    <3>3. LET q == Accept(pic[1], Cascade)
          IN  /\ q.irr = pic[1].irr \ {Cascade} /\ q.isr = pic[1].isr \cup {Cascade}
              /\ q.imr = pic[1].imr /\ q.base = pic[1].base /\ q.icw = pic[1].icw
      BY ONLY PicsLines, <3>2, AcceptFields
    <3>4. pic' \in [Pics -> PicType]
      BY <1>1, <3>1, <3>2, AcceptFields
    <3> QED
      BY <1>1, <2>2, <3>1, <3>2, <3>3, <3>4
  <2> QED
    BY <2>1, <2>2
<1>7. IrqTypeOK' /\ HistoryOK'
  <2>1. spurious' \in [Pics -> Nat]
    BY <1>2 DEF HistoryOK
  <2> HIDE DEF FrameType
  <2> QED
    BY <1>2, <1>5, <1>6, <2>1 DEF IrqTypeOK, HistoryOK, Places
<1>8. SetUpInv'
  BY <1>2, <1>5, <1>6, SetUpSame
<1>9. ServiceInv'
  <2>1. Busy(2)'
    BY <1>1, <1>2, <1>6, QuietIsBusy
  <2>2. CASE p = 1
    <3>1. Busy(1)'
      BY <1>1, <1>2, <1>6, <2>2, QuietIsBusy
    <3> QED
      BY <1>1, <1>5, <1>6, <2>1, <3>1 DEF ServiceInv
  <2>3. CASE p = 2
    <3>1. Served' = 8 + 7
      BY <1>5, <2>3 DEF Served
    <3>2. Takes(Served, 1)' = {Cascade}
      <4>1. Takes(8 + 7, 1) = {Cascade}
        BY TakesLines
      <4> QED
        BY <3>1, <4>1 DEF Takes
    <3>3. Busy(1)'
      BY <1>1, <1>2, <1>6, <2>3, <3>2, BusyAfter
    <3> QED
      BY <1>1, <1>5, <1>6, <2>1, <3>3 DEF ServiceInv
  <2> QED
    BY <2>2, <2>3
<1>10. \A q \in Pics : pic'[q].irr \subseteq pic[q].irr
  BY <1>6
<1> QED
  BY <1>5, <1>7, <1>8, <1>9, <1>10

\* An exception finds the tables set up, or there is none; the service below waits.
LEMMA FaultStep ==
  ASSUME IInv, NEW v \in Faults, Fault(v)
  PROVE  IInv' /\ Service' = Service /\ (Service \in IrqPlaces => stack'[1] = stack[1])
<1> USE DEF IInv
<1>1. v \in 0 .. 31 /\ v \in Vectors
  BY InterruptsAssumption DEF Exceptions, Vectors
<1>2. /\ UNCHANGED <<pic, idt, handlers, irq, todo, wanted, requests, spurious, calls, mistakes>>
      /\ Enter(v) /\ at \notin Ends /\ nmi' \in BOOLEAN
      /\ idt[v] # NoGate /\ interrupts' = FALSE
      /\ at' = IF idt[v] \in Exceptions THEN "isr_handler" ELSE "irq_handler"
  BY DEF Fault, Enter, main, history, Ends, IrqTypeOK
<1>3. idt[v] = v
  BY <1>1, <1>2 DEF SetUpInv, Installed
<1>4. at' = "isr_handler"
  BY <1>1, <1>2, <1>3 DEF Exceptions
<1> DEFINE k == Len(stack)
<1>5. /\ stack' \in Seq(FrameType) /\ Len(stack') = k + 1 /\ k \in Nat
      /\ \A j \in 1 .. k : stack'[j] = stack[j] /\ FrameOK(stack', j)
      /\ stack'[k + 1] = Frame(v) /\ (Live' <=> Live)
  BY <1>1, <1>2, Pushed, InService
<1>6. /\ Frame(v).eip = at /\ Frame(v).eflags = interrupts /\ Frame(v).number = v
      /\ Frame(v).above = 2 \/ v = 17
  BY <1>1, <1>3 DEF Frame, PushesCode, StubWords, StubsWithCode
<1>7. /\ at = "main" => stack = <<>> /\ k = 0
      /\ at # "main" => ~interrupts /\ k > 0
      /\ stack = <<>> <=> k = 0
      /\ \A j \in 1 .. k : FrameOK(stack, j)
  BY <1>2, <1>5, InService
<1> HIDE DEF k, FrameType
<1>8. FrameInv'
  <2>1. Fits(stack, at, k)
    BY <1>2 DEF FrameInv, k
  <2>2. Fits(stack', at, k)
    BY <1>5, <2>1, FitsKept
  <2>3. FrameOK(stack', k + 1)
    <3>1. k + 1 > 1 => ~Frame(v).eflags
      BY <1>5, <1>6, <1>7
    <3> QED
      BY <1>1, <1>2, <1>5, <1>6, <2>2, <3>1 DEF FrameOK, Dropped
  <2>4. Fits(stack', at', Len(stack'))
    <3>1. stack'[k + 1].number < 32 /\ k + 1 > 0
      BY <1>1, <1>5, <1>6
    <3> QED
      BY <1>4, <1>5, <3>1 DEF Fits, IrqPlaces
  <2>5. \A j \in 1 .. Len(stack') : FrameOK(stack', j)
    <3>1. \A j \in 1 .. k + 1 : j \in 1 .. k \/ j = k + 1
      BY <1>5
    <3> QED
      BY <1>5, <2>3, <3>1
  <2> QED
    BY <2>4, <2>5 DEF FrameInv
<1>9. Service' = Service /\ (Service \in IrqPlaces => stack'[1] = stack[1])
  <2>1. stack' # <<>>
    BY <1>5, EmptySeq
  <2>2. CASE k = 0
    <3>1. stack'[1].number < 32 /\ Service = at /\ at = "main"
      BY <1>1, <1>5, <1>6, <1>7, <2>2 DEF Service
    <3> QED
      BY <2>1, <3>1 DEF Service, IrqPlaces
  <2>3. CASE k = 1
    <3>1. stack'[1] = stack[1] /\ stack'[2].eip = at /\ Len(stack') = 2 /\ stack # <<>>
      BY <1>5, <1>6, <1>7, <2>3
    <3> QED
      BY <2>1, <2>3, <3>1 DEF Service, k
  <2>4. CASE k > 1
    <3>1. /\ stack'[1] = stack[1] /\ stack'[2] = stack[2] /\ Len(stack') # 1
          /\ stack # <<>> /\ Len(stack) # 1
      BY <1>5, <1>7, <2>4 DEF k
    <3> QED
      BY <2>1, <3>1 DEF Service
  <2> QED
    BY <1>5, <2>2, <2>3, <2>4
<1>10. IrqTypeOK' /\ HistoryOK'
  BY <1>2, <1>4, <1>5 DEF IrqTypeOK, HistoryOK, Places
<1>11. SetUpInv'
  BY <1>2, <1>5, SetUpSame
<1>12. ServiceInv'
  BY <1>2, <1>9, ServiceKept DEF ServiceInv
<1> QED
  BY <1>8, <1>9, <1>10, <1>11, <1>12

\* While an exception is on top, the service below is where its frame says.
LEMMA ServiceBelow ==
  ASSUME IInv, UNCHANGED stack, at \notin IrqPlaces, Len(stack) > 0,
         Len(stack) = 1 => stack[1].number < 32
  PROVE  Service' = Service
BY InService DEF Service

LEMMA IsrHandlerStep ==
  ASSUME IInv, isr_handler
  PROVE  IInv' /\ Service' = Service /\ UNCHANGED stack
<1> USE DEF IInv
<1>1. /\ at = "isr_handler" /\ at' \in {"stopped", "leave"} /\ interrupts' = FALSE
      /\ UNCHANGED <<pic, idt, handlers, nmi, stack, irq, todo, wanted, requests, spurious,
                     calls, mistakes>>
  BY DEF isr_handler, main, history
<1>2. /\ Fits(stack, "isr_handler", Len(stack)) /\ Len(stack) > 0 /\ stack[Len(stack)].number < 32
      /\ ~interrupts
  BY <1>1, InService DEF FrameInv, Fits, Ends
<1>3. Service' = Service
  BY <1>1, <1>2, ServiceBelow DEF IrqPlaces
<1>4. IrqTypeOK' /\ HistoryOK'
  <2> HIDE DEF FrameType
  <2> QED
    BY <1>1 DEF IrqTypeOK, HistoryOK, Places
<1>5. SetUpInv'
  BY <1>1, <1>2, SetUpSame DEF Live
<1>6. FrameInv'
  BY <1>1, <1>2, FramesSame DEF Fits, Ends, IrqPlaces
<1>7. ServiceInv'
  BY <1>1, <1>3, ServiceKept DEF ServiceInv
<1> QED
  BY <1>1, <1>3, <1>4, <1>5, <1>6, <1>7

\* A step of irq_handler leaves the frame alone.
LEMMA IrqStep ==
  ASSUME IInv, at \in IrqPlaces, at' \in IrqPlaces \cup {"leave"},
         UNCHANGED <<interrupts, nmi, stack, idt, handlers, todo, wanted, requests, spurious>>,
         irq' \in Irqs \cup {NoIrq}, calls' \in [Irqs -> Nat],
         mistakes' \subseteq Int \X Int, pic' \in [Pics -> PicType],
         \A p \in Pics : /\ pic'[p].imr = pic[p].imr /\ pic'[p].base = pic[p].base
                         /\ pic'[p].icw = pic[p].icw
  PROVE  /\ IrqTypeOK' /\ HistoryOK' /\ SetUpInv' /\ FrameInv'
         /\ Service = at /\ Service' = at' /\ Served' = Served /\ Served \in Irqs
         /\ Top = stack[1] /\ Top.number \in 32 .. 47 /\ Served = Top.number - 32
<1> USE DEF IInv
<1>1. /\ Len(stack) = 1 /\ stack[1].number \in 32 .. 47 /\ Service = at /\ Top = stack[1]
      /\ stack # <<>> /\ ~interrupts
  <2>1. at # "main"
    BY DEF IrqPlaces
  <2>2. Len(stack) = 1 => Len(stack) # 0
    OBVIOUS
  <2> QED
    BY <2>1, <2>2, InService
<1>2. IrqTypeOK' /\ HistoryOK'
  <2> HIDE DEF FrameType
  <2>1. at' \in Places /\ at' # "main" /\ ~interrupts
    BY <1>1 DEF IrqPlaces, Places
  <2> QED
    BY <2>1 DEF IrqTypeOK, HistoryOK
<1>3. SetUpInv'
  BY SetUpSame DEF Live
<1>4. FrameInv'
  <2>1. Fits(stack, at', Len(stack))
    <3>1. at' \notin {"main", "isr_handler"}
      BY DEF IrqPlaces
    <3> QED
      BY <1>1, <3>1 DEF Fits
  <2> QED
    BY <2>1, FramesSame
<1>5. Service' = at'
  BY <1>1 DEF Service
<1>6. Served \in Irqs
  BY <1>1 DEF Served, Irqs
<1>7. Served' = Served /\ Served = Top.number - 32 /\ Top.number \in 32 .. 47
  BY <1>1 DEF Served
<1> QED
  BY <1>1, <1>2, <1>3, <1>4, <1>5, <1>6, <1>7

\* With the right number irq_handler goes on for the irq served; with another, the
\* lines of the latter may be left.
LEMMA IrqHandlerStep == ASSUME IInv, irq_handler PROVE IInv'
<1> USE PicsLines DEF IInv
<1>1. PICK n \in Found :
        /\ \/ /\ n \in 32 .. 47 /\ irq' = n - 32
              /\ at' \in {"handler", "eoi"}
           \/ n \notin 32 .. 47 /\ at' = "leave" /\ UNCHANGED irq
        /\ mistakes' = mistakes \cup ({<<Top.number, n>>} \ {<<n, n>>})
  BY DEF irq_handler
<1>2. /\ at = "irq_handler" /\ at \in IrqPlaces /\ at' \in IrqPlaces \cup {"leave"}
      /\ UNCHANGED <<pic, idt, handlers, interrupts, nmi, stack, todo, wanted, requests,
                     spurious, calls>>
      /\ n \in Nat /\ irq' \in Irqs \cup {NoIrq}
      /\ pic' \in [Pics -> PicType] /\ calls' \in [Irqs -> Nat]
  <2>1. /\ at = "irq_handler"
        /\ UNCHANGED <<pic, idt, handlers, interrupts, nmi, stack, todo, wanted, requests,
                       spurious, calls>>
    BY DEF irq_handler, main
  <2>2. n \in Nat
    BY InterruptsAssumption
  <2>3. at \in IrqPlaces /\ at' \in IrqPlaces \cup {"leave"}
    BY <1>1, <2>1 DEF IrqPlaces
  <2>4. irq' \in Irqs \cup {NoIrq}
    <3>1. CASE n \in 32 .. 47 /\ irq' = n - 32
      BY <3>1 DEF Irqs
    <3>2. CASE irq' = irq
      BY <3>2 DEF IrqTypeOK
    <3> QED
      BY <1>1, <3>1, <3>2
  <2>5. pic' \in [Pics -> PicType] /\ calls' \in [Irqs -> Nat]
    BY <2>1 DEF IrqTypeOK
  <2> QED
    BY <2>1, <2>2, <2>3, <2>4, <2>5
<1>3. mistakes' \subseteq Int \X Int
  <2>1. Top.number \in Int
    BY <1>2, InService
  <2> QED
    BY <1>1, <1>2, <2>1 DEF HistoryOK
<1>4. /\ IrqTypeOK' /\ HistoryOK' /\ SetUpInv' /\ FrameInv'
      /\ Service = at /\ Service' = at' /\ Served' = Served /\ Served \in Irqs
      /\ Top = stack[1] /\ Top.number \in 32 .. 47 /\ Served = Top.number - 32
  BY <1>2, <1>3, IrqStep
<1>5. Top.number = Served + 32 /\ Top.number \in 32 .. 47 /\ Top.number - 32 = Served
  BY <1>4
<1>6. Busy(1) /\ Busy(2) /\ Cascade \notin pic[1].irr
  BY <1>2, <1>4 DEF ServiceInv
<1>7. mistakes \subseteq mistakes'
  BY <1>1
<1>8. ASSUME NEW p \in Pics, Busy(p) PROVE Busy(p)'
  <2>1. Left(p) \subseteq Left(p)' /\ Takes(Served, p)' = Takes(Served, p)
    BY <1>4, <1>7, LeftGrows DEF Takes
  <2> QED
    BY <1>2, <1>8, <2>1 DEF Busy
<1>9. ASSUME n # Top.number, NEW p \in Pics, Busy(p) PROVE Quiet(p)'
  <2>1. <<Top.number, n>> \in mistakes'
    BY <1>1, <1>9
  <2>2. Takes(Served, p)' \subseteq Left(p)'
    <3>1. Top.number - 32 = Served
      BY <1>5
    <3>2. <<Top.number, n>>[1] = Top.number
      OBVIOUS
    <3> QED
      BY <1>4, <2>1, <3>1, <3>2 DEF Left, Takes
  <2>3. Busy(p)'
    BY <1>8, <1>9
  <2> QED
    BY <2>2, <2>3 DEF Busy, Quiet
<1>10. CASE n \in 32 .. 47
  <2>1. /\ Service' \in {"handler", "eoi"} /\ irq' = n - 32 /\ irq' \in Irqs
        /\ irq' + 32 = n /\ stack' = stack
    BY <1>1, <1>2, <1>4, <1>10 DEF Irqs
  <2>2. irq' = Served' \/ <<stack'[1].number, irq' + 32>> \in mistakes'
    <3>1. CASE n = Top.number
      BY <1>4, <1>5, <2>1, <3>1
    <3>2. CASE n # Top.number
      BY <1>1, <1>4, <2>1, <3>2
    <3> QED
      BY <3>1, <3>2
  <2>3. Busy(1)' /\ Busy(2)'
    BY <1>6, <1>8
  <2> QED
    BY <1>2, <1>4, <1>6, <2>1, <2>2, <2>3 DEF ServiceInv
<1>11. CASE n \notin 32 .. 47
  <2>1. Service' = "leave" /\ n # Top.number
    BY <1>1, <1>4, <1>5, <1>11
  <2>2. Quiet(1)' /\ Quiet(2)'
    BY <1>6, <1>9, <2>1
  <2> QED
    BY <1>2, <1>4, <1>6, <2>1, <2>2 DEF ServiceInv
<1> QED
  BY <1>10, <1>11

LEMMA HandleStep == ASSUME IInv, Handle PROVE IInv' /\ Service = "handler" /\ Service' = "eoi"
<1> USE PicsLines DEF IInv
<1>1. /\ at = "handler" /\ at \in IrqPlaces /\ at' = "eoi" /\ at' \in IrqPlaces
      /\ UNCHANGED <<pic, idt, handlers, interrupts, nmi, stack, irq, todo, wanted, requests,
                     spurious, mistakes>>
      /\ pic' \in [Pics -> PicType] /\ irq' \in Irqs \cup {NoIrq}
      /\ mistakes' \subseteq Int \X Int
  BY DEF Handle, main, IrqPlaces, IrqTypeOK, HistoryOK
<1>2. calls' \in [Irqs -> Nat]
  <2> DEFINE h == handlers[irq]
  <2>1. calls \in [Irqs -> Nat] /\ calls' = [calls EXCEPT ![h] = @ + 1]
    BY DEF Handle, IrqTypeOK
  <2> HIDE DEF h
  <2>2. h \in Irqs => calls[h] + 1 \in Nat
    BY <2>1
  <2> QED
    BY <2>1, <2>2
<1>3. /\ IrqTypeOK' /\ HistoryOK' /\ SetUpInv' /\ FrameInv'
      /\ Service = at /\ Service' = at' /\ Served' = Served
  BY <1>1, <1>2, IrqStep
<1>4. \A p \in Pics : Busy(p) => Busy(p)'
  BY <1>1, <1>3 DEF Busy, Left, Takes
<1>5. ServiceInv'
  BY <1>1, <1>3, <1>4 DEF ServiceInv
<1> QED
  BY <1>1, <1>3, <1>5

\* An EOI ends the service that is the highest, or one that was left.
LEMMA EoiQuiets ==
  ASSUME NEW p \in Pics, pic[p] \in PicType, Busy(p), pic'[p] = Command(pic[p], EOI),
         mistakes' = mistakes
  PROVE  Quiet(p)'
<1>1. Left(p)' = Left(p)
  BY DEF Left, Takes
<1>2. Command(pic[p], EOI).isr \subseteq Left(p)
  BY EoiFields DEF Busy
<1> QED
  BY <1>1, <1>2 DEF Quiet

\* The EOI of the slave ends its service, if it has one.
LEMMA SlaveEoiStep == ASSUME IInv, SlaveEoi PROVE IInv' /\ Service' = "eoi master"
<1> USE PicsLines DEF IInv
<1>1. /\ at = "eoi" /\ at \in IrqPlaces /\ at' = "eoi master" /\ at' \in IrqPlaces
      /\ pic' = [pic EXCEPT ![2] = IF irq >= 8 THEN Command(@, EOI) ELSE @]
      /\ UNCHANGED <<idt, handlers, interrupts, nmi, stack, irq, todo, wanted, requests,
                     spurious, calls, mistakes>>
      /\ pic \in [Pics -> PicType] /\ irq' \in Irqs \cup {NoIrq}
      /\ mistakes' \subseteq Int \X Int /\ calls' \in [Irqs -> Nat]
  BY DEF SlaveEoi, main, history, IrqPlaces, IrqTypeOK, HistoryOK
<1> DEFINE q == Command(pic[2], EOI)
<1>2. /\ q \in PicType
      /\ q.irr = pic[2].irr /\ q.imr = pic[2].imr /\ q.base = pic[2].base /\ q.icw = pic[2].icw
  BY <1>1, EoiFields
<1>3. pic'[1] = pic[1] /\ pic'[2] = IF irq >= 8 THEN q ELSE pic[2]
  <2>1. pic' = [pic EXCEPT ![2] = IF irq >= 8 THEN q ELSE @] /\ pic \in [Pics -> PicType]
    BY <1>1
  <2> HIDE DEF q
  <2> QED
    BY ONLY <2>1, PicsLines
<1> HIDE DEF q
<1>4. pic' \in [Pics -> PicType]
  BY <1>1, <1>2 DEF q
<1>5. /\ IrqTypeOK' /\ HistoryOK' /\ SetUpInv' /\ FrameInv'
      /\ Service = at /\ Service' = at' /\ Served' = Served /\ Served \in Irqs
  BY <1>1, <1>2, <1>3, <1>4, IrqStep
<1>6. /\ Busy(1) /\ Busy(2) /\ Cascade \notin pic[1].irr /\ irq \in Irqs
      /\ irq = Served \/ <<stack[1].number, irq + 32>> \in mistakes
  BY <1>1, <1>5 DEF ServiceInv
<1>7. Busy(1)'
  BY <1>1, <1>3, <1>5, <1>6 DEF Busy, Left, Takes
<1>8. Quiet(2)'
  <2>1. CASE irq >= 8
    BY <1>1, <1>3, <1>6, <2>1, EoiQuiets DEF q
  <2>2. CASE ~(irq >= 8)
    <3>1. pic'[2] = pic[2]
      BY <1>3, <2>2
    <3>2. Takes(Served, 2) \subseteq Left(2)
      <4>1. CASE irq = Served
        <5>1. irq \in Lines
          BY <1>6, <2>2 DEF Irqs, Lines
        <5>2. Takes(irq, 2) = {}
          BY <5>1, TakesLines
        <5> QED
          BY <4>1, <5>2
      <4>2. CASE <<stack[1].number, irq + 32>> \in mistakes
        <5>1. <<stack[1].number, irq + 32>>[1] - 32 = Served
          BY DEF Served
        <5> QED
          BY <4>2, <5>1 DEF Left
      <4> QED
        BY <1>6, <4>1, <4>2
    <3>3. Quiet(2)
      BY <1>6, <3>2 DEF Busy, Quiet
    <3> QED
      BY <1>1, <3>1, <3>3, QuietKept
  <2> QED
    BY <2>1, <2>2
<1>9. ServiceInv'
  BY <1>1, <1>3, <1>5, <1>6, <1>7, <1>8 DEF ServiceInv
<1> QED
  BY <1>1, <1>5, <1>9

LEMMA MasterEoiStep == ASSUME IInv, MasterEoi PROVE IInv' /\ Service' = "leave"
<1> USE PicsLines DEF IInv
<1>1. /\ at = "eoi master" /\ at \in IrqPlaces /\ at' = "leave" /\ irq' = NoIrq
      /\ pic' = [pic EXCEPT ![1] = Command(@, EOI)]
      /\ UNCHANGED <<idt, handlers, interrupts, nmi, stack, todo, wanted, requests,
                     spurious, calls, mistakes>>
      /\ pic \in [Pics -> PicType]
      /\ mistakes' \subseteq Int \X Int /\ calls' \in [Irqs -> Nat]
  BY DEF MasterEoi, main, history, IrqPlaces, IrqTypeOK, HistoryOK
<1> DEFINE q == Command(pic[1], EOI)
<1>2. /\ q \in PicType
      /\ q.irr = pic[1].irr /\ q.imr = pic[1].imr /\ q.base = pic[1].base /\ q.icw = pic[1].icw
  BY <1>1, EoiFields
<1>3. pic'[1] = q /\ pic'[2] = pic[2]
  <2>1. pic' = [pic EXCEPT ![1] = q] /\ pic \in [Pics -> PicType]
    BY <1>1
  <2> HIDE DEF q
  <2> QED
    BY ONLY <2>1, PicsLines
<1> HIDE DEF q
<1>4. pic' \in [Pics -> PicType]
  BY <1>1, <1>2 DEF q
<1>5. /\ IrqTypeOK' /\ HistoryOK' /\ SetUpInv' /\ FrameInv' /\ Service = at /\ Service' = at'
  BY <1>1, <1>2, <1>3, <1>4, IrqStep
<1>6. Busy(1) /\ Quiet(2) /\ Cascade \notin pic[1].irr
  BY <1>1, <1>5 DEF ServiceInv
<1>7. Quiet(1)'
  BY <1>1, <1>3, <1>6, EoiQuiets DEF q
<1>8. Quiet(2)'
  BY <1>1, <1>3, <1>6, QuietKept
<1>9. ServiceInv'
  BY <1>1, <1>2, <1>3, <1>5, <1>6, <1>7, <1>8 DEF ServiceInv
<1> QED
  BY <1>1, <1>5, <1>9

\* The way back, of an interrupt to Main and of an exception to what it came from.
LEMMA LeaveStep ==
  ASSUME IInv, Leave
  PROVE  /\ IInv'
         /\ Service' = Service \/ (Service = "leave" /\ Service' = "main")
         /\ Service \in IrqPlaces => stack'[1] = stack[1]
         /\ at' = "astray" => Top.number = 17
<1> USE PicsLines DEF IInv
<1> DEFINE k == Len(stack)
<1>1. /\ at = "leave"
      /\ UNCHANGED <<pic, idt, handlers, irq, todo, wanted, requests, spurious, calls, mistakes>>
  BY DEF Leave, main, history
<1>2. /\ stack \in Seq(FrameType) /\ k \in Nat /\ k > 0 /\ stack # <<>> /\ ~interrupts
      /\ \A j \in 1 .. k : stack[j] \in FrameType /\ FrameOK(stack, j)
  BY <1>1, InService DEF Ends
<1>3. FrameOK(stack, k) /\ stack[k] \in FrameType /\ Top = stack[k]
  BY <1>2 DEF Top
<1>4. /\ Top.eip \in Places \ Ends /\ Top.eflags \in BOOLEAN /\ Fits(stack, Top.eip, k - 1)
      /\ Top.number \in 0 .. 47
      /\ Top.number >= 32 => k = 1
      /\ k > 1 => ~Top.eflags
      /\ Top.above = Dropped \/ Top.number = 17
  BY <1>3 DEF FrameOK, FrameType
<1> HIDE DEF FrameType, k
<1>5. CASE Top.above # Dropped
  <2>1. at' = "astray" /\ UNCHANGED <<interrupts, nmi, stack>> /\ Top.number = 17
    BY <1>4, <1>5 DEF Leave
  <2>2. Service' = Service
    <3>1. k = 1 => stack[1].number < 32
      BY <1>3, <2>1
    <3> QED
      BY <1>1, <1>2, <2>1, <3>1, ServiceBelow DEF IrqPlaces, k
  <2>3. IrqTypeOK' /\ HistoryOK'
    BY <1>1, <1>2, <2>1 DEF IrqTypeOK, HistoryOK, Places
  <2>4. SetUpInv'
    BY <1>1, <2>1, SetUpSame DEF Live
  <2>5. FrameInv'
    BY <2>1, FramesSame DEF Ends
  <2>6. ServiceInv'
    BY <1>1, <2>1, <2>2, ServiceKept DEF ServiceInv
  <2> QED
    BY <2>1, <2>2, <2>3, <2>4, <2>5, <2>6
<1>6. CASE Top.above = Dropped
  <2>1. /\ at' = Top.eip /\ interrupts' = Top.eflags /\ nmi' = FALSE
        /\ stack' = SubSeq(stack, 1, k - 1)
    BY <1>6 DEF Leave, k
  <2>2. /\ stack' \in Seq(FrameType) /\ Len(stack') = k - 1
        /\ \A j \in 1 .. k - 1 : stack'[j] = stack[j]
    <3>1. k - 1 \in Nat /\ k - 1 <= k /\ (k - 1) - 1 + 1 = k - 1
      BY <1>2
    <3> HIDE DEF IInv
    <3>2. k \in Nat => \A i \in 1 .. k - 1 : 1 + i - 1 = i /\ i \in 1 .. k
      BY ONLY TRUE
    <3> QED
      BY <1>2, <2>1, <3>1, <3>2 DEF k
  <2>3. k = 1 => at' = "main" /\ stack' = <<>>
    <3>1. k = 1 => stack' = <<>>
      BY <2>2, EmptySeq
    <3>2. k = 1 => Top.eip \notin IrqPlaces \cup {"isr_handler", "leave"}
      BY <1>4 DEF Fits
    <3>3. Top.eip \in Places \ Ends
      BY <1>4
    <3> QED
      BY <2>1, <3>1, <3>2, <3>3 DEF Places, Ends, IrqPlaces
  <2>4. k > 1 => ~interrupts' /\ stack' # <<>> /\ stack'[1] = stack[1] /\ stack'[k - 1] = stack[k - 1]
    BY <1>2, <1>4, <2>1, <2>2, EmptySeq
  <2>5. Live' => Live
    <3>1. CASE k = 1
      BY <1>2, <1>3, <2>1, <2>3, <3>1 DEF Live
    <3>2. CASE k > 1
      BY <1>2, <2>4, <3>2 DEF Live
    <3> QED
      BY <1>2, <3>1, <3>2
  <2>6. FrameInv'
    <3>1. Fits(stack', at', Len(stack'))
      <4>1. k - 1 \in Nat /\ (k - 1 > 0 => stack'[k - 1] = stack[k - 1] /\ stack'[1] = stack[1])
        BY <1>2, <2>4
      <4>2. Fits(stack', Top.eip, k - 1)
        BY <1>4, <4>1, FitsKept
      <4> QED
        BY <2>1, <2>2, <4>2
    <3>2. ASSUME NEW j \in 1 .. Len(stack') PROVE FrameOK(stack', j)
      <4>1. j \in Nat \ {0} /\ j \in 1 .. k /\ \A i \in 1 .. j : i \in 1 .. k - 1
        BY <1>2, <2>2
      <4> QED
        BY <1>2, <2>2, <4>1, FrameKept
    <3> QED
      BY <3>1, <3>2 DEF FrameInv
  <2>7. Service' = Service \/ (Service = "leave" /\ Service' = "main")
    <3>1. CASE k = 1
      <4>1. Service' = "main"
        BY <2>3, <3>1 DEF Service
      <4>2. Service = "leave" \/ Service = "main"
        BY <1>1, <1>2, <3>1 DEF Service, k
      <4> QED
        BY <4>1, <4>2
    <3>2. CASE k = 2
      <4>1. Len(stack') = 1 /\ stack'[1] = stack[1] /\ stack' # <<>> /\ at' = stack[2].eip
        BY <1>3, <2>1, <2>2, <2>4, <3>2
      <4> QED
        BY <1>2, <3>2, <4>1 DEF Service, k
    <3>3. CASE k > 2
      <4>1. /\ Len(stack') # 1 /\ Len(stack) # 1 /\ stack'[1] = stack[1]
            /\ stack'[2] = stack[2] /\ stack' # <<>>
        BY <1>2, <2>2, <2>4, <3>3 DEF k
      <4> QED
        BY <1>2, <4>1 DEF Service
    <3> QED
      BY <1>2, <3>1, <3>2, <3>3
  <2>8. Service \in IrqPlaces => stack'[1] = stack[1] /\ Service' = Service
    <3>1. k = 1 => Service \notin IrqPlaces
      BY <1>1, <1>2 DEF Service, IrqPlaces, k
    <3>2. k = 1 \/ k > 1
      BY <1>2
    <3>3. "leave" \notin IrqPlaces
      BY DEF IrqPlaces
    <3> QED
      BY <2>4, <2>7, <3>1, <3>2, <3>3
  <2>9. IrqTypeOK' /\ HistoryOK'
    <3>1. at' \in Places /\ (at' # "main" => ~interrupts')
      BY <1>2, <1>4, <2>1, <2>3, <2>4
    <3> QED
      BY <1>1, <1>4, <2>1, <2>2, <3>1 DEF IrqTypeOK, HistoryOK
  <2>10. SetUpInv'
    BY <1>1, <2>5, SetUpSame
  <2>11. ServiceInv'
    <3>1. CASE Service' = Service
      BY <1>1, <2>8, <3>1, ServiceKept DEF ServiceInv
    <3>2. CASE Service = "leave" /\ Service' = "main"
      <4>1. Quiet(1)' /\ Quiet(2)'
        BY <1>1, <3>2, QuietKept DEF ServiceInv
      <4> QED
        BY <1>1, <3>2, <4>1 DEF ServiceInv
    <3> QED
      BY <2>7, <3>1, <3>2
  <2>12. at' # "astray"
    BY <1>4, <2>1 DEF Ends
  <2> QED
    BY <2>6, <2>7, <2>8, <2>9, <2>10, <2>11, <2>12
<1> QED
  BY <1>5, <1>6

\* Main between two functions: nothing is in service but what was left.
LEMMA MainFacts ==
  ASSUME IInv, at = "main"
  PROVE  /\ pic \in [Pics -> PicType] /\ wanted \in [Pics -> Byte]
         /\ stack = <<>> /\ Service = "main"
         /\ Quiet(1) /\ Quiet(2) /\ Cascade \notin pic[1].irr
         /\ Live <=> interrupts
         /\ Masks = [p \in Pics |-> pic[p].imr] /\ Masks \in [Pics -> Byte]
<1>1. pic \in [Pics -> PicType] /\ wanted \in [Pics -> Byte]
  BY DEF IInv, IrqTypeOK
<1>2. stack = <<>> /\ Service = "main" /\ (Live <=> interrupts)
  BY InService
<1>3. Quiet(1) /\ Quiet(2) /\ Cascade \notin pic[1].irr
  BY <1>2 DEF IInv, ServiceInv
<1>4. Masks \in [Pics -> Byte]
  BY <1>1 DEF Masks, PicType
<1> QED
  BY <1>1, <1>2, <1>3, <1>4 DEF Masks

\* A step of Main puts nothing in service.
LEMMA MainStep ==
  ASSUME IInv, at = "main", UNCHANGED <<at, nmi, stack, irq, history>>,
         pic' \in [Pics -> PicType], idt' \in [Vectors -> 0 .. 47 \cup {NoGate}],
         handlers' \in [Irqs -> Irqs \cup {NoHandler}], interrupts' \in BOOLEAN,
         wanted' \in [Pics -> Byte], \A p \in Pics : pic'[p].isr \subseteq pic[p].isr,
         Cascade \notin pic'[1].irr, SetUpInv'
  PROVE  IInv'
<1> USE PicsLines
<1>1. /\ stack = <<>> /\ Service = "main" /\ Quiet(1) /\ Quiet(2)
      /\ UNCHANGED <<requests, spurious, calls, mistakes>>
  BY MainFacts DEF history
<1>2. IrqTypeOK' /\ HistoryOK'
  <2> HIDE DEF FrameType
  <2> QED
    BY <1>1 DEF IInv, IrqTypeOK, HistoryOK
<1>3. FrameInv'
  BY FramesSame DEF IInv, FrameInv
<1>4. Service' = "main"
  BY <1>1 DEF Service
<1>5. Quiet(1)' /\ Quiet(2)'
  BY <1>1, QuietKept
<1>6. ServiceInv'
  BY <1>4, <1>5 DEF ServiceInv
<1> QED
  BY <1>2, <1>3, <1>6 DEF IInv

\* With no outb left, the masks are as asked and pic_remap has run to its end or
\* not at all.
LEMMA NothingLeft ==
  ASSUME IInv, todo = <<>> PROVE Steady /\ \A p \in Pics : pic[p].imr = wanted[p]
<1>1. ~Remapping
  <2> SUFFICES ASSUME NEW k \in 0 .. 9, todo = Rest(k) PROVE FALSE
    BY DEF Remapping
  <2>1. 1 \in DOMAIN Rest(k)
    BY DEF Rest
  <2> QED
    BY <2>1
<1>2. Masking
  BY <1>1 DEF IInv, SetUpInv
<1> QED
  BY <1>2 DEF Masking

LEMMA IdleMasking ==
  ASSUME IInv, Idle PROVE Steady /\ \A p \in Pics : pic[p].imr = wanted[p]
BY NothingLeft DEF Idle

\* Main sets up the tables with interrupts off.
LEMMA InstallStep == ASSUME IInv, idt_install PROVE IInv'
<1>1. /\ at = "main" /\ ~interrupts /\ idt' = Installed
      /\ UNCHANGED <<pic, handlers, interrupts, at, nmi, stack, irq, todo, wanted, history>>
  BY DEF idt_install, Idle, Installed, main, processor
<1>2. idt' \in [Vectors -> 0 .. 47 \cup {NoGate}]
  BY <1>1 DEF Installed, Vectors
<1>3. ~Live /\ ~Live'
  BY <1>1, MainFacts DEF Live
<1>4. Masking => Masking'
  BY <1>1 DEF Masking, Steady
<1>5. Remapping => Remapping'
  BY <1>1, <1>3 DEF Remapping, Rest, RemappedMaster, RemappedSlave
<1>6. SetUpInv'
  BY <1>1, <1>3, <1>4, <1>5 DEF IInv, SetUpInv
<1>7. handlers' \in [Irqs -> Irqs \cup {NoHandler}] /\ interrupts' \in BOOLEAN
  BY <1>1 DEF IInv, IrqTypeOK
<1> QED
  BY <1>1, <1>2, <1>6, <1>7, MainStep, MainFacts

LEMMA HandlersStep ==
  ASSUME IInv, NEW i \in Irqs, irq_register_handler(i) \/ irq_unregister_handler(i)
  PROVE  IInv'
<1>1. /\ at = "main" /\ handlers' \in [Irqs -> Irqs \cup {NoHandler}]
      /\ UNCHANGED <<pic, idt, interrupts, at, nmi, stack, irq, todo, wanted, history>>
  BY DEF irq_register_handler, irq_unregister_handler, Idle, main, processor, IInv, IrqTypeOK
<1>2. SetUpInv'
  BY <1>1, SetUpSame DEF IInv, Live
<1>3. idt' \in [Vectors -> 0 .. 47 \cup {NoGate}] /\ interrupts' \in BOOLEAN
  BY <1>1 DEF IInv, IrqTypeOK
<1> QED
  BY <1>1, <1>2, <1>3, MainStep, MainFacts

\* A function of Main that begins to write to the controllers.
LEMMA DoStep ==
  ASSUME IInv, NEW writes, NEW masks \in [Pics -> Byte], Do(writes, masks),
         \/ Masking'
         \/ Remapping'
  PROVE  IInv'
<1>1. /\ at = "main" /\ wanted' = masks
      /\ UNCHANGED <<pic, idt, handlers, interrupts, at, nmi, stack, irq, history>>
  BY DEF Do, Idle, processor
<1>2. SetUpInv'
  BY <1>1 DEF IInv, SetUpInv, Live
<1>3. /\ idt' \in [Vectors -> 0 .. 47 \cup {NoGate}] /\ interrupts' \in BOOLEAN
      /\ handlers' \in [Irqs -> Irqs \cup {NoHandler}]
  BY <1>1 DEF IInv, IrqTypeOK
<1> QED
  BY <1>1, <1>2, <1>3, MainStep, MainFacts

LEMMA MaskStep ==
  ASSUME IInv, NEW i \in Irqs, pic_set_mask(i) \/ pic_clear_mask(i) PROVE IInv'
<1> DEFINE p == PicOf(i)
<1>1. p \in Pics /\ LineOf(i) \in Lines
  BY PicsLines
<1>2. Idle /\ at = "main"
  BY DEF pic_set_mask, pic_clear_mask, Do, Idle
<1>3. /\ Steady /\ \A q \in Pics : pic[q].imr = wanted[q]
      /\ Masks = [q \in Pics |-> pic[q].imr] /\ Masks \in [Pics -> Byte]
  BY <1>2, IdleMasking, MainFacts
<1> HIDE DEF p
<1>4. PICK value \in Byte : Do(<<outb(p, "data", value)>>, [Masks EXCEPT ![p] = value])
  <2>1. pic[p].imr \cup {LineOf(i)} \in Byte /\ pic[p].imr \ {LineOf(i)} \in Byte
    BY <1>1, <1>3 DEF Byte
  <2>2. CASE pic_set_mask(i)
    BY <1>1, <2>1, <2>2, <1>3 DEF pic_set_mask, p
  <2>3. CASE pic_clear_mask(i)
    BY <1>1, <2>1, <2>3, <1>3 DEF pic_clear_mask, p
  <2> QED
    BY <2>2, <2>3
<1>5. /\ [Masks EXCEPT ![p] = value] \in [Pics -> Byte]
      /\ wanted' = [Masks EXCEPT ![p] = value] /\ todo' = <<outb(p, "data", value)>>
      /\ UNCHANGED pic
  BY <1>1, <1>3, <1>4 DEF Do
<1>6. wanted'[p] = value /\ \A q \in Pics \ {p} : wanted'[q] = pic[q].imr
  BY <1>1, <1>3, <1>5
<1>7. Masking'
  <2>1. Steady'
    BY <1>3, <1>5 DEF Steady
  <2>2. todo' = <<outb(p, "data", wanted'[p])>> /\ \A q \in Pics \ {p} : pic'[q].imr = wanted'[q]
    BY <1>5, <1>6
  <2> QED
    BY <1>1, <2>1, <2>2 DEF Masking, outb
<1> QED
  BY <1>4, <1>5, <1>7, DoStep

LEMMA DisableStep == ASSUME IInv, pic_disable PROVE IInv'
<1>1. Steady
  BY IdleMasking DEF pic_disable, Do
<1>2. [p \in Pics |-> Lines] \in [Pics -> Byte]
  BY DEF Byte
<1>3. /\ wanted' = [p \in Pics |-> Lines] /\ UNCHANGED pic
      /\ todo' = <<outb(1, "data", Lines), outb(2, "data", Lines)>>
  BY DEF pic_disable, Do
<1>4. Steady'
  BY <1>1, <1>3 DEF Steady
<1>5. wanted'[1] = Lines /\ wanted'[2] = Lines
  BY <1>3, PicsLines
<1>6. Masking'
  BY <1>3, <1>4, <1>5 DEF Masking, outb
<1> QED
  BY <1>2, <1>6, DoStep DEF pic_disable

LEMMA RemapStep == ASSUME IInv, pic_remap PROVE IInv'
<1> USE PicsLines
<1>1. /\ ~interrupts /\ pic[1].base # Offset[1]
      /\ Do(RemapWrites(pic[1].imr, pic[2].imr), Masks)
  BY DEF pic_remap
<1>2. Idle /\ at = "main" /\ UNCHANGED <<pic, interrupts, at, stack>> /\ wanted' = Masks
      /\ todo' = RemapWrites(pic[1].imr, pic[2].imr)
  BY <1>1 DEF Do, Idle, processor
<1>3. Steady /\ Masks = [p \in Pics |-> pic[p].imr] /\ Masks \in [Pics -> Byte]
  BY <1>2, IdleMasking, MainFacts
<1>4. wanted'[1] = pic[1].imr /\ wanted'[2] = pic[2].imr
  BY <1>2, <1>3
<1>5. todo' = Rest(0)'
  <2>1. \A a, b : [i \in 1 .. 10 |-> RemapWrites(a, b)[i]] = RemapWrites(a, b)
    BY DEF RemapWrites
  <2>2. \A a, b : [i \in 1 .. 10 - 0 |-> RemapWrites(a, b)[i + 0]] = RemapWrites(a, b)
    BY <2>1
  <2> QED
    BY <1>2, <1>4, <2>2 DEF Rest
<1>6. RemappedMaster(0)' /\ RemappedSlave(0)'
  BY <1>1, <1>2, <1>3 DEF Steady, RemappedMaster, RemappedSlave
<1>7. ~Live'
  BY <1>1, <1>2, MainFacts DEF Live
<1>8. Remapping'
  BY <1>5, <1>6, <1>7 DEF Remapping
<1> QED
  BY <1>1, <1>3, <1>8, DoStep

LEMMA StiStep == ASSUME IInv, Sti PROVE IInv'
<1> USE PicsLines
<1>1. /\ at = "main" /\ Idle /\ idt[32] # NoGate /\ pic[1].base = Offset[1] /\ interrupts' = TRUE
      /\ UNCHANGED <<pic, idt, handlers, at, nmi, stack, irq, todo, wanted, history>>
  BY DEF Sti, Idle, main
<1>2. idt = Installed
  BY <1>1 DEF IInv, SetUpInv, Vectors
<1>3. Steady /\ \A p \in Pics : pic[p].imr = wanted[p]
  BY <1>1, IdleMasking
<1>4. pic[2].base = Offset[2]
  <2>1. Offset[1] # BiosBase[1]
    BY DEF Offset, BiosBase
  <2> QED
    BY <1>1, <1>3, <2>1 DEF Steady
<1>5. Masking'
  BY <1>1, <1>3 DEF Masking, Steady, Idle
<1>6. SetUpInv'
  BY <1>1, <1>2, <1>4, <1>5 DEF SetUpInv
<1>7. /\ idt' \in [Vectors -> 0 .. 47 \cup {NoGate}]
      /\ handlers' \in [Irqs -> Irqs \cup {NoHandler}]
  BY <1>1 DEF IInv, IrqTypeOK
<1> QED
  BY <1>1, <1>6, <1>7, MainStep, MainFacts

\* An outb that leaves the controllers in order, and sets up what it should.
LEMMA WriteStep ==
  ASSUME IInv, Outb, NEW P \in Pics, NEW q \in PicType,
         pic' = [pic EXCEPT ![P] = q], q.isr \subseteq pic[P].isr, q.irr \subseteq pic[P].irr,
         Masking' \/ Remapping', Live => q.base = pic[P].base
  PROVE  IInv'
<1> USE PicsLines
<1>1. /\ at = "main"
      /\ UNCHANGED <<idt, handlers, interrupts, at, nmi, stack, irq, wanted, history>>
  BY DEF Outb, processor
<1>2. pic \in [Pics -> PicType] /\ Cascade \notin pic[1].irr /\ wanted \in [Pics -> Byte]
  BY <1>1, MainFacts
<1>3. pic' \in [Pics -> PicType] /\ \A p \in Pics : pic'[p].isr \subseteq pic[p].isr
  BY <1>2
<1>4. Cascade \notin pic'[1].irr
  BY <1>2
<1>5. Live => pic'[1].base = pic[1].base /\ pic'[2].base = pic[2].base
  BY <1>2
<1>6. SetUpInv'
  <2>1. Live <=> Live'
    BY <1>1 DEF Live
  <2> QED
    BY <1>1, <1>5, <2>1 DEF IInv, SetUpInv
<1>7. /\ idt' \in [Vectors -> 0 .. 47 \cup {NoGate}] /\ interrupts' \in BOOLEAN
      /\ handlers' \in [Irqs -> Irqs \cup {NoHandler}]
  BY <1>1 DEF IInv, IrqTypeOK
<1> QED
  BY <1>1, <1>2, <1>3, <1>4, <1>6, <1>7, MainStep

\* A mask function writes its next mask.
LEMMA MaskWriteStep == ASSUME IInv, Outb, Masking PROVE IInv'
<1> USE PicsLines
<1>1. at = "main" /\ todo # <<>> /\ todo' = Tail(todo) /\ UNCHANGED wanted
  BY DEF Outb
<1>2. /\ pic \in [Pics -> PicType] /\ wanted \in [Pics -> Byte]
      /\ Steady
  BY <1>1, MainFacts DEF Masking
<1>3. PICK P \in Pics : /\ Head(todo) = outb(P, "data", wanted[P])
                        /\ \/ /\ Tail(todo) = <<>>
                              /\ \A o \in Pics \ {P} : pic[o].imr = wanted[o]
                           \/ P = 1 /\ Tail(todo) = <<outb(2, "data", wanted[2])>>
  <2>1. /\ \A a : Head(<<a>>) = a /\ Tail(<<a>>) = <<>>
        /\ \A a, b : Head(<<a, b>>) = a /\ Tail(<<a, b>>) = <<b>>
    OBVIOUS
  <2>2. CASE \E p \in Pics : /\ todo = <<outb(p, "data", wanted[p])>>
                             /\ \A o \in Pics \ {p} : pic[o].imr = wanted[o]
    BY <2>1, <2>2
  <2>3. CASE todo = <<outb(1, "data", wanted[1]), outb(2, "data", wanted[2])>>
    BY <2>1, <2>3
  <2> QED
    BY <1>1, <2>2, <2>3 DEF Masking
<1> DEFINE q == Data(pic[P], wanted[P])
<1>4. pic' = [pic EXCEPT ![P] = q]
  <2>1. /\ Head(todo).pic = P /\ Head(todo).port # "command" /\ Head(todo).byte = wanted[P]
    BY <1>3 DEF outb
  <2> QED
    BY <2>1 DEF Outb
<1>5. /\ q \in PicType /\ q.isr = pic[P].isr /\ q.irr = pic[P].irr
      /\ q.base = pic[P].base /\ q.imr = wanted[P] /\ q.icw = 0
  <2>1. pic[P] \in PicType /\ pic[P].icw = 0 /\ wanted[P] \in Byte
    BY <1>2 DEF Steady
  <2> QED
    BY ONLY <2>1, DataFields
<1> HIDE DEF q
<1>6. pic'[P] = q /\ \A o \in Pics \ {P} : pic'[o] = pic[o]
  BY <1>2, <1>4
<1>7. Steady'
  <2>1. \A o \in Pics : pic'[o].icw = pic[o].icw /\ pic'[o].base = pic[o].base
    BY <1>2, <1>5, <1>6 DEF Steady
  <2> QED
    BY <1>2, <2>1 DEF Steady
<1>8. Masking'
  <2>1. CASE /\ Tail(todo) = <<>>
             /\ \A o \in Pics \ {P} : pic[o].imr = wanted[o]
    <3>1. \A o \in Pics : pic'[o].imr = wanted'[o]
      BY <1>1, <1>5, <1>6, <2>1
    <3> QED
      BY <1>1, <1>7, <2>1, <3>1 DEF Masking
  <2>2. CASE P = 1 /\ Tail(todo) = <<outb(2, "data", wanted[2])>>
    <3>1. todo' = <<outb(2, "data", wanted'[2])>>
      BY <1>1, <2>2
    <3>2. \A o \in Pics \ {2} : pic'[o].imr = wanted'[o]
      BY <1>1, <1>5, <1>6, <2>2
    <3> QED
      BY <1>7, <3>1, <3>2 DEF Masking, outb
  <2> QED
    BY <1>3, <2>1, <2>2
<1> QED
  BY <1>4, <1>5, <1>8, WriteStep

\* One outb of pic_remap, the (k + 1)st.
LEMMA RestStep ==
  ASSUME NEW k \in 0 .. 9, todo = Rest(k), todo' = Tail(todo), UNCHANGED wanted
  PROVE  /\ Head(todo) = RemapWrites(wanted[1], wanted[2])[k + 1]
         /\ k < 9 => todo' = Rest(k + 1)'
         /\ k = 9 => todo' = <<>>
<1> DEFINE R == RemapWrites(wanted[1], wanted[2])
           S == { R[i] : i \in 1 .. 10 }
<1>1. /\ Rest(k) \in Seq(S) /\ Len(Rest(k)) = 10 - k
      /\ \A i \in 1 .. 10 - k : Rest(k)[i] = R[i + k]
  <2> HIDE DEF R
  <2>1. Rest(k) = [i \in 1 .. 10 - k |-> R[i + k]]
    BY DEF Rest, R
  <2>2. \A i \in 1 .. 10 - k : R[i + k] \in S
    OBVIOUS
  <2> HIDE DEF S
  <2>3. 10 - k \in Nat
    OBVIOUS
  <2> QED
    BY <2>1, <2>2, <2>3
<1> HIDE DEF R, S
<1>2. Head(todo) = R[k + 1]
  BY <1>1
<1>3. Rest(k) # <<>>
  BY <1>1
<1>4. /\ Tail(Rest(k)) \in Seq(S) /\ Len(Tail(Rest(k))) = 9 - k
      /\ \A i \in 1 .. 9 - k : Tail(Rest(k))[i] = R[i + (k + 1)]
  <2>1. /\ Tail(Rest(k)) \in Seq(S) /\ Len(Tail(Rest(k))) = Len(Rest(k)) - 1
        /\ \A i \in 1 .. Len(Rest(k)) - 1 : Tail(Rest(k))[i] = Rest(k)[i + 1]
    BY <1>1, <1>3, HeadTailProperties
  <2>2. \A i \in 1 .. 9 - k : i + 1 \in 1 .. 10 - k /\ (i + 1) + k = i + (k + 1)
    OBVIOUS
  <2> QED
    BY <1>1, <2>1, <2>2
<1>5. k < 9 => Tail(Rest(k)) = [i \in 1 .. 10 - (k + 1) |-> R[i + (k + 1)]]
  <2>1. Tail(Rest(k)) = [i \in 1 .. Len(Tail(Rest(k))) |-> Tail(Rest(k))[i]]
    <3> DEFINE T == Tail(Rest(k))
    <3>1. T \in Seq(S)
      BY <1>4
    <3> HIDE DEF T
    <3>2. T = [i \in 1 .. Len(T) |-> T[i]]
      BY <3>1
    <3> QED
      BY <3>2 DEF T
  <2>2. 10 - (k + 1) = 9 - k
    OBVIOUS
  <2> QED
    BY <1>4, <2>1, <2>2
<1>6. Rest(k + 1)' = [i \in 1 .. 10 - (k + 1) |-> R[i + (k + 1)]]
  BY DEF Rest, R
<1>7. k = 9 => Tail(Rest(k)) = <<>>
  BY <1>4, EmptySeq
<1> QED
  BY <1>2, <1>5, <1>6, <1>7 DEF R

\* What an outb does to its controller, and what a lemma says of it.
Written(w) ==
  pic' = [pic EXCEPT ![w.pic] =
            IF w.port = "command" THEN Command(@, w.byte) ELSE Data(@, w.byte)]

Becomes(p, q) ==
  /\ pic' = [pic EXCEPT ![p] = q]
  /\ q.isr \subseteq pic[p].isr /\ q.irr \subseteq pic[p].irr

\* The words of pic_remap, and what each makes of its controller.
LEMMA RemapMasterStep ==
  ASSUME NEW k \in {0, 2, 4, 6, 8}, RemappedMaster(k), RemappedSlave(k),
         pic \in [Pics -> PicType], wanted \in [Pics -> Byte], UNCHANGED wanted,
         NEW w, w = RemapWrites(wanted[1], wanted[2])[k + 1],
         Written(w)
  PROVE  \E q \in PicType :
           /\ Becomes(1, q)
           /\ RemappedMaster(k + 1)' /\ RemappedSlave(k + 1)'
<1> USE PicsLines
<1>1. pic[1] \in PicType /\ pic[1].icw \in 0 .. 3
  BY DEF PicType
<1>2. ASSUME NEW q \in PicType, pic' = [pic EXCEPT ![1] = q],
             /\ k = 0 => q.icw = 3
             /\ k = 2 => q.icw = 2
             /\ k = 4 => q.icw = 1
             /\ k = 6 => q.icw = 0
             /\ k = 8 => q.icw = 0 /\ q.imr = wanted[1]
             /\ k = 2 => q.base = Offset[1]
             /\ k # 2 => q.base = pic[1].base
      PROVE  RemappedMaster(k + 1)' /\ RemappedSlave(k + 1)'
  <2>1. pic'[1] = q /\ pic'[2] = pic[2]
    BY <1>2
  <2>2. RemappedSlave(k + 1)'
    BY <2>1 DEF RemappedSlave
  <2>3. RemappedMaster(k + 1)'
    BY <1>2, <2>1 DEF RemappedMaster
  <2> QED
    BY <2>2, <2>3
<1>3. CASE k = 0
  <2> DEFINE q == Command(pic[1], ICW1)
  <2>1. pic' = [pic EXCEPT ![1] = q]
    <3>1. w = outb(1, "command", ICW1)
      BY <1>3 DEF RemapWrites
    <3>2. w.pic = 1 /\ w.port = "command" /\ w.byte = ICW1
      BY <3>1 DEF outb
    <3> QED
      BY <3>2 DEF Written
  <2>2. q \in PicType /\ q.irr = {} /\ q.isr = {} /\ q.base = pic[1].base /\ q.icw = 3
    BY <1>1, ResetFields
  <2> HIDE DEF q
  <2>3. RemappedMaster(k + 1)' /\ RemappedSlave(k + 1)'
    <3>1. /\ k = 0 => q.icw = 3
          /\ k = 2 => q.icw = 2
          /\ k = 4 => q.icw = 1
          /\ k = 6 => q.icw = 0
          /\ k = 8 => q.icw = 0 /\ q.imr = wanted[1]
          /\ k = 2 => q.base = Offset[1]
          /\ k # 2 => q.base = pic[1].base
      BY <1>3, <2>2
    <3> QED
      BY <1>2, <2>1, <2>2, <3>1, Zenon
  <2> QED
    BY <2>1, <2>2, <2>3 DEF Becomes
<1>4. CASE k # 0
  <2> DEFINE b == CASE k = 2 -> Offset[1] [] k = 4 -> {2} [] k = 6 -> ICW4_8086
                    [] k = 8 -> wanted[1]
             q == Data(pic[1], b)
  <2>1. w = outb(1, "data", b)
    BY <1>4 DEF RemapWrites
  <2>2. pic' = [pic EXCEPT ![1] = q]
    <3> HIDE DEF b
    <3>1. w.pic = 1 /\ w.port # "command" /\ w.byte = b
      BY <2>1 DEF outb
    <3> QED
      BY <3>1 DEF Written
  <2>3. b \in Byte
    <3>1. wanted[1] \in Byte /\ Offset[1] \in Byte /\ {2} \in Byte /\ ICW4_8086 \in Byte
      BY DEF Byte, Offset, ICW4_8086, Lines
    <3> QED
      BY <1>4, <3>1
  <2>4. k = 2 => b = Offset[1]
    OBVIOUS
  <2>5. k = 8 => b = wanted[1]
    OBVIOUS
  <2> HIDE DEF b
  <2>6. /\ q \in PicType /\ q.irr = pic[1].irr /\ q.isr = pic[1].isr
        /\ q.base = IF pic[1].icw = 3 THEN b ELSE pic[1].base
        /\ q.imr = IF pic[1].icw = 0 THEN b ELSE pic[1].imr
        /\ q.icw = IF pic[1].icw = 0 THEN 0 ELSE pic[1].icw - 1
    BY <1>1, <2>3, DataFields
  <2>7. pic[1].icw = (CASE k = 2 -> 3 [] k = 4 -> 2 [] k = 6 -> 1 [] k = 8 -> 0)
    BY <1>4 DEF RemappedMaster
  <2> HIDE DEF q
  <2>8. RemappedMaster(k + 1)' /\ RemappedSlave(k + 1)'
    <3>1. /\ k = 0 => q.icw = 3
          /\ k = 2 => q.icw = 2
          /\ k = 4 => q.icw = 1
          /\ k = 6 => q.icw = 0
          /\ k = 8 => q.icw = 0 /\ q.imr = wanted[1]
          /\ k = 2 => q.base = Offset[1]
          /\ k # 2 => q.base = pic[1].base
      BY <1>4, <2>4, <2>5, <2>6, <2>7
    <3> QED
      BY <1>2, <2>2, <2>6, <3>1, Zenon
  <2> QED
    BY <2>2, <2>6, <2>8 DEF Becomes
<1> QED
  BY <1>3, <1>4

\* The controllers after the whole of it.
Remapped ==
  \A p \in Pics : pic[p].icw = 0 /\ pic[p].base = Offset[p] /\ pic[p].imr = wanted[p]

LEMMA RemapSlaveStep ==
  ASSUME NEW k \in {1, 3, 5, 7, 9}, RemappedMaster(k), RemappedSlave(k),
         pic \in [Pics -> PicType], wanted \in [Pics -> Byte], UNCHANGED wanted,
         NEW w, w = RemapWrites(wanted[1], wanted[2])[k + 1],
         Written(w)
  PROVE  \E q \in PicType :
           /\ Becomes(2, q)
           /\ k < 9 => RemappedMaster(k + 1)' /\ RemappedSlave(k + 1)'
           /\ k = 9 => Remapped'
<1> USE PicsLines
<1>1. pic[2] \in PicType /\ pic[2].icw \in 0 .. 3
  BY DEF PicType
<1>2. ASSUME NEW q \in PicType, pic' = [pic EXCEPT ![2] = q],
             /\ k = 1 => q.icw = 3
             /\ k = 3 => q.icw = 2
             /\ k = 5 => q.icw = 1
             /\ k = 7 => q.icw = 0
             /\ k = 9 => q.icw = 0 /\ q.imr = wanted[2]
             /\ k = 3 => q.base = Offset[2]
             /\ k # 3 => q.base = pic[2].base
      PROVE  /\ k < 9 => RemappedMaster(k + 1)' /\ RemappedSlave(k + 1)'
             /\ k = 9 => Remapped'
  <2>1. pic'[2] = q /\ pic'[1] = pic[1]
    BY <1>2
  <2>2. k < 9 => RemappedMaster(k + 1)'
    BY <2>1 DEF RemappedMaster
  <2>3. k < 9 => RemappedSlave(k + 1)'
    BY <1>2, <2>1 DEF RemappedSlave
  <2>4. k = 9 => Remapped'
    <3>1. k = 9 => /\ pic[1].icw = 0 /\ pic[1].base = Offset[1] /\ pic[1].imr = wanted[1]
                   /\ pic[2].base = Offset[2]
      BY DEF RemappedMaster, RemappedSlave
    <3> QED
      BY <1>2, <2>1, <3>1 DEF Remapped
  <2> QED
    BY <2>2, <2>3, <2>4
<1>3. CASE k = 1
  <2> DEFINE q == Command(pic[2], ICW1)
  <2>1. pic' = [pic EXCEPT ![2] = q]
    <3>1. w = outb(2, "command", ICW1)
      BY <1>3 DEF RemapWrites
    <3>2. w.pic = 2 /\ w.port = "command" /\ w.byte = ICW1
      BY <3>1 DEF outb
    <3> QED
      BY <3>2 DEF Written
  <2>2. q \in PicType /\ q.irr = {} /\ q.isr = {} /\ q.base = pic[2].base /\ q.icw = 3
    BY <1>1, ResetFields
  <2> HIDE DEF q
  <2>3. /\ k < 9 => RemappedMaster(k + 1)' /\ RemappedSlave(k + 1)'
        /\ k = 9 => Remapped'
    <3>1. /\ k = 1 => q.icw = 3
          /\ k = 3 => q.icw = 2
          /\ k = 5 => q.icw = 1
          /\ k = 7 => q.icw = 0
          /\ k = 9 => q.icw = 0 /\ q.imr = wanted[2]
          /\ k = 3 => q.base = Offset[2]
          /\ k # 3 => q.base = pic[2].base
      BY <1>3, <2>2
    <3> QED
      BY <1>2, <2>1, <2>2, <3>1, Zenon
  <2> QED
    BY <2>1, <2>2, <2>3 DEF Becomes
<1>4. CASE k # 1
  <2> DEFINE b == CASE k = 3 -> Offset[2] [] k = 5 -> {1} [] k = 7 -> ICW4_8086
                    [] k = 9 -> wanted[2]
             q == Data(pic[2], b)
  <2>1. w = outb(2, "data", b)
    BY <1>4 DEF RemapWrites
  <2>2. pic' = [pic EXCEPT ![2] = q]
    <3> HIDE DEF b
    <3>1. w.pic = 2 /\ w.port # "command" /\ w.byte = b
      BY <2>1 DEF outb
    <3> QED
      BY <3>1 DEF Written
  <2>3. b \in Byte
    <3>1. wanted[2] \in Byte /\ Offset[2] \in Byte /\ {1} \in Byte /\ ICW4_8086 \in Byte
      BY DEF Byte, Offset, ICW4_8086, Lines
    <3> QED
      BY <1>4, <3>1
  <2>4. k = 3 => b = Offset[2]
    OBVIOUS
  <2>5. k = 9 => b = wanted[2]
    OBVIOUS
  <2> HIDE DEF b
  <2>6. /\ q \in PicType /\ q.irr = pic[2].irr /\ q.isr = pic[2].isr
        /\ q.base = IF pic[2].icw = 3 THEN b ELSE pic[2].base
        /\ q.imr = IF pic[2].icw = 0 THEN b ELSE pic[2].imr
        /\ q.icw = IF pic[2].icw = 0 THEN 0 ELSE pic[2].icw - 1
    BY <1>1, <2>3, DataFields
  <2>7. pic[2].icw = (CASE k = 3 -> 3 [] k = 5 -> 2 [] k = 7 -> 1 [] k = 9 -> 0)
    BY <1>4 DEF RemappedSlave
  <2> HIDE DEF q
  <2>8. /\ k < 9 => RemappedMaster(k + 1)' /\ RemappedSlave(k + 1)'
        /\ k = 9 => Remapped'
    <3>1. /\ k = 1 => q.icw = 3
          /\ k = 3 => q.icw = 2
          /\ k = 5 => q.icw = 1
          /\ k = 7 => q.icw = 0
          /\ k = 9 => q.icw = 0 /\ q.imr = wanted[2]
          /\ k = 3 => q.base = Offset[2]
          /\ k # 3 => q.base = pic[2].base
      BY <1>4, <2>4, <2>5, <2>6, <2>7
    <3> QED
      BY <1>2, <2>2, <2>6, <3>1, Zenon
  <2> QED
    BY <2>2, <2>6, <2>8 DEF Becomes
<1> QED
  BY <1>3, <1>4

LEMMA RemapWriteStep == ASSUME IInv, Outb, Remapping PROVE IInv'
<1>1. PICK k \in 0 .. 9 : ~Live /\ todo = Rest(k) /\ RemappedMaster(k) /\ RemappedSlave(k)
  BY DEF Remapping
<1> DEFINE w == Head(todo)
<1>2. /\ at = "main" /\ todo' = Tail(todo) /\ UNCHANGED <<wanted, interrupts, stack>>
      /\ Written(w)
  BY DEF Outb, processor, Written
<1>3. /\ w = RemapWrites(wanted[1], wanted[2])[k + 1]
      /\ k < 9 => todo' = Rest(k + 1)'
      /\ k = 9 => todo' = <<>>
  BY <1>1, <1>2, RestStep
<1>4. pic \in [Pics -> PicType] /\ wanted \in [Pics -> Byte]
  BY <1>2, MainFacts
<1>5. ~Live'
  BY <1>1, <1>2 DEF Live
<1>6. /\ k < 9 /\ RemappedMaster(k + 1)' /\ RemappedSlave(k + 1)' => Remapping'
      /\ k = 9 /\ Remapped' => Masking'
  <2>1. k < 9 => k + 1 \in 0 .. 9
    OBVIOUS
  <2> QED
    BY <1>3, <1>5, <2>1 DEF Remapping, Remapped, Masking, Steady
<1> HIDE DEF w
<1>7. CASE k \in {0, 2, 4, 6, 8}
  <2>1. PICK q \in PicType :
          /\ Becomes(1, q)
          /\ RemappedMaster(k + 1)' /\ RemappedSlave(k + 1)'
    BY <1>1, <1>2, <1>3, <1>4, <1>7, RemapMasterStep
  <2>2. (Masking' \/ Remapping') /\ ~Live /\ 1 \in Pics
    BY <1>1, <1>6, <1>7, <2>1, PicsLines
  <2> QED
    BY <2>1, <2>2, WriteStep, Zenon DEF Becomes
<1>8. CASE k \in {1, 3, 5, 7, 9}
  <2>1. PICK q \in PicType :
          /\ Becomes(2, q)
          /\ k < 9 => RemappedMaster(k + 1)' /\ RemappedSlave(k + 1)'
          /\ k = 9 => Remapped'
    BY <1>1, <1>2, <1>3, <1>4, <1>8, RemapSlaveStep
  <2>2. (Masking' \/ Remapping') /\ ~Live /\ 2 \in Pics
    BY <1>1, <1>6, <1>8, <2>1, PicsLines
  <2> QED
    BY <2>1, <2>2, WriteStep, Zenon DEF Becomes
<1> QED
  BY <1>7, <1>8

-----------------------------------------------------------------------------
(* The theorems.                                                           *)

LEMMA IInvNext == ASSUME IInv, [Next]_vars PROVE IInv'
<1>1. CASE UNCHANGED vars
  <2>1. UNCHANGED <<pic, idt, handlers, interrupts, at, nmi, stack, irq, todo, wanted,
                    requests, spurious, calls, mistakes>>
    BY <1>1 DEF vars, processor, main, history
  <2>2. IrqTypeOK' /\ HistoryOK'
    BY <2>1 DEF IInv, IrqTypeOK, HistoryOK
  <2>3. SetUpInv'
    BY <2>1, SetUpSame DEF IInv, Live
  <2>4. FrameInv'
    BY <2>1, FramesSame DEF IInv, FrameInv
  <2>5. ServiceInv'
    BY <2>1, ServiceKept DEF IInv, ServiceInv, Service
  <2> QED
    BY <2>2, <2>3, <2>4, <2>5 DEF IInv
<1>2. CASE Main
  <2>1. CASE idt_install
    BY <2>1, InstallStep
  <2>2. CASE timer_install
    BY <2>2, HandlersStep, 0 \in Irqs DEF timer_install, Irqs
  <2>3. CASE pic_remap
    BY <2>3, RemapStep
  <2>4. CASE pic_disable
    BY <2>4, DisableStep
  <2>5. CASE Outb
    BY <2>5, MaskWriteStep, RemapWriteStep DEF IInv, SetUpInv
  <2>6. CASE Sti
    BY <2>6, StiStep
  <2>7. ASSUME NEW i \in Devices, irq_register_handler(i) \/ irq_unregister_handler(i)
        PROVE  IInv'
    BY <2>7, HandlersStep, PicsLines
  <2>8. ASSUME NEW i \in Maskable, pic_set_mask(i) \/ pic_clear_mask(i) PROVE IInv'
    <3>1. i \in Irqs
      BY InterruptsAssumption
    <3> QED
      BY <2>8, <3>1, MaskStep
  <2> QED
    BY <1>2, <2>1, <2>2, <2>3, <2>4, <2>5, <2>6, <2>7, <2>8 DEF Main
<1>3. CASE Deliver
  BY <1>3, DeliverStep
<1>4. CASE Return
  BY <1>4, IsrHandlerStep, IrqHandlerStep, HandleStep, SlaveEoiStep, MasterEoiStep, LeaveStep
     DEF Return
<1>5. ASSUME NEW i \in Devices, Raise(i) PROVE IInv'
  BY <1>5, RaiseStep
<1>6. ASSUME NEW p \in Pics, Spurious(p) PROVE IInv'
  BY <1>6, SpuriousStep
<1>7. ASSUME NEW v \in Faults, Fault(v) PROVE IInv'
  BY <1>7, FaultStep
<1> QED
  BY <1>1, <1>2, <1>3, <1>4, <1>5, <1>6, <1>7 DEF Next

\* The inductive invariant holds in every reachable state.
THEOREM IInvHolds == Spec => []IInv
<1>1. IInv /\ [Next]_vars => IInv'
  BY IInvNext
<1> QED
  BY IInvInit, <1>1, PTL DEF Spec

\* The state keeps its shape, and the flag is off whenever Main is not running: no
\* interrupt comes into a handler, whatever number the C handlers read.
THEOREM IrqTypeCorrect == Spec => []IrqTypeOK
<1>1. IInv => IrqTypeOK
  BY DEF IInv
<1> QED
  BY IInvHolds, <1>1, PTL

\* Every interrupt, spurious ones included, is over when Main goes on: its frame is
\* off the stack, and the only lines that wait for an EOI are those whose interrupt
\* irq_handler, which has no pointer to the frame, took for another one or for none.
THEOREM InterruptLeavesNoTraceHolds == Spec => []InterruptLeavesNoTrace
<1>1. IInv => InterruptLeavesNoTrace
  <2> SUFFICES ASSUME IInv, at = "main"
               PROVE  stack = <<>> /\ \A p \in Pics : pic[p].isr \subseteq Left(p)
    BY DEF InterruptLeavesNoTrace
  <2> QED
    BY MainFacts, PicsLines DEF Quiet
<1> QED
  BY IInvHolds, <1>1, PTL

\* Between two calls the masks are what was asked for, through pic_remap's reset of
\* the controllers and with interrupts between the read and the write of a mask.
THEOREM MasksAsAskedHolds == Spec => []MasksAsAsked
<1>1. IInv => MasksAsAsked
  <2> SUFFICES ASSUME IInv, todo = <<>> PROVE Masks = wanted
    BY DEF MasksAsAsked
  <2>1. \A p \in Pics : pic[p].imr = wanted[p]
    BY NothingLeft
  <2>2. wanted = [p \in Pics |-> wanted[p]]
    BY DEF IInv, IrqTypeOK
  <2> QED
    BY <2>1, <2>2 DEF Masks
<1> QED
  BY IInvHolds, <1>1, PTL

\* The stubs agree with the processor on which exceptions have a code, but for the
\* alignment check: whatever came on top of what, the way back misses the interrupted
\* code for that exception only.
THEOREM ReturnsWhereInterruptedHolds == Spec => ReturnsWhereInterrupted
<1>1. ASSUME IInv, [Next]_vars, at # "astray", at' = "astray" PROVE Top.number = 17
  <2>1. CASE Leave
    BY <1>1, <2>1, LeaveStep
  <2>2. CASE UNCHANGED at
    BY <1>1, <2>2
  <2>3. CASE at' \in {"isr_handler", "irq_handler", "handler", "eoi", "eoi master", "leave",
                      "stopped"}
    BY <1>1, <2>3
  <2> QED
    BY <1>1, <2>1, <2>2, <2>3 DEF Next, Return, Main, Deliver, Spurious, Fault, Raise, Enter,
       isr_handler, irq_handler, Handle, SlaveEoi, MasterEoi, idt_install, timer_install,
       irq_register_handler, irq_unregister_handler, pic_remap, pic_disable, pic_set_mask,
       pic_clear_mask, Do, Outb, Sti, processor, vars
<1>2. IInv /\ [Next]_vars => [at # "astray" /\ at' = "astray" => Top.number = 17]_vars
  BY <1>1
<1> QED
  BY IInvHolds, <1>2, PTL DEF Spec, ReturnsWhereInterrupted

-----------------------------------------------------------------------------
(* The calls.                                                              *)

CallInv ==
  /\ \A i \in Irqs : handlers[i] \in {i, NoHandler}
  /\ Service = "handler" => handlers[irq] # NoHandler
  /\ CalledOnlyOnRequest

\* Some interrupt was taken for that of irq i.
MistakenFor(i) == \E m \in mistakes : m[2] = 32 + i

\* The spurious interrupts irq i may be called for.
Excess(i) == CASE i = 7 -> spurious[1] [] i = 15 -> spurious[2] [] OTHER -> 0

LEMMA CallTerms ==
  ASSUME IInv, NEW i \in Devices
  PROVE  /\ calls[i] \in Nat /\ requests[i] \in Nat /\ Excess(i) \in Nat
         /\ Pending(i) \in 0 .. 1 /\ Entered(i) \in 0 .. 1
<1>1. calls[i] \in Nat /\ requests[i] \in Nat /\ spurious[1] \in Nat /\ spurious[2] \in Nat
  BY PicsLines DEF IInv, IrqTypeOK, HistoryOK
<1> QED
  BY <1>1 DEF Excess, Pending, Entered

LEMMA Counted ==
  CalledOnlyOnRequest <=>
    \A i \in Devices : MistakenFor(i) \/ calls[i] + Pending(i) + Entered(i) <= requests[i] + Excess(i)
BY DEF CalledOnlyOnRequest, MistakenFor, Excess

\* Of the terms of CalledOnlyOnRequest nothing grows.
LEMMA CalledNoMore ==
  ASSUME IInv, IInv', CalledOnlyOnRequest, UNCHANGED <<calls, requests, spurious>>,
         mistakes \subseteq mistakes',
         \A i \in Devices : Pending(i)' + Entered(i)' <= Pending(i) + Entered(i) \/ MistakenFor(i)'
  PROVE  CalledOnlyOnRequest'
<1> SUFFICES ASSUME NEW i \in Devices, ~MistakenFor(i)'
             PROVE  calls'[i] + Pending(i)' + Entered(i)' <= requests'[i] + Excess(i)'
  BY Counted DEF CalledOnlyOnRequest, MistakenFor, Excess
<1>1. ~MistakenFor(i)
  BY DEF MistakenFor
<1>2. calls[i] + Pending(i) + Entered(i) <= requests[i] + Excess(i)
  BY <1>1, Counted
<1>3. Excess(i)' = Excess(i)
  BY DEF Excess
<1>4. /\ calls[i] \in Nat /\ requests[i] \in Nat /\ Excess(i) \in Nat
      /\ Pending(i) \in 0 .. 1 /\ Entered(i) \in 0 .. 1
  BY CallTerms
<1>5. Pending(i)' \in 0 .. 1 /\ Entered(i)' \in 0 .. 1
  BY DEF Pending, Entered
<1>6. Pending(i)' + Entered(i)' <= Pending(i) + Entered(i)
  OBVIOUS
<1> QED
  BY <1>2, <1>3, <1>4, <1>5, <1>6

\* Fewer requests pending, and the service where it was or past the handler.
LEMMA PendingLess ==
  ASSUME NEW i \in Devices, \A p \in Pics : pic'[p].irr \subseteq pic[p].irr
  PROVE  Pending(i)' <= Pending(i)
<1>1. LineOf(i) \in pic'[PicOf(i)].irr => LineOf(i) \in pic[PicOf(i)].irr
  BY PicsLines
<1> QED
  BY <1>1 DEF Pending

LEMMA EnteredSame ==
  ASSUME UNCHANGED irq, Service' = Service, Service \in IrqPlaces => stack'[1] = stack[1],
         NEW i
  PROVE  Entered(i)' = Entered(i)
BY DEF Entered, IrqPlaces

LEMMA NotEntered ==
  ASSUME Service \notin {"irq_handler", "handler"}, NEW i PROVE Entered(i) = 0
BY DEF Entered

LEMMA CalledStays ==
  ASSUME IInv, IInv', CallInv, UNCHANGED <<calls, requests, spurious, mistakes, handlers, irq>>,
         \A p \in Pics : pic'[p].irr \subseteq pic[p].irr,
         \/ Service' = Service /\ (Service \in IrqPlaces => stack'[1] = stack[1])
         \/ Service' \notin {"irq_handler", "handler"}
  PROVE  CallInv'
<1>1. ASSUME NEW i \in Devices PROVE Pending(i)' + Entered(i)' <= Pending(i) + Entered(i)
  <2>1. Pending(i)' <= Pending(i) /\ Pending(i) \in 0 .. 1 /\ Entered(i) \in 0 .. 1
    BY PendingLess, CallTerms
  <2>2. Pending(i)' \in 0 .. 1
    BY DEF Pending
  <2>3. Entered(i)' = Entered(i) \/ Entered(i)' = 0
    <3>1. CASE Service' = Service /\ (Service \in IrqPlaces => stack'[1] = stack[1])
      BY <3>1, EnteredSame
    <3>2. CASE Service' \notin {"irq_handler", "handler"}
      BY <3>2 DEF Entered
    <3> QED
      BY <3>1, <3>2
  <2> QED
    BY <2>1, <2>2, <2>3
<1>2. CalledOnlyOnRequest'
  BY <1>1, CalledNoMore DEF CallInv
<1> QED
  BY <1>2 DEF CallInv

\* A request adds to what is pending and to what may be called.
LEMMA CalledRaise == ASSUME IInv, CallInv, NEW j \in Devices, Raise(j) PROVE CallInv'
<1> USE PicsLines
<1>1. /\ pic \in [Pics -> PicType] /\ requests \in [Irqs -> Nat] /\ j \in Irqs
      /\ requests' = [requests EXCEPT ![j] = @ + 1]
      /\ UNCHANGED <<handlers, stack, at, irq, spurious, calls, mistakes>>
  BY DEF Raise, IInv, IrqTypeOK, HistoryOK, processor
<1>2. Service' = Service
  BY <1>1 DEF Service
<1>3. ASSUME NEW i \in Devices, ~MistakenFor(i)'
      PROVE  calls'[i] + Pending(i)' + Entered(i)' <= requests'[i] + Excess(i)'
  <2>1. calls[i] + Pending(i) + Entered(i) <= requests[i] + Excess(i)
    <3>1. ~MistakenFor(i)
      BY <1>1, <1>3 DEF MistakenFor
    <3> QED
      BY <3>1, Counted DEF CallInv
  <2>2. Entered(i)' = Entered(i) /\ Excess(i)' = Excess(i) /\ calls'[i] = calls[i]
    BY <1>1, <1>2, EnteredSame DEF Excess
  <2>3. /\ calls[i] \in Nat /\ requests[i] \in Nat /\ Excess(i) \in Nat
        /\ Pending(i) \in 0 .. 1 /\ Entered(i) \in 0 .. 1
    BY CallTerms
  <2>4. Pending(i)' \in 0 .. 1
    BY DEF Pending
  <2>5. CASE i = j
    <3>1. requests'[i] = requests[i] + 1
      BY <1>1, <2>5
    <3> QED
      BY <2>1, <2>2, <2>3, <2>4, <3>1
  <2>6. CASE i # j
    <3>1. requests'[i] = requests[i]
      BY <1>1, <2>6
    <3>2. Pending(i)' = Pending(i)
      <4>1. ~(PicOf(i) = PicOf(j) /\ LineOf(i) = LineOf(j))
        BY <2>6 DEF Irqs, PicOf, LineOf
      <4> DEFINE P == PicOf(j)
                 l == LineOf(j)
                 Q == PicOf(i)
                 m == LineOf(i)
      <4>2. pic' = [pic EXCEPT ![P].irr = @ \cup {l}] /\ P \in Pics /\ Q \in Pics
        BY DEF Raise
      <4> HIDE DEF P, l, Q, m
      <4>3. m \in pic'[Q].irr <=> m \in pic[Q].irr
        BY <1>1, <4>1, <4>2 DEF PicType, P, l, Q, m
      <4> QED
        BY <4>3 DEF Pending, Q, m
    <3> QED
      BY <2>1, <2>2, <3>1, <3>2
  <2> QED
    BY <2>5, <2>6
<1>4. CalledOnlyOnRequest'
  BY <1>3 DEF CalledOnlyOnRequest, MistakenFor, Excess
<1> QED
  BY <1>1, <1>2, <1>4 DEF CallInv

\* A request that becomes an interrupt moves from pending to entered.
LEMMA CalledDeliver == ASSUME IInv, IInv', CallInv, Deliver PROVE CallInv'
<1> USE PicsLines
<1>1. PICK j \in Irqs : Accepted(j)
  BY DeliverStep
<1>2. at = "main" /\ UNCHANGED <<handlers, calls, requests, spurious, mistakes>>
  BY DEF Deliver, history, IInv, IrqTypeOK
<1>3. ASSUME NEW i \in Devices PROVE Pending(i)' + Entered(i)' <= Pending(i) + Entered(i)
  <2>1. /\ Pending(i) \in 0 .. 1 /\ Pending(i)' \in 0 .. 1 /\ Entered(i)' \in 0 .. 1
        /\ Entered(i) = 0
    BY <1>2, MainFacts DEF Pending, Entered
  <2>2. CASE i = j
    BY <1>1, <2>1, <2>2 DEF Accepted, Pending
  <2>3. CASE i # j
    <3>1. Entered(i)' = 0
      <4>1. 32 + j # 32 + i
        BY <2>3 DEF Irqs
      <4> QED
        BY <1>1, <4>1 DEF Accepted, Entered
    <3>2. Pending(i)' <= Pending(i)
      BY <1>1, PendingLess DEF Accepted
    <3> QED
      BY <2>1, <3>1, <3>2
  <2> QED
    BY <2>2, <2>3
<1>4. CalledOnlyOnRequest'
  BY <1>2, <1>3, CalledNoMore DEF CallInv
<1> QED
  BY <1>1, <1>2, <1>4 DEF CallInv, Accepted

\* A spurious interrupt may be taken for a request of the last line of its PIC.
LEMMA CalledSpurious ==
  ASSUME IInv, CallInv, NEW p \in Pics, Spurious(p) PROVE CallInv'
<1> USE PicsLines
<1>1. /\ Service' = "irq_handler" /\ stack'[1].number = 32 + (IF p = 1 THEN 7 ELSE 15)
      /\ \A q \in Pics : pic'[q].irr \subseteq pic[q].irr
  BY SpuriousStep
<1>2. /\ at = "main" /\ UNCHANGED <<handlers, calls, requests, mistakes>>
      /\ spurious' = [spurious EXCEPT ![p] = @ + 1] /\ spurious \in [Pics -> Nat]
  BY DEF Spurious, IInv, IrqTypeOK, HistoryOK
<1>3. ASSUME NEW i \in Devices, ~MistakenFor(i)'
      PROVE  calls'[i] + Pending(i)' + Entered(i)' <= requests'[i] + Excess(i)'
  <2>1. calls[i] + Pending(i) + Entered(i) <= requests[i] + Excess(i)
    <3>1. ~MistakenFor(i)
      BY <1>2, <1>3 DEF MistakenFor
    <3> QED
      BY <3>1, Counted DEF CallInv
  <2>2. /\ calls[i] \in Nat /\ requests[i] \in Nat /\ Excess(i) \in Nat
        /\ Pending(i) \in 0 .. 1 /\ Entered(i) = 0
        /\ calls'[i] = calls[i] /\ requests'[i] = requests[i]
    BY <1>2, CallTerms, MainFacts, NotEntered
  <2>3. Pending(i)' \in 0 .. 1 /\ Pending(i)' <= Pending(i) /\ Entered(i)' \in 0 .. 1
    BY <1>1, PendingLess DEF Pending, Entered
  <2>4. /\ spurious[1] \in Nat /\ spurious[2] \in Nat
        /\ spurious'[1] = spurious[1] + (IF p = 1 THEN 1 ELSE 0)
        /\ spurious'[2] = spurious[2] + (IF p = 2 THEN 1 ELSE 0)
    <3>1. spurious[1] \in Nat /\ spurious[2] \in Nat
      BY <1>2
    <3> QED
      BY <1>2, <3>1
  <2>5. Excess(i)' \in Nat /\ Excess(i)' >= Excess(i) + Entered(i)'
    <3>1. Entered(i)' = 1 => i = (IF p = 1 THEN 7 ELSE 15)
      BY <1>1 DEF Entered, Irqs
    <3>2. Excess(i)' = CASE i = 7 -> spurious'[1] [] i = 15 -> spurious'[2] [] OTHER -> 0
      BY DEF Excess
    <3>3. CASE i = 7
      BY <2>3, <2>4, <3>1, <3>2, <3>3 DEF Excess
    <3>4. CASE i = 15
      BY <2>3, <2>4, <3>1, <3>2, <3>4 DEF Excess
    <3>5. CASE i # 7 /\ i # 15
      BY <2>3, <2>4, <3>1, <3>2, <3>5 DEF Excess
    <3> QED
      BY <3>3, <3>4, <3>5
  <2> QED
    BY <2>1, <2>2, <2>3, <2>5
<1>4. CalledOnlyOnRequest'
  BY <1>3 DEF CalledOnlyOnRequest, MistakenFor, Excess
<1> QED
  BY <1>1, <1>2, <1>4 DEF CallInv

\* irq_handler calls the handler of the irq served, or that of a mistaken one.
LEMMA CalledIrqHandler == ASSUME IInv, IInv', CallInv, irq_handler PROVE CallInv'
<1> USE PicsLines
<1>1. PICK n \in Found :
        /\ \/ /\ n \in 32 .. 47 /\ irq' = n - 32
              /\ at' = IF handlers[irq'] # NoHandler THEN "handler" ELSE "eoi"
           \/ n \notin 32 .. 47 /\ at' = "leave"
        /\ mistakes' = mistakes \cup ({<<Top.number, n>>} \ {<<n, n>>})
  BY DEF irq_handler
<1>2. /\ at = "irq_handler" /\ at \in IrqPlaces
      /\ UNCHANGED <<pic, handlers, stack, calls, requests, spurious>>
  BY DEF irq_handler, IrqPlaces
<1>3. /\ Len(stack) = 1 /\ stack[1].number \in 32 .. 47 /\ Service = at /\ Top = stack[1]
      /\ stack # <<>>
  <2>1. Len(stack) = 1 => Len(stack) # 0
    OBVIOUS
  <2> QED
    BY <1>2, <2>1, InService
<1>4. Service' = at'
  BY <1>2, <1>3 DEF Service
<1>5. ASSUME NEW i \in Devices
      PROVE  Pending(i)' + Entered(i)' <= Pending(i) + Entered(i) \/ MistakenFor(i)'
  <2>1. Pending(i)' = Pending(i) /\ Pending(i) \in 0 .. 1 /\ i \in Irqs
    BY <1>2 DEF Pending
  <2>2. Entered(i) = (IF stack[1].number = 32 + i THEN 1 ELSE 0)
    BY <1>2, <1>3 DEF Entered
  <2>3. Entered(i)' \in 0 .. 1 /\ (Entered(i)' = 1 => n = 32 + i)
    <3>1. Entered(i)' \in 0 .. 1
      BY DEF Entered
    <3>2. Entered(i)' = 1 => at' = "handler" /\ irq' = i
      BY <1>1, <1>4 DEF Entered
    <3>3. at' = "handler" => n \in 32 .. 47 /\ irq' = n - 32
      BY <1>1
    <3>4. n \in 32 .. 47 /\ i = n - 32 => n = 32 + i
      OBVIOUS
    <3> QED
      BY <3>1, <3>2, <3>3, <3>4
  <2>4. CASE n = stack[1].number
    BY <2>1, <2>2, <2>3, <2>4
  <2>5. CASE n # stack[1].number
    <3>1. <<Top.number, n>> \in mistakes'
      BY <1>1, <1>3, <2>5
    <3>2. n = 32 + i => MistakenFor(i)'
      BY <3>1 DEF MistakenFor
    <3>3. Entered(i)' = 0 => Pending(i)' + Entered(i)' <= Pending(i) + Entered(i)
      BY <2>1, <2>2
    <3> QED
      BY <2>3, <3>2, <3>3
  <2> QED
    BY <2>4, <2>5
<1>6. CalledOnlyOnRequest'
  <2>1. mistakes \subseteq mistakes'
    BY <1>1
  <2> QED
    BY <1>2, <1>5, <2>1, CalledNoMore DEF CallInv
<1>7. Service' = "handler" => handlers'[irq'] # NoHandler
  BY <1>1, <1>2, <1>4
<1> QED
  BY <1>2, <1>6, <1>7 DEF CallInv

\* A call moves the interrupt from entered to called, for its own device.
LEMMA CalledHandle == ASSUME IInv, CallInv, Handle PROVE CallInv'
<1> USE PicsLines
<1>1. /\ at = "handler" /\ at \in IrqPlaces
      /\ UNCHANGED <<pic, handlers, requests, spurious, mistakes>>
      /\ calls' = [calls EXCEPT ![handlers[irq]] = @ + 1] /\ calls \in [Irqs -> Nat]
  BY DEF Handle, IrqPlaces, IInv, IrqTypeOK
<1>2. Service = "handler" /\ Service' = "eoi"
  BY HandleStep
<1>3. irq \in Irqs /\ handlers[irq] = irq
  BY <1>2 DEF IInv, ServiceInv, CallInv
<1>4. calls' = [calls EXCEPT ![irq] = @ + 1]
  BY <1>1, <1>3
<1>5. ASSUME NEW i \in Devices, ~MistakenFor(i)'
      PROVE  calls'[i] + Pending(i)' + Entered(i)' <= requests'[i] + Excess(i)'
  <2>1. calls[i] + Pending(i) + Entered(i) <= requests[i] + Excess(i)
    <3>1. ~MistakenFor(i)
      BY <1>1, <1>5 DEF MistakenFor
    <3> QED
      BY <3>1, Counted DEF CallInv
  <2>2. /\ calls[i] \in Nat /\ requests[i] \in Nat /\ Excess(i) \in Nat /\ Pending(i) \in 0 .. 1
        /\ requests'[i] = requests[i] /\ Excess(i)' = Excess(i) /\ Pending(i)' = Pending(i)
    BY <1>1, CallTerms DEF Excess, Pending
  <2>3. Entered(i)' = 0 /\ Entered(i) = (IF irq = i THEN 1 ELSE 0)
    BY <1>2 DEF Entered
  <2>4. calls'[i] = calls[i] + (IF irq = i THEN 1 ELSE 0)
    BY <1>1, <1>4, <2>2
  <2> QED
    BY <2>1, <2>2, <2>3, <2>4
<1>6. CalledOnlyOnRequest'
  BY <1>5 DEF CalledOnlyOnRequest, MistakenFor, Excess
<1> QED
  BY <1>1, <1>2, <1>6 DEF CallInv

\* A write to a port of a PIC makes no request.
LEMMA WriteKeeps ==
  ASSUME NEW p \in PicType, NEW b
  PROVE  Command(p, b).irr \subseteq p.irr /\ Data(p, b).irr \subseteq p.irr
<1>1. Command(p, b).irr \subseteq p.irr
  BY DEF Command, PicType
<1>2. Data(p, b).irr = p.irr
  <2>1. CASE p.icw = 3
    BY <2>1 DEF Data, PicType
  <2>2. CASE p.icw \in 1 .. 2
    BY <2>2 DEF Data, PicType
  <2>3. CASE p.icw = 0
    BY <2>3 DEF Data, PicType
  <2> QED
    BY <2>1, <2>2, <2>3 DEF PicType
<1> QED
  BY <1>1, <1>2

LEMMA CalledOutb == ASSUME IInv, IInv', CallInv, Outb PROVE CallInv'
<1> DEFINE w == Head(todo)
<1>1. /\ UNCHANGED <<at, stack, irq, handlers, calls, requests, spurious, mistakes>>
      /\ Written(w) /\ pic \in [Pics -> PicType]
  BY DEF Outb, Written, processor, history, IInv, IrqTypeOK
<1> HIDE DEF w
<1>2. ASSUME NEW p \in Pics PROVE pic'[p].irr \subseteq pic[p].irr
  <2>1. pic[p] \in PicType
    BY <1>1
  <2>2. \/ pic'[p] = pic[p]
        \/ pic'[p] = Command(pic[p], w.byte)
        \/ pic'[p] = Data(pic[p], w.byte)
    BY <1>1 DEF Written
  <2> QED
    BY <2>1, <2>2, WriteKeeps
<1>3. Service' = Service
  BY <1>1 DEF Service
<1> QED
  BY <1>1, <1>2, <1>3, CalledStays

\* Main has no interrupt to answer, and registers for each irq its own handler.
LEMMA CalledMain == ASSUME IInv, IInv', CallInv, Main PROVE CallInv'
<1>1. CASE Outb
  BY <1>1, CalledOutb
<1>2. CASE ~Outb
  <2>1. at = "main" /\ UNCHANGED <<pic, at, stack, irq, calls, requests, spurious, mistakes>>
    BY <1>2 DEF Main, idt_install, timer_install, irq_register_handler, irq_unregister_handler,
          pic_remap, pic_disable, pic_set_mask, pic_clear_mask, Do, Sti, Idle, processor, history
  <2>2. Service = "main" /\ Service' = "main"
    BY <2>1, MainFacts DEF Service
  <2>3. \/ UNCHANGED handlers
        \/ \E i \in Irqs : irq_register_handler(i) \/ irq_unregister_handler(i)
    <3>1. 0 \in Irqs /\ \A i \in Devices : i \in Irqs
      BY PicsLines DEF Irqs
    <3> QED
      BY <1>2, <3>1 DEF Main, idt_install, timer_install, pic_remap, pic_disable,
            pic_set_mask, pic_clear_mask, Do, Sti
  <2>4. \A i \in Irqs : handlers'[i] \in {i, NoHandler}
    BY <2>3 DEF CallInv, irq_register_handler, irq_unregister_handler, IInv, IrqTypeOK
  <2>5. CalledOnlyOnRequest'
    BY <2>1, <2>2 DEF CallInv, CalledOnlyOnRequest, Pending, Entered
  <2> QED
    BY <2>2, <2>4, <2>5 DEF CallInv
<1> QED
  BY <1>1, <1>2

LEMMA CallInvNext == ASSUME IInv, CallInv, [Next]_vars PROVE CallInv'
<1> USE PicsLines
<1>1. IInv'
  BY IInvNext
<1>2. CASE Main
  BY <1>1, <1>2, CalledMain
<1>3. CASE Deliver
  BY <1>1, <1>3, CalledDeliver
<1>4. CASE isr_handler
  <2>1. UNCHANGED <<pic, handlers, irq, stack, calls, requests, spurious, mistakes>>
    BY <1>4 DEF isr_handler, history
  <2> QED
    BY <1>1, <1>4, <2>1, IsrHandlerStep, CalledStays
<1>5. CASE irq_handler
  BY <1>1, <1>5, CalledIrqHandler
<1>6. CASE Handle
  BY <1>6, CalledHandle
<1>7. CASE SlaveEoi \/ MasterEoi
  <2>1. Service' \notin {"irq_handler", "handler"}
    BY <1>7, SlaveEoiStep, MasterEoiStep
  <2>2. UNCHANGED <<handlers, calls, requests, spurious, mistakes>>
    BY <1>7 DEF SlaveEoi, MasterEoi, history
  <2>3. pic \in [Pics -> PicType]
    BY DEF IInv, IrqTypeOK
  <2>4. \A p \in Pics : pic'[p] = pic[p] \/ pic'[p] = Command(pic[p], EOI)
    BY <1>7, <2>3 DEF SlaveEoi, MasterEoi
  <2>5. \A p \in Pics : pic'[p].irr \subseteq pic[p].irr
    BY <2>3, <2>4, WriteKeeps
  <2>6. ASSUME NEW i \in Devices PROVE Pending(i)' + Entered(i)' <= Pending(i) + Entered(i)
    <3>1. /\ Pending(i)' <= Pending(i) /\ Entered(i)' = 0
          /\ Pending(i) \in 0 .. 1 /\ Pending(i)' \in 0 .. 1 /\ Entered(i) \in 0 .. 1
      BY <2>1, <2>5, PendingLess DEF Pending, Entered
    <3> QED
      BY <3>1
  <2>7. CalledOnlyOnRequest'
    BY <1>1, <2>2, <2>6, CalledNoMore DEF CallInv
  <2> QED
    BY <2>1, <2>2, <2>7 DEF CallInv
<1>8. CASE Leave
  <2>1. UNCHANGED <<pic, handlers, irq, calls, requests, spurious, mistakes>>
    BY <1>8 DEF Leave, history
  <2>2. \/ Service' = Service /\ (Service \in IrqPlaces => stack'[1] = stack[1])
        \/ Service' \notin {"irq_handler", "handler"}
    BY <1>8, LeaveStep
  <2>3. \A p \in Pics : pic'[p].irr \subseteq pic[p].irr
    BY <2>1
  <2> QED
    BY <1>1, <2>1, <2>2, <2>3, CalledStays
<1>9. ASSUME NEW i \in Devices, Raise(i) PROVE CallInv'
  BY <1>9, CalledRaise
<1>10. ASSUME NEW p \in Pics, Spurious(p) PROVE CallInv'
  BY <1>10, CalledSpurious
<1>11. ASSUME NEW v \in Faults, Fault(v) PROVE CallInv'
  <2>1. UNCHANGED <<pic, handlers, irq, calls, requests, spurious, mistakes>>
    BY <1>11 DEF Fault, history
  <2>2. Service' = Service /\ (Service \in IrqPlaces => stack'[1] = stack[1])
    BY <1>11, FaultStep
  <2>3. \A p \in Pics : pic'[p].irr \subseteq pic[p].irr
    BY <2>1
  <2> QED
    BY <1>1, <2>1, <2>2, <2>3, CalledStays
<1>12. CASE UNCHANGED vars
  BY <1>12 DEF vars, processor, history, CallInv, CalledOnlyOnRequest, Pending, Entered, Service
<1> QED
  BY <1>2, <1>3, <1>4, <1>5, <1>6, <1>7, <1>8, <1>9, <1>10, <1>11, <1>12 DEF Next, Return

LEMMA CallInvInit == Init => CallInv
<1> SUFFICES ASSUME Init PROVE CallInv
  OBVIOUS
<1>1. Service = "main" /\ \A i \in Irqs : handlers[i] = NoHandler
  BY DEF Init, Service
<1>2. ASSUME NEW i \in Devices
      PROVE  calls[i] = 0 /\ requests[i] = 0 /\ Pending(i) = 0 /\ Entered(i) = 0 /\ Excess(i) = 0
  <2>1. pic[1].irr = {} /\ pic[2].irr = {} /\ spurious[1] = 0 /\ spurious[2] = 0
    BY PicsLines DEF Init, Reset
  <2> QED
    BY <1>1, <2>1, PicsLines DEF Init, Pending, Entered, Excess
<1>3. CalledOnlyOnRequest
  BY <1>2, Counted
<1> QED
  BY <1>1, <1>3 DEF CallInv

\* Each irq has its own handler, which is called at most once for a request of its
\* device or a spurious interrupt on its line, unless irq_handler ever took another
\* interrupt for it: with the right number it is never called for another device.
THEOREM CalledOnlyOnRequestHolds == Spec => []CalledOnlyOnRequest
<1>1. IInv /\ CallInv /\ [Next]_vars => CallInv'
  BY CallInvNext
<1>2. CallInv => CalledOnlyOnRequest
  BY DEF CallInv
<1> QED
  BY IInvHolds, CallInvInit, <1>1, <1>2, PTL DEF Spec
==============================================================================

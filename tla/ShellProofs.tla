---------------------------- MODULE ShellProofs ----------------------------
(***************************************************************************)
(* Proofs about the shell for every keyboard, screen and size of history:  *)
(* the modifier flags, the ring of commands, that the virtual terminals    *)
(* keep their screens apart, that nothing printed leaves the screen, and   *)
(* that the cells before the cursor show the line.                         *)
(***************************************************************************)
EXTENDS Shell, LeastNumber, TLAPS

-----------------------------------------------------------------------------
(* The modifier flags.                                                     *)

\* Only the modifier keys and the bytes of the mouse touch the flags.
LEMMA OthersLeaveModifiers ==
  ASSUME \/ \E code \in {128, 129} : ArrowKey(code)
         \/ \E t \in TerminalIds : FunctionKey(t)
         \/ \E k \in Letters : Letter(k)
         \/ BackspaceKey \/ Enter \/ UNCHANGED vars
  PROVE  UNCHANGED modifiers
BY DEF ArrowKey, FunctionKey, Letter, BackspaceKey, Enter, vars

LEMMA ModifierStep ==
  ASSUME NoStuckModifier, [Next]_vars PROVE NoStuckModifier'
<1> USE DEF NoStuckModifier, ShiftCode
<1>1. ASSUME NEW k \in ShiftKeys, ShiftKey(k) PROVE NoStuckModifier'
  <2>1. ShiftKeys \cap AltKeys = {}
    BY DEF ShiftKeys, AltKeys
  <2>2. (k \in held' \/ ~shift') /\ held' \cap AltKeys = held \cap AltKeys
    BY <1>1, <2>1 DEF ShiftKey
  <2>3. alt' = alt /\ ("alt" \in byMouse' <=> "alt" \in byMouse)
    BY <1>1 DEF ShiftKey
  <2> QED
    BY <2>2, <2>3, Zenon
<1>2. ASSUME NEW k \in AltKeys, AltKey(k) PROVE NoStuckModifier'
  <2>1. ShiftKeys \cap AltKeys = {}
    BY DEF ShiftKeys, AltKeys
  <2>2. (k \in held' \/ ~alt') /\ held' \cap ShiftKeys = held \cap ShiftKeys
    BY <1>2, <2>1 DEF AltKey
  <2>3. shift' = shift /\ ("shift" \in byMouse' <=> "shift" \in byMouse)
    BY <1>2 DEF AltKey
  <2> QED
    BY <2>2, <2>3, Zenon
<1>3. CASE CapsLock
  BY <1>3 DEF CapsLock
<1>4. ASSUME NEW flag \in {"shift", "alt"}, NEW on \in BOOLEAN, MouseByte(flag, on)
      PROVE  NoStuckModifier'
  BY <1>4 DEF MouseByte
<1>5. CASE UNCHANGED modifiers
  BY <1>5 DEF modifiers
<1> QED
  BY <1>1, <1>2, <1>3, <1>4, <1>5, OthersLeaveModifiers DEF Next

\* Whatever keys are pressed and released, in whatever order, and whatever the mouse
\* sends, no modifier stays set that neither a key down nor the mouse accounts for.
THEOREM NoStuckModifierHolds == Spec => []NoStuckModifier
<1>1. Init => NoStuckModifier
  BY DEF Init, NoStuckModifier
<1> QED
  BY <1>1, ModifierStep, PTL DEF Spec

-----------------------------------------------------------------------------
(* The ring of commands.                                                   *)

\* Numbers closer than the size of the ring have slots of their own.
LEMMA SlotsApart ==
  ASSUME NEW M \in Nat \ {0}, NEW a \in Nat, NEW b \in Nat, a < b, b < a + M
  PROVE  a % M # b % M
<1> SUFFICES ASSUME a % M = b % M PROVE FALSE
  OBVIOUS
<1> DEFINE p == a \div M
           q == b \div M
<1>1. p \in Int /\ q \in Int /\ a = M * p + (a % M) /\ b = M * q + (b % M)
  OBVIOUS
<1>2. b - a = M * (q - p)
  BY <1>1
<1>3. q - p <= 0 \/ q - p >= 1
  BY <1>1
<1> HIDE DEF p, q
<1>4. CASE q - p <= 0
  BY <1>1, <1>2, <1>4
<1>5. CASE q - p >= 1
  BY <1>1, <1>2, <1>5
<1> QED
  BY <1>3, <1>4, <1>5

LEMMA SlotInRing ==
  ASSUME NEW M \in Nat \ {0}, NEW a \in Nat PROVE a % M \in 0 .. M - 1
OBVIOUS

\* accepted is a sequence, as long as the program counts, and history the ring.
RingInv ==
  /\ \E S : accepted \in Seq(S)
  /\ \E S : history \in [0 .. MAX_HISTORY - 1 -> S]
  /\ history_count = Len(accepted)
  /\ HistoryKeepsLatest

LEMMA AppendFacts ==
  ASSUME NEW S, NEW s \in Seq(S), NEW e
  PROVE  /\ Append(s, e) \in Seq(S \cup {e})
         /\ Len(Append(s, e)) = Len(s) + 1 /\ Len(s) \in Nat
         /\ \A i \in 1 .. Len(s) : Append(s, e)[i] = s[i]
         /\ Append(s, e)[Len(s) + 1] = e
<1>1. s \in Seq(S \cup {e})
  OBVIOUS
<1> QED
  BY <1>1

\* A command taken overwrites the one that is MAX_HISTORY before it.
LEMMA RingAdd ==
  ASSUME RingInv, NEW command,
         history' = [history EXCEPT ![history_slot(history_count)] = command],
         history_count' = history_count + 1,
         accepted' = Append(accepted, command)
  PROVE  RingInv'
<1> USE ShellAssumption DEF RingInv
<1>1. PICK S : accepted \in Seq(S)
  OBVIOUS
<1>2. PICK H : history \in [0 .. MAX_HISTORY - 1 -> H]
  OBVIOUS
<1> DEFINE n == Len(accepted)
<1>3. /\ accepted' \in Seq(S \cup {command})
      /\ Len(accepted') = n + 1 /\ n \in Nat
      /\ \A i \in 1 .. n : accepted'[i] = accepted[i]
      /\ accepted'[n + 1] = command
  BY <1>1, AppendFacts
<1>4. n % MAX_HISTORY \in 0 .. MAX_HISTORY - 1
  BY <1>3, SlotInRing
<1>5. history' = [history EXCEPT ![n % MAX_HISTORY] = command]
  BY DEF history_slot
<1>6. history' \in [0 .. MAX_HISTORY - 1 -> H \cup {command}]
  BY <1>2, <1>4, <1>5
<1>7. HistoryKeepsLatest'
  <2> SUFFICES ASSUME NEW i \in 1 .. n + 1, i + MAX_HISTORY > n + 1
               PROVE  history'[(i - 1) % MAX_HISTORY] = accepted'[i]
    BY <1>3 DEF HistoryKeepsLatest
  <2>1. CASE i = n + 1
    BY <2>1, <1>2, <1>3, <1>4, <1>5
  <2>2. CASE i \in 1 .. n
    <3>0. i - 1 \in Nat /\ i - 1 < n /\ n < (i - 1) + MAX_HISTORY
      BY <2>2, <1>3
    <3>1. (i - 1) % MAX_HISTORY # n % MAX_HISTORY
      BY <3>0, <1>3, SlotsApart, Zenon
    <3>2. (i - 1) % MAX_HISTORY \in 0 .. MAX_HISTORY - 1
      BY <3>0, SlotInRing, Zenon
    <3>3. history[(i - 1) % MAX_HISTORY] = accepted[i]
      BY <2>2, <1>3 DEF HistoryKeepsLatest
    <3> QED
      BY <3>1, <3>2, <3>3, <2>2, <1>2, <1>3, <1>5
  <2> QED
    BY <2>1, <2>2, <1>3
<1> QED
  BY <1>3, <1>6, <1>7

\* Only Enter changes the ring.
LEMMA RingStep ==
  ASSUME RingInv, [Next]_vars PROVE RingInv'
<1>1. CASE UNCHANGED <<history, history_count, accepted>>
  BY <1>1 DEF RingInv, HistoryKeepsLatest
<1>2. CASE Enter
  <2>1. CASE UNCHANGED memory
    BY <2>1, <1>1 DEF memory
  <2>2. CASE history_add
    <3>1. CASE UNCHANGED memory
      BY <3>1, <1>1 DEF memory
    <3>2. CASE /\ history' = [history EXCEPT ![history_slot(history_count)] = line]
               /\ history_count' = history_count + 1
               /\ accepted' = Append(accepted, line)
      BY <3>2, RingAdd
    <3> QED
      BY <3>1, <3>2, <2>2 DEF history_add
  <2> QED
    BY <2>1, <2>2, <1>2 DEF Enter
<1>3. CASE UNCHANGED vars
  BY <1>3, <1>1 DEF vars, memory
<1>4. ASSUME NEW code \in {128, 129}, ArrowKey(code) PROVE RingInv'
  BY <1>4, <1>1 DEF ArrowKey
<1>5. CASE CapsLock \/ BackspaceKey
  BY <1>5, <1>1 DEF CapsLock, BackspaceKey, memory
<1>6. CASE \/ \E k \in ShiftKeys : ShiftKey(k)
           \/ \E k \in AltKeys : AltKey(k)
           \/ \E flag \in {"shift", "alt"}, on \in BOOLEAN : MouseByte(flag, on)
           \/ \E t \in TerminalIds : FunctionKey(t)
           \/ \E k \in Letters : Letter(k)
  BY <1>6, <1>1 DEF ShiftKey, AltKey, MouseByte, FunctionKey, Letter, memory
<1> QED
  BY <1>2, <1>3, <1>4, <1>5, <1>6 DEF Next

\* However many commands were typed, and however often the ring has gone round, it holds
\* the commands taken last, each where Alt+Up would look for it.
THEOREM HistoryKeepsLatestHolds == Spec => []HistoryKeepsLatest
<1>1. Init => RingInv
  <2> SUFFICES ASSUME Init PROVE RingInv
    OBVIOUS
  <2>1. accepted \in Seq({}) /\ Len(accepted) = 0
    BY DEF Init
  <2>2. history \in [0 .. MAX_HISTORY - 1 -> {<<>>}]
    BY DEF Init
  <2>3. HistoryKeepsLatest
    BY <2>1 DEF HistoryKeepsLatest
  <2>4. history_count = Len(accepted)
    BY <2>1 DEF Init
  <2> QED
    BY <2>1, <2>2, <2>3, <2>4, Zenon DEF RingInv
<1>2. RingInv => HistoryKeepsLatest
  BY DEF RingInv
<1> QED
  BY <1>1, <1>2, RingStep, PTL DEF Spec

-----------------------------------------------------------------------------
(* The virtual terminals.                                                  *)

\* A terminal is shown, and every one has a saved screen.
TerminalsInv == DOMAIN terminals = TerminalIds /\ current_terminal \in TerminalIds

LEMMA TerminalsStep ==
  ASSUME TerminalsInv, [Next]_vars
  PROVE  TerminalsInv' /\ [VirtualTerminals!Next]_(VirtualTerminals!vars)
<1> USE DEF TerminalsInv, VirtualTerminals!vars, VirtualTerminals!Next
<1>0. DOMAIN Screens = TerminalIds
  BY DEF Screens
<1>1. CASE UNCHANGED display
  BY <1>1 DEF display, Screens
<1>2. CASE UNCHANGED <<terminals, current_terminal>>
  <2>1. VirtualTerminals!Output
    BY <1>2, <1>0 DEF Screens, VirtualTerminals!Output
  <2> QED
    BY <1>2, <2>1
<1>3. ASSUME NEW term \in TerminalIds, vt_switch(term), term # current_terminal
      PROVE  TerminalsInv' /\ [VirtualTerminals!Next]_(VirtualTerminals!vars)
  <2>1. /\ terminals' = [terminals EXCEPT ![current_terminal] = screen]
        /\ current_terminal' = term
        /\ screen' = terminals'[term]
    BY <1>3 DEF vt_switch
  <2>2. Screens' = Screens
    BY <2>1 DEF Screens, TerminalIds
  <2>3. VirtualTerminals!Show(term)
    BY <2>1, <2>2 DEF VirtualTerminals!Show
  <2> QED
    BY <2>1, <2>3, <1>0
<1>4. ASSUME NEW t \in TerminalIds, FunctionKey(t)
      PROVE  TerminalsInv' /\ [VirtualTerminals!Next]_(VirtualTerminals!vars)
  <2>1. CASE alt /\ t # current_terminal
    BY <1>3, <1>4, <2>1 DEF FunctionKey
  <2>2. CASE ~alt \/ t = current_terminal
    BY <1>1, <1>4, <2>2 DEF FunctionKey, vt_switch, display
  <2> QED
    BY <2>1, <2>2
<1>5. CASE \/ \E code \in {128, 129} : ArrowKey(code)
           \/ \E k \in Letters : Letter(k)
           \/ BackspaceKey \/ Enter
  BY <1>2, <1>5 DEF ArrowKey, Letter, BackspaceKey, Enter
<1>6. CASE \/ \E k \in ShiftKeys : ShiftKey(k)
           \/ \E k \in AltKeys : AltKey(k)
           \/ \E flag \in {"shift", "alt"}, on \in BOOLEAN : MouseByte(flag, on)
           \/ CapsLock \/ UNCHANGED vars
  BY <1>1, <1>6 DEF ShiftKey, AltKey, MouseByte, CapsLock, vars
<1> QED
  BY <1>4, <1>5, <1>6 DEF Next

\* Whatever is typed and printed, no terminal's screen changes but the one shown, and
\* showing another changes none: the shell implements the terminals it promises.
THEOREM ImplementsTerminalsHolds == Spec => ImplementsTerminals
<1>1. Init => TerminalsInv /\ VirtualTerminals!Init
  BY ConsoleAssumption DEF Init, TerminalsInv, VirtualTerminals!Init, Screens, TerminalIds
<1> QED
  BY <1>1, TerminalsStep, PTL DEF Spec, ImplementsTerminals, VirtualTerminals!Spec

-----------------------------------------------------------------------------
(* The screen.                                                             *)

\* A screen as putchar leaves it: its cells, and the cursor in one of them.
IsScreen(s) ==
  /\ s = [video |-> s.video, row |-> s.row, col |-> s.col, color |-> s.color]
  /\ s.video = [i \in Cells |-> s.video[i]]
  /\ s.row \in 0 .. VGA_HEIGHT - 1 /\ s.col \in 0 .. VGA_WIDTH - 1

LEMMA CursorInCells ==
  ASSUME NEW row \in 0 .. VGA_HEIGHT - 1, NEW col \in 0 .. VGA_WIDTH - 1
  PROVE  row * VGA_WIDTH + col \in Cells
<1>1. row * VGA_WIDTH \in Nat /\ row * VGA_WIDTH <= (VGA_HEIGHT - 1) * VGA_WIDTH
  BY ConsoleAssumption
<1>2. (VGA_HEIGHT - 1) * VGA_WIDTH = VGA_WIDTH * VGA_HEIGHT - VGA_WIDTH
  BY ConsoleAssumption
<1> QED
  BY <1>1, <1>2, ConsoleAssumption DEF Cells

\* What newline does, whatever the column, even the one past the right edge.
LEMMA NewlineScreen ==
  ASSUME NEW s, NEW video, NEW row \in 0 .. VGA_HEIGHT - 1, NEW col, NEW color,
         s = [video |-> video, row |-> row, col |-> col, color |-> color],
         video = [i \in Cells |-> video[i]]
  PROVE  /\ IsScreen(newline(s))
         /\ newline(s).col = 0
         /\ row + 1 < VGA_HEIGHT => newline(s).row = row + 1 /\ newline(s).video = video
         /\ row + 1 >= VGA_HEIGHT =>
              /\ newline(s).row = VGA_HEIGHT - 1
              /\ \A i \in Cells : i + VGA_WIDTH \in Cells =>
                   newline(s).video[i] = video[i + VGA_WIDTH]
<1> USE ConsoleAssumption
<1>1. CASE row + 1 < VGA_HEIGHT
  <2>1. newline(s) = [video |-> video, row |-> row + 1, col |-> 0, color |-> color]
    BY <1>1 DEF newline
  <2> QED
    BY <1>1, <2>1 DEF IsScreen
<1>2. CASE ~(row + 1 < VGA_HEIGHT)
  <2> DEFINE up == [i \in Cells |->
                      IF i + VGA_WIDTH \in Cells THEN video[i + VGA_WIDTH] ELSE Blank]
  <2>1. newline(s) = [video |-> up, row |-> VGA_HEIGHT - 1, col |-> 0, color |-> color]
    BY <1>2 DEF newline
  <2>2. up = [i \in Cells |-> up[i]]
    OBVIOUS
  <2>3. \A i \in Cells : i + VGA_WIDTH \in Cells => up[i] = video[i + VGA_WIDTH]
    OBVIOUS
  <2> HIDE DEF up
  <2> QED
    BY <1>2, <2>1, <2>2, <2>3 DEF IsScreen
<1> QED
  BY <1>1, <1>2

\* A character that is not one of the two control characters is put at the cursor.
Prints(c) == c # Newline /\ c # Backspace

LEMMA PutIs ==
  ASSUME NEW s, NEW c
  PROVE  /\ c = Newline => putchar(s, c) = newline(s)
         /\ (c = Backspace /\ s.col > 0) => putchar(s, c) = Erased(s)
         /\ (c # Newline /\ ~(c = Backspace /\ s.col > 0)) =>
              putchar(s, c) = IF Written(s, c).col >= VGA_WIDTH
                              THEN newline(Written(s, c)) ELSE Written(s, c)
BY DEF putchar, Newline, Backspace

LEMMA CellPut ==
  ASSUME NEW s, NEW video, NEW row, NEW col, NEW color, NEW i, NEW c, NEW d,
         s = [video |-> video, row |-> row, col |-> col, color |-> color],
         NEW r, r = [s EXCEPT !.col = d, !.video[i] = c]
  PROVE  r = [video |-> [video EXCEPT ![i] = c], row |-> row, col |-> d, color |-> color]
OBVIOUS

LEMMA ErasedIs ==
  ASSUME NEW s, IsScreen(s), s.col > 0
  PROVE  /\ Erased(s) = [video |-> [s.video EXCEPT ![Cursor(s) - 1] = Blank],
                         row |-> s.row, col |-> s.col - 1, color |-> s.color]
         /\ IsScreen(Erased(s))
<1> DEFINE cleared == [s.video EXCEPT ![Cursor(s) - 1] = Blank]
<1>1. Erased(s) = [video |-> cleared, row |-> s.row, col |-> s.col - 1, color |-> s.color]
  <2>1. Erased(s) = [s EXCEPT !.col = s.col - 1, !.video[Cursor(s) - 1] = Blank]
    BY Zenon DEF Erased
  <2> QED
    BY <2>1, CellPut DEF IsScreen
<1>2. cleared = [i \in Cells |-> cleared[i]]
  BY DEF IsScreen
<1> HIDE DEF cleared
<1>3. IsScreen(Erased(s))
  BY <1>1, <1>2, ConsoleAssumption DEF IsScreen
<1> QED
  BY <1>1, <1>3 DEF cleared

IsWritten(w, s) ==
  /\ w = [video |-> w.video, row |-> s.row, col |-> s.col + 1, color |-> s.color]
  /\ w.video = [i \in Cells |-> w.video[i]]

LEMMA WrittenIs ==
  ASSUME NEW s, IsScreen(s), NEW c
  PROVE  /\ IsWritten(Written(s, c), s)
         /\ Written(s, c).video = [s.video EXCEPT ![Cursor(s)] = c]
<1> DEFINE put == [s.video EXCEPT ![Cursor(s)] = c]
<1>1. Written(s, c) = [video |-> put, row |-> s.row, col |-> s.col + 1, color |-> s.color]
  <2>1. Written(s, c) = [s EXCEPT !.col = s.col + 1, !.video[Cursor(s)] = c]
    BY Zenon DEF Written
  <2> QED
    BY <2>1, CellPut DEF IsScreen
<1>2. put = [i \in Cells |-> put[i]]
  BY DEF IsScreen
<1> HIDE DEF put
<1>3. Written(s, c).video = put
  BY <1>1
<1>4. IsWritten(Written(s, c), s)
  BY <1>1, <1>2, <1>3 DEF IsWritten
<1> QED
  BY <1>3, <1>4 DEF put

LEMMA PutScreen ==
  ASSUME NEW s, IsScreen(s), NEW c
  PROVE  IsScreen(putchar(s, c))
<1> USE ConsoleAssumption
<1>1. CASE c = Newline
  <2>1. putchar(s, c) = newline(s)
    BY <1>1, PutIs
  <2> QED
    BY <2>1, NewlineScreen DEF IsScreen
<1>2. CASE c = Backspace /\ s.col > 0
  BY <1>2, PutIs, ErasedIs
<1>3. CASE c # Newline /\ ~(c = Backspace /\ s.col > 0)
  <2> DEFINE w == Written(s, c)
  <2>5. IsWritten(w, s)
    BY WrittenIs
  <2>4. s.row \in 0 .. VGA_HEIGHT - 1 /\ s.col \in 0 .. VGA_WIDTH - 1
    BY DEF IsScreen
  <2> HIDE DEF w
  <2>0. /\ w = [video |-> w.video, row |-> s.row, col |-> s.col + 1, color |-> s.color]
        /\ w.video = [i \in Cells |-> w.video[i]]
    BY <2>5 DEF IsWritten
  <2>1. IsScreen(newline(w))
    BY <2>0, <2>4, NewlineScreen
  <2>2. CASE w.col >= VGA_WIDTH
    BY <1>3, <2>1, <2>2, PutIs DEF w
  <2>3. CASE ~(w.col >= VGA_WIDTH)
    <3>1. w.row = s.row /\ w.col = s.col + 1 /\ w.color = s.color
      BY <2>0
    <3>2. IsScreen(w)
      BY <2>0, <2>3, <2>4, <3>1 DEF IsScreen
    <3> QED
      BY <1>3, <2>3, <3>2, PutIs DEF w
  <2> QED
    BY <2>2, <2>3
<1> QED
  BY <1>1, <1>2, <1>3

\* The screens on the way through a text.
IsAfter(f, s, text, m) ==
  f = [n \in 0 .. m |-> IF n = 0 THEN s ELSE putchar(f[n - 1], text[n])]

\* A screen is reached after every part of a text.
LEMMA AfterExists ==
  ASSUME NEW s, NEW text PROVE \A m \in Nat : \E f : IsAfter(f, s, text, m)
<1> DEFINE T == { m \in Nat : ~ \E f : IsAfter(f, s, text, m) }
<1> SUFFICES ASSUME T # {} PROVE FALSE
  OBVIOUS
<1>1. PICK m \in T : \A k \in T : m <= k
  BY LeastNat
<1>2. m \in Nat /\ ~ \E f : IsAfter(f, s, text, m)
  OBVIOUS
<1>3. CASE m = 0
  <2> DEFINE f == [n \in 0 .. 0 |-> s]
  <2>1. IsAfter(f, s, text, 0)
    BY DEF IsAfter
  <2> QED
    BY <1>2, <1>3, <2>1
<1>4. CASE m > 0
  <2>1. m - 1 \in Nat /\ m - 1 \notin T
    BY <1>1, <1>2, <1>4
  <2>2. PICK g : IsAfter(g, s, text, m - 1)
    BY <2>1
  <2> DEFINE f == [n \in 0 .. m |-> IF n = m THEN putchar(g[m - 1], text[m]) ELSE g[n]]
  <2>3. \A n \in 0 .. m - 1 : g[n] = IF n = 0 THEN s ELSE putchar(g[n - 1], text[n])
    BY <2>2 DEF IsAfter
  <2>4. \A n \in 0 .. m : f[n] = IF n = 0 THEN s ELSE putchar(f[n - 1], text[n])
    BY <1>4, <1>2, <2>3
  <2>5. IsAfter(f, s, text, m)
    BY <2>4 DEF IsAfter
  <2> QED
    BY <1>2, <2>5
<1> QED
  BY <1>2, <1>3, <1>4

LEMMA PrintIs ==
  ASSUME NEW s, NEW text, Len(text) \in Nat
  PROVE  \E f : IsAfter(f, s, text, Len(text)) /\ print(s, text) = f[Len(text)]
<1> DEFINE after == CHOOSE f : f = [n \in 0 .. Len(text) |->
                                      IF n = 0 THEN s ELSE putchar(f[n - 1], text[n])]
<1>1. PICK g : IsAfter(g, s, text, Len(text))
  BY AfterExists
<1>2. g = [n \in 0 .. Len(text) |-> IF n = 0 THEN s ELSE putchar(g[n - 1], text[n])]
  BY <1>1, Zenon DEF IsAfter
<1>3. after = [n \in 0 .. Len(text) |-> IF n = 0 THEN s ELSE putchar(after[n - 1], text[n])]
  BY <1>2, Zenon
<1>4. IsAfter(after, s, text, Len(text))
  BY <1>3, Zenon DEF IsAfter
<1>5. print(s, text) = after[Len(text)]
  BY Zenon DEF print
<1> QED
  BY <1>4, <1>5, Zenon

\* Whatever is printed, the cursor stays inside the screen.
LEMMA PrintScreen ==
  ASSUME NEW s, IsScreen(s), NEW text, Len(text) \in Nat
  PROVE  IsScreen(print(s, text))
<1>1. PICK f : IsAfter(f, s, text, Len(text)) /\ print(s, text) = f[Len(text)]
  BY PrintIs
<1>2. \A n \in 0 .. Len(text) : f[n] = IF n = 0 THEN s ELSE putchar(f[n - 1], text[n])
  BY <1>1 DEF IsAfter
<1> DEFINE T == { n \in 0 .. Len(text) : ~ IsScreen(f[n]) }
<1>3. T = {}
  <2> SUFFICES ASSUME T # {} PROVE FALSE
    OBVIOUS
  <2>1. PICK m \in T : \A k \in T : m <= k
    <3>1. T \subseteq Nat
      OBVIOUS
    <3> QED
      BY <3>1, LeastNat
  <2>2. m \in 0 .. Len(text) /\ ~ IsScreen(f[m])
    OBVIOUS
  <2>3. m # 0
    BY <1>2, <2>2
  <2>4. m - 1 \in 0 .. Len(text) /\ IsScreen(f[m - 1])
    BY <2>1, <2>2, <2>3
  <2>5. f[m] = putchar(f[m - 1], text[m])
    BY <1>2, <2>2, <2>3
  <2> QED
    BY <2>2, <2>4, <2>5, PutScreen
<1> QED
  BY <1>1, <1>3

-----------------------------------------------------------------------------
(* The line and its echo.                                                  *)

\* The cells before the cursor show the text.
Echoes(s, text) ==
  \A i \in 1 .. Len(text) :
    /\ Cursor(s) - Len(text) + i - 1 \in Cells
    /\ s.video[Cursor(s) - Len(text) + i - 1] = text[i]

\* A character printed is in the cell before the cursor, and those before it are where
\* they were; unless the screen scrolled, and all are a row further up.
Advances(s, t, c) ==
  /\ Cursor(t) = Cursor(s) + 1
  /\ \A i \in Cells : t.video[i] = IF i = Cursor(s) THEN c ELSE s.video[i]

Scrolls(s, t, c) ==
  /\ Cursor(t) = Cursor(s) + 1 - VGA_WIDTH /\ Cursor(t) = (VGA_HEIGHT - 1) * VGA_WIDTH
  /\ \A i \in Cells : i + VGA_WIDTH \in Cells =>
       t.video[i] = IF i + VGA_WIDTH = Cursor(s) THEN c ELSE s.video[i + VGA_WIDTH]

LEMMA PutPrints ==
  ASSUME NEW s, IsScreen(s), NEW c, Prints(c)
  PROVE  Advances(s, putchar(s, c), c) \/ Scrolls(s, putchar(s, c), c)
<1> USE ConsoleAssumption
<1> DEFINE w == Written(s, c)
           n == newline(w)
<1>12. IsWritten(w, s)
  BY WrittenIs
<1>2. w.video = [s.video EXCEPT ![Cursor(s)] = c]
  BY WrittenIs, Zenon
<1>3. s.row \in 0 .. VGA_HEIGHT - 1 /\ s.col \in 0 .. VGA_WIDTH - 1
  BY DEF IsScreen
<1>4. Cursor(s) \in Cells
  BY <1>3, CursorInCells DEF Cursor
<1>5. \A i \in Cells : w.video[i] = IF i = Cursor(s) THEN c ELSE s.video[i]
  BY <1>2 DEF IsScreen
<1>6. putchar(s, c) = IF w.col >= VGA_WIDTH THEN n ELSE w
  BY PutIs, Zenon DEF Prints
<1> HIDE DEF w
<1>1. /\ w = [video |-> w.video, row |-> s.row, col |-> s.col + 1, color |-> s.color]
      /\ w.video = [i \in Cells |-> w.video[i]]
  BY <1>12 DEF IsWritten
<1>7. w.row = s.row /\ w.col = s.col + 1
  BY <1>1
<1>8. /\ n.col = 0
      /\ s.row + 1 < VGA_HEIGHT => n.row = s.row + 1 /\ n.video = w.video
      /\ s.row + 1 >= VGA_HEIGHT =>
           /\ n.row = VGA_HEIGHT - 1
           /\ \A i \in Cells : i + VGA_WIDTH \in Cells => n.video[i] = w.video[i + VGA_WIDTH]
  BY <1>1, <1>3, NewlineScreen
<1> HIDE DEF n
<1>9. CASE w.col < VGA_WIDTH
  <2>1. putchar(s, c) = w
    BY <1>3, <1>6, <1>7, <1>9
  <2>2. Cursor(w) = Cursor(s) + 1
    BY <1>3, <1>7 DEF Cursor
  <2> QED
    BY <1>5, <2>1, <2>2 DEF Advances
<1>10. CASE w.col >= VGA_WIDTH /\ s.row + 1 < VGA_HEIGHT
  <2>1. putchar(s, c) = n /\ n.video = w.video
    BY <1>6, <1>8, <1>10
  <2>2. (s.row + 1) * VGA_WIDTH = s.row * VGA_WIDTH + VGA_WIDTH /\ s.col + 1 = VGA_WIDTH
    BY <1>3, <1>7, <1>10
  <2>3. Cursor(n) = Cursor(s) + 1
    BY <1>3, <1>8, <1>10, <2>2 DEF Cursor
  <2> QED
    BY <1>5, <2>1, <2>3 DEF Advances
<1>11. CASE w.col >= VGA_WIDTH /\ s.row + 1 >= VGA_HEIGHT
  <2>1. putchar(s, c) = n /\ n.row = VGA_HEIGHT - 1 /\ n.col = 0 /\ s.row = VGA_HEIGHT - 1
    BY <1>3, <1>6, <1>8, <1>11
  <2>2. s.col + 1 = VGA_WIDTH /\ (VGA_HEIGHT - 1) * VGA_WIDTH \in Nat
    BY <1>3, <1>7, <1>11
  <2>3. Cursor(n) = (VGA_HEIGHT - 1) * VGA_WIDTH
    BY <2>1, <2>2 DEF Cursor
  <2>4. Cursor(s) = (VGA_HEIGHT - 1) * VGA_WIDTH + VGA_WIDTH - 1
    BY <2>1, <2>2, <1>3 DEF Cursor
  <2>5. Cursor(n) = Cursor(s) + 1 - VGA_WIDTH
    BY <2>2, <2>3, <2>4
  <2>6. \A i \in Cells : i + VGA_WIDTH \in Cells =>
          n.video[i] = IF i + VGA_WIDTH = Cursor(s) THEN c ELSE s.video[i + VGA_WIDTH]
    BY <1>5, <1>8, <1>11
  <2> QED
    BY <2>1, <2>3, <2>5, <2>6 DEF Scrolls
<1> QED
  BY <1>3, <1>7, <1>9, <1>10, <1>11

\* What Letter does: the line and what is shown of it grow by the same character.
LEMMA LetterEchoes ==
  ASSUME NEW s, IsScreen(s), NEW S, NEW text \in Seq(S), Len(text) < CMD_MAX,
         NEW c, Prints(c), Echoes(s, text)
  PROVE  Echoes(putchar(s, c), Append(text, c))
<1> USE ConsoleAssumption
<1> DEFINE t == putchar(s, c)
           n == Len(text)
<1>1. /\ Len(Append(text, c)) = n + 1 /\ n \in Nat
      /\ \A i \in 1 .. n : Append(text, c)[i] = text[i]
      /\ Append(text, c)[n + 1] = c
  BY AppendFacts
<1>2. Cursor(s) \in Cells
  BY CursorInCells DEF Cursor, IsScreen
<1>3. Advances(s, t, c) \/ Scrolls(s, t, c)
  BY PutPrints
<1>4. VGA_WIDTH * VGA_HEIGHT \in Nat /\ CMD_MAX \in Nat
  BY ShellAssumption
<1> HIDE DEF t
<1>5. \A i \in 1 .. n : /\ Cursor(s) - n + i - 1 \in Cells
                        /\ s.video[Cursor(s) - n + i - 1] = text[i]
  BY DEF Echoes
<1> SUFFICES ASSUME NEW i \in 1 .. n + 1
             PROVE  /\ Cursor(t) - (n + 1) + i - 1 \in Cells
                    /\ t.video[Cursor(t) - (n + 1) + i - 1] = Append(text, c)[i]
  BY <1>1 DEF Echoes, t
<1> HIDE DEF n
<1>6. CASE Advances(s, t, c)
  <2>1. Cursor(t) - (n + 1) + i - 1 = Cursor(s) - n + i - 1
    BY <1>1, <1>2, <1>6 DEF Advances, Cells
  <2>2. CASE i = n + 1
    <3>1. Cursor(s) - n + i - 1 = Cursor(s)
      BY <1>1, <1>2, <2>2 DEF Cells
    <3> QED
      BY <1>1, <1>2, <1>6, <2>1, <2>2, <3>1 DEF Advances
  <2>3. CASE i \in 1 .. n
    <3>1. Cursor(s) - n + i - 1 # Cursor(s)
      BY <1>1, <1>2, <2>3 DEF Cells
    <3> QED
      BY <1>1, <1>5, <1>6, <2>1, <2>3, <3>1 DEF Advances
  <2> QED
    BY <1>1, <2>2, <2>3
<1>7. CASE Scrolls(s, t, c)
  <2> DEFINE k == Cursor(t) - (n + 1) + i - 1
  <2>1. Cursor(t) \in Int /\ Cursor(t) = Cursor(s) + 1 - VGA_WIDTH /\ n + 1 <= Cursor(t)
    <3>1. CMD_MAX <= Cursor(t) /\ Cursor(t) = Cursor(s) + 1 - VGA_WIDTH
      BY <1>7, ShellAssumption DEF Scrolls
    <3>2. n < CMD_MAX /\ Cursor(s) \in Int
      BY <1>2 DEF n, Cells
    <3> QED
      BY <1>1, <1>4, <3>1, <3>2
  <2>2. k + VGA_WIDTH = Cursor(s) - n + i - 1 /\ k >= 0 /\ k \in Int
    <3>1. Cursor(s) \in Int /\ n \in Int /\ i \in Int /\ VGA_WIDTH \in Int /\ i >= 1
      BY <1>1, <1>2 DEF Cells
    <3>2. Cursor(t) \in Int /\ Cursor(t) = Cursor(s) + 1 - VGA_WIDTH /\ n + 1 <= Cursor(t)
      BY <2>1
    <3>5. k = Cursor(t) - (n + 1) + i - 1
      OBVIOUS
    <3> HIDE DEF k
    <3> QED
      BY ONLY <3>1, <3>2, <3>5
  <2>3. k + VGA_WIDTH \in Cells
    BY <1>1, <1>2, <1>4, <2>2 DEF Cells
  <2>4. k \in Cells
    BY <1>4, <2>2, <2>3 DEF Cells
  <2>5. t.video[k] = IF k + VGA_WIDTH = Cursor(s) THEN c ELSE s.video[k + VGA_WIDTH]
    BY <1>7, <2>3, <2>4 DEF Scrolls
  <2> HIDE DEF k
  <2>6. CASE i = n + 1
    <3>1. k + VGA_WIDTH = Cursor(s)
      BY <1>1, <1>2, <2>2, <2>6 DEF Cells
    <3> QED
      BY <1>1, <2>4, <2>5, <2>6, <3>1 DEF k
  <2>7. CASE i \in 1 .. n
    <3>1. k + VGA_WIDTH # Cursor(s)
      BY <1>1, <1>2, <2>2, <2>7 DEF Cells
    <3>2. t.video[k] = text[i] /\ Append(text, c)[i] = text[i]
      BY <1>1, <1>5, <2>2, <2>5, <2>7, <3>1
    <3> QED
      BY <2>4, <3>2 DEF k
  <2> QED
    BY <1>1, <2>6, <2>7
<1> QED
  BY <1>3, <1>6, <1>7

LEMMA FrontFacts ==
  ASSUME NEW S, NEW text \in Seq(S), text # <<>>
  PROVE  /\ Front(text) \in Seq(S)
         /\ Len(Front(text)) = Len(text) - 1 /\ Len(text) \in Nat
         /\ \A i \in 1 .. Len(text) - 1 : Front(text)[i] = text[i]
<1>1. Len(text) \in Nat /\ Len(text) # 0
  OBVIOUS
<1> DEFINE f == SubSeq(text, 1, Len(text) - 1)
<1>2. f \in Seq(S)
  BY <1>1
<1>3. Len(f) = Len(text) - 1
  <2>1. Len(text) - 1 \in Nat /\ Len(text) - 1 <= Len(text)
    BY <1>1
  <2>2. ASSUME NEW m \in Nat, m <= Len(text) PROVE Len(SubSeq(text, 1, m)) = m
    BY <1>1, <2>2
  <2> QED
    BY <2>1, <2>2
<1>4. \A i \in 1 .. Len(text) - 1 : f[i] = text[i]
  BY <1>1
<1> QED
  BY <1>1, <1>2, <1>3, <1>4 DEF Front

\* What BackspaceKey does: the line and what is shown of it lose their last character.
LEMMA BackspaceEchoes ==
  ASSUME NEW s, IsScreen(s), s.col > 0, NEW S, NEW text \in Seq(S), text # <<>>,
         Echoes(s, text)
  PROVE  Echoes(putchar(s, Backspace), Front(text))
<1> DEFINE t == Erased(s)
           n == Len(text)
<1>1. putchar(s, Backspace) = t
  BY PutIs
<1>2. /\ Len(Front(text)) = n - 1 /\ n \in Nat
      /\ \A i \in 1 .. n - 1 : Front(text)[i] = text[i]
  BY FrontFacts
<1>3. Cursor(s) \in Cells
  BY CursorInCells DEF Cursor, IsScreen
<1>4. t = [video |-> [s.video EXCEPT ![Cursor(s) - 1] = Blank],
           row |-> s.row, col |-> s.col - 1, color |-> s.color]
  BY ErasedIs
<1> HIDE DEF t
<1>5. t.row = s.row /\ t.col = s.col - 1 /\ t.video = [s.video EXCEPT ![Cursor(s) - 1] = Blank]
  BY <1>4
<1>6. Cursor(t) = Cursor(s) - 1
  <2>1. s.row * VGA_WIDTH \in Int /\ s.col \in Int
    BY ConsoleAssumption DEF IsScreen
  <2> QED
    BY <1>5, <2>1 DEF Cursor
<1>7. \A i \in Cells : i # Cursor(s) - 1 => t.video[i] = s.video[i]
  BY <1>5 DEF IsScreen
<1> SUFFICES ASSUME NEW i \in 1 .. n - 1
             PROVE  /\ Cursor(t) - (n - 1) + i - 1 \in Cells
                    /\ t.video[Cursor(t) - (n - 1) + i - 1] = Front(text)[i]
  BY <1>1, <1>2 DEF Echoes
<1>8. Cursor(s) \in Int
  BY <1>3 DEF Cells
<1>9. Cursor(t) - (n - 1) + i - 1 = Cursor(s) - n + i - 1 /\ i \in 1 .. n
  BY <1>2, <1>6, <1>8
<1>10. Cursor(s) - n + i - 1 # Cursor(s) - 1
  BY <1>2, <1>8
<1> QED
  BY <1>2, <1>7, <1>9, <1>10 DEF Echoes

-----------------------------------------------------------------------------
(* The invariant.                                                          *)

\* The characters a line is made of.
Chars == { small[k] : k \in Letters } \cup { big[k] : k \in Letters }

ScreensOK == /\ IsScreen(screen)
             /\ \A t \in TerminalIds : IsScreen(terminals[t])
             /\ DOMAIN terminals = TerminalIds /\ current_terminal \in TerminalIds

FlagsOK == /\ shift \in BOOLEAN /\ caps \in BOOLEAN /\ alt \in BOOLEAN
           /\ held \subseteq ShiftKeys \cup AltKeys /\ byMouse \subseteq {"shift", "alt"}

LineOK == line \in Seq(Chars) /\ Len(line) <= CMD_MAX

MemoryOK == /\ \A i \in 0 .. MAX_HISTORY - 1 : Len(history[i]) <= CMD_MAX
            /\ DOMAIN history = 0 .. MAX_HISTORY - 1
            /\ history_count \in Nat /\ history_count = Len(accepted)
            /\ accepted \in Seq(Seq(Chars))
            /\ history_pos \in -1 .. history_count

EchoOK == disturbed \in BOOLEAN /\ (~disturbed => Echoes(screen, line))

SInv == ScreensOK /\ FlagsOK /\ LineOK /\ MemoryOK /\ EchoOK

LEMMA SInvImplies == SInv => ShellTypeOK /\ EchoMatchesLine
<1> SUFFICES ASSUME SInv PROVE ShellTypeOK /\ EchoMatchesLine
  OBVIOUS
<1>1. \A s : IsScreen(s) => ScreenOK(s)
  BY DEF IsScreen, ScreenOK
<1>2. ShellTypeOK
  BY <1>1 DEF SInv, ScreensOK, FlagsOK, LineOK, MemoryOK, EchoOK, ShellTypeOK
<1>3. DOMAIN line = 1 .. Len(line)
  BY DEF SInv, LineOK
<1> QED
  BY <1>2, <1>3 DEF SInv, EchoOK, Echoes, EchoMatchesLine

\* Blank, Prompt and what set_color leaves alone.
LEMMA BlankIsScreen == \A color : IsScreen(BlankScreen(color))
<1> TAKE color
<1> DEFINE v == [i \in Cells |-> Blank]
<1>1. BlankScreen(color) = [video |-> v, row |-> 0, col |-> 0, color |-> color]
  BY DEF BlankScreen
<1>2. v = [i \in Cells |-> v[i]]
  OBVIOUS
<1> HIDE DEF v
<1> QED
  BY <1>1, <1>2, ConsoleAssumption DEF IsScreen

LEMMA ColouredIsScreen == ASSUME NEW s, IsScreen(s), NEW color PROVE IsScreen(set_color(s, color))
<1>1. set_color(s, color) = [video |-> s.video, row |-> s.row, col |-> s.col, color |-> color]
  BY DEF set_color, IsScreen
<1> QED
  BY <1>1 DEF IsScreen

LEMMA PromptIsText == Prompt \in Seq({">", Blank}) /\ Len(Prompt) \in Nat
BY DEF Prompt

\* A command is a sequence, whatever blanks it starts with.
LEMMA WordsIsText ==
  ASSUME NEW S, line \in Seq(S)
  PROVE  Words \in Seq(S)
<1> DEFINE skipped == { i \in DOMAIN line : \A j \in 1 .. i : line[j] = Blank }
<1>1. DOMAIN line = 1 .. Len(line) /\ Len(line) \in Nat
  OBVIOUS
<1>2. IsFiniteSet(skipped) /\ Cardinality(skipped) \in Nat
  <2>1. IsFiniteSet(1 .. Len(line))
    BY <1>1, FS_Interval
  <2>2. skipped \subseteq 1 .. Len(line)
    BY <1>1
  <2>3. IsFiniteSet(skipped)
    BY <2>1, <2>2, FS_Subset
  <2> QED
    BY <2>3, FS_CardinalityType
<1> HIDE DEF skipped
<1>3. SubSeq(line, Cardinality(skipped) + 1, Len(line)) \in Seq(S)
  BY <1>1, <1>2
<1> QED
  BY <1>3 DEF Words, skipped

\* The unchanged parts of the state keep their parts of the invariant.
LEMMA SameScreens == ASSUME ScreensOK, UNCHANGED display PROVE ScreensOK'
<1>1. screen' = screen /\ terminals' = terminals /\ current_terminal' = current_terminal
  BY DEF display
<1> QED
  BY <1>1, Zenon DEF ScreensOK, IsScreen, Cells, TerminalIds

LEMMA SameFlags == ASSUME FlagsOK, UNCHANGED modifiers PROVE FlagsOK'
BY DEF FlagsOK, modifiers

LEMMA SameLine == ASSUME LineOK, UNCHANGED line PROVE LineOK'
BY DEF LineOK, Chars

LEMMA SameMemory == ASSUME MemoryOK, UNCHANGED memory PROVE MemoryOK'
BY DEF MemoryOK, memory, Chars

LEMMA SameEcho == ASSUME EchoOK, UNCHANGED <<display, line, disturbed>> PROVE EchoOK'
BY Zenon DEF EchoOK, display, Echoes, Cursor

\* Another screen in place of the one shown.
LEMMA NewScreen ==
  ASSUME ScreensOK, IsScreen(screen'), UNCHANGED <<terminals, current_terminal>>
  PROVE  ScreensOK'
BY Zenon DEF ScreensOK, IsScreen, Cells, TerminalIds

LEMMA ModifierKeyKeeps ==
  ASSUME SInv,
         \/ \E k \in ShiftKeys : ShiftKey(k)
         \/ \E k \in AltKeys : AltKey(k)
         \/ CapsLock
         \/ \E flag \in {"shift", "alt"}, on \in BOOLEAN : MouseByte(flag, on)
  PROVE  SInv'
<1>1. UNCHANGED <<display, line, memory, disturbed>>
  BY DEF ShiftKey, AltKey, CapsLock, MouseByte
<1>2. FlagsOK'
  <2>1. FlagsOK
    BY DEF SInv
  <2>2. ASSUME NEW k \in ShiftKeys, ShiftKey(k) PROVE FlagsOK'
    BY <2>1, <2>2 DEF ShiftKey, ShiftCode, FlagsOK
  <2>3. ASSUME NEW k \in AltKeys, AltKey(k) PROVE FlagsOK'
    BY <2>1, <2>3 DEF AltKey, FlagsOK
  <2>4. CASE CapsLock
    BY <2>1, <2>4 DEF CapsLock, FlagsOK
  <2>5. ASSUME NEW flag \in {"shift", "alt"}, NEW on \in BOOLEAN, MouseByte(flag, on)
        PROVE  FlagsOK'
    BY <2>1, <2>5 DEF MouseByte, FlagsOK
  <2> QED
    BY <2>2, <2>3, <2>4, <2>5
<1> QED
  BY <1>1, <1>2, SameScreens, SameLine, SameMemory, SameEcho DEF SInv

\* No key answers with a byte that is still 128 or 129 as a signed char.
LEMMA ArrowKeyKeeps ==
  ASSUME SInv, NEW code \in {128, 129}, ArrowKey(code)
  PROVE  SInv'
<1>1. ToChar(code) # code
  BY DEF ToChar
<1>2. UNCHANGED <<history_pos, line, screen>>
  BY <1>1 DEF ArrowKey
<1>3. UNCHANGED <<display, modifiers, line, memory, disturbed>>
  BY <1>2 DEF ArrowKey, display, memory
<1> QED
  BY <1>3, SameScreens, SameFlags, SameLine, SameMemory, SameEcho DEF SInv

\* Another terminal is shown as it was left, and an empty line echoes on any screen.
LEMMA FunctionKeyKeeps ==
  ASSUME SInv, NEW term \in TerminalIds, FunctionKey(term)
  PROVE  SInv'
<1>1. UNCHANGED <<modifiers, line, memory>>
  BY DEF FunctionKey
<1>2. CASE UNCHANGED display
  <2>1. disturbed' = disturbed
    BY <1>2 DEF FunctionKey, display, SInv, EchoOK
  <2> QED
    BY <1>1, <1>2, <2>1, SameScreens, SameFlags, SameLine, SameMemory, SameEcho DEF SInv
<1>3. CASE ~ UNCHANGED display
  <2>1. /\ term # current_terminal
        /\ terminals' = [terminals EXCEPT ![current_terminal] = screen]
        /\ current_terminal' = term
        /\ screen' = terminals'[term]
    BY <1>3 DEF FunctionKey, vt_switch, display
  <2>2. terminals'[term] = terminals[term]
    BY <2>1 DEF SInv, ScreensOK
  <2>3. \A t \in TerminalIds : IsScreen(terminals'[t])
    BY <2>1 DEF SInv, ScreensOK
  <2>4. IsScreen(screen') /\ DOMAIN terminals' = TerminalIds /\ current_terminal' \in TerminalIds
    BY <2>1, <2>2, <2>3 DEF SInv, ScreensOK
  <2>5. ScreensOK'
    BY <2>3, <2>4, Zenon DEF ScreensOK, IsScreen, Cells, TerminalIds
  <2>6. EchoOK'
    <3>1. disturbed' = (disturbed \/ line # <<>>)
      BY <2>1 DEF FunctionKey
    <3>2. disturbed' \in BOOLEAN
      BY <3>1 DEF SInv, EchoOK
    <3>3. line = <<>> => Echoes(screen', line)
      BY DEF Echoes
    <3>4. ~disturbed' => Echoes(screen', line')
      BY <1>1, <3>1, <3>3
    <3> QED
      BY <3>2, <3>4, Zenon DEF EchoOK, Echoes, Cursor, Cells
  <2> QED
    BY <1>1, <2>5, <2>6, SameFlags, SameLine, SameMemory DEF SInv
<1> QED
  BY <1>2, <1>3

LEMMA LetterKeeps ==
  ASSUME SInv, NEW k \in Letters, Letter(k)
  PROVE  SInv'
<1>1. UNCHANGED <<terminals, current_terminal, modifiers, memory, disturbed>>
  BY DEF Letter
<1>2. CASE UNCHANGED <<line, screen>>
  BY <1>1, <1>2, SameScreens, SameFlags, SameLine, SameMemory, SameEcho DEF SInv, display
<1>3. CASE /\ Len(line) < CMD_MAX
           /\ line' = Append(line, Char(k)) /\ screen' = putchar(screen, Char(k))
  <2>1. Char(k) \in Chars
    BY DEF Char, Chars
  <2>2. Prints(Char(k))
    BY ShellAssumption DEF Char, Prints
  <2>3. IsScreen(screen) /\ line \in Seq(Chars)
    BY DEF SInv, ScreensOK, LineOK
  <2>4. ScreensOK'
    BY <1>1, <1>3, <2>3, PutScreen, NewScreen DEF SInv
  <2>5. LineOK'
    <3>1. Append(line, Char(k)) \in Seq(Chars) /\ Len(Append(line, Char(k))) <= CMD_MAX
      BY <1>3, <2>1, <2>3, ShellAssumption
    <3> QED
      BY <1>3, <3>1, Zenon DEF LineOK, Chars
  <2>6. EchoOK'
    <3>1. Echoes(screen, line) => Echoes(screen', line')
      BY <1>3, <2>2, <2>3, LetterEchoes
    <3>2. disturbed' \in BOOLEAN /\ (~disturbed' => Echoes(screen', line'))
      BY <1>1, <3>1 DEF SInv, EchoOK
    <3> QED
      BY <3>2, Zenon DEF EchoOK, Echoes, Cursor, Cells
  <2> QED
    BY <1>1, <2>4, <2>5, <2>6, SameFlags, SameMemory DEF SInv
<1> QED
  BY <1>2, <1>3 DEF Letter

LEMMA BackspaceKeyKeeps ==
  ASSUME SInv, BackspaceKey
  PROVE  SInv'
<1>1. UNCHANGED <<terminals, current_terminal, modifiers, memory>>
  BY DEF BackspaceKey
<1>2. CASE UNCHANGED <<line, screen, disturbed>>
  BY <1>1, <1>2, SameScreens, SameFlags, SameLine, SameMemory, SameEcho DEF SInv, display
<1>3. CASE /\ line # <<>> /\ line' = Front(line) /\ screen' = putchar(screen, Backspace)
           /\ disturbed' = (disturbed \/ screen.col = 0)
  <2>1. IsScreen(screen) /\ line \in Seq(Chars) /\ Len(line) <= CMD_MAX
    BY DEF SInv, ScreensOK, LineOK
  <2>2. ScreensOK'
    BY <1>1, <1>3, <2>1, PutScreen, NewScreen DEF SInv
  <2>3. LineOK'
    <3>1. Front(line) \in Seq(Chars) /\ Len(Front(line)) <= CMD_MAX
      BY <1>3, <2>1, FrontFacts, ShellAssumption
    <3> QED
      BY <1>3, <3>1, Zenon DEF LineOK, Chars
  <2>4. EchoOK'
    <3>1. screen.col # 0 => screen.col > 0
      BY <2>1 DEF IsScreen
    <3>2. Echoes(screen, line) /\ screen.col > 0 => Echoes(screen', line')
      BY <1>3, <2>1, BackspaceEchoes
    <3>3. disturbed' \in BOOLEAN /\ (~disturbed' => Echoes(screen', line'))
      BY <1>3, <3>1, <3>2 DEF SInv, EchoOK
    <3> QED
      BY <3>3, Zenon DEF EchoOK, Echoes, Cursor, Cells
  <2> QED
    BY <1>1, <2>2, <2>3, <2>4, SameFlags, SameMemory DEF SInv
<1> QED
  BY <1>2, <1>3 DEF BackspaceKey

\* Whatever is run, it leaves the cursor inside the screen.
LEMMA RunScreen ==
  ASSUME NEW s, IsScreen(s), NEW S, NEW p \in Seq(S)
  PROVE  IsScreen(Run(s, p))
<1>1. IsScreen(BlankScreen(s.color))
  BY BlankIsScreen
<1>2. Len(p \o <<Newline>>) \in Nat
  <2>1. p \in Seq(S \cup {Newline}) /\ <<Newline>> \in Seq(S \cup {Newline})
    OBVIOUS
  <2> QED
    BY <2>1
<1>3. IsScreen(set_color(s, "red"))
  BY ColouredIsScreen
<1>4. IsScreen(print(set_color(s, "red"), p \o <<Newline>>))
  BY <1>2, <1>3, PrintScreen
<1> QED
  BY <1>1, <1>4 DEF Run

LEMMA EnterKeeps ==
  ASSUME SInv, Enter
  PROVE  SInv'
<1>1. UNCHANGED <<terminals, current_terminal, modifiers>>
  BY DEF Enter
<1>2. IsScreen(screen) /\ line \in Seq(Chars) /\ Len(line) <= CMD_MAX
  BY DEF SInv, ScreensOK, LineOK
<1>3. ScreensOK'
  <2>1. IsScreen(newline(screen))
    BY <1>2, NewlineScreen DEF IsScreen
  <2>2. IsScreen(Run(newline(screen), Words))
    BY <1>2, <2>1, WordsIsText, RunScreen
  <2>3. IsScreen(set_color(Run(newline(screen), Words), "grey"))
    BY <2>2, ColouredIsScreen
  <2>4. IsScreen(print(set_color(Run(newline(screen), Words), "grey"), Prompt))
    BY <2>3, PromptIsText, PrintScreen
  <2> QED
    BY <1>1, <2>4, NewScreen DEF SInv, Enter
<1>4. LineOK'
  <2>1. line' = <<>>
    BY DEF Enter
  <2>2. <<>> \in Seq(Chars) /\ Len(<<>>) <= CMD_MAX
    BY ShellAssumption
  <2> QED
    BY <2>1, <2>2, Zenon DEF LineOK, Chars
<1>5. EchoOK'
  <2>1. line' = <<>> /\ disturbed' \in BOOLEAN
    BY DEF Enter
  <2>2. Echoes(screen', line')
    BY <2>1 DEF Echoes
  <2> QED
    BY <2>1, <2>2, Zenon DEF EchoOK, Echoes, Cursor, Cells
<1>6. MemoryOK'
  <2>1. CASE UNCHANGED memory
    BY <2>1, SameMemory DEF SInv
  <2>2. CASE /\ history' = [history EXCEPT ![history_slot(history_count)] = line]
             /\ history_count' = history_count + 1
             /\ history_pos' = history_count + 1
             /\ accepted' = Append(accepted, line)
    <3>1. MemoryOK
      BY DEF SInv
    <3>2. Len(accepted') = history_count' /\ accepted' \in Seq(Seq(Chars))
      BY <1>2, <2>2, <3>1 DEF MemoryOK
    <3>3. /\ DOMAIN history' = 0 .. MAX_HISTORY - 1
          /\ \A i \in 0 .. MAX_HISTORY - 1 : Len(history'[i]) <= CMD_MAX
      BY <1>2, <2>2, <3>1 DEF MemoryOK
    <3>4. history_count' \in Nat /\ history_pos' \in -1 .. history_count'
      BY <2>2, <3>1 DEF MemoryOK
    <3> QED
      BY <3>2, <3>3, <3>4 DEF MemoryOK, Chars
  <2> QED
    BY <2>1, <2>2 DEF Enter, history_add
<1> QED
  BY <1>1, <1>3, <1>4, <1>5, <1>6, SameFlags DEF SInv

LEMMA InitEstablishesSInv == Init => SInv
<1> SUFFICES ASSUME Init PROVE SInv
  OBVIOUS
<1>1. IsScreen(screen)
  <2>1. IsScreen(BlankScreen("cyan"))
    BY BlankIsScreen
  <2> QED
    BY <2>1, PromptIsText, PrintScreen DEF Init
<1>2. ScreensOK
  BY <1>1, BlankIsScreen, ConsoleAssumption DEF Init, ScreensOK, TerminalIds
<1>3. FlagsOK
  BY DEF Init, FlagsOK
<1>4. LineOK
  BY ShellAssumption DEF Init, LineOK
<1>5. MemoryOK
  BY ShellAssumption DEF Init, MemoryOK
<1>6. EchoOK
  <2>1. line = <<>> /\ disturbed \in BOOLEAN
    BY DEF Init
  <2>2. Echoes(screen, line)
    BY <2>1 DEF Echoes
  <2> QED
    BY <2>1, <2>2, Zenon DEF EchoOK
<1> QED
  BY <1>2, <1>3, <1>4, <1>5, <1>6 DEF SInv

LEMMA SInvStep == SInv /\ [Next]_vars => SInv'
<1> SUFFICES ASSUME SInv, [Next]_vars PROVE SInv'
  OBVIOUS
<1>1. ASSUME NEW code \in {128, 129}, ArrowKey(code) PROVE SInv'
  BY <1>1, ArrowKeyKeeps
<1>2. CASE \/ \E k \in ShiftKeys : ShiftKey(k)
           \/ \E k \in AltKeys : AltKey(k)
           \/ CapsLock
           \/ \E flag \in {"shift", "alt"}, on \in BOOLEAN : MouseByte(flag, on)
  BY <1>2, ModifierKeyKeeps
<1>3. ASSUME NEW t \in TerminalIds, FunctionKey(t) PROVE SInv'
  BY <1>3, FunctionKeyKeeps
<1>4. ASSUME NEW k \in Letters, Letter(k) PROVE SInv'
  BY <1>4, LetterKeeps
<1>5. CASE BackspaceKey
  BY <1>5, BackspaceKeyKeeps
<1>6. CASE Enter
  BY <1>6, EnterKeeps
<1>7. CASE UNCHANGED vars
  BY <1>7, SameScreens, SameFlags, SameLine, SameMemory, SameEcho DEF SInv, vars
<1> QED
  BY <1>1, <1>2, <1>3, <1>4, <1>5, <1>6, <1>7 DEF Next

\* The cursor of every terminal stays inside its screen, the line in its buffer and the
\* history's position in what the ring has, whatever is typed, printed and switched.
THEOREM ShellTypeCorrect == Spec => []ShellTypeOK
<1>1. SInv => ShellTypeOK
  BY SInvImplies
<1> QED
  BY <1>1, InitEstablishesSInv, SInvStep, PTL DEF Spec

\* What the user sees before the cursor is the line Enter will run, on a screen of any
\* size: through wraps at the right edge and scrolling, for every line that fits it.
THEOREM EchoMatchesLineHolds == Spec => []EchoMatchesLine
<1>1. SInv => EchoMatchesLine
  BY SInvImplies
<1> QED
  BY <1>1, InitEstablishesSInv, SInvStep, PTL DEF Spec
============================================================================

-------------------------------- MODULE Shell --------------------------------
(***************************************************************************)
(* The shell of kernel/kernel.c: getchar, which turns scan codes into      *)
(* characters and switches terminals, the command line kernel_main edits   *)
(* with them, and the command history, on top of Console.  A step is one   *)
(* turn of the loop of kernel_main for one scan code.  What a command      *)
(* prints is left out but for its words; what mount, cd, ls and cat do     *)
(* with the disk and ping with the network is not in this module.          *)
(***************************************************************************)
EXTENDS Console, Integers, FiniteSets

CONSTANTS
  Letters,       \* keys that print, with their characters below
  small, big,    \* the tables of getchar: each a function from Letters
  CMD_MAX,       \* the longest line (255)
  MAX_HISTORY,   \* slots of the history (16)
  ClearWord,     \* the line that is the command "clear"
  MaxKeys        \* bound: scan codes

ASSUME ShellAssumption ==
  /\ MAX_HISTORY \in Nat \ {0} /\ CMD_MAX \in Nat /\ MaxKeys \in Nat
  /\ CMD_MAX <= (VGA_HEIGHT - 1) * VGA_WIDTH
  /\ \A k \in Letters : {small[k], big[k]} \cap {Newline, Backspace} = {}

ShiftKeys == {"left shift", "right shift"}
AltKeys == {"alt"}

VARIABLES
  shift, caps, alt,
  held,           \* the modifier keys that are down
  byMouse,        \* history: the flags that a byte of the mouse has set
  line,           \* cmd[0 .. pos - 1]
  history, history_count, history_pos,
  keys,           \* scan codes so far
  accepted,       \* history: the commands history_add has taken
  disturbed       \* history: since the prompt, the terminal was switched below the
                  \* line, or a backspace was printed at the left edge

modifiers == <<shift, caps, alt, held, byMouse>>
memory == <<history, history_count, history_pos, accepted>>
display == <<screen, terminals, current_terminal>>
vars == <<display, modifiers, line, memory, keys, disturbed>>

Prompt == <<">", Blank>>

\* A scan code arrives.
Scan == keys < MaxKeys /\ keys' = keys + 1

-----------------------------------------------------------------------------
(* getchar: modifiers and function keys, which yield no character.         *)

\* Mutant of ShiftCode: the right key's release is not looked for.
ShiftCodeLeft(k, down) ==
  shift' = (IF down THEN TRUE ELSE IF k = "left shift" THEN FALSE ELSE shift)

\* Scan codes 0x2A, 0x36 and their releases: one flag for both keys.
ShiftCode(k, down) == shift' = down

ShiftKey(k) ==
  /\ Scan
  /\ \/ k \notin held /\ ShiftCode(k, TRUE) /\ held' = held \cup {k}
        /\ UNCHANGED byMouse
     \/ k \in held /\ ShiftCode(k, FALSE) /\ held' = held \ {k}
        /\ byMouse' = byMouse \ {"shift"}
  /\ UNCHANGED <<display, caps, alt, line, memory, disturbed>>

AltKey(k) ==
  /\ Scan
  /\ \/ k \notin held /\ alt' = TRUE /\ held' = held \cup {k}
        /\ UNCHANGED byMouse
     \/ k \in held /\ alt' = FALSE /\ held' = held \ {k}
        /\ byMouse' = byMouse \ {"alt"}
  /\ UNCHANGED <<display, shift, caps, line, memory, disturbed>>

CapsLock ==
  /\ Scan
  /\ caps' = ~caps
  /\ UNCHANGED <<display, shift, alt, held, byMouse, line, memory, disturbed>>

\* mouse_init has the mouse send; getchar takes a byte of it for a scan code, and a
\* move to the left and down begins with that of Alt, 0x38.  The bytes that print or
\* end the line are those of Letter, BackspaceKey and Enter.
MouseByte(flag, on) ==
  /\ Scan
  /\ CASE flag = "shift" -> shift' = on /\ UNCHANGED alt
       [] flag = "alt" -> alt' = on /\ UNCHANGED shift
  /\ byMouse' = IF on THEN byMouse \cup {flag} ELSE byMouse \ {flag}
  /\ UNCHANGED <<display, caps, held, line, memory, disturbed>>

\* Alt+F1 .. F4.  The line stays what it is on every terminal.
FunctionKey(term) ==
  /\ Scan
  /\ IF alt THEN vt_switch(term) ELSE UNCHANGED display
  /\ disturbed' = (disturbed \/ (line # <<>> /\ current_terminal' # current_terminal))
  /\ UNCHANGED <<modifiers, line, memory>>

\* char is signed: what getchar returns for a byte n.
ToChar(n) == IF n < 128 THEN n ELSE n - 256

\* Mutant of history_slot: the last slot is never used.
history_slot_short(n) == n % (MAX_HISTORY - 1)

history_slot(n) == n % MAX_HISTORY

history_get_prev == IF history_pos > 0 THEN history_pos - 1 ELSE history_pos

history_get_next == IF history_pos + 1 >= history_count THEN history_count - 1
                    ELSE history_pos + 1

\* The line is erased and a command of the history printed in its place.
Recall(p) ==
  /\ history_pos' = p
  /\ line' = history[history_slot(p)]
  /\ screen' = print(screen, [i \in DOMAIN line |-> Backspace] \o line')

\* Alt+Up and Alt+Down return 0x80 and 0x81; kernel_main compares with the same
\* constants.
ArrowKey(code) ==
  /\ Scan
  /\ IF alt /\ ToChar(code) = code /\ history_count > 0
       THEN Recall(IF code = 128 THEN history_get_prev ELSE history_get_next)
       ELSE UNCHANGED <<history_pos, line, screen>>
  /\ UNCHANGED <<terminals, current_terminal, modifiers, history, history_count>>
  /\ UNCHANGED <<accepted, disturbed>>

-----------------------------------------------------------------------------
(* kernel_main: the line.                                                  *)

\* The tables of getchar: Caps Lock reverses Shift.
Char(k) == IF shift # caps THEN big[k] ELSE small[k]

Letter(k) ==
  /\ Scan
  /\ IF Len(line) < CMD_MAX
       THEN line' = Append(line, Char(k)) /\ screen' = putchar(screen, Char(k))
       ELSE UNCHANGED <<line, screen>>
  /\ UNCHANGED <<terminals, current_terminal, modifiers, memory, disturbed>>

BackspaceKey ==
  /\ Scan
  /\ IF line # <<>>
       THEN /\ line' = Front(line)
            /\ screen' = putchar(screen, Backspace)
            /\ disturbed' = (disturbed \/ screen.col = 0)
       ELSE UNCHANGED <<line, screen, disturbed>>
  /\ UNCHANGED <<terminals, current_terminal, modifiers, memory>>

\* The latest command is looked for at history[history_count - 1], which is past the
\* array once the slots have been used up: what is read there may be equal or not.
SameAsLatest ==
  IF history_count = 0 THEN {FALSE}
  ELSE IF history_count <= MAX_HISTORY THEN {history[history_count - 1] = line}
  ELSE BOOLEAN

history_add ==
  \E same \in SameAsLatest :
    IF same THEN UNCHANGED memory
    ELSE /\ history' = [history EXCEPT ![history_slot(history_count)] = line]
         /\ history_count' = history_count + 1
         /\ history_pos' = history_count + 1
         /\ accepted' = Append(accepted, line)

\* The line without the blanks before its first word.
Words == LET skipped == { i \in DOMAIN line : \A j \in 1 .. i : line[j] = Blank }
         IN SubSeq(line, Cardinality(skipped) + 1, Len(line))

\* What a command does to the screen.
Run(s, p) ==
  CASE p = <<>> -> s
    [] p = ClearWord -> BlankScreen(s.color)
    [] OTHER -> print(set_color(s, "red"), p \o <<Newline>>)

Enter ==
  /\ Scan
  /\ IF line = <<>> THEN UNCHANGED memory ELSE history_add
  /\ screen' = print(set_color(Run(newline(screen), Words), "grey"), Prompt)
  /\ line' = <<>>
  /\ disturbed' = FALSE
  /\ UNCHANGED <<terminals, current_terminal, modifiers>>

-----------------------------------------------------------------------------
\* kernel_main before its loop; what it prints there but the prompt is left out.
Init ==
  /\ screen = print(BlankScreen("cyan"), Prompt)
  /\ terminals = [t \in TerminalIds |-> BlankScreen("grey")]
  /\ current_terminal = 0
  /\ shift = FALSE /\ caps = FALSE /\ alt = FALSE
  /\ held = {} /\ byMouse = {}
  /\ line = <<>>
  /\ history = [i \in 0 .. MAX_HISTORY - 1 |-> <<>>]
  /\ history_count = 0
  /\ history_pos = -1
  /\ keys = 0
  /\ accepted = <<>>
  /\ disturbed = FALSE

Next ==
  \/ \E code \in {128, 129} : ArrowKey(code)
  \/ \E k \in ShiftKeys : ShiftKey(k)
  \/ \E k \in AltKeys : AltKey(k)
  \/ CapsLock
  \/ \E flag \in {"shift", "alt"}, on \in BOOLEAN : MouseByte(flag, on)
  \/ \E t \in TerminalIds : FunctionKey(t)
  \/ \E k \in Letters : Letter(k)
  \/ BackspaceKey
  \/ Enter

Spec == Init /\ [][Next]_vars

-----------------------------------------------------------------------------
Lines == { s \in Seq(STRING) : Len(s) <= CMD_MAX }

ScreenOK(s) == /\ DOMAIN s.video = Cells
               /\ s.row \in 0 .. VGA_HEIGHT - 1 /\ s.col \in 0 .. VGA_WIDTH - 1

\* The cursor of every terminal is inside its screen, the line in its buffer and the
\* next history entry one the ring has.
ShellTypeOK ==
  /\ ScreenOK(screen) /\ \A t \in TerminalIds : ScreenOK(terminals[t])
  /\ DOMAIN terminals = TerminalIds /\ current_terminal \in TerminalIds
  /\ {shift, caps, alt, disturbed} \subseteq BOOLEAN
  /\ held \subseteq ShiftKeys \cup AltKeys /\ byMouse \subseteq {"shift", "alt"}
  /\ Len(line) <= CMD_MAX
  /\ DOMAIN history = 0 .. MAX_HISTORY - 1
  /\ \A i \in DOMAIN history : Len(history[i]) <= CMD_MAX
  /\ history_count = Len(accepted) /\ history_pos \in -1 .. history_count

\* What the user sees is what Enter will run: the cells before the cursor show the
\* line, across wrapping and scrolling, as long as the terminal was not switched
\* below it and no backspace was printed at the left edge.
EchoMatchesLine ==
  ~disturbed => \A i \in DOMAIN line :
    /\ Cursor(screen) - Len(line) + i - 1 \in Cells
    /\ screen.video[Cursor(screen) - Len(line) + i - 1] = line[i]

\* The ring holds the commands taken last, in the order Alt+Up would go back through.
HistoryKeepsLatest ==
  \A i \in 1 .. Len(accepted) :
    i + MAX_HISTORY > Len(accepted) => history[(i - 1) % MAX_HISTORY] = accepted[i]

\* A flag does not outlive the key that set it, whichever of two keys came up and
\* whatever the mouse cleared between, unless a byte of the mouse has set it since.
NoStuckModifier ==
  /\ shift => held \cap ShiftKeys # {} \/ "shift" \in byMouse
  /\ alt => held \cap AltKeys # {} \/ "alt" \in byMouse

\* Each terminal keeps its screen while another is shown.
Screens == [t \in TerminalIds |-> IF t = current_terminal THEN screen ELSE terminals[t]]

VirtualTerminals == INSTANCE Terminals WITH screens <- Screens, active <- current_terminal

ImplementsTerminals == VirtualTerminals!Spec
==============================================================================

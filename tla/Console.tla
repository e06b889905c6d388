------------------------------- MODULE Console -------------------------------
(***************************************************************************)
(* The text console and the virtual terminals of kernel/kernel.c.  The     *)
(* video memory, the cursor and the colour to print in are one record,     *)
(* which vt_switch saves and restores; the colours of the cells are left   *)
(* out.                                                                    *)
(***************************************************************************)
EXTENDS Naturals, SequencesExt

CONSTANTS
  VGA_WIDTH, VGA_HEIGHT,  \* 80 and 25
  MAX_TERMINALS           \* 4

ASSUME ConsoleAssumption ==
  /\ VGA_WIDTH \in Nat \ {0} /\ VGA_HEIGHT \in Nat \ {0}
  /\ MAX_TERMINALS \in Nat \ {0}

VARIABLES
  screen,           \* video, row, col and current_color
  terminals,        \* what is saved of each terminal
  current_terminal

TerminalIds == 0 .. MAX_TERMINALS - 1
Cells == 0 .. VGA_WIDTH * VGA_HEIGHT - 1
Blank == " "
Newline == "newline"
Backspace == "backspace"

BlankScreen(color) == [video |-> [i \in Cells |-> Blank], row |-> 0, col |-> 0, color |-> color]

Cursor(s) == s.row * VGA_WIDTH + s.col

-----------------------------------------------------------------------------
\* Mutant of newline: the text scrolls by a row too few.
newline_no_scroll(s) ==
  [s EXCEPT !.col = 0, !.row = IF @ + 1 < VGA_HEIGHT THEN @ + 1 ELSE VGA_HEIGHT - 1]

newline(s) ==
  IF s.row + 1 < VGA_HEIGHT THEN [s EXCEPT !.col = 0, !.row = @ + 1]
  ELSE [s EXCEPT !.col = 0, !.row = VGA_HEIGHT - 1,
                 !.video = [i \in Cells |->
                   IF i + VGA_WIDTH \in Cells THEN s.video[i + VGA_WIDTH] ELSE Blank]]

\* The character before the cursor is blanked, or one put at the cursor.
Erased(s) == [s EXCEPT !.col = @ - 1, !.video[Cursor(s) - 1] = Blank]
Written(s, c) == [s EXCEPT !.col = @ + 1, !.video[Cursor(s)] = c]

\* Mutant of putchar: the line is not ended at the right edge.
putchar_no_wrap(s, c) ==
  CASE c = Newline -> newline(s)
    [] c = Backspace /\ s.col > 0 -> Erased(s)
    [] OTHER -> IF s.col >= VGA_WIDTH THEN newline(Written(s, c)) ELSE Written(s, c)

\* A backspace at the left edge is printed like any other character.
putchar(s, c) ==
  CASE c = Newline -> newline(s)
    [] c = Backspace /\ s.col > 0 -> Erased(s)
    [] OTHER -> IF Written(s, c).col >= VGA_WIDTH THEN newline(Written(s, c)) ELSE Written(s, c)

\* A text is put character by character; after[n] is the screen after the nth.
print(s, text) ==
  LET after[n \in 0 .. Len(text)] == IF n = 0 THEN s ELSE putchar(after[n - 1], text[n])
  IN  after[Len(text)]

set_color(s, color) == [s EXCEPT !.color = color]

-----------------------------------------------------------------------------
\* Mutant of vt_switch: the index moves before the screen is saved.
vt_switch_late_save(term) ==
  IF term = current_terminal THEN UNCHANGED <<screen, terminals, current_terminal>>
  ELSE /\ current_terminal' = term
       /\ terminals' = [terminals EXCEPT ![term] = screen]
       /\ screen' = terminals'[term]

vt_switch(term) ==
  IF term = current_terminal THEN UNCHANGED <<screen, terminals, current_terminal>>
  ELSE /\ terminals' = [terminals EXCEPT ![current_terminal] = screen]
       /\ current_terminal' = term
       /\ screen' = terminals'[term]
==============================================================================

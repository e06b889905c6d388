------------------------------- MODULE MCShell -------------------------------
(***************************************************************************)
(* The shell for TLC: a screen of two rows, where a line of three letters  *)
(* wraps and scrolls.                                                      *)
(***************************************************************************)
EXTENDS Shell

MCLetters == {"c", "space"}
MCSmall == [k \in MCLetters |-> IF k = "c" THEN "c" ELSE Blank]
MCBig == [k \in MCLetters |-> IF k = "c" THEN "C" ELSE Blank]
MCClear == <<"c">>

\* "Alt+Up/Down - history" (kernel.c:928): with commands in the history, either key
\* puts one of them on the line.
RecallWorks ==
  [][\A code \in {128, 129} :
       ArrowKey(code) /\ alt /\ accepted # <<>> => line' \in Range(accepted)]_vars
==============================================================================

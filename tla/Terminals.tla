------------------------------ MODULE Terminals ------------------------------
(***************************************************************************)
(* What virtual terminals promise: every terminal has a screen of its own. *)
(* What is printed goes to the screen of the active terminal, whatever it  *)
(* is; showing another terminal changes no screen.                         *)
(***************************************************************************)
VARIABLES
  screens,  \* the screen of each terminal
  active    \* the terminal that is shown

vars == <<screens, active>>

Init == active \in DOMAIN screens

Output == /\ \A t \in DOMAIN screens : t # active => screens'[t] = screens[t]
          /\ DOMAIN screens' = DOMAIN screens
          /\ UNCHANGED active

Show(t) == /\ active' = t
           /\ UNCHANGED screens

Next == Output \/ \E t \in DOMAIN screens : Show(t)

Spec == Init /\ [][Next]_vars
==============================================================================

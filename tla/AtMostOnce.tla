----------------------------- MODULE AtMostOnce -----------------------------
(***************************************************************************)
(* What the intake of webhooks promises about a failure that carries an    *)
(* id, without the set that keeps it: in one life of the process it opens  *)
(* at most one event.  Nothing is promised across a restart.               *)
(***************************************************************************)
EXTENDS Naturals

CONSTANT Identified

VARIABLE opened   \* how many events each of them opened in this life

vars == <<opened>>

Init == opened = [f \in Identified |-> 0]

Open(f) ==
  /\ opened[f] = 0
  /\ opened' = [opened EXCEPT ![f] = 1]

Restart == opened' = [f \in Identified |-> 0]

Next == (\E f \in Identified : Open(f)) \/ Restart

Spec == Init /\ [][Next]_vars
=============================================================================

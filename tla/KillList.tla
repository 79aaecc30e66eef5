------------------------------ MODULE KillList ------------------------------
(***************************************************************************)
(* What the kill switch promises, without the file that keeps it: a list   *)
(* of killed mandates that commands change in one step each, that a crash  *)
(* may forget altogether but never in part, and of which a run sees either *)
(* all or nothing.                                                         *)
(***************************************************************************)
CONSTANTS MandateIds, Runs

VARIABLES
  killed,   \* the mandates on the list
  seen      \* the list as each run found it

vars == <<killed, seen>>

Init ==
  /\ killed = {}
  /\ seen = [r \in Runs |-> {}]

Kill(m)   == killed' = killed \cup {m} /\ UNCHANGED seen
Revive(m) == killed' = killed \ {m} /\ UNCHANGED seen
Forget    == killed' = {} /\ UNCHANGED seen

Look(r) ==
  /\ \E view \in {killed, {}} : seen' = [seen EXCEPT ![r] = view]
  /\ UNCHANGED killed

Next ==
  \/ \E m \in MandateIds : Kill(m) \/ Revive(m)
  \/ Forget
  \/ \E r \in Runs : Look(r)

Spec == Init /\ [][Next]_vars
=============================================================================

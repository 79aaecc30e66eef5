------------------------------- MODULE Worker -------------------------------
(***************************************************************************)
(* A process of the engine: the intake and the reference table, which      *)
(* share nothing but the memory they live in.  A restart of the process    *)
(* takes both; the resets the code offers take either alone.               *)
(***************************************************************************)
EXTENDS Intake, ReferenceTable

vars == <<intakeVars, tableVars>>

Init == IntakeInit /\ TableInit

\* The process dies between two calls, and is started again.
Restart == IntakeRestart /\ TableReset

Next ==
  \/ \E f \in Failures : Delivery(f) /\ UNCHANGED tableVars
  \/ \E bank \in Banks : Score(bank) /\ UNCHANGED intakeVars
  \/ ReplaceFile /\ UNCHANGED intakeVars
  \/ TableReset /\ UNCHANGED intakeVars
  \/ IntakeRestart /\ UNCHANGED tableVars
  \/ Restart

Spec == Init /\ [][Next]_vars

\* The gateway keeps sending what it has no answer for.
FairSpec ==
  Spec /\ \A f \in Failures :
    WF_vars(f \notin acked /\ Delivery(f) /\ UNCHANGED tableVars)
=============================================================================

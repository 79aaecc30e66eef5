----------------------------- MODULE Validator -----------------------------
(***************************************************************************)
(* Stage 8, the guardrails (src/guardrails/validator.py), and the consent  *)
(* bookkeeping they share a customer record with (src/intervene/           *)
(* consent.py).  The guardrails re-derive every fact they need from the    *)
(* mandate and the raw failure event and trust no stored verdict.          *)
(*                                                                         *)
(* A customer fact that the program stores as None is the constant None.   *)
(* The allowlists of grace periods and pauses are in Assist.  The digest a *)
(* decision carries as its token is left out: nothing verifies it.         *)
(***************************************************************************)
EXTENDS TimeUtils

CONSTANT None

ASSUME NoneAssumption == None \notin Int

\* consent.is_contactable
IsContactable(mandate, at) ==
  ~(mandate.optedOutAt # None /\ at >= mandate.optedOutAt)

\* A slip: only the first contact is remembered.
MutantFirstContactOnly(mandate, at) ==
  IF mandate.lastContactedAt = None THEN [mandate EXCEPT !.lastContactedAt = at] ELSE mandate

\* consent.record_contact
RecordContact(mandate, at) == [mandate EXCEPT !.lastContactedAt = at]

\* _is_terminal_event, duplicated from the gate on purpose
IsTerminalEvent(reason, npci) ==
  IF npci \in NpciOverrides THEN NpciOverride(npci) = "terminal"
  ELSE reason \in ReasonsWithVerdict("terminal")

\* A slip: the opt-out is left to the check at scheduling time.
MutantNoOptOutRecheck(mandate, at, attemptNumber, priorFailure, now) ==
  /\ attemptNumber <= MaxExecutionAttemptsTotal
  /\ ~IsTerminalEvent(priorFailure.reason, priorFailure.npci)
  /\ IsPermittedExecutionTime(at)
  /\ mandate.status # "cancelled"

\* The five checks of validate_execution; the first that fails vetoes.
ValidateExecution(mandate, at, attemptNumber, priorFailure, now) ==
  /\ attemptNumber <= MaxExecutionAttemptsTotal
  /\ ~IsTerminalEvent(priorFailure.reason, priorFailure.npci)
  /\ IsPermittedExecutionTime(at)
  /\ ~(mandate.optedOutAt # None /\ now >= mandate.optedOutAt)
  /\ mandate.status # "cancelled"

\* A slip: the budget counts the mandatory notices too.
MutantBudgetForAll(mandate, type, now) ==
  /\ mandate.lastContactedAt # None
  /\ StartOfIstDay(mandate.lastContactedAt) = StartOfIstDay(now)

\* Whether the daily contact budget blocks a notice of this type.
BudgetBlocks(mandate, type, now) ==
  /\ type \notin MandatoryNoticeTypes
  /\ mandate.lastContactedAt # None
  /\ MaxContactsPerDay <= 1
  /\ StartOfIstDay(mandate.lastContactedAt) = StartOfIstDay(now)

ValidateNotification(mandate, type, now) ==
  /\ ~(mandate.optedOutAt # None /\ now >= mandate.optedOutAt)
  /\ ~BudgetBlocks(mandate, type, now)
=============================================================================

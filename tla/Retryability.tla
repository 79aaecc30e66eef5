---------------------------- MODULE Retryability ----------------------------
(***************************************************************************)
(* Stage 3, the retryability gate (src/policy/retryability.py), and the    *)
(* stopping rules (src/policy/stopping_rules.py).  A failure event is a    *)
(* record [reason, npci, ...]; a mandate carries its consecutive-failure   *)
(* count and whether its balance hint is known and at most 5% of the       *)
(* amount (lowBalance).                                                    *)
(***************************************************************************)
EXTENDS RegulatoryConstants

LooksIntentional(mandate) ==
  /\ mandate.consecutive >= IntentMinConsecutive
  /\ mandate.lowBalance

\* The NPCI override is consulted first, then the table, then intent.
Evaluate(event, mandate) ==
  IF event.npci \in NpciOverrides THEN NpciOverride(event.npci)
  ELSE IF event.reason \notin ReasonTable THEN "investigate"
  ELSE IF ReasonVerdict(event.reason) = "retryable" /\ LooksIntentional(mandate)
       THEN "likely_intentional_nonpayment"
  ELSE ReasonVerdict(event.reason)

BudgetExhausted(attemptsMade) == attemptsMade >= MaxExecutionAttemptsTotal

ChasedTooLong(firstFailureAt, now) ==
  now - firstFailureAt > StoppingRuleMaxDays * Day

\* stopping_rules.evaluate: the reason to stop, or "continue".
StopRule(verdict, attemptsMade, firstFailureAt, now) ==
  IF verdict # "retryable" THEN "verdict"
  ELSE IF BudgetExhausted(attemptsMade) THEN "budget_exhausted"
  ELSE IF ChasedTooLong(firstFailureAt, now) THEN "chased_too_long"
  ELSE "continue"
=============================================================================

------------------------------ MODULE Selector ------------------------------
(***************************************************************************)
(* Stage 6 (src/intervene/selector.py): which notice accompanies a         *)
(* verdict.  Without an API key the rule table decides alone.  With one,   *)
(* the model's answer replaces the rule whenever it names an allowed type, *)
(* whatever the verdict; any other answer, and any failed call, falls back *)
(* to the rule.  The grace periods and pauses that may come with a type    *)
(* are the subject of Assist.                                              *)
(***************************************************************************)
EXTENDS RegulatoryConstants

CONSTANT LlmAnswers   \* the intervention types the model may answer with;
                      \* empty when no API key is configured

\* A slip: the notice of a retry is a nudge, which announces no debit.
MutantNudge(verdict) ==
  CASE verdict = "likely_intentional_nonpayment" -> "cancellation_confirmation"
    [] verdict = "terminal"    -> "source_aware_failure_notice"
    [] verdict = "investigate" -> "escalate_to_support"
    [] verdict = "retryable"   -> "balance_nudge"

DeterministicChoice(verdict) ==
  CASE verdict = "likely_intentional_nonpayment" -> "cancellation_confirmation"
    [] verdict = "terminal"    -> "source_aware_failure_notice"
    [] verdict = "investigate" -> "escalate_to_support"
    [] verdict = "retryable"   -> "pre_debit_notice"

\* select: the types it may return.
Select(verdict) ==
  { DeterministicChoice(verdict) } \cup (LlmAnswers \cap InterventionType)
=============================================================================

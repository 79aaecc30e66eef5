------------------------ MODULE RegulatoryConstants ------------------------
(***************************************************************************)
(* The closed vocabularies of src/domain/enums.py and the tables of        *)
(* src/domain/regulatory_constants.py.  Every other module reads its       *)
(* limits from here, as the program reads them from RC.                    *)
(*                                                                         *)
(* Instants are seconds counted from an IST midnight (day 0 of a run), so  *)
(* the time-zone shift of timeutils.to_ist is already applied.             *)
(***************************************************************************)
EXTENDS Integers

Hour == 3600
Day  == 24 * Hour

-----------------------------------------------------------------------------
(* Vocabularies *)

FailureReason ==
  { "insufficient_funds", "bank_technical_error", "gateway_technical_error",
    "credit_failed", "invalid_vpa", "vpa_resolution_failed",
    "payment_declined", "payment_cancelled", "payment_timed_out",
    "payment_collect_request_expired", "unknown" }

NpciResponseCode == { "Z9", "U28", "U30", "U69", "Z7", "Z8" }

\* The absent code (None in the program).
NoCode == "none"

\* NEEDS_CUSTOMER_ACTION is declared by the enum and never produced.
RetryabilityVerdict ==
  { "retryable", "terminal", "investigate", "likely_intentional_nonpayment" }

InterventionType ==
  { "pre_debit_notice", "post_debit_confirmation", "balance_nudge",
    "source_aware_failure_notice", "alternate_rail_suggestion",
    "cancellation_confirmation", "escalate_to_support", "no_action" }

SubscriptionStatus ==
  { "created", "authenticated", "active", "pending", "halted", "cancelled",
    "completed", "expired", "paused" }

Severity == { "low", "medium", "high" }

-----------------------------------------------------------------------------
(* Tables *)

\* Slips a table like this invites; each is run in place of its original to see
\* that a property notices.
MutantLateAfternoon ==
  << [start |-> 0,                   end |-> 10 * Hour],
     [start |-> 13 * Hour,           end |-> 18 * Hour],
     [start |-> 21 * Hour + 30 * 60, end |-> 24 * Hour] >>
MutantFiveAttempts == 5
MutantRetryableZ8(code) == IF code \in {"Z7", "Z8"} THEN "retryable" ELSE "terminal"
MutantFailureNoticeOptional == { "pre_debit_notice", "post_debit_confirmation" }

\* The three execution windows of a day, in the order the allocator scans them.
PermittedWindows ==
  << [start |-> 0,                   end |-> 10 * Hour],
     [start |-> 13 * Hour,           end |-> 17 * Hour],
     [start |-> 21 * Hour + 30 * 60, end |-> 24 * Hour] >>

PeakWindows ==
  { [start |-> 10 * Hour, end |-> 13 * Hour],
    [start |-> 17 * Hour, end |-> 21 * Hour + 30 * 60] }

MaxExecutionAttemptsTotal  == 4
PreDebitNotificationHours  == 24
Z7MinSpacingHours          == 4
MaxContactsPerDay          == 1
IntentMinConsecutive       == 3
StoppingRuleMaxDays        == 21

\* REASON_STRATEGY_TABLE: the reasons it lists, by verdict.
ReasonsWithVerdict(v) ==
  CASE v = "retryable" ->
         { "insufficient_funds", "bank_technical_error",
           "gateway_technical_error", "payment_collect_request_expired",
           "payment_declined", "payment_timed_out" }
    [] v = "terminal"    -> { "invalid_vpa" }
    [] v = "investigate" -> { "vpa_resolution_failed", "credit_failed" }
    [] v = "likely_intentional_nonpayment" -> { "payment_cancelled" }

ReasonTable == UNION { ReasonsWithVerdict(v) : v \in RetryabilityVerdict }

ReasonVerdict(reason) ==
  CHOOSE v \in RetryabilityVerdict : reason \in ReasonsWithVerdict(v)

\* NPCI_CODE_VERDICT_OVERRIDE.
NpciOverrides == { "Z7", "Z8" }
NpciOverride(code) == IF code = "Z7" THEN "retryable" ELSE "terminal"

\* The notice types the daily contact budget never blocks (validator.py).
MandatoryNoticeTypes ==
  { "pre_debit_notice", "post_debit_confirmation", "source_aware_failure_notice" }
=============================================================================

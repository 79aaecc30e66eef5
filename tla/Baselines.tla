------------------------------ MODULE Baselines ------------------------------
(***************************************************************************)
(* The naive strategies B1 and B2 of src/eval/baselines.py, the engine's   *)
(* yardstick: they share its outcome model and its checker, and have no    *)
(* guardrail.  One step is one turn of their loop over the three retries.  *)
(* (B0 makes no retry, and B3 is the engine without its two heuristics.)   *)
(***************************************************************************)
EXTENDS Compliance, Simulator

CONSTANTS
  Mandates,        \* records [carveOut, optedOutAt]
  FirstFailures,   \* records [reason, npci, at]
  Downtimes        \* the sets of outages a run may be given

ASSUME FailuresAssumption == \A failure \in FirstFailures : failure.at \in Nat

VARIABLES
  strategy, mandate, firstFailure, downtimes, attempts, notices, finalStatus

arguments == <<strategy, mandate, firstFailure, downtimes>>
vars == <<strategy, mandate, firstFailure, downtimes, attempts, notices, finalStatus>>

Init ==
  /\ strategy \in {"B1", "B2"}
  /\ mandate \in Mandates
  /\ firstFailure \in FirstFailures
  /\ downtimes \in Downtimes
  /\ attempts = << [number |-> 1, at |-> firstFailure.at, outcome |-> "failed"] >>
  /\ notices = << >>
  /\ finalStatus = "unknown"

NextNumber == Len(attempts) + 1

Retry(at, outcome) ==
  /\ finalStatus = "unknown"
  /\ Len(attempts) < MaxExecutionAttemptsTotal
  /\ outcome \in SimulateOutcome(attempts, firstFailure, downtimes, at)
  /\ attempts' = Append(attempts, [number |-> NextNumber, at |-> at, outcome |-> outcome])
  /\ finalStatus' = IF outcome = "success" THEN "recovered" ELSE finalStatus
  /\ UNCHANGED arguments

\* B1: an hour after the last attempt, come what may.
NaiveRetry(outcome) ==
  /\ strategy = "B1"
  /\ Retry(attempts[Len(attempts)].at + Hour, outcome)
  /\ UNCHANGED notices

-----------------------------------------------------------------------------
(* B2 *)

\* timeutils.next_window_start
NextWindowStart(t, w) ==
  IF StartOfIstDay(t) + w.start < t THEN StartOfIstDay(t) + w.start + Day
  ELSE StartOfIstDay(t) + w.start

\* A slip: the offset is taken as it falls.
MutantUnsnapped(number) == firstFailure.at + (number - 1) * 24 * Hour

\* 24, 48 and 72 hours after the first failure; a time inside a peak window is
\* in no window, for which the code takes the first window of the day.
FixedTime(number) ==
  LET offset == firstFailure.at + (number - 1) * 24 * Hour IN
    IF IsPermittedExecutionTime(offset) THEN offset
    ELSE NextWindowStart(offset, PermittedWindows[1])

Notice(type, at) == [type |-> type, at |-> at, attempt |-> NextNumber]

\* A slip: the notice is dated from the time before the snapping.
MutantNoticeBeforeSnap(at, outcome) ==
  << Notice("pre_debit_notice", MutantUnsnapped(NextNumber) - 24 * Hour),
     Notice(IF outcome = "success" THEN "post_debit_confirmation"
            ELSE "source_aware_failure_notice", at) >>

\* The notices of one retry, before and after it.
FixedNotices(at, outcome) ==
  << Notice("pre_debit_notice", at - PreDebitNotificationHours * Hour),
     Notice(IF outcome = "success" THEN "post_debit_confirmation"
            ELSE "source_aware_failure_notice", at) >>

ScheduledRetry(outcome) ==
  /\ strategy = "B2"
  /\ Retry(FixedTime(NextNumber), outcome)
  /\ notices' = notices \o FixedNotices(FixedTime(NextNumber), outcome)

-----------------------------------------------------------------------------
Halt ==
  /\ finalStatus = "unknown"
  /\ Len(attempts) = MaxExecutionAttemptsTotal
  /\ finalStatus' = "halted"
  /\ UNCHANGED <<arguments, attempts, notices>>

Next ==
  \/ \E outcome \in {"success", "failed"} : NaiveRetry(outcome) \/ ScheduledRetry(outcome)
  \/ Halt

Spec == Init /\ [][Next]_vars

-----------------------------------------------------------------------------
(* Properties *)

\* What grading a baseline can bring to light.  The fixed schedule respects
\* the windows and the notices, and fails only where it looks at nothing: a
\* terminal code, an opt-out, the missing token.
KnownFaults ==
  Violations(Graded(attempts), notices, mandate, firstFailure, FALSE) \subseteq
    IF strategy = "B2" THEN {"INV-03", "INV-08", "INV-14"}
    ELSE {"INV-01", "INV-03", "INV-06", "INV-07", "INV-14"}

\* The retries of a strategy are made in order, and the fixed schedule
\* announces none before the failure that makes it necessary.
AnnouncedAfterFailure ==
  /\ \A i \in 2..Len(attempts) : attempts[i - 1].at < attempts[i].at
  /\ \A n \in DOMAIN notices :
       notices[n].type = "pre_debit_notice"
         => notices[n].at >= attempts[notices[n].attempt - 1].at
=============================================================================

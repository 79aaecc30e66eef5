---------------------------- MODULE Orchestrator ----------------------------
(***************************************************************************)
(* One call of run_mandate (src/orchestrator.py): the recovery episode of  *)
(* a mandate, from the failed debit a webhook reported to the moment the   *)
(* engine gives the mandate back as recovered, halted or stopped.          *)
(*                                                                         *)
(* The state is the local state of the call: the mandate it mutates, the   *)
(* failure it last saw, its simulated clock "now", the attempts and notices *)
(* it has recorded, and pc, the point of the loop:                         *)
(*   "loop"     the top of the while loop,                                 *)
(*   "execute"  an attempt is scheduled and announced, not yet debited,    *)
(*   "return"   the loop was left,                                         *)
(*   "done"     the result was returned.                                   *)
(*                                                                         *)
(* The arguments of the call are chosen in Init.  An opt-out at a later    *)
(* instant is how the program represents one that arrives between the      *)
(* scheduling and the execution of an attempt.                             *)
(***************************************************************************)
EXTENDS Retryability, Simulator, Selector, Compliance

CONSTANT Calls   \* the arguments run_mandate may be called with

MandateType ==
  [ carveOut: BOOLEAN,             \* MCC exempt from the 24h notice
    hash: HashRange,
    lowBalance: BOOLEAN,
    consecutive: Nat,              \* consecutive_same_reason_failures
    optedOutAt: Nat \cup {None},
    lastContactedAt: Nat \cup {None},
    status: SubscriptionStatus ]

FailureType ==
  [ reason: FailureReason, npci: NpciResponseCode \cup {NoCode}, at: Nat,
    number: Nat \ {0} ]            \* the attempt number the webhook claims

OptionsType ==
  [ killed: BOOLEAN,               \* mandate_id in kill_switch_ids
    reviewFirst: BOOLEAN, useSalary: BOOLEAN, useBank: BOOLEAN,
    downtimes: SUBSET [begin: Nat, end: Nat, severity: Severity] ]

CallType == [mandate: MandateType, failure: FailureType, options: OptionsType]

ASSUME CallsAssumption == Calls \subseteq CallType

VARIABLES
  pc, opts, firstFailure, mandate, lastFailure, now, attemptsMade, proposal,
  attempts, notifications, finalStatus, stoppedReason

arguments == <<opts, firstFailure>>
vars == <<pc, opts, firstFailure, mandate, lastFailure, now, attemptsMade,
          proposal, attempts, notifications, finalStatus, stoppedReason>>

Outcomes == {"failed", "success", "skipped"}
AttemptType == [number: Nat, at: Nat, outcome: Outcomes]
NoticeType  == [type: InterventionType, at: Nat, attempt: Nat]

FinalStatuses == {"unknown", "recovered", "halted", "stopped"}
StopReasons ==
  { "none", "killed", "opted_out", "verdict", "budget_exhausted",
    "chased_too_long", "held", "vetoed" }

-----------------------------------------------------------------------------
Begin(call) ==
  /\ mandate = call.mandate
  /\ firstFailure = call.failure
  /\ opts = call.options
  /\ pc = "loop"
  /\ lastFailure = firstFailure
  /\ now = firstFailure.at
  /\ attemptsMade = 1
  /\ proposal = None
  /\ attempts = << [number |-> 1, at |-> firstFailure.at, outcome |-> "failed"] >>
  /\ notifications = << >>
  /\ finalStatus = "unknown"
  /\ stoppedReason = "none"

Init == \E call \in Calls : Begin(call)

-----------------------------------------------------------------------------
(* Helpers *)

Verdict == Evaluate(lastFailure, mandate)
NextAttemptNumber == attemptsMade + 1

\* The mandate and the notices after an attempt to send one, which the
\* notification guardrail may refuse.
MandateAfterNotice(type, at) ==
  IF ValidateNotification(mandate, type, at) THEN RecordContact(mandate, at) ELSE mandate

NoticesAfter(type, attempt, at) ==
  IF ValidateNotification(mandate, type, at)
  THEN Append(notifications, [type |-> type, at |-> at, attempt |-> attempt])
  ELSE notifications

\* break out of the loop
Break(reason) == pc' = "return" /\ stoppedReason' = reason

\* Neither the kill switch nor an opt-out ends the run at the loop top.
MayProceed == pc = "loop" /\ ~opts.killed /\ IsContactable(mandate, now)

-----------------------------------------------------------------------------
(* The loop top *)

StopKilled ==
  /\ pc = "loop"
  /\ opts.killed
  /\ Break("killed")
  /\ UNCHANGED <<arguments, mandate, lastFailure, now, attemptsMade, proposal,
                 attempts, notifications, finalStatus>>

\* A slip: "continue" where "break" is meant.
MutantContinueOnOptOut ==
  /\ pc = "loop"
  /\ ~opts.killed
  /\ ~IsContactable(mandate, now)
  /\ stoppedReason' = "opted_out"
  /\ UNCHANGED <<arguments, pc, mandate, lastFailure, now, attemptsMade, proposal,
                 attempts, notifications, finalStatus>>

StopOptedOut ==
  /\ pc = "loop"
  /\ ~opts.killed
  /\ ~IsContactable(mandate, now)
  /\ Break("opted_out")
  /\ UNCHANGED <<arguments, mandate, lastFailure, now, attemptsMade, proposal,
                 attempts, notifications, finalStatus>>

\* A slip: a verdict that forbids another debit ends the run in silence.
MutantSilentStop ==
  /\ MayProceed
  /\ Verdict # "retryable"
  /\ Break("verdict")
  /\ UNCHANGED <<arguments, mandate, lastFailure, now, attemptsMade, proposal,
                 attempts, notifications, finalStatus>>

\* A verdict that forbids another debit: one last notice, if the guardrail
\* lets it pass, and the run stops.
StopOnVerdict ==
  /\ MayProceed
  /\ Verdict # "retryable"
  /\ \E type \in Select(Verdict) :
       /\ mandate' = MandateAfterNotice(type, now)
       /\ notifications' = NoticesAfter(type, NextAttemptNumber, now)
  /\ Break("verdict")
  /\ UNCHANGED <<arguments, lastFailure, now, attemptsMade, proposal, attempts,
                 finalStatus>>

StopOnRule ==
  /\ MayProceed
  /\ Verdict = "retryable"
  /\ LET rule == StopRule(Verdict, attemptsMade, firstFailure.at, now) IN
       /\ rule # "continue"
       /\ Break(rule)
  /\ UNCHANGED <<arguments, mandate, lastFailure, now, attemptsMade, proposal,
                 attempts, notifications, finalStatus>>

\* Schedule the next attempt and announce it.  A refused announcement does
\* not stop the attempt.
Schedule ==
  /\ MayProceed
  /\ Verdict = "retryable"
  /\ StopRule(Verdict, attemptsMade, firstFailure.at, now) = "continue"
  /\ proposal' \in Proposals(mandate.hash, lastFailure.reason, opts,
                             EarliestLegalTime(now, mandate.carveOut),
                             lastFailure.npci = "Z7")
  /\ \E type \in Select("retryable") :
       /\ mandate' = MandateAfterNotice(type, now)
       /\ notifications' = NoticesAfter(type, NextAttemptNumber, now)
  /\ UNCHANGED <<arguments, lastFailure, now, attemptsMade, attempts, finalStatus>>

\* A slip: review mode draws up the approval and goes on.
MutantProposeUnderReview ==
  /\ Schedule
  /\ pc' = "execute"
  /\ UNCHANGED stoppedReason

Propose ==
  /\ ~opts.reviewFirst
  /\ Schedule
  /\ pc' = "execute"
  /\ UNCHANGED stoppedReason

HoldForApproval ==
  /\ opts.reviewFirst
  /\ Schedule
  /\ Break("held")

-----------------------------------------------------------------------------
(* The execution of the scheduled attempt *)

Approved ==
  ValidateExecution(mandate, proposal, NextAttemptNumber, lastFailure, proposal)

RecordAttempt(outcome) ==
  attempts' = Append(attempts, [number |-> NextAttemptNumber, at |-> proposal,
                                outcome |-> outcome])

\* A slip: a veto skips the attempt but not the rest of the run.
MutantVetoAndGoOn ==
  /\ pc = "execute"
  /\ ~Approved
  /\ RecordAttempt("skipped")
  /\ pc' = "loop"
  /\ UNCHANGED <<arguments, mandate, lastFailure, now, attemptsMade, proposal,
                 notifications, finalStatus, stoppedReason>>

Veto ==
  /\ pc = "execute"
  /\ ~Approved
  /\ RecordAttempt("skipped")
  /\ Break("vetoed")
  /\ UNCHANGED <<arguments, mandate, lastFailure, now, attemptsMade, proposal,
                 notifications, finalStatus>>

\* A slip: a failed debit is not counted.
MutantCountSuccessesOnly(outcome) ==
  /\ pc = "execute"
  /\ Approved
  /\ outcome \in SimulateOutcome(attempts, lastFailure, opts.downtimes, proposal)
  /\ RecordAttempt(outcome)
  /\ attemptsMade' = IF outcome = "success" THEN attemptsMade + 1 ELSE attemptsMade
  /\ now' = proposal
  /\ UNCHANGED <<arguments, proposal>>

\* What every executed debit does; the clock moves to its instant.
Debit(outcome) ==
  /\ pc = "execute"
  /\ Approved
  /\ outcome \in SimulateOutcome(attempts, lastFailure, opts.downtimes, proposal)
  /\ RecordAttempt(outcome)
  /\ attemptsMade' = attemptsMade + 1
  /\ now' = proposal
  /\ UNCHANGED <<arguments, proposal>>

Succeed ==
  /\ Debit("success")
  /\ mandate' = MandateAfterNotice("post_debit_confirmation", proposal)
  /\ notifications' =
       NoticesAfter("post_debit_confirmation", NextAttemptNumber, proposal)
  /\ pc' = "return"
  /\ finalStatus' = "recovered"
  /\ UNCHANGED <<lastFailure, stoppedReason>>

FailAgain ==
  /\ Debit("failed")
  /\ mandate' = [MandateAfterNotice("source_aware_failure_notice", proposal)
                   EXCEPT !.consecutive = @ + 1]
  /\ notifications' =
       NoticesAfter("source_aware_failure_notice", NextAttemptNumber, proposal)
  /\ lastFailure' = [lastFailure EXCEPT !.at = proposal, !.number = NextAttemptNumber]
  /\ pc' = "loop"
  /\ UNCHANGED <<finalStatus, stoppedReason>>

-----------------------------------------------------------------------------
(* The return *)

\* A slip: off by one, the fourth failure does not halt the subscription.
MutantHaltAboveFour ==
  /\ pc = "return"
  /\ pc' = "done"
  /\ finalStatus' =
       IF finalStatus = "recovered" THEN "recovered"
       ELSE IF attemptsMade > MaxExecutionAttemptsTotal THEN "halted" ELSE "stopped"
  /\ UNCHANGED <<arguments, mandate, lastFailure, now, attemptsMade, proposal,
                 attempts, notifications, stoppedReason>>

Return ==
  /\ pc = "return"
  /\ pc' = "done"
  /\ IF finalStatus = "recovered"
       THEN UNCHANGED <<finalStatus, mandate>>
     ELSE IF attemptsMade >= MaxExecutionAttemptsTotal
       THEN /\ finalStatus' = "halted"
            /\ mandate' = [mandate EXCEPT !.status = "halted"]
     ELSE /\ finalStatus' = "stopped"
          /\ UNCHANGED mandate
  /\ UNCHANGED <<arguments, lastFailure, now, attemptsMade, proposal, attempts,
                 notifications, stoppedReason>>

Next ==
  \/ StopKilled
  \/ StopOptedOut
  \/ StopOnVerdict
  \/ StopOnRule
  \/ Propose
  \/ HoldForApproval
  \/ Veto
  \/ Succeed
  \/ FailAgain
  \/ Return

Spec == Init /\ [][Next]_vars

-----------------------------------------------------------------------------
(* Properties *)

TypeOK ==
  /\ pc \in {"loop", "execute", "return", "done"}
  /\ mandate \in MandateType
  /\ firstFailure \in FailureType
  /\ lastFailure \in FailureType
  /\ opts \in OptionsType
  /\ now \in Nat
  /\ attemptsMade \in 1..4
  /\ proposal \in Nat \cup {None}
  /\ attempts \in Seq(AttemptType)
  /\ notifications \in Seq(NoticeType)
  /\ finalStatus \in FinalStatuses
  /\ stoppedReason \in StopReasons

\* The attempts this call debited: the first one came with the webhook, and a
\* vetoed one was never sent to the bank.
Debited == { i \in DOMAIN attempts : i > 1 /\ attempts[i].outcome # "skipped" }

\* The notice a debit of this mandate needs before it: 24 hours, or the
\* 10-minute slack when its merchant category is exempt.
Gap == IF mandate.carveOut THEN 600 ELSE 24 * Hour

NoticeFor(i, types) ==
  { n \in DOMAIN notifications :
      notifications[n].attempt = i /\ notifications[n].type \in types }

\* NPCI's 1+3 cap, and the engine's own books about it: the attempts are
\* numbered 1, 2, 3, ... without a gap, the loop's counter is the number of
\* them that really ran, and that number is never above 4.
BudgetRespected ==
  /\ \A i \in DOMAIN attempts : attempts[i].number = i
  /\ attemptsMade = 1 + Cardinality(Debited)
  /\ attemptsMade <= 4

\* The customer is charged at most once: nothing follows a successful debit,
\* and nothing follows a veto either.
NothingAfterTheLastWord ==
  \A i \in DOMAIN attempts :
    i < Len(attempts) => attempts[i].outcome = "failed"

\* INV-01 as the engine must keep it: no debit of its own falls in a peak
\* window, wherever the first failure, the jitter, the downtimes and the
\* salary heuristic put the proposal.
DebitedOffPeak == \A i \in Debited : ~IsPeakHour(attempts[i].at)

\* Two successive debits keep the distance the pre-debit notice needs (24h, or
\* the 10-minute slack under the MCC carve-out), and four hours more when the
\* bank reported its velocity limit (Z7).
RetrySpacing ==
  \A i \in Debited :
    attempts[i].at - attempts[i - 1].at
      >= Gap + (IF firstFailure.npci = "Z7" THEN Z7MinSpacingHours * Hour ELSE 0)

\* INV-06: every debit was announced, by a pre-debit notice about that very
\* attempt, a full gap earlier.  (Rule table only: see AlwaysPreDebitNotice.)
PreDebitNoticeInTime ==
  \A i \in Debited :
    \E n \in NoticeFor(i, {"pre_debit_notice"}) :
      notifications[n].at + Gap <= attempts[i].at

\* INV-07: the outcome of every debit was told to the customer, with the
\* notice that fits it, whatever the contact budget and a late opt-out say.
OutcomeTold ==
  \A i \in Debited :
    NoticeFor(i, { IF attempts[i].outcome = "success"
                   THEN "post_debit_confirmation" ELSE "source_aware_failure_notice" }) # {}

\* INV-08 and ADR-007: from the instant of an opt-out on there is neither a
\* contact nor a debit, even for an attempt scheduled and announced before it.
OptOutIsFinal ==
  mandate.optedOutAt # None =>
    /\ \A n \in DOMAIN notifications : notifications[n].at < mandate.optedOutAt
    /\ \A i \in Debited : attempts[i].at < mandate.optedOutAt

\* What the evaluation reports of the engine (its headline): the independent
\* checker finds no violation in what a run leaves behind, whatever failures,
\* opt-outs and vetoes it met.  (Rule table only, as PreDebitNoticeInTime.)
EngineCompliant ==
  pc = "done" =>
    Violations(Graded(attempts), notifications, mandate, firstFailure, TRUE) = {}

\* A failure no retry of the same amount can overcome is never debited again.
\* (An invalid VPA that carries code Z7 is: the override outranks the reason.)
HopelessNeverDebited ==
  Debited # {} => CanSucceed(firstFailure) \/ firstFailure.npci = "Z7"

\* The allocator proposes only times the guardrail accepts: a veto at
\* execution has a cause the allocator could not see, an opt-out that took
\* effect after the scheduling or a cancelled subscription.
VetoOnlyOnChangedFacts ==
  stoppedReason = "vetoed" =>
    \/ mandate.optedOutAt # None /\ now < mandate.optedOutAt
                                 /\ mandate.optedOutAt <= proposal
    \/ mandate.status = "cancelled"

\* The chase is short: a retry comes at most five days after the failure
\* before it, so the four-debit budget always ends the episode before the
\* 21-day stopping rule can.
ChaseBounded ==
  /\ now - firstFailure.at <= 5 * Day * (attemptsMade - 1)
  /\ stoppedReason # "chased_too_long"

\* A run under review holds back every debit, and it says so: it ends held
\* exactly when the engine would have debited.
HeldRunMovesNoMoney ==
  opts.reviewFirst =>
    /\ Debited = {}
    /\ pc = "done" =>
         (stoppedReason = "held"
            <=> /\ ~opts.killed /\ IsContactable(mandate, firstFailure.at)
                /\ Evaluate(firstFailure, mandate) = "retryable")

\* The books close consistently: halted, in the result and on the
\* subscription, exactly when all four attempts failed; recovered exactly
\* when the last attempt succeeded.
ClosingStatus ==
  pc = "done" =>
    /\ finalStatus = "recovered" <=> attempts[Len(attempts)].outcome = "success"
    /\ finalStatus = "halted" <=> /\ attemptsMade = 4
                                  /\ finalStatus # "recovered"
    /\ finalStatus = "halted" => mandate.status = "halted"
    /\ finalStatus # "unknown"

\* ASSUMPTIONS.md #A1: a discretionary notice is never a second contact of its
\* IST day, whatever mix of mandatory and discretionary notices preceded it.
DiscretionaryBudget ==
  \A n \in DOMAIN notifications :
    notifications[n].type \notin
        {"pre_debit_notice", "post_debit_confirmation", "source_aware_failure_notice"}
      => \A m \in 1..(n - 1) : IstDay(notifications[m].at) # IstDay(notifications[n].at)

\* What the comment above the selection says (orchestrator.py:225): the
\* verdict being retryable, the notice chosen is always a pre-debit notice, so
\* no attempt stands scheduled without one.
AlwaysPreDebitNotice ==
  pc = "execute" => NoticeFor(NextAttemptNumber, {"pre_debit_notice"}) # {}

\* What the comment on the non-retryable branch says (orchestrator.py:170): a
\* run stopped by its verdict still gives the customer exactly one notice.
ExactlyOneFinalNotice ==
  stoppedReason = "verdict" =>
    Cardinality(NoticeFor(NextAttemptNumber, InterventionType)) = 1

\* What is left of that promise, whatever a model answers: a run stopped by its
\* verdict never sends two notices about the attempt it gave up, and it sends
\* none only to a customer who was contacted on that very day.
FinalNoticeUnlessContacted ==
  stoppedReason = "verdict" =>
    LET final == NoticeFor(NextAttemptNumber, InterventionType) IN
      /\ Cardinality(final) <= 1
      /\ final = {} => /\ mandate.lastContactedAt # None
                       /\ IstDay(mandate.lastContactedAt) = IstDay(now)

\* The steps a call has left at most: two for every debit the budget still
\* allows, and those that lead out of the loop.
StepsLeft ==
  2 * (4 - attemptsMade)
    + (CASE pc = "loop" -> 3 [] pc = "execute" -> 2 [] pc = "return" -> 1 [] pc = "done" -> 0)

\* The episode as the abstract specification sees it.
Episode ==
  INSTANCE RecoveryEpisode WITH
    MaxDebits <- 4,
    gap       <- Gap,
    debits    <- attemptsMade,
    lastDebit <- now,
    status    <- IF finalStatus = "unknown" THEN "open" ELSE finalStatus

\* run_mandate implements the recovery episode.
ImplementsEpisode == Episode!Spec
=============================================================================

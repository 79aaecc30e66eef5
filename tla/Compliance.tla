----------------------------- MODULE Compliance -----------------------------
(***************************************************************************)
(* The compliance checker (src/guardrails/invariants.py) that grades every *)
(* strategy after the fact.  It reads the records a strategy left: its     *)
(* attempts [number, at, outcome], without attempt 1, its notices          *)
(* [type, at, attempt], and the mandate.  All failures of an episode carry *)
(* the reason and the code of the first.                                   *)
(*                                                                         *)
(* Left out: INV-04, -05 and -15, whose records no strategy produces, and  *)
(* INV-09 to -12, which judge the text of notices and audit entries.       *)
(***************************************************************************)
EXTENDS Validator, Sequences

Indices(seq) == DOMAIN seq

Executed(attempt) == attempt.outcome \in {"success", "failed"}

\* INV-01: an execution inside a peak window.
PeakExecution(attempts) ==
  \E i \in Indices(attempts) :
    attempts[i].outcome # "skipped" /\ IsPeakHour(attempts[i].at)

\* INV-02: more attempts than the cap.
TooManyAttempts(attempts) == Len(attempts) > MaxExecutionAttemptsTotal

\* INV-03: an attempt after one that failed for a terminal reason.
RetryOnTerminal(attempts, failure) ==
  /\ IsTerminalEvent(failure.reason, failure.npci)
  /\ \E i, j \in Indices(attempts) :
       attempts[i].outcome = "failed" /\ attempts[j].number > attempts[i].number

\* INV-06: a debit without its pre-debit notice 24 hours earlier; carve-out
\* categories are exempt.
MissingPreDebitNotice(attempts, notices, mandate) ==
  /\ ~mandate.carveOut
  /\ \E i \in Indices(attempts) :
       /\ attempts[i].outcome # "skipped"
       /\ ~\E n \in Indices(notices) :
             /\ notices[n].type = "pre_debit_notice"
             /\ notices[n].attempt = attempts[i].number
             /\ attempts[i].at - notices[n].at >= PreDebitNotificationHours * Hour

\* INV-07: an execution whose outcome the customer was not told afterwards.
MissingPostDebitNotice(attempts, notices) ==
  \E i \in Indices(attempts) :
    /\ Executed(attempts[i])
    /\ ~\E n \in Indices(notices) :
          /\ notices[n].type \in {"post_debit_confirmation", "source_aware_failure_notice"}
          /\ notices[n].attempt = attempts[i].number
          /\ notices[n].at >= attempts[i].at

\* INV-08: a notice at or after the opt-out.
ContactAfterOptOut(notices, mandate) ==
  /\ mandate.optedOutAt # None
  /\ \E n \in Indices(notices) : notices[n].at >= mandate.optedOutAt

\* INV-14: an execution without an approval token; a strategy either gets a
\* token for everything it executes or for nothing.
MissingToken(attempts, tokens) ==
  ~tokens /\ \E i \in Indices(attempts) : Executed(attempts[i])

\* run_all: the invariants with at least one violation.
Violations(attempts, notices, mandate, failure, tokens) ==
  { inv \in {"INV-01", "INV-02", "INV-03", "INV-06", "INV-07", "INV-08", "INV-14"} :
      \/ inv = "INV-01" /\ PeakExecution(attempts)
      \/ inv = "INV-02" /\ TooManyAttempts(attempts)
      \/ inv = "INV-03" /\ RetryOnTerminal(attempts, failure)
      \/ inv = "INV-06" /\ MissingPreDebitNotice(attempts, notices, mandate)
      \/ inv = "INV-07" /\ MissingPostDebitNotice(attempts, notices)
      \/ inv = "INV-08" /\ ContactAfterOptOut(notices, mandate)
      \/ inv = "INV-14" /\ MissingToken(attempts, tokens) }

\* What is graded: every attempt but the one that came with the webhook.
Graded(attempts) == SubSeq(attempts, 2, Len(attempts))
=============================================================================

------------------------------ MODULE Commands ------------------------------
(***************************************************************************)
(* What the operator runs on one mandate: explain, approve and compare of  *)
(* src/cli.py, and the part of an evaluation (eval/run_eval.py) that       *)
(* concerns it.  A command loads the record, calls run_mandate one or      *)
(* several times on it, each time from the start, and reads the results.   *)
(* The kill list may change at any time; a call goes by what the list said *)
(* when the call was prepared, and some calls never look.                  *)
(*                                                                         *)
(* The state of the running call is that of Orchestrator; between two      *)
(* calls it is what the last one left.                                     *)
(***************************************************************************)
EXTENDS Orchestrator

CONSTANT MaxChanges   \* bound: the changes of the kill list during a command

VARIABLES
  command,     \* the command and its flags
  record,      \* the mandate as loaded
  killed,      \* the mandate is on the kill list
  changes,     \* how often that changed
  stage,       \* how many calls were begun
  running,     \* a call is running
  results      \* what the finished calls returned

commandVars == <<vars, command, record, killed, changes, stage, running, results>>

-----------------------------------------------------------------------------
(* The calls a command makes *)

Stage(review, salary, bank, listed) ==
  [review |-> review, salary |-> salary, bank |-> bank, listed |-> listed]

B3     == Stage(FALSE, FALSE, FALSE, TRUE)
Engine == Stage(FALSE, TRUE, TRUE, TRUE)
Unlisted(s) == [s EXCEPT !.listed = FALSE]

\* run_ablation
Variants ==
  << Unlisted(Engine), Stage(FALSE, TRUE, FALSE, FALSE), Stage(FALSE, FALSE, TRUE, FALSE),
     Unlisted(B3) >>

Plan ==
  CASE command.name = "explain"  -> << [Engine EXCEPT !.review = command.flag] >>
    [] command.name = "approve"  -> << [Engine EXCEPT !.review = TRUE], Engine >>
    [] command.name = "compare"  -> << Unlisted(B3), Unlisted(Engine) >>
    [] command.name = "evaluate" -> << B3, Engine >> \o Variants

\* explain has --review-first, approve has --confirm-irreversible.
CommandsGiven ==
  [name: {"explain", "approve"}, flag: BOOLEAN]
    \cup [name: {"compare", "evaluate"}, flag: {FALSE}]

\* The other arguments of call number i.
Options(i, downtimes) ==
  [ killed      |-> Plan[i].listed /\ killed,
    reviewFirst |-> Plan[i].review,
    useSalary   |-> Plan[i].salary,
    useBank     |-> Plan[i].bank,
    downtimes   |-> downtimes ]

CommandInit ==
  /\ command \in CommandsGiven
  /\ \E call \in Calls :
       /\ killed = call.options.killed
       /\ Begin([call EXCEPT !.options = Options(1,
                   IF command.name = "evaluate" THEN call.options.downtimes ELSE {})])
  /\ record = mandate
  /\ changes = 0
  /\ stage = 1
  /\ running = TRUE
  /\ results = {}

-----------------------------------------------------------------------------
(* A step of the running call.  The outcome of a debit is drawn from the    *)
(* mandate and the hour alone, so a call draws again what an earlier one    *)
(* drew at the same hour, unless the odds changed.                          *)

Draws == UNION { { r.attempts[i] : i \in 2..Len(r.attempts) } : r \in results }

OddsAt(t) == Odds(firstFailure.reason, opts.downtimes, t)

\* _outcome_draw
DrawnAgain(attempt) ==
  \A d \in Draws :
    HourBucket(d.at) = HourBucket(attempt.at) =>
      /\ d.outcome = "failed" /\ attempt.outcome = "success" => OddsAt(attempt.at) > OddsAt(d.at)
      /\ d.outcome = "success" /\ attempt.outcome = "failed" => OddsAt(attempt.at) < OddsAt(d.at)

CallStep ==
  /\ running
  /\ Next
  /\ attempts' # attempts => DrawnAgain(attempts'[Len(attempts')])
  /\ UNCHANGED <<command, record, killed, changes, stage, running, results>>

-----------------------------------------------------------------------------
(* Between the calls *)

\* The time the first retry was scheduled for, debited or not.
FirstRetry == IF Len(attempts) > 1 THEN attempts[2].at ELSE proposal

Result ==
  [ call |-> opts, first |-> FirstRetry, attempts |-> attempts,
    status |-> finalStatus, reason |-> stoppedReason ]

\* A slip: the calls share one mandate, with what each does to it.
MutantShared == mandate

\* The calls but the last get a deep copy.
RecordAfterCall == record

EndCall ==
  /\ running
  /\ pc = "done"
  /\ running' = FALSE
  /\ results' = results \cup { Result }
  /\ record' = RecordAfterCall
  /\ UNCHANGED <<vars, command, killed, changes, stage>>

\* A slip: approve asks for the confirmation and does not wait for it.
MutantUnconfirmed ==
  /\ ~running
  /\ stage < Len(Plan)
  /\ command.name = "approve" => stoppedReason = "held"

\* approve goes on when the look found something pending and the operator
\* confirmed.
MoreCalls ==
  /\ ~running
  /\ stage < Len(Plan)
  /\ command.name = "approve" => stoppedReason = "held" /\ command.flag

BeginCall ==
  /\ MoreCalls
  /\ stage' = stage + 1
  /\ running' = TRUE
  /\ opts' = Options(stage + 1, opts.downtimes)
  /\ mandate' = record
  /\ lastFailure' = firstFailure
  /\ now' = firstFailure.at
  /\ attemptsMade' = 1
  /\ proposal' = None
  /\ attempts' = << attempts[1] >>
  /\ notifications' = << >>
  /\ finalStatus' = "unknown"
  /\ stoppedReason' = "none"
  /\ pc' = "loop"
  /\ UNCHANGED <<firstFailure, command, record, killed, changes, results>>

\* kill or revive, from another terminal.
ChangeKillList ==
  /\ changes < MaxChanges
  /\ killed' = ~killed
  /\ changes' = changes + 1
  /\ UNCHANGED <<vars, command, record, stage, running, results>>

Proceed == CallStep \/ EndCall \/ BeginCall
CommandNext == Proceed \/ ChangeKillList
CommandSpec == CommandInit /\ [][CommandNext]_commandVars

\* A command is one process that runs to its end.
FairCommandSpec == CommandSpec /\ WF_commandVars(Proceed)

-----------------------------------------------------------------------------
(* How run_eval counts a run *)

\* A slip: the text a run stopped with is looked at first.
MutantReasonFirst(r) ==
  IF r.reason # "none" THEN r.reason
  ELSE IF r.status = "halted" THEN "attempt_budget_exhausted"
  ELSE IF r.status = "recovered" THEN "recovered"
  ELSE "uncounted"

\* compute_metrics: stopping_reasons
Bucket(r) ==
  IF r.status = "halted" THEN "attempt_budget_exhausted"
  ELSE IF r.reason # "none" THEN r.reason
  ELSE IF r.status = "recovered" THEN "recovered"
  ELSE "uncounted"

\* A slip: the verdict of the reason alone.
MutantReasonOnly == firstFailure.reason \in ReasonsWithVerdict("terminal")

\* _is_terminal_root_cause: the third derivation of the same fact, next to the
\* gate's and the guardrail's.
IsTerminalRootCause ==
  IF firstFailure.npci \in NpciOverrides THEN NpciOverride(firstFailure.npci) = "terminal"
  ELSE firstFailure.reason \in ReasonsWithVerdict("terminal")

-----------------------------------------------------------------------------
(* Properties *)

\* No money moves without the human's word where it is asked for: an explain
\* under review and an approve without --confirm-irreversible debit nothing,
\* whatever the calls they make.
NothingWithoutConfirmation ==
  \/ command.name = "explain" /\ command.flag
  \/ command.name = "approve" /\ ~command.flag
  => Debited = {}

\* Calls of one command with the same heuristics, and none of them killed, tell
\* the same story, however the model words the notices: approve debits first at
\* the time the operator was shown, the ablation's "neither" row is B3, its
\* "both" row the engine.
ReRunsAgree ==
  \A r, s \in results :
    /\ <<r.call.useSalary, r.call.useBank>> = <<s.call.useSalary, s.call.useBank>>
    /\ ~r.call.killed /\ ~s.call.killed
    => /\ r.first = s.first
       /\ r.call.reviewFirst = s.call.reviewFirst =>
            <<r.attempts, r.status, r.reason>> = <<s.attempts, s.status, s.reason>>

\* The evaluation counts every run once and under the right heading: the
\* recovered, the four failures, and else the reason the run stopped for.
EveryRunCounted ==
  \A r \in results :
    LET outcomes == { r.attempts[i].outcome : i \in DOMAIN r.attempts } IN
      /\ Bucket(r) # "uncounted"
      /\ Bucket(r) = "recovered" <=> "success" \in outcomes
      /\ Bucket(r) = "attempt_budget_exhausted" <=>
           Len(r.attempts) = MaxExecutionAttemptsTotal /\ outcomes = {"failed"}

\* The engine wastes no retry on what the evaluation calls a terminal cause,
\* although gate, guardrail and evaluation each work out for themselves what
\* that is.
NoRetryWasted ==
  \A r \in results : IsTerminalRootCause => Len(r.attempts) = 1

\* The steps a command has left at most, ten for each of its calls and one to
\* begin it.
CallsLeft == 11 * (Len(Plan) - stage) + (IF running THEN 1 + StepsLeft ELSE 0)

\* The loop of run_mandate has no bound of its own and neither has the kill
\* list, yet every step a command takes brings its end closer, whatever the
\* gate, the allocator, the guardrail and the bank say.
CallsRunOut ==
  [][CallsLeft' \in Nat /\ (killed' = killed => CallsLeft' < CallsLeft)]_commandVars

\* Every command ends, however often run_mandate is called and the kill list
\* changes meanwhile.
CommandEnds == <>[](~running /\ ~MoreCalls)
=============================================================================

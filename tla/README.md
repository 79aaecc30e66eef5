# AnchorPay in TLA+

AnchorPay is a recovery engine for failed UPI AutoPay mandates: given a mandate whose debit
failed, it decides whether to retry, when, with which notice to the customer, and when to stop.
The rules it must keep are regulatory (no debit in peak hours, four attempts at most, a notice 24
hours before each), so a wrong interleaving or a wrong boundary is a compliance violation, not a
slow page. This directory models that engine, checks the model with TLC and proves the central
properties with TLAPS. Paths below are relative to the repository.

## The system

| Component | State it keeps | Operations | Modelled in |
|---|---|---|---|
| `src/domain` vocabulary, limits, clock | none | window membership, IST day arithmetic | `RegulatoryConstants`, `TimeUtils` |
| `src/domain/entities.py` | the mandate: customer contact facts, subscription status, failure counters | none of its own | records of `Orchestrator` |
| `src/ingest/normaliser.py` | the payment ids seen, in the process | `normalise` | `Intake`, `AtMostOnce` |
| `src/classify` | the switch and the usage counters | call a model, classify an unknown reason | `Assist` |
| `src/policy/retryability.py`, `stopping_rules.py` | none | verdict on a failure; stop or go on | `Retryability` |
| `src/policy/allocator.py` | none | earliest legal time, next attempt | `Allocator` |
| `src/policy/bank_health.py` | a cached reference table | severity at an instant; the table's figures | `BankHealth`, `ReferenceTable` |
| `src/intervene/selector.py` | none | choose a notice | `Selector`, `Assist` |
| `src/intervene/consent.py` | writes the customer's last contact | `is_contactable`, `record_contact` | `Validator` |
| `src/intervene/copy_generator.py`, `escalation_brief.py`, `src/guardrails/dark_pattern_screen.py` | none | draft, screen, fall back | `Assist` |
| `src/guardrails/validator.py` | none | validate an execution, a notice, an offer | `Validator`, `Assist` |
| `src/execute/simulator.py` | none | guarded execution, outcome draw | `Simulator`, `Orchestrator`, `Commands` |
| `src/orchestrator.py` | one run: clock, last failure, attempts, notices, counter, status | the loop of `run_mandate` | `Orchestrator` |
| `src/guardrails/invariants.py` | none | grade the records of a run | `Compliance` |
| `src/audit/kill_switch.py` | `results/killed_mandates.json` | kill, revive, read | `KillSwitch` |
| `src/cli.py`, `eval/run_eval.py` | the runs of one command | explain, approve, compare, evaluate | `Commands`, `KillSwitch` |
| `eval/baselines.py` | the records of a baseline run | B1, B2 | `Baselines` |
| `src/audit/log.py`, NPCI statistics, reports, data generator, scripts | text, figures and logs | | not modelled |

How they interact. `run_mandate` calls every other stage synchronously and holds all state of an
episode in local variables; its clock is simulated and jumps to the instant of the attempt it
executes. A fact that changes "between scheduling and execution" is represented, in the program as
here, by an opt-out whose instant lies between the two. The guardrails re-derive facts from the
mandate and the raw failure and trust no stored verdict. A command of the operator calls
`run_mandate` several times on the same mandate, each time from its first failure. Three pieces of
state outlive a call: in a process, the payment ids seen and the bank table; between processes, the
kill list, a file read once by each run and rewritten without a lock by each operator command.

What is hard here:

* a schedule made from facts that are stale when it is executed (opt-out, cancellation);
* a counter, a list of attempts and a list of notices that several retries must keep in step;
* clock arithmetic: a 24-hour gap, jitter, clamping, three windows a day, midnight;
* mandatory and discretionary notices that share one contact budget;
* a verdict that changes during the run because of the failures the run itself causes;
* calls that must tell the same story when they are repeated, which an approval relies on;
* an optional language model whose answer, or whose silence, replaces a rule;
* at-least-once webhooks, lost answers and restarts against an in-memory set of ids;
* a cache that is filled once from a file that others replace;
* a file that is emptied before it is rewritten, by processes that overlap and crash.

`PROJECT.json` lists each hazard at its line with the properties aimed at it.

## Modules

Pure parts, one module each, no RECURSIVE operator, so that proofs can use them:

* `RegulatoryConstants`, `TimeUtils`: the enumerations, the tables, and instants as seconds since an
  IST midnight. Window bounds are whole minutes, so seconds of the day decide the same as minutes.
* `Retryability`: `Evaluate` (NPCI override, then table, then intent) and `StopRule`. The ratio of
  balance to amount is the bit `lowBalance`.
* `BankHealth`, `Allocator`: `Proposals` is the result of `propose_next_attempt`. The slots of the 11
  days scanned are numbered 0..32 in scan order; "the first six legal slots" is a set of slot
  numbers; the best one is the first with the highest score. Scores are integers: a score point is
  864000 units, so that the earlier-is-better term is one unit a second. A mandate's SHA-256 only
  enters modulo the three jitter spans, hence a number below 57600.
* `Selector`: the rule table, joined by `LlmAnswers`, the types a model may answer with.
* `Validator`: the two guardrails and the consent bookkeeping.
* `Simulator`: the outcomes a debit may have. The program's draw is a hash of mandate and epoch hour,
  so the first draw may go either way and a second one in the same hour fails again unless its odds
  improved. `Commands` extends this from call to call: a later call draws again what an earlier one
  drew at the same hour.
* `Compliance`: the checker's verdict on records, INV-01, 02, 03, 06, 07, 08 and 14.

State machines:

* `Orchestrator`: one call of `run_mandate`. Each branch of the loop is an action. `StopKilled`,
  `StopOptedOut`, `StopOnVerdict`, `StopOnRule` are the four ways out at the top, in the code's order
  of tests; `Propose` schedules and announces; `HoldForApproval` does the same under review and
  leaves; `Veto`, `Succeed`, `FailAgain` are the three ends of `execute_with_guardrail` with all the
  bookkeeping that follows in the same turn; `Return` is the code after the loop. `pc` is the point
  of the loop. The arguments of the call are chosen in `Init` from `Calls`.
* `RecoveryEpisode`: the promise. A number of debits up to a cap, a gap between them, permitted hours,
  nothing after a success, halted exactly at the cap. `Orchestrator` instantiates it with
  `debits <- attemptsMade`, `lastDebit <- now`.
* `Commands` extends `Orchestrator`: an operator's command on one mandate. `CallStep` is a step of the
  running call; `EndCall` and `BeginCall` are what the command does between two calls: keep the
  result, copy the record again, read (or not) the kill list, pass the flags of the next call;
  `ChangeKillList` is another terminal. `Plan` lists the calls of explain, approve, compare and
  evaluate.
* `KillSwitch`: operators and runs as processes. A command is three steps (read; empty; write) and may
  crash between any two. The file is a record of the list its text begins with and the length of
  the text: emptied, it is shorter than any list; after two overlapping writes a longer text may
  show behind a shorter list; in both cases it does not parse, and reads as the empty list.
  `stopped`, `disturbed` and `told` are history variables for the properties; no action reads them.
* `KillList`: the promise of the file: commands and crashes are atomic, a crash forgets everything or
  nothing, a run sees everything or nothing.
* `Intake`: `normalise` under a gateway that sends a webhook until it is acknowledged, and perhaps
  again. A delivery is one of `IgnoreDuplicate`, `OpenEvent` and `Raise`; the answer of a call that
  returns may be lost. The gateway is not in the repository; that a call which raises is not
  acknowledged is what an HTTP handler around it would do.
* `AtMostOnce`: the promise of the intake, one event for a failure in one life of the process.
* `ReferenceTable`: the table of decline rates, its cache and its four kinds of file.
* `Worker` composes `Intake` and `ReferenceTable`: a process that loses both when it restarts.
* `Assist`: every stage that asks the model, in one process: the client with its switch, key and
  counters; selection with the allowlists of grace periods and pauses; drafting, screening and the
  fallback; briefs, summary and classification; the report. A text is the record of its author and
  of whether the screen's patterns match it.
* `Baselines`: B1 and B2, one turn of their retry loop a step, graded with `Compliance`.

`MCOrchestrator`, `MCCommands`, `MCWorker` and `MCBaselines` hold the argument sets of the runs;
`KillSwitch` and `Assist` need none. `AllocatorProofs`, `OrchestratorProofs`, `EpisodeProofs`,
`CommandProofs`, `KillSwitchProofs`, `WorkerProofs`, `AssistProofs` and `BaselineProofs` hold the
theorems. Definitions named `Mutant...` are slips of the pen kept next to the definition they would
replace: each property is shown to fail when one of them takes its place, so a property that nothing
can break would be seen.

## What the runs check

Run a configuration with `tlc -config X.cfg M`.

| Run | Configuration, module | Asks |
|---|---|---|
| core | `Core.cfg`, `MCOrchestrator` | one call: books, notices, clock, opt-outs, review, grading, the refinement of `RecoveryEpisode` |
| commands | `Commands.cfg`, `MCCommands` | a command of several calls, with a model and a kill list that changes |
| kill | `Kill.cfg`, `KillSwitch` | one operator, two runs, two mandates, crashes; the refinement of `KillList` |
| baselines | `Baselines.cfg`, `MCBaselines` | which faults grading can find in B1 and B2 |
| intake | `Intake.cfg`, `MCWorker` | redelivery, lost answers, restarts, a reference file that changes; the refinement of `AtMostOnce` |
| assist | `Assist.cfg`, `Assist` | every reply of a model, at every stage, and none |
| final_notice, llm_notice, kill_race, lost_failure, llm_cost, rejections | the `.cfg` of that name | six statements of the documentation that the code does not keep |

**core** shows for every combination of its inputs that the attempts are numbered without a gap, the
counter is their number and at most four (`BudgetRespected`); that a success or a veto is the last
attempt (`NothingAfterTheLastWord`); that debits are off peak (`DebitedOffPeak`) and apart, with the
extra hours of Z7 (`RetrySpacing`); that each debit was announced a full gap earlier by a notice
about that attempt (`PreDebitNoticeInTime`); that a failure no retry can cure is not retried, save
one that carries Z7, whatever its reason (`HopelessNeverDebited`); that the guardrail never vetoes a
time the allocator
proposed, only facts that changed (`VetoOnlyOnChangedFacts`); that a retry comes within five days of
the failure before it, so that the 21-day stopping rule can never be what ends a run
(`ChaseBounded`); that a run under review debits nothing and ends held exactly when it would have
debited (`HeldRunMovesNoMoney`); that the closing status fits the records (`ClosingStatus`); that a
run its verdict stops sends at most one last notice, and none only to a customer who was contacted
that day (`FinalNoticeUnlessContacted`, the rest of the promise that `final_notice` refutes); that the
checker, a second implementation of the rules, finds no violation in what a run leaves
(`EngineCompliant`); and the refinement.

**commands** shows what survives any answer of a model in every call of a command: outcomes are told
(`OutcomeTold`), an opt-out is final (`OptOutIsFinal`), the daily budget of discretionary notices is
kept (`DiscretionaryBudget`). Over the calls: nothing moves without the confirmation the command asks
for (`NothingWithoutConfirmation`); calls with the same heuristics tell the same story, so the time
approve debits first is the time the operator was shown (`ReRunsAgree`); the evaluation counts every
run once and under the right heading (`EveryRunCounted`); gate, guardrail and evaluation, which each
derive "terminal" for themselves, agree (`NoRetryWasted`); and every command ends (`CommandEnds`),
because each of its own steps lowers a number (`CallsRunOut`).

**kill**: `SettledKillHolds` says that a run debits no mandate killed before it read the list, provided
that nobody was writing at that moment and no command had died writing or overlapped another. Its
conditions are exactly what `kill_race` shows to be necessary, so it says nothing of a read between
emptying and rewriting, of overlapping commands or of a crash: the first two are what `kill_race`
is about, the third belongs to the refinement, which says that one operator at a time gives an
atomic list that a crash may lose whole.

**baselines** bounds the faults: B2 can be charged only with what it does not look at (terminal codes,
opt-outs, tokens), never with a window or a missing notice, and it announces no retry before the
failure it follows.

**intake** shows that a failure with an id opens at most one event in one life of the process
(`ImplementsAtMostOnce`); that what was acknowledged and could be parsed was handled
(`AckedParsableIsHandled`) and that everything that can be parsed is handled in the end
(`ParsableHandled`); that a reason outside the taxonomy goes to investigation unless its code decides
otherwise (`UnrecognisedIsInvestigated`); and of the table that the strategies one process compares
see the same figures (`OneTablePerLife`) and that its status tells when they are not the file's
(`FallbackIsReported`).

**assist** shows that a notice goes out with a text the screen passes and within the allowlists,
whatever the model says (`SentWithinLimits`); that the recorded actor is the author
(`ProvenanceHonest`); and that without the switch or the key the rules alone decide, with the actor
`deterministic` on record while the switch is off (`SwitchedOffIsDeterministic`). The last is what
the callers do and `tests/test_narration.py:19` and `:35` expect; a docstring denies it, see below.

### Bounds

* Instants: failures at 00:10, 09:59, 11:00 (peak), 14:00 and the last second of a day, which with the
  jitter extremes 0, 11519 and 28799 (the least, the middle and the greatest offset of the longest
  span) reach every relation of a proposal to the edges of its window. The high-liquidity days are
  days 2 to 8 (28 August to 3 September); outages cover none, the first or all early slots.
* Arguments: every verdict, reason class and code class occurs; consecutive failures 0 to 3 (three is
  the threshold); opt-outs before the first failure's retry, between notice and debit, and between
  debits. Four attempts are the code's own cap, so runs are complete and no bound cuts them short.
* Commands: every command with every flag, on a mandate that is retried to the end, opted out from the
  start or between two debits, or that only a Z7 makes retryable; `MaxChanges = 1`, since one change
  of the kill list between two calls is what makes them differ.
* Kill switch: two mandates distinguish the one killed from the one that shares the file; two runs for
  the refinement, two operators (in `kill_race`) for every overlap of two commands. The state spaces
  are finite without a bound on the number of commands.
* Intake: two failures with an id and one without; `MaxDeliveries = 2` is the first delivery and a
  redelivery, `MaxRestarts = 1` puts a restart before, between or after them. The table has a bank
  that is listed and one that is not (a damaged file is one whose rows end early). Whether a
  payload can be parsed is fixed for a failure: a redelivery that repairs it is not a case of its own.
* Assist: `MaxCalls = 5` is a selection, its text, a brief, a summary and one more call, the shortest
  evaluation in which every stage took part; of the offers, 2 is on the allowlists and 7 is not, and
  a model may make none.
* `CHECK_DEADLOCK FALSE` is set where the model ends: a call or a command that returned, a baseline
  that closed, a report that was written. The kill switch and the worker never end and are checked
  for deadlock.

### Fairness

`CommandEnds` assumes `WF` of `Proceed`: a command is one sequential process with no blocking call (a
call to the model has a timeout and falls back, `llm_client.py:126-146`). Nothing is assumed of the
other terminal. `ParsableHandled` assumes that the gateway goes on sending a failure it has no answer
for, which is what at-least-once delivery means (`FAILURES.md`, failure 7); the code is only the
receiver. Nothing is assumed of operators, runs, restarts or files.

### Where documentation and code part

1. **final_notice.** `orchestrator.py:171-173` promises exactly one last notice when a verdict stops
   the run. If the run's own third failure makes the non-payment look intentional, the failure
   notice of that instant has spent the day's budget and the cancellation notice is refused. That is
   the only way to lose it, and it is never sent twice (`FinalNoticeCorrect`).
2. **llm_notice.** `orchestrator.py:225` relies on the rule table choosing a pre-debit notice; a
   model's answer replaces it (`selector.py:122-140`).
3. **kill_race.** `kill_switch.py:3-4` and the message of `kill` promise every future run obeys; a run
   that reads while another command has emptied the file sees no kill at all.
4. **lost_failure.** `FAILURES.md:165-166` promises one outcome per real failure. A payment is
   remembered as seen before its payload is parsed; if that raises, every redelivery, also of a
   repaired payload, is taken for a duplicate.
5. **llm_cost.** The cost line asks whether a call was counted, and calls are counted with the switch
   off as well: `EVALUATION.md:103` says the model was used in an evaluation that
   `AI_USAGE.md:172-176` says ran without it.
6. **rejections.** `dark_pattern_screen.py:7-8` and `README.md:147` promise a count of rejected drafts.
   A rejected draft is replaced by a template before anything is counted, so the count is zero.

Read while modelling, with no run of their own:

* ADR-013 (`DECISIONS.md:374`) says nothing is sent under review-first; the pre-debit notice is sent
  before the hold (`orchestrator.py:241-249`).
* `baselines.py:106` says B2 snaps to the next permitted window; it snaps to the next midnight.
* `bank_health.py:86` says "Never raises"; a row that ends early raises a TypeError that the handler
  below does not name.
* `compare` and the ablation never read the kill list, although `kill_switch.py:3-4` says every run.
* `approve` runs the mandate to its end, up to three debits, where one pending attempt was shown.
* `llm_client.py:8-11` says that with the switch off, or when a call fails, every caller records its
  decision as `LLM_FALLBACK`. With the switch off none does: all five record `deterministic`
  (`selector.py:110-111`, `copy_generator.py:96`, `escalation_brief.py:53`,
  `reason_classifier.py:58`, `batch_summary.py:45`), which is what the tests expect and what
  `SwitchedOffIsDeterministic` states. With the switch on and the call failing, selector and
  classifier still record `deterministic`; only the other three record the fallback.
* A cancellation text offers a default pause although the notice records none when a model picks
  that type without a pause; `no_action` chosen by a model still sends an empty notice and counts as
  a contact.
* The "off" branch of the cost line cannot be reached, since the summary itself is a counted call.
* An unknown reason with code Z7 is retried although `FAILURES.md:121-122` sends every unknown to
  investigation; the attempt number of the event is ignored, so attempts made before the run do not
  count against the budget of `ARCHITECTURE.md:29`; under the carve-out a Z7 retry can land in the
  morning window of its failure, which `ASSUMPTIONS.md` A6 excludes; the checker sees records
  without attempt 1, so its cap of four allows five.

## What is proved

TLAPS proves, for every set of calls that `CallsAssumption` admits (Nat-valued instants, hashes below
the period) and, where not said, every set of model answers:

* `AllocatorProofs!ProposalLegal`: every proposal is permitted, not before the earliest legal time,
  spaced for Z7 and within four days. The argument counts slots: every slot from number 4 on is legal
  and four precede it, so slot 4 is a candidate, no candidate is beyond slot 9, and the fallback is
  dead code. `OneProposal`: a schedule is a function of the instant, the banks, the hash and the
  heuristics. Scores may tie; the choice is still one, because it is the first of the best.
* `OrchestratorProofs`: `TypeCorrect`, `BudgetCorrect`, `LastWordCorrect`, `OffPeakCorrect`,
  `SpacingCorrect`, `ChaseCorrect` and `EpisodeCorrect` (the refinement of `RecoveryEpisode`).
* `EpisodeProofs`: `ToldCorrect`, `OptOutCorrect`, `HopelessCorrect`, `DiscretionaryCorrect` and
  `FinalNoticeCorrect` whatever the model answers; `AnnouncedCorrect` and `ComplianceCorrect` (the
  checker finds no violation in any run) where `LlmAnswers` is empty, the assumption without which
  `LlmNotice.cfg` refutes the former; and how a run ends, `VetoCorrect`, `ClosingCorrect` and
  `HeldCorrect`.
* `CommandProofs`: for every command, any kill list and any model, `ConfirmationCorrect`,
  `CountedCorrect`, `TerminalAgreed`, `ReRunsCorrect` and `CommandsRunOut`; and what is proved of one
  call, in every call of a command: `ToldInCommands`, `OptOutInCommands`, `ContactsInCommands`,
  `EngineInCommands` (nine properties of core), `FinalNoticeInCommands` and, without a model,
  `CompliantInCommands`. The cap of four is one of each call: nothing keeps a second `approve`
  from debiting again.
* `KillSwitchProofs`: `TypeCorrect`; `SettledKillCorrect` for any number of operators, runs and
  mandates; `KillListCorrect` (the refinement of `KillList`) for one operator.
* `WorkerProofs`: `IntakeTypeCorrect`, `AtMostOnceCorrect` (the refinement of `AtMostOnce`),
  `AckedCorrect`, `UnrecognisedCorrect`, `OneTableCorrect` and `FallbackCorrect`, for any failures,
  webhooks, banks and bounds.
* `AssistProofs`: `AssistTypeCorrect`, `LimitsCorrect`, `ProvenanceCorrect` and `SwitchCorrect`, for
  any answers and offers.
* `BaselineProofs`: `FaultsKnown` and `ScheduleCorrect`, for any set of mandates, of outages and of
  failures with Nat-valued instants (`FailuresAssumption`).

None of the properties is inductive. For the orchestrator the invariant is `IInv`, three parts: types;
`BooksInv`, which ties pc to the records (while the loop runs every attempt failed, the counter is
their number, a proposal pends only before its debit); `ClockInv`, which says that the clock is the
instant of the last debit, that a pending proposal keeps its distance from it, and bounds the clock
by the counter. It rests on `ProposalLegal`, the one fact about data. The later modules add to it:
`TalkInv` (each debit has its outcome notice at its own instant: the guardrail looks the opt-out up
at the same instant the executor did, and the budget never blocks the type), `AnnounceInv` (a pending
attempt has its pre-debit notice at the present instant, a debit at the instant of the one before
it), `OptOutInv`, `ContactInv` (the last contact on record is the latest notice), `GateInv` (what the
loop checked still holds at the execution; the gate and the guardrail's copy of its table agree, by
`RetryableNotTerminal`), `ClosingInv` and `HeldInv`.

The lemmas of these modules are about a step of `Next` and about `Begun`, a call just begun with any
arguments of the right type, so they serve any call of any command. `CommandInv` is the invariant of
the running call, and three facts about the command: a command that needs a confirmation and has none
is in its first call, and that one is under review; what is counted of a finished call is what its
closing invariant says; the record kept between two calls has the type of a fresh one. `BeginCall`
establishes `Begun` again, which is the whole of its proof.

`ReRunsCorrect` compares calls that are over, so its invariant must say what a call did, and not only
that it was lawful. `StoryInv` tells the story of the running call as a function of the record, the
first failure, the heuristics and the outcomes drawn so far: `OneProposal` fixes the instant of each
attempt, the failures drawn fix the verdict and the stopping rule, and the opt-out is a fact of the
record. `Told` keeps the story of each finished call. `ReRunInv` adds that all stories of a command are
about the same record and failure and that their draws agree: an attempt both made at the same instant
came out the same. By induction over the attempts, at most four, two stories with the same
heuristics then agree; a kill is excluded by the property, and the wording of a notice never enters a
story, which is the reason why a model cannot spoil an approval. `DrawsAgree` is where the proof
touches the draw: the same mandate, hour and banks give the same odds, and the draw is kept.

`FinalInv` adds `AboutInv`, that no notice is about an attempt beyond the pending one, so the last
notice is the first about its attempt; and a notice of those types is refused only by the day's
budget, because the opt-out has its own way out above the verdict. `CommandsRunOut` uses `StepsLeft`,
two steps for every debit the budget still allows and those that lead out of the loop, and
`CallsLeft`, which counts the calls of the plan that have not begun.

For the kill switch `SettledInv` adds that undisturbed commands hold the list they will write, that
what a run was told was on the list it saw, and that it debits nothing on that list; `LoneInv` says
that a lone command has read the file as it still is. For the intake `SeenInv` ties the ids seen to
the events opened in this life, and `HandledInv` says that only a payload that raises is remembered
without having been handled; for the table `TableInv` says that the cache is whole, or empty with
an error on record, and that every signal of this life was given from it. For `Assist`, `LimitsInv`
is stated with the type of a choice, because the guards let nothing else reach the notice; the
others follow call by call from what each stage makes of a reply. For the baselines `HourlyInv` and
`FixedInv` say what each strategy has written down when it comes to a retry: B2 its announcement a
whole gap ahead and its window, B1 the hour it waited; `BooksInv` is common to both.

Checked by TLC only: liveness (`ParsableHandled`, `CommandEnds`), which is out of the prover's reach.
Of `CommandEnds` only the last step is missing, from "every step lowers a natural number" and weak
fairness to "it ends", which needs ENABLED. Every other property that the passing runs check is
proved.

## Not modelled

* Text: copy, prompts, audit wording and what the screen's regular expressions match (one bit of a
  text here); metrics, sums and rendering; the synthetic data generator; the secret scan; amounts,
  which no decision reads; the digest used as approval token (the executor does not verify it).
* The audit log, an append-only list nothing in the pipeline reads back, and the reader of the NPCI
  statistics: no behaviour.
* `reactivate_subscription`, `collect_arrears`, `record_opt_out` and the contact reset are called only
  by tests and by the failure-injection script; no path of the program halts a subscription and
  reactivates it later. The checker's invariants about them (INV-15 and those without records) are
  left out with them.
* Concurrency inside the normaliser: the source has no server, so how many threads would call it is
  not known; calls are atomic here.

## Plan

Done: one call of the engine and its proofs, commands of several calls and their proofs, the kill
switch, the intake with the reference table, the model and its fallbacks, the baselines and their
proofs. What could
follow, if the program grows that way: the normaliser behind a concurrent server; the arrears life
cycle (halt, reactivation, collection) once a caller exists; a record of approvals, so that a second
`approve` of the same attempt could be refused, with the four-debit cap across commands as its
property.

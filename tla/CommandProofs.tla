--------------------------- MODULE CommandProofs ---------------------------
(***************************************************************************)
(* What run_mandate keeps in one call it keeps in every call of a command, *)
(* and what the commands add: nothing moves unconfirmed, and the           *)
(* evaluation counts what happened.                                        *)
(***************************************************************************)
EXTENDS Commands, EpisodeProofs, SequenceTheorems

-----------------------------------------------------------------------------
(* Every call is one of run_mandate *)

\* The record of the webhook's debit is the first; a call that is over has a
\* reason or a success; nothing terminal comes as far as a veto.
CallInv ==
  /\ attempts[1] = [number |-> 1, at |-> firstFailure.at, outcome |-> "failed"]
  /\ pc \in {"return", "done"} => (stoppedReason = "none" <=> finalStatus = "recovered")
  /\ stoppedReason = "vetoed" => ~IsTerminalEvent(firstFailure.reason, firstFailure.npci)

LEMMA CallBegun == ASSUME Begun  PROVE CallInv
BY DEF Begun, Begin, CallInv

\* The record of an attempt is never rewritten.
LEMMA FirstKept ==
  ASSUME TypeInv, BooksInv, [Next]_vars
  PROVE  attempts'[1] = attempts[1]
<1>1. attemptsMade \in 1..4 /\ \A i \in 1..attemptsMade : attempts'[i] = attempts[i]
  BY AttemptsGrow
<1>. QED  BY <1>1

LEMMA CallNext == ASSUME EndInv, CallInv, [Next]_vars  PROVE CallInv'
<1>1. firstFailure' = firstFailure
  BY GapFixed DEF EndInv, IInv
<1>2. attempts'[1] = attempts[1]
  BY FirstKept DEF EndInv, IInv
<1>3. CASE StopKilled \/ StopOptedOut \/ StopOnVerdict \/ StopOnRule \/ HoldForApproval
  <2>1. pc = "loop" /\ finalStatus' = finalStatus
    BY <1>3 DEF StopKilled, StopOptedOut, StopOnVerdict, StopOnRule, HoldForApproval,
       Schedule, MayProceed
  <2>2. stoppedReason' \notin {"none", "vetoed"}
    BY <1>3 DEF StopKilled, StopOptedOut, StopOnVerdict, StopOnRule, HoldForApproval, Break,
       StopRule
  <2>3. finalStatus' = "unknown"
    BY <2>1 DEF EndInv, IInv, BooksInv
  <2>. QED  BY <1>1, <1>2, <2>2, <2>3 DEF CallInv
<1>4. CASE Propose
  BY <1>1, <1>2, <1>4 DEF Propose, CallInv
<1>5. CASE Veto
  <2>1. finalStatus' = "unknown" /\ stoppedReason' = "vetoed"
    BY <1>5 DEF Veto, Break, EndInv, IInv, BooksInv
  <2>2. ~IsTerminalEvent(firstFailure.reason, firstFailure.npci)
    BY <1>5 DEF Veto, EndInv, GateInv, IInv, ClockInv
  <2>. QED  BY <1>1, <1>2, <2>1, <2>2 DEF CallInv
<1>6. CASE Succeed
  <2>1. stoppedReason' = "none" /\ finalStatus' = "recovered"
    BY <1>6 DEF Succeed, Debit, EndInv, IInv, BooksInv
  <2>. QED  BY <1>1, <1>2, <2>1 DEF CallInv
<1>7. CASE FailAgain
  BY <1>1, <1>2, <1>7 DEF FailAgain, CallInv
<1>8. CASE Return
  BY <1>1, <1>2, <1>8 DEF Return, CallInv
<1>9. CASE UNCHANGED vars
  BY <1>9 DEF vars, CallInv
<1>. QED  BY <1>3, <1>4, <1>5, <1>6, <1>7, <1>8, <1>9 DEF Next

\* All that is known of the state of a call.
EngineInv == NoticeInv /\ ContactInv /\ EndInv /\ CallInv

LEMMA EngineBegun == Begun => EngineInv
BY NoticeBegun, ContactBegun, EndBegun, CallBegun DEF EngineInv

LEMMA EngineNext == EngineInv /\ [Next]_vars => EngineInv'
<1>. SUFFICES ASSUME EngineInv, [Next]_vars  PROVE EngineInv'
  OBVIOUS
<1>1. NoticeInv'
  BY NoticeNext DEF EngineInv
<1>2. ContactInv'
  BY ContactKept DEF EngineInv, NoticeInv
<1>3. EndInv'
  BY EndNext DEF EngineInv
<1>4. CallInv'
  BY CallNext DEF EngineInv
<1>. QED  BY <1>1, <1>2, <1>3, <1>4 DEF EngineInv

-----------------------------------------------------------------------------
(* The calls a command plans *)

StageType == [review: BOOLEAN, salary: BOOLEAN, bank: BOOLEAN, listed: BOOLEAN]

LEMMA PlanOf ==
  ASSUME command \in CommandsGiven
  PROVE  /\ command.flag \in BOOLEAN
         /\ command.name \in {"explain", "approve", "compare", "evaluate"}
         /\ command.name = "explain" =>
              Plan = << [Engine EXCEPT !.review = command.flag] >>
         /\ command.name = "approve" =>
              Plan = << [Engine EXCEPT !.review = TRUE], Engine >>
         /\ command.name = "compare" => Plan = << Unlisted(B3), Unlisted(Engine) >>
         /\ command.name = "evaluate" => Plan = << B3, Engine >> \o Variants
<1>1. /\ command.flag \in BOOLEAN
      /\ command.name \in {"explain", "approve", "compare", "evaluate"}
  BY DEF CommandsGiven
<1>2. CASE command.name = "explain"
  BY <1>1, <1>2 DEF Plan
<1>3. CASE command.name = "approve"
  BY <1>1, <1>3 DEF Plan
<1>4. CASE command.name = "compare"
  BY <1>1, <1>4 DEF Plan
<1>5. CASE command.name = "evaluate"
  BY <1>1, <1>5 DEF Plan
<1>. QED  BY <1>1, <1>2, <1>3, <1>4, <1>5

\* The plans are literal tuples.
LEMMA Tuples ==
  ASSUME NEW S, NEW a \in S, NEW b \in S, NEW c \in S, NEW d \in S
  PROVE  /\ << a >> \in Seq(S) /\ Len(<< a >>) = 1
         /\ << a, b >> \in Seq(S) /\ Len(<< a, b >>) = 2
         /\ << a, b, c, d >> \in Seq(S)
OBVIOUS

LEMMA PlanType ==
  ASSUME command \in CommandsGiven
  PROVE  Plan \in Seq(StageType) /\ Len(Plan) \in Nat \ {0}
<1>1. /\ B3 \in StageType /\ Engine \in StageType
      /\ Unlisted(B3) \in StageType /\ Unlisted(Engine) \in StageType
  BY DEF B3, Engine, Unlisted, Stage, StageType
<1>2. CASE command.name = "explain"
  <2>. DEFINE first == [Engine EXCEPT !.review = command.flag]
  <2>1. first \in StageType
    BY <1>1, PlanOf DEF StageType
  <2>2. Plan = << first >>
    BY <1>2, PlanOf
  <2>. HIDE DEF first
  <2>. QED  BY <2>1, <2>2, Tuples
<1>3. CASE command.name = "approve"
  <2>. DEFINE first == [Engine EXCEPT !.review = TRUE]
  <2>1. first \in StageType
    BY <1>1 DEF StageType
  <2>2. Plan = << first, Engine >>
    BY <1>3, PlanOf
  <2>. HIDE DEF first
  <2>. QED  BY <1>1, <2>1, <2>2, Tuples
<1>4. CASE command.name = "compare"
  <2>1. Plan = << Unlisted(B3), Unlisted(Engine) >>
    BY <1>4, PlanOf
  <2>. QED  BY <1>1, <2>1, Tuples
<1>5. CASE command.name = "evaluate"
  <2>1. << B3, Engine >> \in Seq(StageType) /\ Len(<< B3, Engine >>) = 2
    BY <1>1, Tuples
  <2>2. Variants \in Seq(StageType)
    <3>1. Stage(FALSE, TRUE, FALSE, FALSE) \in StageType /\ Stage(FALSE, FALSE, TRUE, FALSE) \in StageType
      BY DEF Stage, StageType
    <3>. QED  BY <1>1, <3>1, Tuples DEF Variants
  <2>3. Plan = << B3, Engine >> \o Variants
    BY <1>5, PlanOf
  <2>4. Plan \in Seq(StageType) /\ Len(Plan) = 2 + Len(Variants) /\ Len(Variants) \in Nat
    BY <2>1, <2>2, <2>3, ConcatProperties, LenProperties
  <2>. QED  BY <2>4
<1>. QED  BY <1>2, <1>3, <1>4, <1>5, PlanOf

LEMMA OptionsTyped ==
  ASSUME command \in CommandsGiven, killed \in BOOLEAN, NEW i \in 1..Len(Plan),
         NEW downtimes \in SUBSET [begin: Nat, end: Nat, severity: Severity]
  PROVE  Options(i, downtimes) \in OptionsType
<1>1. Plan[i] \in StageType
  BY PlanType, ElementOfSeq
<1>. QED  BY <1>1 DEF Options, OptionsType, StageType

-----------------------------------------------------------------------------
(* The invariant of a command *)

\* The operator has not given the word a debit would need.
Unconfirmed ==
  \/ command.name = "explain" /\ command.flag
  \/ command.name = "approve" /\ ~command.flag

\* What the evaluation says of one result.
WellCounted(r) ==
  LET outcomes == { r.attempts[i].outcome : i \in DOMAIN r.attempts } IN
    /\ Bucket(r) # "uncounted"
    /\ Bucket(r) = "recovered" <=> "success" \in outcomes
    /\ Bucket(r) = "attempt_budget_exhausted" <=>
         Len(r.attempts) = MaxExecutionAttemptsTotal /\ outcomes = {"failed"}

CommandInv ==
  /\ EngineInv
  /\ command \in CommandsGiven /\ record \in MandateType /\ killed \in BOOLEAN
  /\ stage \in Nat \ {0}
  /\ Unconfirmed => stage = 1 /\ opts.reviewFirst
  /\ \A r \in results :
       WellCounted(r) /\ (IsTerminalRootCause => Len(r.attempts) = 1)

\* The first call of an unconfirmed command is under review.
LEMMA FirstUnderReview ==
  ASSUME command \in CommandsGiven, Unconfirmed
  PROVE  /\ Plan[1].review
         /\ ~(MoreCalls /\ stage \in Nat \ {0})
<1>1. CASE command.name = "explain"
  <2>1. command.flag /\ Plan = << [Engine EXCEPT !.review = command.flag] >>
    BY <1>1, PlanOf DEF Unconfirmed
  <2>2. Plan[1].review /\ Len(Plan) = 1
    BY <2>1 DEF Engine, Stage
  <2>. QED  BY <2>2 DEF MoreCalls
<1>2. CASE command.name = "approve"
  <2>1. ~command.flag /\ Plan = << [Engine EXCEPT !.review = TRUE], Engine >>
    BY <1>2, PlanOf DEF Unconfirmed
  <2>2. Plan[1].review
    BY <2>1 DEF Engine, Stage
  <2>. QED  BY <1>2, <2>1, <2>2 DEF MoreCalls
<1>. QED  BY <1>1, <1>2 DEF Unconfirmed

\* The first call begins as every call of run_mandate does.
LEMMA InitialCall ==
  ASSUME CommandInit
  PROVE  /\ Begun /\ command \in CommandsGiven /\ killed \in BOOLEAN
         /\ mandate \in MandateType /\ (Unconfirmed => opts.reviewFirst)
<1>1. PICK call \in Calls :
        /\ killed = call.options.killed
        /\ Begin([call EXCEPT !.options = Options(1,
                    IF command.name = "evaluate" THEN call.options.downtimes ELSE {})])
  BY DEF CommandInit
<1>2. command \in CommandsGiven
  BY DEF CommandInit
<1>3. call \in CallType /\ killed \in BOOLEAN
  BY <1>1, CallsAssumption DEF CallType, OptionsType
<1>. DEFINE down == IF command.name = "evaluate" THEN call.options.downtimes ELSE {}
<1>4. down \in SUBSET [begin: Nat, end: Nat, severity: Severity]
  BY <1>3 DEF CallType, OptionsType
<1>5. 1 \in 1..Len(Plan)
  BY <1>2, PlanType
<1>6. Options(1, down) \in OptionsType
  BY <1>2, <1>3, <1>4, <1>5, OptionsTyped
<1>7. opts = Options(1, down) /\ mandate \in MandateType
  BY <1>1, <1>3 DEF Begin, CallType
<1>8. Begun
  <2>1. [call EXCEPT !.options = Options(1, down)] \in CallType
    BY <1>3, <1>6 DEF CallType
  <2>. QED  BY <1>1, <2>1 DEF Begun
<1>9. Unconfirmed => opts.reviewFirst
  BY <1>2, <1>7, FirstUnderReview DEF Options
<1>. QED  BY <1>2, <1>3, <1>7, <1>8, <1>9

LEMMA CommandBegun == CommandInit => CommandInv
<1>. SUFFICES ASSUME CommandInit  PROVE CommandInv
  OBVIOUS
<1>1. results = {} /\ stage = 1 /\ record = mandate
  BY DEF CommandInit
<1>. QED  BY <1>1, InitialCall, EngineBegun DEF CommandInv

\* A list of attempts holds those that ran and perhaps one that was skipped.
LEMMA OneMoreAtMost ==
  ASSUME NEW l \in Nat, NEW m \in 1..4, l = m \/ l = m + 1
  PROVE  /\ m \in 1..l
         /\ \A i \in 1..l : i # m => i \in 1..(m - 1) \/ (i = m + 1 /\ l # m)
OBVIOUS

\* What a finished call returned is counted once and rightly.
LEMMA ResultCounted ==
  ASSUME EngineInv, pc = "done"
  PROVE  WellCounted(Result) /\ (IsTerminalRootCause => Len(Result.attempts) = 1)
<1>1. /\ Result.attempts = attempts /\ Result.status = finalStatus
      /\ Result.reason = stoppedReason
  BY DEF Result
<1>2. /\ finalStatus \in {"recovered", "halted", "stopped"} /\ stoppedReason \in StopReasons
      /\ finalStatus = "recovered" => stoppedReason = "none"
      /\ stoppedReason = "none" => finalStatus = "recovered"
      /\ finalStatus = "halted" <=> attemptsMade = 4 /\ finalStatus # "recovered"
      /\ finalStatus = "recovered" <=> attempts[attemptsMade].outcome = "success"
  BY DEF EngineInv, EndInv, IInv, TypeInv, TypeOK, FinalStatuses, ClosingInv, CallInv, BooksInv
<1>3. /\ DOMAIN attempts = 1..Len(attempts) /\ Len(attempts) \in Nat
      /\ attemptsMade \in 1..4
  BY DEF EngineInv, EndInv, IInv, TypeInv, TypeOK
<1>4. /\ \A i \in 1..(attemptsMade - 1) : attempts[i].outcome = "failed"
      /\ attempts[attemptsMade].outcome # "skipped"
      /\ \/ Len(attempts) = attemptsMade
         \/ /\ Len(attempts) = attemptsMade + 1
            /\ stoppedReason = "vetoed"
            /\ attempts[attemptsMade].outcome = "failed"
            /\ attempts[attemptsMade + 1].outcome = "skipped"
  BY DEF EngineInv, EndInv, IInv, BooksInv
<1>5. Len(attempts) = attemptsMade \/ Len(attempts) = attemptsMade + 1
  BY <1>4
<1>6. attemptsMade \in 1..Len(attempts)
  BY <1>3, <1>5, OneMoreAtMost
<1>7. stoppedReason = "vetoed" => /\ attemptsMade < 4
                                  /\ ~IsTerminalEvent(firstFailure.reason, firstFailure.npci)
  BY DEF EngineInv, EndInv, GateInv, CallInv
<1>8. attempts[attemptsMade].outcome \in {"failed", "success"}
  <2>1. attempts[attemptsMade] \in AttemptType
    <3>1. attempts \in Seq(AttemptType)
      BY DEF EngineInv, EndInv, IInv, TypeInv, TypeOK
    <3>. QED  BY <1>6, <3>1, ElementOfSeq
  <2>. QED  BY <1>4, <2>1 DEF AttemptType, Outcomes
<1>. DEFINE outcomes == { attempts[i].outcome : i \in DOMAIN attempts }
<1>9. "success" \in outcomes <=> finalStatus = "recovered"
  <2>1. ASSUME NEW i \in 1..Len(attempts), attempts[i].outcome = "success"
        PROVE  finalStatus = "recovered"
    <3>1. CASE i = attemptsMade
      BY <1>2, <2>1, <3>1
    <3>2. CASE i # attemptsMade
      <4>1. \/ i \in 1..(attemptsMade - 1)
            \/ i = attemptsMade + 1 /\ Len(attempts) # attemptsMade
        BY <1>3, <1>5, <2>1, <3>2, OneMoreAtMost
      <4>. QED  BY <1>4, <2>1, <4>1
    <3>. QED  BY <3>1, <3>2
  <2>. QED  BY <1>2, <1>3, <1>6, <2>1
<1>10. finalStatus = "halted" <=> Len(attempts) = 4 /\ outcomes = {"failed"}
  <2>1. ASSUME finalStatus = "halted"
        PROVE  Len(attempts) = 4 /\ outcomes = {"failed"}
    <3>1. attemptsMade = 4 /\ Len(attempts) = 4
      BY <1>2, <1>4, <1>7, <2>1
    <3>2. ASSUME NEW i \in 1..4  PROVE attempts[i].outcome = "failed"
      <4>1. i = 4 \/ i \in 1..3
        BY <3>2
      <4>. QED  BY <1>2, <1>4, <1>8, <2>1, <3>1, <4>1
    <3>. QED  BY <1>3, <3>1, <3>2
  <2>2. ASSUME Len(attempts) = 4, outcomes = {"failed"}  PROVE finalStatus = "halted"
    <3>1. attempts[4].outcome = "failed"
      BY <1>3, <2>2
    <3>2. attemptsMade = 4
      BY <1>3, <1>4, <2>2, <3>1
    <3>. QED  BY <1>2, <3>1, <3>2
  <2>. QED  BY <2>1, <2>2
<1>. HIDE DEF outcomes
<1>11. WellCounted(Result)
  <2>1. Bucket(Result) = IF finalStatus = "halted" THEN "attempt_budget_exhausted"
                         ELSE IF stoppedReason # "none" THEN stoppedReason
                         ELSE "recovered"
    BY <1>1, <1>2 DEF Bucket
  <2>2. stoppedReason \notin {"uncounted", "recovered", "attempt_budget_exhausted"}
    BY <1>2 DEF StopReasons
  <2>3. /\ Bucket(Result) # "uncounted"
        /\ Bucket(Result) = "recovered" <=> finalStatus = "recovered"
        /\ Bucket(Result) = "attempt_budget_exhausted" <=> finalStatus = "halted"
    BY <1>2, <2>1, <2>2
  <2>4. { Result.attempts[i].outcome : i \in DOMAIN Result.attempts } = outcomes
    BY <1>1 DEF outcomes
  <2>. QED  BY <1>1, <1>9, <1>10, <2>3, <2>4 DEF WellCounted, MaxExecutionAttemptsTotal
<1>12. ASSUME IsTerminalRootCause  PROVE Len(attempts) = 1
  <2>1. IsTerminalEvent(firstFailure.reason, firstFailure.npci)
    BY <1>12 DEF IsTerminalRootCause, IsTerminalEvent
  <2>2. attemptsMade = 1 /\ stoppedReason # "vetoed"
    BY <1>3, <1>7, <2>1 DEF EngineInv, NoticeInv, TerminalInv
  <2>. QED  BY <1>4, <2>2
<1>. QED  BY <1>1, <1>11, <1>12

\* The next call begins as every call of run_mandate does, with the arguments
\* the command gives it.
LEMMA CallBegins == ASSUME CommandInv, BeginCall  PROVE Begun'
<1>1. /\ command \in CommandsGiven /\ record \in MandateType /\ killed \in BOOLEAN
      /\ firstFailure \in FailureType /\ opts \in OptionsType /\ stage \in Nat
      /\ attempts[1] = [number |-> 1, at |-> firstFailure.at, outcome |-> "failed"]
  BY DEF CommandInv, EngineInv, EndInv, IInv, TypeInv, TypeOK, CallInv
<1>2. opts' \in OptionsType
  <2>1. stage + 1 \in 1..Len(Plan)
    BY <1>1, PlanType DEF BeginCall, MoreCalls
  <2>2. opts.downtimes \in SUBSET [begin: Nat, end: Nat, severity: Severity]
    BY <1>1 DEF OptionsType
  <2>3. opts' = Options(stage + 1, opts.downtimes)
    BY DEF BeginCall
  <2>. QED  BY <1>1, <2>1, <2>2, <2>3, OptionsTyped
<1>3. PICK call \in CallType :
        call = [mandate |-> record, failure |-> firstFailure, options |-> opts']
  BY <1>1, <1>2 DEF CallType
<1>4. Begin(call)'
  BY <1>1, <1>3 DEF BeginCall, Begin
<1>. QED  BY <1>4 DEF Begun

LEMMA CommandStep == CommandInv /\ [CommandNext]_commandVars => CommandInv'
<1>. SUFFICES ASSUME CommandInv, [CommandNext]_commandVars  PROVE CommandInv'
  OBVIOUS
<1>0. EngineInv /\ stage \in Nat \ {0} /\ command \in CommandsGiven
  BY DEF CommandInv
<1>1. CASE CallStep
  <2>1. [Next]_vars
    BY <1>1 DEF CallStep
  <2>2. firstFailure' = firstFailure /\ opts' = opts
    BY <1>0, <2>1, GapFixed DEF EngineInv, EndInv, IInv
  <2>3. EngineInv'
    BY <1>0, <2>1, EngineNext
  <2>4. UNCHANGED <<command, record, killed, stage, results>>
    BY <1>1 DEF CallStep
  <2>. QED  BY <2>2, <2>3, <2>4 DEF CommandInv, Unconfirmed, WellCounted, Bucket, IsTerminalRootCause
<1>2. CASE EndCall
  <2>1. UNCHANGED <<vars, command, killed, stage>>
    BY <1>2 DEF EndCall
  <2>2. EngineInv'
    <3>1. [Next]_vars
      BY <2>1
    <3>. QED  BY <1>0, <3>1, EngineNext
  <2>3. record' = record /\ results' = results \cup {Result} /\ pc = "done"
    BY <1>2 DEF EndCall, RecordAfterCall
  <2>4. WellCounted(Result) /\ (IsTerminalRootCause => Len(Result.attempts) = 1)
    BY <1>0, <2>3, ResultCounted
  <2>5. firstFailure' = firstFailure /\ opts' = opts
    BY <2>1 DEF vars
  <2>6. \A r \in results' :
          WellCounted(r) /\ (IsTerminalRootCause => Len(r.attempts) = 1)
    BY <2>3, <2>4 DEF CommandInv
  <2>7. IsTerminalRootCause' <=> IsTerminalRootCause
    BY <2>5 DEF IsTerminalRootCause
  <2>8. \A r \in results' : WellCounted(r)' <=> WellCounted(r)
    BY DEF WellCounted, Bucket
  <2>9. Unconfirmed' <=> Unconfirmed
    BY <2>1 DEF Unconfirmed
  <2>10. \A r \in results' :
           WellCounted(r)' /\ (IsTerminalRootCause' => Len(r.attempts) = 1)
    BY <2>6, <2>7, <2>8
  <2>. QED  BY <2>1, <2>2, <2>3, <2>5, <2>9, <2>10 DEF CommandInv
<1>3. CASE BeginCall
  <2>1. EngineInv'
    <3>1. Begun'
      BY <1>3, CallBegins
    <3>2. (Begun => EngineInv)'
      BY EngineBegun, PTL
    <3>. QED  BY <3>1, <3>2
  <2>2. ~Unconfirmed
    BY <1>0, <1>3, FirstUnderReview DEF BeginCall
  <2>3. /\ UNCHANGED <<firstFailure, command, record, killed, results>>
        /\ stage' = stage + 1
    BY <1>3 DEF BeginCall
  <2>4. stage' \in Nat \ {0} /\ (Unconfirmed' <=> Unconfirmed)
    BY <1>0, <2>3 DEF Unconfirmed
  <2>. QED  BY <2>1, <2>2, <2>3, <2>4 DEF CommandInv, WellCounted, Bucket, IsTerminalRootCause
<1>4. CASE ChangeKillList
  <2>1. UNCHANGED <<vars, command, record, stage, results>> /\ killed' = ~killed
    BY <1>4 DEF ChangeKillList
  <2>2. EngineInv'
    <3>1. [Next]_vars
      BY <2>1
    <3>. QED  BY <1>0, <3>1, EngineNext
  <2>. QED  BY <2>1, <2>2 DEF CommandInv, Unconfirmed, WellCounted, Bucket, IsTerminalRootCause, vars
<1>5. CASE UNCHANGED commandVars
  <2>1. UNCHANGED <<vars, command, record, killed, stage, results>>
    BY <1>5 DEF commandVars
  <2>2. EngineInv'
    <3>1. [Next]_vars
      BY <2>1
    <3>. QED  BY <1>0, <3>1, EngineNext
  <2>. QED  BY <2>1, <2>2 DEF CommandInv, Unconfirmed, WellCounted, Bucket, IsTerminalRootCause, vars
<1>. QED  BY <1>1, <1>2, <1>3, <1>4, <1>5 DEF CommandNext, Proceed

LEMMA CommandInvariance == CommandSpec => []CommandInv
BY CommandBegun, CommandStep, PTL DEF CommandSpec

-----------------------------------------------------------------------------
(* The theorems *)

\* INV-07 in every call of every command, whatever ran before it.
THEOREM ToldInCommands == CommandSpec => []OutcomeTold
<1>1. CommandInv => OutcomeTold
  BY ToldByInv DEF CommandInv, EngineInv
<1>. QED  BY <1>1, CommandInvariance, PTL

\* INV-08 in every call of every command.
THEOREM OptOutInCommands == CommandSpec => []OptOutIsFinal
<1>1. CommandInv => OptOutIsFinal
  BY FinalByInv DEF CommandInv, EngineInv
<1>. QED  BY <1>1, CommandInvariance, PTL

\* The contact budget in every call of every command.
THEOREM ContactsInCommands == CommandSpec => []DiscretionaryBudget
<1>1. CommandInv => DiscretionaryBudget
  BY DEF CommandInv, EngineInv, ContactInv
<1>. QED  BY <1>1, CommandInvariance, PTL

\* A step of a command is a step of the call it makes, or begins the next one.
LEMMA StepOfCall == CommandInv /\ [CommandNext]_commandVars => [Next]_vars \/ Begun'
<1>. SUFFICES ASSUME CommandInv, [CommandNext]_commandVars  PROVE [Next]_vars \/ Begun'
  OBVIOUS
<1>1. CASE CallStep
  BY <1>1 DEF CallStep
<1>2. CASE EndCall
  BY <1>2 DEF EndCall
<1>3. CASE BeginCall
  BY <1>3, CallBegins
<1>4. CASE ChangeKillList
  BY <1>4 DEF ChangeKillList
<1>5. CASE UNCHANGED commandVars
  BY <1>5 DEF commandVars, vars
<1>. QED  BY <1>1, <1>2, <1>3, <1>4, <1>5 DEF CommandNext, Proceed

\* INV-01 to INV-04 and what a veto, a hold and a return mean, in every call of
\* every command. A re-run begins from the record with a budget and a clock of
\* its own: the cap is one of each call, not of the command.
THEOREM EngineInCommands ==
  CommandSpec => [](/\ BudgetRespected
                    /\ NothingAfterTheLastWord
                    /\ DebitedOffPeak
                    /\ RetrySpacing
                    /\ ChaseBounded
                    /\ HopelessNeverDebited
                    /\ VetoOnlyOnChangedFacts
                    /\ HeldRunMovesNoMoney
                    /\ ClosingStatus)
<1>1. CommandInv => NoticeInv /\ EndInv /\ IInv /\ TypeInv /\ BooksInv
  BY DEF CommandInv, EngineInv, EndInv, IInv
<1>. QED
  BY <1>1, BudgetByInv, LastWordByInv, OffPeakByInv, SpacingByInv, ChaseByInv, HopelessByInv,
     VetoByInv, HeldByInv, ClosedByInv, CommandInvariance, PTL

\* The last notice of a run its verdict stops, in every call of every command.
THEOREM FinalNoticeInCommands == CommandSpec => []FinalNoticeUnlessContacted
<1>1. CommandInit => CommandInv /\ FinalInv
  BY CommandBegun, InitialCall, FinalBegun
<1>2. CommandInv /\ FinalInv /\ [CommandNext]_commandVars => CommandInv' /\ FinalInv'
  <2>. SUFFICES ASSUME CommandInv, FinalInv, [CommandNext]_commandVars
                PROVE  CommandInv' /\ FinalInv'
    OBVIOUS
  <2>1. (Begun => FinalInv)'
    BY FinalBegun, PTL
  <2>2. IInv
    BY DEF CommandInv, EngineInv, EndInv
  <2>. QED  BY <2>1, <2>2, StepOfCall, CommandStep, FinalNext
<1>3. FinalInv => FinalNoticeUnlessContacted
  BY DEF FinalInv
<1>. QED  BY <1>1, <1>2, <1>3, PTL DEF CommandSpec

\* Where the rule table chooses the notices, every call of every command passes
\* the independent checker at every moment, a call that another one follows or
\* that the kill list stops included.
THEOREM CompliantInCommands ==
  (LlmAnswers = {}) /\ CommandSpec => [](PreDebitNoticeInTime /\ EngineCompliant)
<1>. SUFFICES ASSUME LlmAnswers = {}
              PROVE  CommandSpec => [](PreDebitNoticeInTime /\ EngineCompliant)
  OBVIOUS
<1>1. CommandInit => CommandInv /\ AnnounceInv
  BY CommandBegun, InitialCall, AnnounceBegun
<1>2. CommandInv /\ AnnounceInv /\ [CommandNext]_commandVars => CommandInv' /\ AnnounceInv'
  <2>. SUFFICES ASSUME CommandInv, AnnounceInv, [CommandNext]_commandVars
                PROVE  CommandInv' /\ AnnounceInv'
    OBVIOUS
  <2>1. (Begun => AnnounceInv)'
    BY AnnounceBegun, PTL
  <2>2. TypeInv /\ BooksInv /\ ClockInv
    BY DEF CommandInv, EngineInv, EndInv, IInv
  <2>. QED  BY <2>1, <2>2, StepOfCall, CommandStep, AnnounceNext
<1>3. CommandInv /\ AnnounceInv => PreDebitNoticeInTime /\ EngineCompliant
  BY InTimeByInv, CompliantByInv DEF CommandInv, EngineInv, NoticeInv
<1>. QED  BY <1>1, <1>2, <1>3, PTL DEF CommandSpec

\* Without --confirm-irreversible an approve debits nothing, nor does an explain
\* under review, for every mandate and every change of the kill list.
THEOREM ConfirmationCorrect == CommandSpec => []NothingWithoutConfirmation
<1>1. ASSUME CommandInv, Unconfirmed  PROVE Debited = {}
  <2>1. TypeInv /\ BooksInv /\ HeldInv /\ opts.reviewFirst
    BY <1>1 DEF CommandInv, EngineInv, EndInv, IInv
  <2>2. attemptsMade = 1 /\ Debited = 2..attemptsMade
    BY <2>1, DebitedInterval DEF HeldInv
  <2>. QED  BY <2>2
<1>2. CommandInv => NothingWithoutConfirmation
  BY <1>1 DEF NothingWithoutConfirmation, Unconfirmed
<1>. QED  BY <1>2, CommandInvariance, PTL

\* Every run of an evaluation falls under exactly the right heading.
THEOREM CountedCorrect == CommandSpec => []EveryRunCounted
<1>1. CommandInv => EveryRunCounted
  BY DEF CommandInv, WellCounted, EveryRunCounted
<1>. QED  BY <1>1, CommandInvariance, PTL

\* The gate, the guardrail and the evaluation agree on what is terminal.
THEOREM TerminalAgreed == CommandSpec => []NoRetryWasted
<1>1. CommandInv => NoRetryWasted
  BY DEF CommandInv, NoRetryWasted
<1>. QED  BY <1>1, CommandInvariance, PTL

-----------------------------------------------------------------------------
(* The story of a call: a record m, its failure f and the heuristics decide  *)
(* everything but the outcome of the draws, and those are drawn again.       *)

\* The mandate as the gate sees it after n failed attempts.
MandateAfter(m, n) == [m EXCEPT !.consecutive = @ + n - 1]

\* What the loop top decides after n attempts, the last at t.
Turn(m, f, n, t) ==
  IF ~IsContactable(m, t) THEN "opted_out"
  ELSE IF Evaluate(f, MandateAfter(m, n)) # "retryable" THEN "verdict"
  ELSE StopRule("retryable", n, f.at, t)

\* Where the allocator puts the attempt after one at t.
Due(m, f, call, t) ==
  Proposals(m.hash, f.reason, call, EarliestLegalTime(t, m.carveOut), f.npci = "Z7")

\* Every attempt follows from the one before it.
Lawful(m, f, call, list) ==
  \A n \in 2..Len(list) :
    /\ list[n - 1].outcome = "failed"
    /\ Turn(m, f, n - 1, list[n - 1].at) = "continue" /\ ~call.reviewFirst
    /\ list[n].number = n
    /\ list[n].at \in Due(m, f, call, list[n - 1].at)
    /\ list[n].outcome = "skipped" <=> ~ValidateExecution(m, list[n].at, n, f, list[n].at)

\* The reason a call stops for follows from its last attempt.
Ended(m, f, call, list, reason) ==
  LET last == list[Len(list)] IN
    /\ last.outcome = "success" => reason = "none"
    /\ last.outcome = "skipped" => reason = "vetoed"
    /\ last.outcome = "failed" =>
         IF Turn(m, f, Len(list), last.at) = "continue" THEN call.reviewFirst /\ reason = "held"
         ELSE reason = Turn(m, f, Len(list), last.at)

StatusAfter(list) ==
  IF list[Len(list)].outcome = "success" THEN "recovered"
  ELSE IF Len(list) = 4 /\ list[4].outcome = "failed" THEN "halted"
  ELSE "stopped"

\* The time of the first retry of a call that made no attempt.
FirstProposed(m, f, call, reason, first) ==
  IF reason = "held" THEN first \in Due(m, f, call, f.at) ELSE first = None

\* The story of a finished call.
Told(m, f, r) ==
  /\ r.attempts \in Seq(AttemptType) /\ Len(r.attempts) \in 1..4
  /\ r.attempts[1] = [number |-> 1, at |-> f.at, outcome |-> "failed"]
  /\ Lawful(m, f, r.call, r.attempts)
  /\ ~r.call.killed =>
       /\ Ended(m, f, r.call, r.attempts, r.reason)
       /\ r.status = StatusAfter(r.attempts)
       /\ IF Len(r.attempts) = 1 THEN FirstProposed(m, f, r.call, r.reason, r.first)
          ELSE r.first = r.attempts[2].at

\* Two calls that debited at the same time drew the same outcome.
DrawsAgree(a, b) ==
  \A n \in 2..4 :
    /\ n <= Len(a) /\ n <= Len(b)
    /\ a[n].at = b[n].at /\ a[n].outcome # "skipped" /\ b[n].outcome # "skipped"
    => a[n].outcome = b[n].outcome

SameCall(c, d) ==
  /\ c.useSalary = d.useSalary /\ c.useBank = d.useBank /\ c.downtimes = d.downtimes
  /\ ~c.killed /\ ~d.killed

-----------------------------------------------------------------------------
(* Two stories from the same record *)

\* Arithmetic on the length of a list of one to four attempts.
LEMMA Upto ==
  ASSUME NEW l \in 1..4
  PROVE  /\ l \in Nat /\ l \in 1..l
         /\ \A i \in 1..l : i \in 1..4 /\ i <= l
OBVIOUS

LEMMA OneFurther ==
  ASSUME NEW l \in 1..4, NEW n \in 1..3, n + 1 <= l
  PROVE  /\ n + 1 \in 2..l /\ n + 1 \in 1..l /\ n + 1 \in 2..4
         /\ n \in 1..l /\ n <= l /\ (n + 1) - 1 = n
OBVIOUS

LEMMA OneDue ==
  ASSUME NEW m \in MandateType, NEW f \in FailureType, NEW c, NEW d, SameCall(c, d),
         NEW t \in Nat, NEW x \in Due(m, f, c, t), NEW y \in Due(m, f, d, t)
  PROVE  x = y
<1>. DEFINE earliest == EarliestLegalTime(t, m.carveOut)
            z7 == f.npci = "Z7"
<1>1. m.hash \in Nat
  <2>1. m.hash \in HashRange
    BY DEF MandateType
  <2>. QED  BY <2>1, HashNat
<1>2. earliest \in Nat
  BY DEF EarliestLegalTime, OperationalSlack, PreDebitNotificationHours, Hour
<1>3. x \in Proposals(m.hash, f.reason, c, earliest, z7)
      /\ y \in Proposals(m.hash, f.reason, d, earliest, z7)
  BY DEF Due
<1>4. Proposals(m.hash, f.reason, c, earliest, z7) = Proposals(m.hash, f.reason, d, earliest, z7)
  BY SameHeuristics DEF SameCall
<1>. HIDE DEF earliest, z7
<1>5. z7 \in BOOLEAN
  BY DEF z7
<1>6. \E at : Proposals(m.hash, f.reason, d, earliest, z7) = { at }
  <2>1. \E k \in Candidates(m.hash, earliest, z7) :
          /\ Proposals(m.hash, f.reason, d, earliest, z7) = { ProposedTime(m.hash, earliest, k) }
          /\ \A j \in Candidates(m.hash, earliest, z7) :
               Score(f.reason, d, earliest, ProposedTime(m.hash, earliest, j))
                 <= Score(f.reason, d, earliest, ProposedTime(m.hash, earliest, k))
    BY <1>1, <1>2, <1>5, OneProposal, Zenon
  <2>. QED  BY <2>1, Zenon
<1>. QED  BY <1>3, <1>4, <1>6

SameNext(a, b, n) == n + 1 <= Len(b) /\ a[n + 1] = b[n + 1]

\* If two calls agree up to attempt n and one made another, so did the other.
LEMMA NextAgrees ==
  ASSUME NEW m \in MandateType, NEW f \in FailureType, NEW r, NEW s,
         Told(m, f, r), Told(m, f, s), SameCall(r.call, s.call),
         r.call.reviewFirst = s.call.reviewFirst, DrawsAgree(r.attempts, s.attempts),
         NEW n \in 1..3, n + 1 <= Len(r.attempts), n <= Len(s.attempts),
         r.attempts[n] = s.attempts[n]
  PROVE  SameNext(r.attempts, s.attempts, n)
<1>. DEFINE a == r.attempts
            b == s.attempts
<1>1. /\ a \in Seq(AttemptType) /\ b \in Seq(AttemptType)
      /\ Len(a) \in 1..4 /\ Len(b) \in 1..4
      /\ Lawful(m, f, r.call, a) /\ Lawful(m, f, s.call, b)
      /\ Ended(m, f, s.call, b, s.reason)
      /\ a[n] = b[n] /\ n + 1 <= Len(a) /\ n <= Len(b) /\ DrawsAgree(a, b)
  BY DEF Told, SameCall
<1>. HIDE DEF a, b
<1>2. n + 1 \in 2..Len(a) /\ n + 1 \in 1..Len(a) /\ (n + 1) - 1 = n /\ n \in 1..Len(a)
      /\ n + 1 \in 2..4
  BY <1>1, OneFurther
<1>3. /\ a[n].outcome = "failed" /\ Turn(m, f, n, a[n].at) = "continue" /\ ~r.call.reviewFirst
      /\ a[n + 1].number = n + 1
      /\ a[n + 1].at \in Due(m, f, r.call, a[n].at)
      /\ a[n + 1].outcome = "skipped"
           <=> ~ValidateExecution(m, a[n + 1].at, n + 1, f, a[n + 1].at)
  <2>1. Lawful(m, f, r.call, a)
    BY <1>1
  <2>2. /\ a[(n + 1) - 1].outcome = "failed"
        /\ Turn(m, f, (n + 1) - 1, a[(n + 1) - 1].at) = "continue" /\ ~r.call.reviewFirst
        /\ a[n + 1].number = n + 1
        /\ a[n + 1].at \in Due(m, f, r.call, a[(n + 1) - 1].at)
        /\ a[n + 1].outcome = "skipped"
             <=> ~ValidateExecution(m, a[n + 1].at, n + 1, f, a[n + 1].at)
    BY <1>2, <2>1, Zenon DEF Lawful
  <2>. QED  BY <1>2, <2>2
<1>4. n + 1 <= Len(b)
  <2>1. Len(b) # n
    BY <1>1, <1>3 DEF Ended
  <2>2. \A l \in 1..4 : n <= l /\ l # n => n + 1 <= l
    OBVIOUS
  <2>. QED  BY <1>1, <2>1, <2>2
<1>5. n + 1 \in 2..Len(b) /\ n + 1 \in 1..Len(b)
  BY <1>1, <1>4, OneFurther
<1>6. /\ b[n + 1].number = n + 1
      /\ b[n + 1].at \in Due(m, f, s.call, b[n].at)
      /\ b[n + 1].outcome = "skipped"
           <=> ~ValidateExecution(m, b[n + 1].at, n + 1, f, b[n + 1].at)
  BY <1>1, <1>2, <1>5, Zenon DEF Lawful
<1>7. a[n + 1] \in AttemptType /\ b[n + 1] \in AttemptType /\ a[n].at \in Nat
  <2>1. a[n] \in AttemptType /\ a[n + 1] \in AttemptType /\ b[n + 1] \in AttemptType
    BY <1>1, <1>2, <1>5, ElementOfSeq
  <2>. QED  BY <2>1 DEF AttemptType
<1>8. a[n + 1].at = b[n + 1].at
  BY <1>1, <1>3, <1>6, <1>7, OneDue
<1>9. a[n + 1].outcome = b[n + 1].outcome
  <2>1. a[n + 1].outcome = "skipped" <=> b[n + 1].outcome = "skipped"
    BY <1>3, <1>6, <1>8
  <2>2. a[n + 1].outcome # "skipped" => a[n + 1].outcome = b[n + 1].outcome
    BY <1>1, <1>2, <1>4, <1>8, <2>1 DEF DrawsAgree
  <2>. QED  BY <2>1, <2>2
<1>10. a[n + 1] = b[n + 1]
  BY <1>3, <1>6, <1>7, <1>8, <1>9 DEF AttemptType
<1>. QED  BY <1>4, <1>10 DEF a, b, SameNext

\* There are at most four attempts, so four times is enough.
LEMMA PrefixAgrees ==
  ASSUME NEW m \in MandateType, NEW f \in FailureType, NEW r, NEW s,
         Told(m, f, r), Told(m, f, s), SameCall(r.call, s.call),
         r.call.reviewFirst = s.call.reviewFirst, DrawsAgree(r.attempts, s.attempts)
  PROVE  /\ Len(r.attempts) <= Len(s.attempts)
         /\ \A i \in 1..Len(r.attempts) : r.attempts[i] = s.attempts[i]
<1>. DEFINE Agree(i) == i <= Len(r.attempts) =>
                          i <= Len(s.attempts) /\ r.attempts[i] = s.attempts[i]
<1>1. Len(r.attempts) \in 1..4 /\ Len(s.attempts) \in 1..4
  BY DEF Told
<1>2. Agree(1)
  BY <1>1 DEF Told
<1>3. ASSUME NEW n \in 1..3, Agree(n)  PROVE Agree(n + 1)
  <2>. SUFFICES ASSUME n + 1 <= Len(r.attempts)
                PROVE  n + 1 <= Len(s.attempts) /\ r.attempts[n + 1] = s.attempts[n + 1]
    OBVIOUS
  <2>1. n <= Len(r.attempts)
    BY <1>1, OneFurther
  <2>2. n <= Len(s.attempts) /\ r.attempts[n] = s.attempts[n]
    BY <1>3, <2>1
  <2>. HIDE DEF Agree
  <2>3. SameNext(r.attempts, s.attempts, n)
    BY <2>2, NextAgrees, Zenon
  <2>. QED  BY <2>3 DEF SameNext
<1>. HIDE DEF Agree
<1>4. Agree(2)
  <2>1. Agree(1 + 1)
    BY <1>2, <1>3
  <2>. QED  BY <2>1
<1>5. Agree(3)
  <2>1. Agree(2 + 1)
    BY <1>3, <1>4
  <2>. QED  BY <2>1
<1>6. Agree(4)
  <2>1. Agree(3 + 1)
    BY <1>3, <1>5
  <2>. QED  BY <2>1
<1>7. \A i \in 1..4 : Agree(i)
  <2>1. \A i \in 1..4 : i = 1 \/ i = 2 \/ i = 3 \/ i = 4
    OBVIOUS
  <2>. QED  BY <1>2, <1>4, <1>5, <1>6, <2>1
<1>8. \A i \in 1..Len(r.attempts) : i \in 1..4 /\ i <= Len(r.attempts)
  BY <1>1, Upto
<1>9. Len(r.attempts) \in 1..Len(r.attempts)
  BY <1>1, Upto
<1>. QED  BY <1>7, <1>8, <1>9 DEF Agree

LEMMA SameSequence ==
  ASSUME NEW S, NEW a \in Seq(S), NEW b \in Seq(S), Len(a) = Len(b),
         \A i \in 1..Len(a) : a[i] = b[i]
  PROVE  a = b
OBVIOUS

\* Two calls under the same flags tell the same story.
LEMMA StoriesAgree ==
  ASSUME NEW m \in MandateType, NEW f \in FailureType, NEW r, NEW s,
         Told(m, f, r), Told(m, f, s), SameCall(r.call, s.call),
         r.call.reviewFirst = s.call.reviewFirst,
         DrawsAgree(r.attempts, s.attempts), DrawsAgree(s.attempts, r.attempts)
  PROVE  r.attempts = s.attempts /\ r.status = s.status /\ r.reason = s.reason
<1>1. /\ r.attempts \in Seq(AttemptType) /\ s.attempts \in Seq(AttemptType)
      /\ Len(r.attempts) \in 1..4 /\ Len(s.attempts) \in 1..4
      /\ Ended(m, f, r.call, r.attempts, r.reason) /\ r.status = StatusAfter(r.attempts)
      /\ Ended(m, f, s.call, s.attempts, s.reason) /\ s.status = StatusAfter(s.attempts)
  BY DEF Told, SameCall
<1>2. /\ Len(r.attempts) <= Len(s.attempts)
      /\ \A i \in 1..Len(r.attempts) : r.attempts[i] = s.attempts[i]
  BY PrefixAgrees
<1>3. Len(s.attempts) <= Len(r.attempts)
  <2>1. SameCall(s.call, r.call)
    BY DEF SameCall
  <2>. QED  BY <2>1, PrefixAgrees
<1>4. r.attempts = s.attempts
  <2>1. Len(r.attempts) = Len(s.attempts)
    BY <1>1, <1>2, <1>3
  <2>. QED  BY <1>1, <1>2, <2>1, SameSequence
<1>5. r.attempts[Len(r.attempts)].outcome \in {"failed", "success", "skipped"}
  <2>1. Len(r.attempts) \in 1..Len(r.attempts)
    BY <1>1, Upto
  <2>2. r.attempts[Len(r.attempts)] \in AttemptType
    BY <1>1, <2>1, ElementOfSeq
  <2>. QED  BY <2>2 DEF AttemptType, Outcomes
<1>6. r.reason = s.reason
  BY <1>1, <1>4, <1>5 DEF Ended
<1>. QED  BY <1>1, <1>4, <1>6

\* The first proposal, made or held back, follows from the record alone.
LEMMA FirstTold ==
  ASSUME NEW m \in MandateType, NEW f \in FailureType, NEW r, Told(m, f, r), ~r.call.killed
  PROVE  IF Turn(m, f, 1, f.at) = "continue" THEN r.first \in Due(m, f, r.call, f.at)
         ELSE r.first = None
<1>1. /\ Len(r.attempts) \in 1..4
      /\ r.attempts[1].at = f.at /\ r.attempts[1].outcome = "failed"
      /\ Lawful(m, f, r.call, r.attempts)
      /\ Ended(m, f, r.call, r.attempts, r.reason)
      /\ IF Len(r.attempts) = 1 THEN FirstProposed(m, f, r.call, r.reason, r.first)
         ELSE r.first = r.attempts[2].at
  BY DEF Told
<1>2. CASE Len(r.attempts) = 1
  <2>1. IF Turn(m, f, 1, f.at) = "continue" THEN r.reason = "held"
        ELSE r.reason = Turn(m, f, 1, f.at)
    BY <1>1, <1>2 DEF Ended
  <2>2. Turn(m, f, 1, f.at) # "held"
    BY DEF Turn, StopRule
  <2>. QED  BY <1>1, <1>2, <2>1, <2>2 DEF FirstProposed
<1>3. CASE Len(r.attempts) # 1
  <2>1. 2 \in 2..Len(r.attempts) /\ 2 - 1 = 1
    BY <1>1, <1>3
  <2>2. /\ Turn(m, f, 1, r.attempts[1].at) = "continue"
        /\ r.attempts[2].at \in Due(m, f, r.call, r.attempts[1].at)
    BY <1>1, <2>1 DEF Lawful
  <2>. QED  BY <1>1, <1>3, <2>2
<1>. QED  BY <1>2, <1>3

LEMMA FirstAgrees ==
  ASSUME NEW m \in MandateType, NEW f \in FailureType, NEW r, NEW s,
         Told(m, f, r), Told(m, f, s), SameCall(r.call, s.call)
  PROVE  r.first = s.first
<1>1. ~r.call.killed /\ ~s.call.killed /\ f.at \in Nat
  BY DEF SameCall, FailureType
<1>. QED  BY <1>1, FirstTold, OneDue

-----------------------------------------------------------------------------
(* A running call tells such a story *)

\* What the call never changes of its mandate, and how it changes the count.
SameRecord ==
  /\ mandate.carveOut = record.carveOut /\ mandate.hash = record.hash
  /\ mandate.optedOutAt = record.optedOutAt /\ mandate.lowBalance = record.lowBalance
  /\ pc # "done" => mandate.status = record.status
  /\ pc \in {"loop", "execute"} =>
       mandate.consecutive = record.consecutive + attemptsMade - 1

\* The attempt that waits to be debited.
Waiting ==
  /\ pc = "loop" /\ attemptsMade = 1 => proposal = None
  /\ pc = "execute" =>
       /\ Turn(record, firstFailure, attemptsMade, now) = "continue" /\ ~opts.reviewFirst
       /\ proposal \in Due(record, firstFailure, opts, now)

\* How the call ended.
Finished ==
  pc \in {"return", "done"} /\ ~opts.killed =>
    /\ Ended(record, firstFailure, opts, attempts, stoppedReason)
    /\ Len(attempts) = 1 => FirstProposed(record, firstFailure, opts, stoppedReason, proposal)

StoryInv ==
  SameRecord /\ Waiting /\ Finished /\ Lawful(record, firstFailure, opts, attempts)

LEMMA MandateKept ==
  ASSUME TypeInv, [Next]_vars
  PROVE  /\ mandate'.hash = mandate.hash /\ mandate'.lowBalance = mandate.lowBalance
         /\ IF FailAgain THEN mandate'.consecutive = mandate.consecutive + 1
            ELSE mandate'.consecutive = mandate.consecutive
<1>. USE DEF TypeInv, TypeOK
<1>. DEFINE Same(m) == /\ m.hash = mandate.hash
                       /\ m.lowBalance = mandate.lowBalance
                       /\ m.consecutive = mandate.consecutive
<1>1. ASSUME NEW type, NEW at  PROVE Same(MandateAfterNotice(type, at))
  BY DEF MandateAfterNotice, RecordContact, MandateType
<1>2. CASE FailAgain
  <2>. DEFINE m == MandateAfterNotice("source_aware_failure_notice", proposal)
  <2>1. m \in MandateType
    <3>1. proposal \in Nat
      BY <1>2 DEF FailAgain, Debit
    <3>. QED  BY <3>1, NoticeStep DEF InterventionType
  <2>2. Same(m)
    BY <1>1
  <2>3. mandate' = [m EXCEPT !.consecutive = @ + 1]
    BY <1>2 DEF FailAgain
  <2>. HIDE DEF m
  <2>. QED  BY <1>2, <2>1, <2>2, <2>3 DEF MandateType
<1>3. ASSUME ~FailAgain  PROVE Same(mandate')
  <2>1. CASE StopOnVerdict
    BY <1>1, <2>1 DEF StopOnVerdict
  <2>2. CASE Propose \/ HoldForApproval
    BY <1>1, <2>2 DEF Propose, HoldForApproval, Schedule
  <2>3. CASE Succeed
    BY <1>1, <2>3 DEF Succeed
  <2>4. CASE Return
    BY <2>4 DEF Return, MandateType
  <2>5. CASE StopKilled \/ StopOptedOut \/ StopOnRule \/ Veto \/ UNCHANGED vars
    BY <2>5 DEF StopKilled, StopOptedOut, StopOnRule, Veto, vars
  <2>. QED  BY <1>3, <2>1, <2>2, <2>3, <2>4, <2>5 DEF Next
<1>. QED  BY <1>2, <1>3

\* Where the program counter goes.
LEMMA Turning ==
  ASSUME Next
  PROVE  \/ LoopBreak /\ pc = "loop" /\ pc' = "return" /\ UNCHANGED attemptsMade
         \/ Propose /\ pc = "loop" /\ pc' = "execute" /\ UNCHANGED attemptsMade
         \/ Veto /\ pc = "execute" /\ pc' = "return" /\ UNCHANGED attemptsMade
         \/ Succeed /\ pc = "execute" /\ pc' = "return" /\ attemptsMade' = attemptsMade + 1
         \/ FailAgain /\ pc = "execute" /\ pc' = "loop" /\ attemptsMade' = attemptsMade + 1
         \/ Return /\ pc = "return" /\ pc' = "done" /\ UNCHANGED attemptsMade
<1>1. CASE LoopBreak
  BY <1>1, LoopBreakFrame
<1>2. CASE Propose
  BY <1>2 DEF Propose, Schedule, MayProceed
<1>3. CASE Veto
  BY <1>3 DEF Veto, Break
<1>4. CASE Succeed
  BY <1>4 DEF Succeed, Debit
<1>5. CASE FailAgain
  BY <1>5 DEF FailAgain, Debit
<1>6. CASE Return
  BY <1>6 DEF Return
<1>. QED  BY <1>1, <1>2, <1>3, <1>4, <1>5, <1>6 DEF Next, LoopBreak

LEMMA SameRecordNext ==
  ASSUME TypeInv, SameRecord, [Next]_vars, record' = record, record \in MandateType
  PROVE  SameRecord'
<1>1. /\ mandate'.carveOut = record'.carveOut /\ mandate'.hash = record'.hash
      /\ mandate'.optedOutAt = record'.optedOutAt /\ mandate'.lowBalance = record'.lowBalance
  BY MandateFrame, MandateKept DEF SameRecord
<1>2. ASSUME pc' # "done"  PROVE mandate'.status = record'.status
  <2>1. CASE UNCHANGED vars
    BY <1>2, <2>1 DEF vars, SameRecord
  <2>2. CASE pc # "return"
    <3>1. pc # "done"
      BY <1>2, Turning DEF vars
    <3>. QED  BY <2>2, <3>1, MandateFrame DEF SameRecord
  <2>. QED  BY <1>2, <2>1, <2>2, Turning
<1>3. ASSUME pc' \in {"loop", "execute"}
      PROVE  mandate'.consecutive = record'.consecutive + attemptsMade' - 1
  <2>1. pc \in {"loop", "execute"}
    BY <1>3, Turning DEF vars
  <2>2. /\ mandate.consecutive = record.consecutive + attemptsMade - 1
        /\ record.consecutive \in Nat /\ attemptsMade \in Nat
    BY <2>1 DEF SameRecord, MandateType, TypeInv, TypeOK
  <2>3. CASE FailAgain
    <3>1. mandate'.consecutive = mandate.consecutive + 1 /\ attemptsMade' = attemptsMade + 1
      BY <2>3, MandateKept DEF FailAgain, Debit
    <3>. QED  BY <2>2, <3>1
  <2>4. CASE ~FailAgain
    <3>1. mandate'.consecutive = mandate.consecutive /\ attemptsMade' = attemptsMade
      BY <1>3, <2>4, MandateKept, Turning DEF vars
    <3>. QED  BY <2>2, <3>1
  <2>. QED  BY <2>3, <2>4
<1>. QED  BY <1>1, <1>2, <1>3 DEF SameRecord

\* At the loop top the gate sees the record and the failures since.
LEMMA GateSees ==
  ASSUME IInv, SameRecord, pc = "loop", record \in MandateType
  PROVE  /\ \A t : IsContactable(record, t) <=> IsContactable(mandate, t)
         /\ Evaluate(firstFailure, MandateAfter(record, attemptsMade)) = Verdict
<1>. DEFINE m == MandateAfter(record, attemptsMade)
<1>1. m.consecutive = mandate.consecutive /\ m.lowBalance = mandate.lowBalance
  BY DEF MandateAfter, MandateType, SameRecord
<1>2. lastFailure.reason = firstFailure.reason /\ lastFailure.npci = firstFailure.npci
  BY DEF IInv, ClockInv
<1>. HIDE DEF m
<1>3. LooksIntentional(m) <=> LooksIntentional(mandate)
  BY <1>1 DEF LooksIntentional
<1>4. Evaluate(firstFailure, m) = Verdict
  BY <1>2, <1>3 DEF Evaluate, Verdict
<1>5. \A t : IsContactable(record, t) <=> IsContactable(mandate, t)
  BY DEF IsContactable, SameRecord
<1>. QED  BY <1>4, <1>5 DEF m

\* What a call schedules, held back or not, is what the story says.
LEMMA ScheduleTold ==
  ASSUME IInv, SameRecord, record \in MandateType, Schedule
  PROVE  /\ Turn(record, firstFailure, attemptsMade, now) = "continue"
         /\ proposal' \in Due(record, firstFailure, opts, now)
<1>1. /\ pc = "loop" /\ IsContactable(mandate, now) /\ Verdict = "retryable"
      /\ StopRule("retryable", attemptsMade, firstFailure.at, now) = "continue"
      /\ proposal' \in Proposals(mandate.hash, lastFailure.reason, opts,
                                 EarliestLegalTime(now, mandate.carveOut),
                                 lastFailure.npci = "Z7")
  BY DEF Schedule, MayProceed
<1>2. Turn(record, firstFailure, attemptsMade, now) = "continue"
  BY <1>1, GateSees DEF Turn
<1>3. proposal' \in Due(record, firstFailure, opts, now)
  BY <1>1 DEF Due, SameRecord, IInv, ClockInv
<1>. QED  BY <1>2, <1>3

\* A call that leaves the loop at its top does what the story says.
LEMMA BreakTold ==
  ASSUME IInv, SameRecord, record \in MandateType, ~opts.killed, LoopBreak
  PROVE  IF Turn(record, firstFailure, attemptsMade, now) = "continue"
           THEN /\ opts.reviewFirst /\ stoppedReason' = "held"
                /\ proposal' \in Due(record, firstFailure, opts, now)
         ELSE /\ stoppedReason' = Turn(record, firstFailure, attemptsMade, now)
              /\ stoppedReason' # "held" /\ proposal' = proposal
<1>. DEFINE T == Turn(record, firstFailure, attemptsMade, now)
<1>0. pc = "loop"
  BY LoopBreakFrame
<1>1. T = IF ~IsContactable(mandate, now) THEN "opted_out"
          ELSE IF Verdict # "retryable" THEN "verdict"
          ELSE StopRule("retryable", attemptsMade, firstFailure.at, now)
  BY <1>0, GateSees DEF Turn
<1>. HIDE DEF T
<1>2. CASE StopKilled
  BY <1>2 DEF StopKilled
<1>3. CASE StopOptedOut
  BY <1>1, <1>3 DEF StopOptedOut, Break, T
<1>4. CASE StopOnVerdict
  BY <1>1, <1>4 DEF StopOnVerdict, MayProceed, Break, T
<1>5. CASE StopOnRule
  <2>1. /\ IsContactable(mandate, now) /\ Verdict = "retryable"
        /\ StopRule("retryable", attemptsMade, firstFailure.at, now) # "continue"
        /\ stoppedReason' = StopRule("retryable", attemptsMade, firstFailure.at, now)
        /\ proposal' = proposal
    BY <1>5 DEF StopOnRule, MayProceed, Break
  <2>2. stoppedReason' # "held"
    BY <2>1 DEF StopRule
  <2>. QED  BY <1>1, <2>1, <2>2 DEF T
<1>6. CASE HoldForApproval
  BY <1>6, ScheduleTold DEF HoldForApproval, Break
<1>. QED  BY <1>2, <1>3, <1>4, <1>5, <1>6 DEF LoopBreak

LEMMA LoopBooks ==
  ASSUME IInv, pc \in {"loop", "execute"}
  PROVE  /\ attempts \in Seq(AttemptType) /\ Len(attempts) = attemptsMade
         /\ attemptsMade \in 1..4
         /\ attempts[attemptsMade].outcome = "failed" /\ attempts[attemptsMade].at = now
         /\ stoppedReason = "none" /\ finalStatus = "unknown"
<1>1. /\ attempts \in Seq(AttemptType) /\ attemptsMade \in 1..4
  BY DEF IInv, TypeInv, TypeOK
<1>2. stoppedReason = "none" /\ finalStatus = "unknown"
  BY DEF IInv, BooksInv
<1>3. Len(attempts) = attemptsMade
  BY <1>2 DEF IInv, BooksInv
<1>4. attempts[attemptsMade].at = now
  BY DEF IInv, ClockInv
<1>5. attempts[attemptsMade].outcome = "failed"
  <2>1. attemptsMade \in 1..Len(attempts)
    BY <1>1, <1>3, Upto
  <2>2. attempts[attemptsMade] \in AttemptType
    BY <1>1, <2>1, ElementOfSeq
  <2>3. attempts[attemptsMade].outcome \notin {"skipped", "success"}
    BY <1>2 DEF IInv, BooksInv
  <2>. QED  BY <2>2, <2>3 DEF AttemptType, Outcomes
<1>. QED  BY <1>1, <1>2, <1>3, <1>4, <1>5

\* The guardrail finds in the mandate what it would find in the record.
LEMMA GuardrailSees ==
  ASSUME IInv, SameRecord, pc = "execute"
  PROVE  Approved <=> ValidateExecution(record, proposal, attemptsMade + 1, firstFailure, proposal)
<1>1. /\ mandate.optedOutAt = record.optedOutAt /\ mandate.status = record.status
      /\ lastFailure.reason = firstFailure.reason /\ lastFailure.npci = firstFailure.npci
  BY DEF SameRecord, IInv, ClockInv
<1>. QED  BY <1>1 DEF Approved, ValidateExecution, NextAttemptNumber

\* One more line of the story.
LEMMA LawfulOneMore ==
  ASSUME NEW m, NEW f, NEW call, NEW a, NEW b, NEW k \in 1..4, Lawful(m, f, call, a),
         Len(a) = k, Len(b) = k + 1, \A i \in 1..k : b[i] = a[i],
         a[k].outcome = "failed",
         Turn(m, f, k, a[k].at) = "continue", ~call.reviewFirst,
         b[k + 1].number = k + 1, b[k + 1].at \in Due(m, f, call, a[k].at),
         b[k + 1].outcome = "skipped"
           <=> ~ValidateExecution(m, b[k + 1].at, k + 1, f, b[k + 1].at)
  PROVE  Lawful(m, f, call, b)
<1>. DEFINE Line(list, n) ==
       /\ list[n - 1].outcome = "failed"
       /\ Turn(m, f, n - 1, list[n - 1].at) = "continue" /\ ~call.reviewFirst
       /\ list[n].number = n
       /\ list[n].at \in Due(m, f, call, list[n - 1].at)
       /\ list[n].outcome = "skipped" <=> ~ValidateExecution(m, list[n].at, n, f, list[n].at)
<1>1. \A n \in 2..k : Line(a, n)
  BY DEF Lawful
<1>2. b[k] = a[k] /\ (k + 1) - 1 = k
  BY Upto
<1>3. Line(b, k + 1)
  BY <1>2
<1>4. ASSUME NEW n \in 2..k  PROVE Line(b, n)
  <2>1. n \in 1..k /\ n - 1 \in 1..k
    OBVIOUS
  <2>2. b[n] = a[n] /\ b[n - 1] = a[n - 1]
    BY <2>1
  <2>3. Line(a, n)
    BY <1>1
  <2>. QED  BY <2>2, <2>3
<1>. HIDE DEF Line
<1>5. \A n \in 2..(k + 1) : n \in 2..k \/ n = k + 1
  OBVIOUS
<1>6. \A n \in 2..Len(b) : Line(b, n)
  BY <1>3, <1>4, <1>5
<1>. QED  BY <1>6 DEF Lawful, Line

LEMMA RecordTold ==
  ASSUME IInv, StoryInv, pc = "execute", NEW outcome \in Outcomes, RecordAttempt(outcome),
         outcome = "skipped" <=> ~Approved
  PROVE  /\ Lawful(record, firstFailure, opts, attempts')
         /\ Len(attempts') = attemptsMade + 1
         /\ attempts'[attemptsMade + 1].outcome = outcome
<1>1. /\ Len(attempts) = attemptsMade /\ attemptsMade \in 1..4
      /\ attempts[attemptsMade].outcome = "failed" /\ attempts[attemptsMade].at = now
  BY LoopBooks
<1>2. /\ Len(attempts') = attemptsMade + 1
      /\ \A i \in 1..attemptsMade : attempts'[i] = attempts[i]
      /\ attempts'[attemptsMade + 1].number = attemptsMade + 1
      /\ attempts'[attemptsMade + 1].at = proposal
      /\ attempts'[attemptsMade + 1].outcome = outcome
  BY <1>1, RecordStep DEF IInv
<1>3. outcome = "skipped"
        <=> ~ValidateExecution(record, proposal, attemptsMade + 1, firstFailure, proposal)
  BY GuardrailSees DEF StoryInv
<1>4. /\ Lawful(record, firstFailure, opts, attempts)
      /\ Turn(record, firstFailure, attemptsMade, now) = "continue" /\ ~opts.reviewFirst
      /\ proposal \in Due(record, firstFailure, opts, now)
  BY DEF StoryInv, Waiting
<1>5. Lawful(record, firstFailure, opts, attempts')
  BY <1>1, <1>2, <1>3, <1>4, LawfulOneMore
<1>. QED  BY <1>2, <1>5

LEMMA StoryNext ==
  ASSUME IInv, StoryInv, [Next]_vars, record' = record, record \in MandateType
  PROVE  StoryInv'
<1>1. firstFailure' = firstFailure /\ opts' = opts
  BY GapFixed DEF IInv
<1>2. SameRecord'
  BY SameRecordNext DEF IInv, StoryInv
<1>. SUFFICES (Waiting /\ Finished /\ Lawful(record, firstFailure, opts, attempts))'
  BY <1>2 DEF StoryInv
<1>3. CASE LoopBreak
  <2>1. /\ pc = "loop" /\ pc' = "return" /\ UNCHANGED <<attempts, attemptsMade, now>>
    BY <1>3, LoopBreakFrame
  <2>2. /\ Len(attempts) = attemptsMade /\ attemptsMade \in 1..4
        /\ attempts[attemptsMade].outcome = "failed" /\ attempts[attemptsMade].at = now
    BY <2>1, LoopBooks
  <2>3. ASSUME ~opts.killed
        PROVE  /\ Ended(record, firstFailure, opts, attempts, stoppedReason')
               /\ Len(attempts) = 1 =>
                    FirstProposed(record, firstFailure, opts, stoppedReason', proposal')
    <3>1. IF Turn(record, firstFailure, attemptsMade, now) = "continue"
            THEN /\ opts.reviewFirst /\ stoppedReason' = "held"
                 /\ proposal' \in Due(record, firstFailure, opts, now)
          ELSE /\ stoppedReason' = Turn(record, firstFailure, attemptsMade, now)
               /\ stoppedReason' # "held" /\ proposal' = proposal
      BY <1>3, <2>3, BreakTold DEF StoryInv
    <3>2. Ended(record, firstFailure, opts, attempts, stoppedReason')
      BY <2>2, <3>1 DEF Ended
    <3>3. ASSUME Len(attempts) = 1
          PROVE  FirstProposed(record, firstFailure, opts, stoppedReason', proposal')
      <4>1. proposal = None
        BY <2>1, <2>2, <3>3 DEF StoryInv, Waiting
      <4>2. now = firstFailure.at
        BY <2>2, <3>3 DEF IInv, ClockInv
      <4>. QED  BY <3>1, <4>1, <4>2 DEF FirstProposed
    <3>. QED  BY <3>2, <3>3
  <2>4. Lawful(record, firstFailure, opts, attempts)
    BY DEF StoryInv
  <2>. QED  BY <1>1, <2>1, <2>3, <2>4 DEF Waiting, Finished
<1>4. CASE Propose
  <2>1. /\ Schedule /\ ~opts.reviewFirst /\ pc' = "execute"
        /\ UNCHANGED <<attempts, attemptsMade, now>>
    BY <1>4 DEF Propose, Schedule
  <2>2. /\ Turn(record, firstFailure, attemptsMade, now) = "continue"
        /\ proposal' \in Due(record, firstFailure, opts, now)
    BY <2>1, ScheduleTold DEF StoryInv
  <2>3. Lawful(record, firstFailure, opts, attempts)
    BY DEF StoryInv
  <2>. QED  BY <1>1, <2>1, <2>2, <2>3 DEF Waiting, Finished
<1>5. CASE Veto
  <2>1. /\ pc = "execute" /\ ~Approved /\ RecordAttempt("skipped") /\ "skipped" \in Outcomes
        /\ pc' = "return" /\ stoppedReason' = "vetoed"
    BY <1>5 DEF Veto, Break, Outcomes
  <2>2. /\ Lawful(record, firstFailure, opts, attempts') /\ Len(attempts') = attemptsMade + 1
        /\ attempts'[attemptsMade + 1].outcome = "skipped"
    BY <2>1, RecordTold
  <2>3. Ended(record, firstFailure, opts, attempts', "vetoed")
    BY <2>2 DEF Ended
  <2>4. Len(attempts') # 1
    BY <2>2 DEF IInv, TypeInv, TypeOK
  <2>. QED  BY <1>1, <2>1, <2>2, <2>3, <2>4 DEF Waiting, Finished
<1>6. CASE Succeed
  <2>1. /\ pc = "execute" /\ Approved /\ RecordAttempt("success") /\ "success" \in Outcomes
        /\ pc' = "return" /\ stoppedReason' = stoppedReason
    BY <1>6 DEF Succeed, Debit, Outcomes
  <2>2. /\ Lawful(record, firstFailure, opts, attempts') /\ Len(attempts') = attemptsMade + 1
        /\ attempts'[attemptsMade + 1].outcome = "success"
    BY <2>1, RecordTold
  <2>3. stoppedReason' = "none"
    BY <2>1, LoopBooks
  <2>4. Ended(record, firstFailure, opts, attempts', "none")
    BY <2>2 DEF Ended
  <2>5. Len(attempts') # 1
    BY <2>2 DEF IInv, TypeInv, TypeOK
  <2>. QED  BY <1>1, <2>1, <2>2, <2>3, <2>4, <2>5 DEF Waiting, Finished
<1>7. CASE FailAgain
  <2>1. /\ pc = "execute" /\ Approved /\ RecordAttempt("failed") /\ "failed" \in Outcomes
        /\ pc' = "loop" /\ attemptsMade' = attemptsMade + 1
    BY <1>7 DEF FailAgain, Debit, Outcomes
  <2>2. Lawful(record, firstFailure, opts, attempts')
    BY <2>1, RecordTold
  <2>3. attemptsMade' # 1
    BY <2>1 DEF IInv, TypeInv, TypeOK
  <2>. QED  BY <1>1, <2>1, <2>2, <2>3 DEF Waiting, Finished
<1>8. CASE Return
  <2>1. pc = "return" /\ pc' = "done" /\ UNCHANGED <<attempts, proposal, stoppedReason>>
    BY <1>8 DEF Return
  <2>. QED  BY <1>1, <2>1 DEF StoryInv, Waiting, Finished
<1>9. CASE UNCHANGED vars
  BY <1>9 DEF vars, StoryInv, Waiting, Finished
<1>. QED  BY <1>3, <1>4, <1>5, <1>6, <1>7, <1>8, <1>9 DEF Next, LoopBreak

LEMMA StoryBegun == Begun /\ record = mandate => StoryInv
<1>. SUFFICES ASSUME Begun, record = mandate  PROVE StoryInv
  OBVIOUS
<1>1. /\ pc = "loop" /\ attemptsMade = 1 /\ proposal = None /\ Len(attempts) = 1
  BY DEF Begun, Begin
<1>2. mandate.consecutive \in Nat
  BY TypeInit DEF TypeInv, TypeOK, MandateType
<1>3. SameRecord /\ Waiting /\ Finished
  BY <1>1, <1>2 DEF SameRecord, Waiting, Finished
<1>4. Lawful(record, firstFailure, opts, attempts)
  BY <1>1 DEF Lawful
<1>. QED  BY <1>3, <1>4 DEF StoryInv

\* What a finished call returns is the story of the call.
LEMMA ResultTold ==
  ASSUME EngineInv, StoryInv, pc = "done"
  PROVE  Told(record, firstFailure, Result)
<1>1. /\ Result.attempts = attempts /\ Result.status = finalStatus /\ Result.call = opts
      /\ Result.reason = stoppedReason /\ Result.first = FirstRetry
  BY DEF Result
<1>2. /\ attempts \in Seq(AttemptType) /\ attemptsMade \in 1..4
      /\ finalStatus \in FinalStatuses
      /\ attempts[1] = [number |-> 1, at |-> firstFailure.at, outcome |-> "failed"]
  BY DEF EngineInv, EndInv, IInv, TypeInv, TypeOK, CallInv
<1>3. /\ attempts[attemptsMade].outcome # "skipped"
      /\ \/ Len(attempts) = attemptsMade
         \/ /\ Len(attempts) = attemptsMade + 1
            /\ stoppedReason = "vetoed"
            /\ attempts[attemptsMade].outcome = "failed"
            /\ attempts[attemptsMade + 1].outcome = "skipped"
      /\ finalStatus = "recovered" <=> attempts[attemptsMade].outcome = "success"
  BY DEF EngineInv, EndInv, IInv, BooksInv
<1>4. stoppedReason = "vetoed" => attemptsMade < 4
  BY DEF EngineInv, EndInv, GateInv
<1>5. /\ finalStatus # "unknown"
      /\ finalStatus = "halted" <=> attemptsMade = 4 /\ finalStatus # "recovered"
  BY DEF EngineInv, EndInv, ClosingInv
<1>6. Len(attempts) \in 1..4
  <2>1. \A m \in 1..4 : m \in 1..4 /\ (m < 4 => m + 1 \in 1..4)
    OBVIOUS
  <2>2. Len(attempts) = attemptsMade \/ (Len(attempts) = attemptsMade + 1 /\ attemptsMade < 4)
    BY <1>3, <1>4
  <2>. QED  BY <1>2, <2>1, <2>2
<1>7. finalStatus = StatusAfter(attempts)
  <2>1. finalStatus \in {"recovered", "halted", "stopped"}
    BY <1>2, <1>5 DEF FinalStatuses
  <2>2. CASE Len(attempts) = attemptsMade
    <3>1. attemptsMade \in 1..Len(attempts)
      BY <1>2, <2>2, Upto
    <3>2. attempts[attemptsMade].outcome \in {"failed", "success"}
      <4>1. attempts[attemptsMade] \in AttemptType
        BY <1>2, <3>1, ElementOfSeq
      <4>. QED  BY <1>3, <4>1 DEF AttemptType, Outcomes
    <3>. QED  BY <1>3, <1>5, <2>1, <2>2, <3>2 DEF StatusAfter
  <2>3. CASE Len(attempts) # attemptsMade
    <3>1. /\ Len(attempts) = attemptsMade + 1 /\ attemptsMade # 4
          /\ attempts[attemptsMade].outcome = "failed"
          /\ attempts[attemptsMade + 1].outcome = "skipped"
      BY <1>2, <1>3, <1>4, <2>3
    <3>2. finalStatus = "stopped"
      BY <1>3, <1>5, <2>1, <3>1
    <3>3. attempts[Len(attempts)].outcome = "skipped"
      BY <3>1
    <3>. QED  BY <3>2, <3>3 DEF StatusAfter
  <2>. QED  BY <2>2, <2>3
<1>8. Lawful(record, firstFailure, opts, attempts)
  BY DEF StoryInv
<1>9. ASSUME ~opts.killed
      PROVE  /\ Ended(record, firstFailure, opts, attempts, stoppedReason)
             /\ IF Len(attempts) = 1
                  THEN FirstProposed(record, firstFailure, opts, stoppedReason, FirstRetry)
                ELSE FirstRetry = attempts[2].at
  <2>1. /\ Ended(record, firstFailure, opts, attempts, stoppedReason)
        /\ Len(attempts) = 1 =>
             FirstProposed(record, firstFailure, opts, stoppedReason, proposal)
    BY <1>9 DEF StoryInv, Finished
  <2>2. FirstRetry = IF Len(attempts) = 1 THEN proposal ELSE attempts[2].at
    BY <1>6 DEF FirstRetry
  <2>. QED  BY <2>1, <2>2
<1>. QED  BY <1>1, <1>2, <1>6, <1>7, <1>8, <1>9 DEF Told

-----------------------------------------------------------------------------
(* The outcomes are drawn again *)

LEMMA OddsInt == \A reason, downtimes, t : Odds(reason, downtimes, t) \in Int
BY DEF Odds

LEMMA AgreeSelf == \A a : DrawsAgree(a, a)
BY DEF DrawsAgree

LEMMA AgreeBack == ASSUME NEW a, NEW b, DrawsAgree(a, b)  PROVE DrawsAgree(b, a)
BY DEF DrawsAgree

\* A step of a call leaves the attempts alone or records one more.
LEMMA AttemptsStep ==
  ASSUME IInv, [Next]_vars, attempts' # attempts
  PROVE  /\ Len(attempts) = attemptsMade /\ Len(attempts') = attemptsMade + 1
         /\ \A i \in 1..attemptsMade : attempts'[i] = attempts[i]
<1>1. \E outcome \in Outcomes : pc = "execute" /\ RecordAttempt(outcome)
  <2>1. CASE Veto
    BY <2>1 DEF Veto, Outcomes
  <2>2. CASE Succeed
    BY <2>2 DEF Succeed, Debit, Outcomes
  <2>3. CASE FailAgain
    BY <2>3 DEF FailAgain, Debit, Outcomes
  <2>4. CASE LoopBreak \/ Propose \/ Return \/ UNCHANGED vars
    BY <2>4, LoopBreakFrame DEF Propose, Schedule, Return, vars
  <2>. QED  BY <2>1, <2>2, <2>3, <2>4 DEF Next, LoopBreak
<1>2. TypeInv /\ Len(attempts) = attemptsMade
  BY <1>1, LoopBooks DEF IInv
<1>. QED  BY <1>1, <1>2, RecordStep

\* A call that debits at an hour an earlier one debited at draws the same.
LEMMA DrawsStep ==
  ASSUME IInv, CallStep, NEW r \in results, r.attempts \in Seq(AttemptType),
         Len(r.attempts) \in 1..4, DrawsAgree(r.attempts, attempts)
  PROVE  DrawsAgree(r.attempts, attempts')
<1>. DEFINE a == r.attempts
            last == attempts'[Len(attempts')]
<1>1. [Next]_vars /\ (attempts' # attempts => DrawnAgain(last))
  BY DEF CallStep
<1>2. CASE attempts' = attempts
  BY <1>2
<1>3. CASE attempts' # attempts
  <2>1. /\ Len(attempts) = attemptsMade /\ Len(attempts') = attemptsMade + 1
        /\ \A i \in 1..attemptsMade : attempts'[i] = attempts[i]
        /\ attemptsMade \in 1..4 /\ attempts' \in Seq(AttemptType)
    BY <1>1, <1>3, AttemptsStep, TypeNext DEF IInv, TypeInv, TypeOK
  <2>2. ASSUME NEW n \in 2..4, n <= Len(a), n <= Len(attempts'),
               a[n].at = attempts'[n].at,
               a[n].outcome # "skipped", attempts'[n].outcome # "skipped"
        PROVE  a[n].outcome = attempts'[n].outcome
    <3>1. CASE n <= attemptsMade
      <4>1. n \in 1..attemptsMade
        BY <2>1, <3>1
      <4>2. attempts'[n] = attempts[n] /\ n <= Len(attempts)
        BY <2>1, <3>1, <4>1
      <4>. QED  BY <2>2, <4>2 DEF DrawsAgree
    <3>2. CASE ~(n <= attemptsMade)
      <4>1. n = Len(attempts') /\ n \in 2..Len(a) /\ n \in 1..Len(a) /\ n \in 1..Len(attempts')
        BY <2>1, <2>2, <3>2
      <4>2. a[n] \in AttemptType /\ attempts'[n] \in AttemptType
        BY <2>1, <4>1, ElementOfSeq
      <4>3. a[n].outcome \in {"failed", "success"} /\ attempts'[n].outcome \in {"failed", "success"}
        BY <2>2, <4>2 DEF AttemptType, Outcomes
      <4>4. a[n] \in Draws
        BY <4>1 DEF Draws
      <4>5. HourBucket(a[n].at) = HourBucket(attempts'[n].at)
            /\ OddsAt(attempts'[n].at) = OddsAt(a[n].at)
        BY <2>2
      <4>6. /\ a[n].outcome = "failed" /\ attempts'[n].outcome = "success" =>
                 OddsAt(attempts'[n].at) > OddsAt(a[n].at)
            /\ a[n].outcome = "success" /\ attempts'[n].outcome = "failed" =>
                 OddsAt(attempts'[n].at) < OddsAt(a[n].at)
        BY <1>1, <1>3, <4>1, <4>4, <4>5 DEF DrawnAgain
      <4>7. OddsAt(a[n].at) \in Int
        BY OddsInt DEF OddsAt
      <4>. QED  BY <4>3, <4>5, <4>6, <4>7
    <3>. QED  BY <3>1, <3>2
  <2>. QED  BY <2>2 DEF DrawsAgree
<1>. QED  BY <1>2, <1>3

-----------------------------------------------------------------------------
(* Every call of a command tells the story of the same record *)

ReRunInv ==
  /\ CommandInv /\ StoryInv
  /\ \A r \in results :
       /\ Told(record, firstFailure, r)
       /\ r.call.downtimes = opts.downtimes
       /\ DrawsAgree(r.attempts, attempts)
  /\ \A r, s \in results : DrawsAgree(r.attempts, s.attempts)

LEMMA ReRunBegun == CommandInit => ReRunInv
<1>. SUFFICES ASSUME CommandInit  PROVE ReRunInv
  OBVIOUS
<1>1. CommandInv /\ record = mandate /\ results = {}
  BY CommandBegun DEF CommandInit
<1>2. Begun
  BY InitialCall
<1>. QED  BY <1>1, <1>2, StoryBegun DEF ReRunInv

LEMMA ReRunStep == ReRunInv /\ [CommandNext]_commandVars => ReRunInv'
<1>. SUFFICES ASSUME ReRunInv, [CommandNext]_commandVars  PROVE ReRunInv'
  OBVIOUS
<1>1. CommandInv'
  BY CommandStep DEF ReRunInv
<1>2. IInv /\ EngineInv /\ StoryInv /\ record \in MandateType
  BY DEF ReRunInv, CommandInv, EngineInv, EndInv
<1>3. ASSUME [Next]_vars, UNCHANGED <<record, results>>,
             \A r \in results : DrawsAgree(r.attempts, attempts')
      PROVE  ReRunInv'
  <2>1. StoryInv'
    BY <1>2, <1>3, StoryNext
  <2>2. firstFailure' = firstFailure /\ opts' = opts
    BY <1>2, <1>3, GapFixed DEF IInv
  <2>. QED  BY <1>1, <1>3, <2>1, <2>2 DEF ReRunInv
<1>4. CASE CallStep
  <2>1. [Next]_vars /\ UNCHANGED <<record, results>>
    BY <1>4 DEF CallStep
  <2>2. \A r \in results : DrawsAgree(r.attempts, attempts')
    BY <1>2, <1>4, DrawsStep DEF ReRunInv, Told
  <2>. QED  BY <1>3, <2>1, <2>2
<1>5. CASE EndCall
  <2>1. /\ pc = "done" /\ results' = results \cup {Result} /\ record' = record
        /\ UNCHANGED vars
    BY <1>5 DEF EndCall, RecordAfterCall
  <2>2. UNCHANGED <<firstFailure, opts, attempts>> /\ [Next]_vars
    BY <2>1 DEF vars
  <2>3. StoryInv'
    BY <1>2, <2>1, <2>2, StoryNext
  <2>4. Told(record, firstFailure, Result) /\ Result.attempts = attempts /\ Result.call = opts
    BY <1>2, <2>1, ResultTold DEF Result
  <2>5. \A r \in results' :
          /\ Told(record, firstFailure, r) /\ r.call.downtimes = opts.downtimes
          /\ DrawsAgree(r.attempts, attempts)
    BY <2>1, <2>4, AgreeSelf DEF ReRunInv
  <2>6. ASSUME NEW r \in results', NEW s \in results'
        PROVE  DrawsAgree(r.attempts, s.attempts)
    <3>1. CASE s = Result
      BY <2>4, <2>5, <3>1
    <3>2. CASE r = Result
      BY <2>4, <2>5, <3>2, AgreeBack
    <3>3. CASE r \in results /\ s \in results
      BY <3>3 DEF ReRunInv
    <3>. QED  BY <2>1, <3>1, <3>2, <3>3
  <2>. QED  BY <1>1, <2>1, <2>2, <2>3, <2>5, <2>6 DEF ReRunInv
<1>6. CASE BeginCall
  <2>1. /\ mandate' = record /\ UNCHANGED <<firstFailure, record, results>>
        /\ attempts' = << attempts[1] >> /\ opts' = Options(stage + 1, opts.downtimes)
    BY <1>6 DEF BeginCall
  <2>2. StoryInv'
    <3>1. (Begun /\ record = mandate)'
      BY <1>6, <2>1, CallBegins DEF ReRunInv
    <3>2. (Begun /\ record = mandate => StoryInv)'
      BY StoryBegun, PTL
    <3>. QED  BY <3>1, <3>2
  <2>3. opts'.downtimes = opts.downtimes
    BY <2>1 DEF Options
  <2>4. \A r \in results : DrawsAgree(r.attempts, attempts')
    <3>1. Len(attempts') = 1
      BY <2>1
    <3>. QED  BY <3>1 DEF DrawsAgree
  <2>. QED  BY <1>1, <2>1, <2>2, <2>3, <2>4 DEF ReRunInv
<1>7. CASE ChangeKillList
  <2>1. UNCHANGED <<record, results, attempts>> /\ [Next]_vars
    BY <1>7 DEF ChangeKillList, vars
  <2>. QED  BY <1>3, <2>1 DEF ReRunInv
<1>8. CASE UNCHANGED commandVars
  <2>1. UNCHANGED <<record, results, attempts>> /\ [Next]_vars
    BY <1>8 DEF commandVars, vars
  <2>. QED  BY <1>3, <2>1 DEF ReRunInv
<1>. QED  BY <1>4, <1>5, <1>6, <1>7, <1>8 DEF CommandNext, Proceed

\* Calls of one command with the same heuristics tell the same story: approve
\* debits first at the time the operator was shown, the ablation's rows are the
\* systems they stand for.
THEOREM ReRunsCorrect == CommandSpec => []ReRunsAgree
<1>1. ASSUME ReRunInv, NEW r \in results, NEW s \in results,
             r.call.useSalary = s.call.useSalary, r.call.useBank = s.call.useBank,
             ~r.call.killed, ~s.call.killed
      PROVE  /\ r.first = s.first
             /\ r.call.reviewFirst = s.call.reviewFirst =>
                  <<r.attempts, r.status, r.reason>> = <<s.attempts, s.status, s.reason>>
  <2>1. /\ record \in MandateType /\ firstFailure \in FailureType
        /\ Told(record, firstFailure, r) /\ Told(record, firstFailure, s)
        /\ SameCall(r.call, s.call)
        /\ DrawsAgree(r.attempts, s.attempts) /\ DrawsAgree(s.attempts, r.attempts)
    BY <1>1 DEF ReRunInv, CommandInv, EngineInv, EndInv, IInv, TypeInv, TypeOK, SameCall
  <2>2. r.first = s.first
    BY <2>1, FirstAgrees
  <2>3. r.call.reviewFirst = s.call.reviewFirst =>
          r.attempts = s.attempts /\ r.status = s.status /\ r.reason = s.reason
    BY <2>1, StoriesAgree
  <2>. QED  BY <2>2, <2>3
<1>2. ReRunInv => ReRunsAgree
  BY <1>1 DEF ReRunsAgree
<1>. QED  BY <1>2, ReRunBegun, ReRunStep, PTL DEF CommandSpec

-----------------------------------------------------------------------------
(* Every step brings the end closer *)

LEMMA StepsType == TypeInv => StepsLeft \in 0..9
BY DEF TypeInv, TypeOK, StepsLeft

\* A turn of the loop leaves it or spends a debit of the budget.
LEMMA StepsFewer ==
  ASSUME TypeInv, Next
  PROVE  StepsLeft' < StepsLeft
<1>1. attemptsMade \in 1..4
  BY DEF TypeInv, TypeOK
<1>. QED  BY <1>1, Turning DEF StepsLeft

StageInv == CommandInv /\ stage <= Len(Plan)

LEMMA PlanFixed ==
  ASSUME command' = command
  PROVE  Plan' = Plan
BY DEF Plan

LEMMA CallsCounted ==
  ASSUME NEW l \in Nat, NEW s \in Nat, s <= l, NEW k \in 0..10
  PROVE  11 * (l - s) + k \in Nat
OBVIOUS

LEMMA NextCallFewer ==
  ASSUME NEW l \in Nat, NEW s \in Nat, s + 1 <= l, NEW j \in 0..10, NEW k \in 0..10
  PROVE  11 * (l - (s + 1)) + j < 11 * (l - s) + k
OBVIOUS

LEMMA CallsFewer ==
  ASSUME StageInv, CommandNext
  PROVE  /\ stage' <= Len(Plan') /\ CallsLeft' \in Nat
         /\ killed' = killed => CallsLeft' < CallsLeft
<1>1. /\ TypeInv /\ command \in CommandsGiven /\ killed \in BOOLEAN
      /\ stage \in Nat /\ stage <= Len(Plan)
  BY DEF StageInv, CommandInv, EngineInv, EndInv, IInv
<1>2. TypeInv'
  BY CommandStep DEF StageInv, CommandInv, EngineInv, EndInv, IInv
<1>3. Len(Plan) \in Nat /\ Plan' = Plan
  <2>1. command' = command
    BY DEF CommandNext, Proceed, CallStep, EndCall, BeginCall, ChangeKillList
  <2>. QED  BY <1>1, <2>1, PlanType, PlanFixed
<1>4. StepsLeft \in 0..9 /\ StepsLeft' \in 0..9
  <2>1. (TypeInv => StepsLeft \in 0..9)'
    BY StepsType, PTL
  <2>. QED  BY <1>1, <1>2, <2>1, StepsType
<1>. DEFINE l == Len(Plan)
            left == IF running THEN 1 + StepsLeft ELSE 0
<1>5. left \in 0..10 /\ left' \in 0..10
  <2>1. 0 \in 0..10 /\ \A k \in 0..9 : 1 + k \in 0..10
    OBVIOUS
  <2>. QED  BY <1>4, <2>1, Zenon
<1>6. CallsLeft = 11 * (l - stage) + left /\ CallsLeft' = 11 * (l - stage') + left'
  BY <1>3 DEF CallsLeft
<1>7. /\ stage' \in Nat /\ stage' <= l
      /\ \/ stage' = stage /\ (killed' = killed => left' < left)
         \/ stage' = stage + 1
  <2>1. CASE CallStep
    <3>1. running /\ running' /\ stage' = stage
      BY <2>1 DEF CallStep
    <3>2. StepsLeft' < StepsLeft
      BY <1>1, <2>1, StepsFewer DEF CallStep
    <3>3. left = 1 + StepsLeft /\ left' = 1 + StepsLeft'
      BY <3>1, Zenon
    <3>4. \A j, k \in 0..9 : j < k => 1 + j < 1 + k
      OBVIOUS
    <3>5. left' < left
      BY <1>4, <3>2, <3>3, <3>4
    <3>. QED  BY <1>1, <3>1, <3>5
  <2>2. CASE EndCall
    <3>1. running /\ ~running' /\ stage' = stage
      BY <2>2 DEF EndCall
    <3>. QED  BY <1>1, <1>4, <3>1
  <2>3. CASE BeginCall
    <3>1. stage < Len(Plan) /\ stage' = stage + 1
      BY <2>3 DEF BeginCall, MoreCalls
    <3>. QED  BY <1>1, <1>3, <3>1
  <2>4. CASE ChangeKillList
    <3>1. stage' = stage /\ killed' # killed
      BY <1>1, <2>4 DEF ChangeKillList
    <3>. QED  BY <1>1, <3>1
  <2>. QED  BY <2>1, <2>2, <2>3, <2>4 DEF CommandNext, Proceed
<1>8. l \in Nat
  BY <1>3
<1>. HIDE DEF l, left
<1>9. CallsLeft' \in Nat
  BY <1>5, <1>6, <1>7, <1>8, CallsCounted
<1>10. killed' = killed => CallsLeft' < CallsLeft
  <2>1. CASE stage' = stage /\ (killed' = killed => left' < left)
    <3>1. 11 * (l - stage) \in Int
      BY <1>1, <1>8
    <3>. QED  BY <1>5, <1>6, <2>1, <3>1
  <2>2. CASE stage' = stage + 1
    BY <1>1, <1>5, <1>6, <1>7, <1>8, <2>2, NextCallFewer
  <2>. QED  BY <1>7, <2>1, <2>2
<1>. QED  BY <1>3, <1>7, <1>9, <1>10 DEF l

\* No command runs for ever: every step it takes lowers a count that cannot fall
\* below nought, for every mandate, every allocation and every outcome.
THEOREM CommandsRunOut == CommandSpec => CallsRunOut
<1>1. CommandInit => StageInv
  <2>. SUFFICES ASSUME CommandInit  PROVE StageInv
    OBVIOUS
  <2>1. CommandInv /\ stage = 1
    BY CommandBegun DEF CommandInit
  <2>2. 1 <= Len(Plan)
    BY <2>1, PlanType DEF CommandInv
  <2>. QED  BY <2>1, <2>2 DEF StageInv
<1>2. StageInv /\ [CommandNext]_commandVars => StageInv'
  <2>. SUFFICES ASSUME StageInv, [CommandNext]_commandVars  PROVE StageInv'
    OBVIOUS
  <2>1. CommandInv'
    BY CommandStep DEF StageInv
  <2>2. stage' <= Len(Plan')
    <3>1. CASE CommandNext
      BY <3>1, CallsFewer
    <3>2. CASE UNCHANGED commandVars
      <4>1. stage' = stage /\ command' = command
        BY <3>2 DEF commandVars
      <4>. QED  BY <4>1, PlanFixed DEF StageInv
    <3>. QED  BY <3>1, <3>2
  <2>. QED  BY <2>1, <2>2 DEF StageInv
<1>3. StageInv /\ [CommandNext]_commandVars
        => [CallsLeft' \in Nat /\ (killed' = killed => CallsLeft' < CallsLeft)]_commandVars
  BY CallsFewer
<1>. QED  BY <1>1, <1>2, <1>3, PTL DEF CommandSpec, CallsRunOut
=============================================================================

------------------------ MODULE OrchestratorProofs ------------------------
(***************************************************************************)
(* Safety of run_mandate for every mandate, failure, set of options and    *)
(* behaviour of the model that answers the notice selection.               *)
(***************************************************************************)
EXTENDS Orchestrator, AllocatorProofs

-----------------------------------------------------------------------------
(* What the helpers return *)

LEMMA SelectType ==
  ASSUME NEW v \in RetryabilityVerdict \ {"needs_customer_action"}
  PROVE  Select(v) \subseteq InterventionType
BY DEF Select, DeterministicChoice, RetryabilityVerdict, InterventionType

LEMMA VerdictType ==
  ASSUME NEW event \in FailureType, NEW m \in MandateType
  PROVE  Evaluate(event, m) \in RetryabilityVerdict
<1>1. CASE event.npci \in NpciOverrides
  BY <1>1 DEF Evaluate, NpciOverride, RetryabilityVerdict
<1>2. CASE event.npci \notin NpciOverrides /\ event.reason \notin ReasonTable
  BY <1>2 DEF Evaluate, RetryabilityVerdict
<1>3. CASE event.npci \notin NpciOverrides /\ event.reason \in ReasonTable
  <2>1. \E v \in RetryabilityVerdict : event.reason \in ReasonsWithVerdict(v)
    BY <1>3 DEF ReasonTable
  <2>2. ReasonVerdict(event.reason) \in RetryabilityVerdict
    BY <2>1 DEF ReasonVerdict
  <2>. QED  BY <1>3, <2>2 DEF Evaluate, RetryabilityVerdict
<1>. QED  BY <1>1, <1>2, <1>3

\* Sending a notice, or having it refused, touches nothing of the mandate but
\* the instant of the last contact.
LEMMA NoticeStep ==
  ASSUME mandate \in MandateType, notifications \in Seq(NoticeType),
         NEW type \in InterventionType, NEW attempt \in Nat, NEW at \in Nat
  PROVE  /\ MandateAfterNotice(type, at) \in MandateType
         /\ MandateAfterNotice(type, at) =
              [mandate EXCEPT !.lastContactedAt = MandateAfterNotice(type, at).lastContactedAt]
         /\ NoticesAfter(type, attempt, at) \in Seq(NoticeType)
<1>1. MandateAfterNotice(type, at) \in MandateType
  BY DEF MandateAfterNotice, RecordContact, MandateType
<1>2. MandateAfterNotice(type, at) =
        [mandate EXCEPT !.lastContactedAt = MandateAfterNotice(type, at).lastContactedAt]
  BY DEF MandateAfterNotice, RecordContact, MandateType
<1>3. NoticesAfter(type, attempt, at) \in Seq(NoticeType)
  <2>1. [type |-> type, at |-> at, attempt |-> attempt] \in NoticeType
    BY DEF NoticeType
  <2>. QED  BY <2>1 DEF NoticesAfter
<1>. QED  BY <1>1, <1>2, <1>3

LEMMA HashNat ==
  ASSUME NEW h \in HashRange
  PROVE  h \in Nat
BY DEF HashRange, HashPeriod

LEMMA SpacingSum ==
  ASSUME NEW from \in Nat, NEW gap \in Nat, NEW extra \in Nat, NEW p \in Nat,
         NEW e \in Nat, e = from + gap, p - e >= extra
  PROVE  from + gap + extra <= p
OBVIOUS

\* Four hours more between two debits when the bank reported Z7.
Z7Extra(event) == IF event.npci = "Z7" THEN Z7MinSpacingHours * Hour ELSE 0

LEMMA BumpType ==
  ASSUME NEW m \in MandateType
  PROVE  [m EXCEPT !.consecutive = @ + 1] \in MandateType
<1>1. m.consecutive + 1 \in Nat
  BY DEF MandateType
<1>. QED  BY <1>1 DEF MandateType

\* What the loop hands over to the execution.
LEMMA ScheduleStep ==
  ASSUME mandate \in MandateType, lastFailure \in FailureType, now \in Nat, Schedule
  PROVE  /\ proposal' \in Nat
         /\ now + Gap + Z7Extra(lastFailure) <= proposal'
         /\ proposal' < now + 5 * Day
         /\ IsPermittedExecutionTime(proposal')
<1>. DEFINE earliest == EarliestLegalTime(now, mandate.carveOut)
            z7 == lastFailure.npci = "Z7"
<1>1. mandate.hash \in Nat
  <2>1. mandate.hash \in HashRange
    BY DEF MandateType
  <2>. QED  BY <2>1, HashNat
<1>2. earliest \in Nat /\ earliest = now + Gap /\ earliest <= now + Day
  BY <1>1 DEF EarliestLegalTime, Gap, OperationalSlack, PreDebitNotificationHours, Day, Hour
<1>3. proposal' \in Proposals(mandate.hash, lastFailure.reason, opts, earliest, z7)
  BY DEF Schedule
<1>. HIDE DEF earliest
<1>4. /\ proposal' \in Nat
      /\ earliest <= proposal'
      /\ proposal' < earliest + 4 * Day
      /\ z7 => proposal' - earliest >= Z7MinSpacingHours * Hour
      /\ IsPermittedExecutionTime(proposal')
  BY <1>1, <1>2, <1>3, ProposalLegal
<1>5. now + Gap + Z7Extra(lastFailure) <= proposal'
  <2>1. Gap \in Nat
    BY DEF Gap, Hour
  <2>2. Z7Extra(lastFailure) \in Nat
    BY DEF Z7Extra, Z7MinSpacingHours, Hour
  <2>3. proposal' \in Nat /\ earliest <= proposal'
    BY <1>4
  <2>4. proposal' - earliest >= Z7Extra(lastFailure)
    <3>1. CASE z7
      BY <1>4, <3>1 DEF Z7Extra
    <3>2. CASE ~z7
      <4>1. Z7Extra(lastFailure) = 0
        BY <3>2 DEF Z7Extra
      <4>. QED  BY <1>2, <2>3, <4>1
    <3>. QED  BY <3>1, <3>2
  <2>. QED  BY <1>2, <2>1, <2>2, <2>3, <2>4, SpacingSum, Zenon
<1>6. proposal' < now + 5 * Day
  BY <1>2, <1>4 DEF Day, Hour
<1>. QED  BY <1>4, <1>5, <1>6

-----------------------------------------------------------------------------
(* Types *)

TypeInv == TypeOK /\ (pc = "execute" => proposal \in Nat)

\* A call has begun, with any arguments of the right types.
Begun == \E call \in CallType : Begin(call)

LEMMA InitBegun == Init => Begun
BY CallsAssumption DEF Init, Begun

LEMMA TypeInit == ASSUME Begun  PROVE TypeInv
<1>1. /\ mandate \in MandateType /\ firstFailure \in FailureType
      /\ lastFailure \in FailureType /\ opts \in OptionsType
  BY DEF Begun, Begin, CallType
<1>2. attempts \in Seq(AttemptType)
  BY <1>1 DEF Begun, Begin, AttemptType, Outcomes, FailureType
<1>. QED  BY <1>1, <1>2 DEF Begun, Begin, TypeInv, TypeOK, FailureType, FinalStatuses, StopReasons

LEMMA TypeNext == ASSUME TypeInv, [Next]_vars  PROVE TypeInv'
<1>. USE DEF TypeInv, TypeOK
<1>1. CASE StopKilled
  BY <1>1 DEF StopKilled, Break, StopReasons, arguments
<1>2. CASE StopOptedOut
  BY <1>2 DEF StopOptedOut, Break, StopReasons, arguments
<1>3. CASE StopOnVerdict
  <2>1. PICK type \in Select(Verdict) :
          /\ mandate' = MandateAfterNotice(type, now)
          /\ notifications' = NoticesAfter(type, NextAttemptNumber, now)
    BY <1>3 DEF StopOnVerdict
  <2>2. type \in InterventionType
    BY <2>1, VerdictType, SelectType DEF Verdict, RetryabilityVerdict
  <2>3. NextAttemptNumber \in Nat
    BY DEF NextAttemptNumber
  <2>4. mandate' \in MandateType /\ notifications' \in Seq(NoticeType)
    BY <2>1, <2>2, <2>3, NoticeStep
  <2>. QED  BY <1>3, <2>4 DEF StopOnVerdict, Break, StopReasons, arguments
<1>4. CASE StopOnRule
  <2>1. stoppedReason' \in StopReasons
    BY <1>4 DEF StopOnRule, Break, StopRule, StopReasons
  <2>. QED  BY <1>4, <2>1 DEF StopOnRule, Break, arguments
<1>5. ASSUME Schedule
      PROVE  mandate' \in MandateType /\ notifications' \in Seq(NoticeType)
             /\ proposal' \in Nat
  <2>1. PICK type \in Select("retryable") :
          /\ mandate' = MandateAfterNotice(type, now)
          /\ notifications' = NoticesAfter(type, NextAttemptNumber, now)
    BY <1>5 DEF Schedule
  <2>2. type \in InterventionType
    BY <2>1, SelectType DEF RetryabilityVerdict
  <2>3. NextAttemptNumber \in Nat
    BY DEF NextAttemptNumber
  <2>. QED  BY <1>5, <2>1, <2>2, <2>3, NoticeStep, ScheduleStep
<1>6. CASE Propose
  BY <1>5, <1>6 DEF Propose, Schedule, arguments
<1>7. CASE HoldForApproval
  BY <1>5, <1>7 DEF HoldForApproval, Schedule, Break, StopReasons, arguments
<1>8. ASSUME NEW outcome \in Outcomes, pc = "execute", RecordAttempt(outcome)
      PROVE  attempts' \in Seq(AttemptType)
  <2>1. [number |-> NextAttemptNumber, at |-> proposal, outcome |-> outcome] \in AttemptType
    BY <1>8 DEF AttemptType, NextAttemptNumber
  <2>. QED  BY <1>8, <2>1 DEF RecordAttempt
<1>9. CASE Veto
  <2>1. attempts' \in Seq(AttemptType)
    BY <1>8, <1>9 DEF Veto, Outcomes
  <2>. QED  BY <1>9, <2>1 DEF Veto, Break, StopReasons, arguments
<1>10. ASSUME NEW outcome \in Outcomes, Debit(outcome)
       PROVE  /\ attempts' \in Seq(AttemptType)
              /\ proposal \in Nat
              /\ attemptsMade' \in 1..4 /\ now' \in Nat
              /\ proposal' = proposal /\ opts' = opts /\ firstFailure' = firstFailure
  <2>1. attempts' \in Seq(AttemptType)
    BY <1>8, <1>10 DEF Debit
  <2>2. NextAttemptNumber <= 4
    BY <1>10 DEF Debit, Approved, ValidateExecution, MaxExecutionAttemptsTotal
  <2>. QED  BY <1>10, <2>1, <2>2 DEF Debit, NextAttemptNumber, arguments
<1>11. CASE Succeed
  <2>1. "success" \in Outcomes /\ "post_debit_confirmation" \in InterventionType
    BY DEF Outcomes, InterventionType
  <2>2. NextAttemptNumber \in Nat
    BY DEF NextAttemptNumber
  <2>3. proposal \in Nat
    BY <1>11 DEF Succeed, Debit
  <2>4. mandate' \in MandateType /\ notifications' \in Seq(NoticeType)
    BY <1>11, <2>1, <2>2, <2>3, NoticeStep DEF Succeed
  <2>. QED  BY <1>10, <1>11, <2>1, <2>4 DEF Succeed, FinalStatuses
<1>12. CASE FailAgain
  <2>. DEFINE m == MandateAfterNotice("source_aware_failure_notice", proposal)
  <2>1. "failed" \in Outcomes /\ "source_aware_failure_notice" \in InterventionType
    BY DEF Outcomes, InterventionType
  <2>2. NextAttemptNumber \in Nat \ {0}
    BY DEF NextAttemptNumber
  <2>3. proposal \in Nat
    BY <1>12 DEF FailAgain, Debit
  <2>4. m \in MandateType /\ notifications' \in Seq(NoticeType)
    BY <1>12, <2>1, <2>2, <2>3, NoticeStep DEF FailAgain
  <2>5. mandate' \in MandateType
    <3>1. mandate' = [m EXCEPT !.consecutive = @ + 1]
      BY <1>12 DEF FailAgain
    <3>. HIDE DEF m
    <3>. QED  BY <2>4, <3>1, BumpType
  <2>6. lastFailure' \in FailureType
    BY <1>12, <2>2, <2>3 DEF FailAgain, FailureType
  <2>. QED  BY <1>10, <1>12, <2>1, <2>4, <2>5, <2>6 DEF FailAgain
<1>13. CASE Return
  <2>1. mandate' \in MandateType
    BY <1>13 DEF Return, MandateType, SubscriptionStatus
  <2>2. finalStatus' \in FinalStatuses
    BY <1>13 DEF Return, FinalStatuses
  <2>. QED  BY <1>13, <2>1, <2>2 DEF Return, arguments
<1>14. CASE UNCHANGED vars
  BY <1>14 DEF vars
<1>. QED
  BY <1>1, <1>2, <1>3, <1>4, <1>6, <1>7, <1>9, <1>11, <1>12, <1>13, <1>14 DEF Next

\* Every reachable state of run_mandate is well typed; in particular the
\* attempt counter stays within NPCI's cap.
THEOREM TypeCorrect == Spec => []TypeOK
<1>1. TypeInv /\ [Next]_vars => TypeInv'
  BY TypeNext
<1>2. TypeInv => TypeOK
  BY DEF TypeInv
<1>. QED  BY <1>1, <1>2, TypeInit, InitBegun, PTL DEF Spec

-----------------------------------------------------------------------------
(* Frames: what the steps of the loop leave alone *)

\* The loop is left before or after the scheduling of an attempt.
LoopBreak == StopKilled \/ StopOptedOut \/ StopOnVerdict \/ StopOnRule \/ HoldForApproval

LEMMA MandateFrame ==
  ASSUME TypeInv, [Next]_vars
  PROVE  /\ mandate'.carveOut = mandate.carveOut
         /\ mandate'.optedOutAt = mandate.optedOutAt
         /\ pc # "return" => mandate'.status = mandate.status
<1>. USE DEF TypeInv, TypeOK
<1>. DEFINE Same(m) == /\ m.carveOut = mandate.carveOut
                       /\ m.optedOutAt = mandate.optedOutAt
                       /\ m.status = mandate.status
<1>1. ASSUME NEW type, NEW at  PROVE Same(MandateAfterNotice(type, at))
  BY DEF MandateAfterNotice, RecordContact, MandateType
<1>2. CASE StopOnVerdict
  BY <1>1, <1>2 DEF StopOnVerdict
<1>3. ASSUME Schedule  PROVE Same(mandate')
  BY <1>1, <1>3 DEF Schedule
<1>4. CASE Propose \/ HoldForApproval
  BY <1>3, <1>4 DEF Propose, HoldForApproval
<1>5. CASE Succeed
  BY <1>1, <1>5 DEF Succeed
<1>6. CASE FailAgain
  <2>. DEFINE m == MandateAfterNotice("source_aware_failure_notice", proposal)
  <2>1. m \in MandateType
    <3>1. proposal \in Nat
      BY <1>6 DEF FailAgain, Debit
    <3>. QED  BY <3>1, NoticeStep DEF InterventionType
  <2>2. Same(m)
    BY <1>1
  <2>3. mandate' = [m EXCEPT !.consecutive = @ + 1]
    BY <1>6 DEF FailAgain
  <2>. HIDE DEF m
  <2>. QED  BY <2>1, <2>2, <2>3 DEF MandateType
<1>7. CASE Return
  BY <1>7 DEF Return, MandateType
<1>8. CASE StopKilled \/ StopOptedOut \/ StopOnRule \/ Veto \/ UNCHANGED vars
  BY <1>8 DEF StopKilled, StopOptedOut, StopOnRule, Veto, vars
<1>. QED  BY <1>2, <1>4, <1>5, <1>6, <1>7, <1>8 DEF Next

LEMMA GapFixed ==
  ASSUME TypeInv, [Next]_vars
  PROVE  Gap' = Gap /\ firstFailure' = firstFailure /\ opts' = opts
<1>1. Gap' = Gap
  BY MandateFrame DEF Gap
<1>2. firstFailure' = firstFailure /\ opts' = opts
  BY DEF Next, StopKilled, StopOptedOut, StopOnVerdict, StopOnRule, Propose,
         HoldForApproval, Schedule, Veto, Succeed, FailAgain, Debit, Return, vars, arguments
<1>. QED  BY <1>1, <1>2

LEMMA LoopBreakFrame ==
  ASSUME LoopBreak
  PROVE  /\ pc = "loop" /\ pc' = "return"
         /\ stoppedReason' \notin {"none", "vetoed"}
         /\ UNCHANGED <<attempts, attemptsMade, now, lastFailure, finalStatus>>
BY DEF LoopBreak, StopKilled, StopOptedOut, StopOnVerdict, StopOnRule, HoldForApproval,
       Schedule, Break, StopRule, MayProceed

LEMMA AppendFacts ==
  ASSUME NEW S, NEW s \in Seq(S), NEW e \in S
  PROVE  /\ Append(s, e) \in Seq(S)
         /\ Len(Append(s, e)) = Len(s) + 1
         /\ \A i \in 1..Len(s) : Append(s, e)[i] = s[i]
         /\ Append(s, e)[Len(s) + 1] = e
OBVIOUS

LEMMA RecordStep ==
  ASSUME TypeInv, pc = "execute", Len(attempts) = attemptsMade,
         NEW outcome \in Outcomes, RecordAttempt(outcome)
  PROVE  /\ Len(attempts') = attemptsMade + 1
         /\ \A i \in 1..attemptsMade : attempts'[i] = attempts[i]
         /\ attempts'[attemptsMade + 1].number = attemptsMade + 1
         /\ attempts'[attemptsMade + 1].at = proposal
         /\ attempts'[attemptsMade + 1].outcome = outcome
<1>. DEFINE e == [number |-> NextAttemptNumber, at |-> proposal, outcome |-> outcome]
<1>1. e \in AttemptType
  BY DEF TypeInv, TypeOK, AttemptType, NextAttemptNumber
<1>2. attempts \in Seq(AttemptType) /\ attempts' = Append(attempts, e)
  BY DEF TypeInv, TypeOK, RecordAttempt
<1>3. /\ e.number = attemptsMade + 1
      /\ e.at = proposal
      /\ e.outcome = outcome
  BY DEF NextAttemptNumber
<1>. HIDE DEF e
<1>. QED  BY <1>1, <1>2, <1>3, AppendFacts

-----------------------------------------------------------------------------
(* The books *)

\* The attempts, the counter of the loop and the status it leaves with agree.
BooksInv ==
  /\ \A i \in 1..Len(attempts) : attempts[i].number = i
  /\ \A i \in 1..(attemptsMade - 1) : attempts[i].outcome = "failed"
  /\ attempts[attemptsMade].outcome # "skipped"
  /\ \/ Len(attempts) = attemptsMade
     \/ /\ Len(attempts) = attemptsMade + 1
        /\ stoppedReason = "vetoed"
        /\ attempts[attemptsMade].outcome = "failed"
        /\ attempts[attemptsMade + 1].outcome = "skipped"
  /\ pc \in {"loop", "execute"} => stoppedReason = "none" /\ finalStatus = "unknown"
  /\ pc = "return" => finalStatus \in {"unknown", "recovered"}
  /\ finalStatus = "recovered" <=> attempts[attemptsMade].outcome = "success"

LEMMA BooksInit == ASSUME Begun  PROVE BooksInv
BY DEF Begun, Begin, BooksInv

LEMMA BooksNext == ASSUME TypeInv, BooksInv, [Next]_vars  PROVE BooksInv'
<1>0. TypeInv'
  BY TypeNext
<1>1. attemptsMade \in 1..4 /\ attemptsMade \in Nat
  BY DEF TypeInv, TypeOK
<1>2. CASE LoopBreak
  BY <1>2, LoopBreakFrame DEF BooksInv
<1>3. CASE Propose
  BY <1>3 DEF Propose, Schedule, MayProceed, BooksInv
<1>4. ASSUME pc = "execute"
      PROVE  /\ Len(attempts) = attemptsMade
             /\ attempts[attemptsMade].outcome = "failed"
             /\ finalStatus = "unknown"
  <2>1. Len(attempts) = attemptsMade /\ finalStatus = "unknown"
    BY <1>4 DEF BooksInv
  <2>2. attempts[attemptsMade] \in AttemptType
    BY <1>1, <2>1 DEF TypeInv, TypeOK
  <2>3. attempts[attemptsMade].outcome \in Outcomes
    BY <2>2 DEF AttemptType
  <2>. QED  BY <2>1, <2>3 DEF Outcomes, BooksInv
<1>5. CASE Veto
  <2>1. pc = "execute" /\ RecordAttempt("skipped") /\ "skipped" \in Outcomes
    BY <1>5 DEF Veto, Outcomes
  <2>2. /\ Len(attempts') = attemptsMade + 1
        /\ \A i \in 1..attemptsMade : attempts'[i] = attempts[i]
        /\ attempts'[attemptsMade + 1].number = attemptsMade + 1
        /\ attempts'[attemptsMade + 1].outcome = "skipped"
    BY <1>4, <2>1, RecordStep
  <2>3. /\ attemptsMade' = attemptsMade /\ finalStatus' = finalStatus
        /\ pc' = "return" /\ stoppedReason' = "vetoed"
    BY <1>5 DEF Veto, Break
  <2>. QED  BY <1>1, <1>4, <2>1, <2>2, <2>3 DEF BooksInv
<1>6. ASSUME NEW outcome \in {"success", "failed"}, Debit(outcome)
      PROVE  /\ attemptsMade' = attemptsMade + 1
             /\ Len(attempts') = attemptsMade'
             /\ \A i \in 1..Len(attempts') : attempts'[i].number = i
             /\ \A i \in 1..(attemptsMade' - 1) : attempts'[i].outcome = "failed"
             /\ attempts'[attemptsMade'].outcome = outcome
  <2>1. /\ pc = "execute" /\ RecordAttempt(outcome) /\ outcome \in Outcomes
        /\ attemptsMade' = attemptsMade + 1
    BY <1>6 DEF Debit, Outcomes
  <2>2. /\ Len(attempts') = attemptsMade + 1
        /\ \A i \in 1..attemptsMade : attempts'[i] = attempts[i]
        /\ attempts'[attemptsMade + 1].number = attemptsMade + 1
        /\ attempts'[attemptsMade + 1].outcome = outcome
    BY <1>4, <2>1, RecordStep
  <2>. QED  BY <1>1, <1>4, <2>1, <2>2 DEF BooksInv
<1>7. CASE Succeed
  <2>1. Debit("success") /\ pc' = "return" /\ finalStatus' = "recovered"
    BY <1>7 DEF Succeed
  <2>. QED  BY <1>1, <1>6, <2>1 DEF BooksInv
<1>8. CASE FailAgain
  <2>1. /\ Debit("failed") /\ pc' = "loop" /\ pc = "execute"
        /\ UNCHANGED <<finalStatus, stoppedReason>>
    BY <1>8 DEF FailAgain, Debit
  <2>. QED  BY <1>1, <1>4, <1>6, <2>1 DEF BooksInv
<1>9. CASE Return
  BY <1>9 DEF Return, BooksInv
<1>10. CASE UNCHANGED vars
  BY <1>10 DEF vars, BooksInv
<1>. QED
  BY <1>2, <1>3, <1>5, <1>7, <1>8, <1>9, <1>10 DEF Next, LoopBreak

\* The debits of the engine are the attempts after the first, up to the counter.
LEMMA DebitedInterval ==
  ASSUME TypeInv, BooksInv
  PROVE  Debited = 2..attemptsMade
<1>1. attemptsMade \in Nat /\ attemptsMade >= 1
  BY DEF TypeInv, TypeOK
<1>2. DOMAIN attempts = 1..Len(attempts) /\ Len(attempts) \in Nat
  BY DEF TypeInv, TypeOK
<1>0. \/ Len(attempts) = attemptsMade
      \/ /\ Len(attempts) = attemptsMade + 1
         /\ attempts[attemptsMade + 1].outcome = "skipped"
  BY DEF BooksInv
<1>3. ASSUME NEW i \in DOMAIN attempts, i > 1, attempts[i].outcome # "skipped"
      PROVE  i \in 2..attemptsMade
  <2>1. i \in Nat /\ i <= Len(attempts)
    BY <1>2
  <2>. QED  BY <1>0, <1>1, <1>3, <2>1
<1>4. ASSUME NEW i \in 2..attemptsMade
      PROVE  i \in DOMAIN attempts /\ i > 1 /\ attempts[i].outcome # "skipped"
  <2>1. i \in DOMAIN attempts /\ i > 1
    <3>1. i \in 1..Len(attempts)
      BY <1>0, <1>1, <1>4
    <3>. QED  BY <1>2, <1>4, <3>1
  <2>2. CASE i = attemptsMade
    BY <2>1, <2>2 DEF BooksInv
  <2>3. CASE i # attemptsMade
    <3>1. i \in 1..(attemptsMade - 1)
      BY <1>1, <1>4, <2>3
    <3>. QED  BY <2>1, <3>1 DEF BooksInv
  <2>. QED  BY <2>1, <2>2, <2>3
<1>. QED  BY <1>3, <1>4 DEF Debited

LEMMA BudgetByInv == ASSUME TypeInv, BooksInv  PROVE BudgetRespected
<1>1. attemptsMade \in Nat /\ attemptsMade >= 1 /\ attemptsMade <= 4
  BY DEF TypeInv, TypeOK
<1>2. Cardinality(2..attemptsMade) = attemptsMade - 1
  <2>1. Cardinality(2..attemptsMade) = IF 2 > attemptsMade THEN 0 ELSE attemptsMade - 2 + 1
    BY <1>1, FS_Interval
  <2>. QED  BY <1>1, <2>1
<1>3. attemptsMade = 1 + Cardinality(Debited)
  BY <1>1, <1>2, DebitedInterval
<1>4. \A i \in DOMAIN attempts : attempts[i].number = i
  BY DEF TypeInv, TypeOK, BooksInv
<1>. QED  BY <1>1, <1>3, <1>4 DEF BudgetRespected

\* NPCI's cap and the engine's own count of it, for every input.
THEOREM BudgetCorrect == Spec => []BudgetRespected
<1>1. TypeInv /\ BooksInv => BudgetRespected
  BY BudgetByInv
<1>2. TypeInv /\ BooksInv /\ [Next]_vars => TypeInv' /\ BooksInv'
  BY TypeNext, BooksNext
<1>. QED  BY <1>1, <1>2, TypeInit, BooksInit, InitBegun, PTL DEF Spec

LEMMA LastWordByInv == ASSUME TypeInv, BooksInv  PROVE NothingAfterTheLastWord
BY DEF TypeInv, TypeOK, BooksInv, NothingAfterTheLastWord

\* Nothing follows a successful debit or a veto.
THEOREM LastWordCorrect == Spec => []NothingAfterTheLastWord
<1>1. TypeInv /\ BooksInv => NothingAfterTheLastWord
  BY LastWordByInv
<1>2. TypeInv /\ BooksInv /\ [Next]_vars => TypeInv' /\ BooksInv'
  BY TypeNext, BooksNext
<1>. QED  BY <1>1, <1>2, TypeInit, BooksInit, InitBegun, PTL DEF Spec

-----------------------------------------------------------------------------
(* The clock *)

\* Every debit keeps its distance from the one before it and is off peak, the
\* clock stands at the last one, and the scheduled one is as good.
ClockInv ==
  /\ lastFailure.reason = firstFailure.reason
  /\ lastFailure.npci = firstFailure.npci
  /\ attempts[1].at = firstFailure.at
  /\ now = attempts[attemptsMade].at
  /\ now <= firstFailure.at + 432000 * (attemptsMade - 1)
  /\ \A i \in 2..attemptsMade :
       /\ attempts[i - 1].at + Gap + Z7Extra(firstFailure) <= attempts[i].at
       /\ IsPermittedExecutionTime(attempts[i].at)
  /\ pc = "execute" =>
       /\ now + Gap + Z7Extra(firstFailure) <= proposal
       /\ proposal <= now + 432000
       /\ IsPermittedExecutionTime(proposal)
  /\ stoppedReason # "chased_too_long"

LEMMA ClockInit == ASSUME Begun  PROVE ClockInv
<1>1. /\ firstFailure.at \in Nat /\ attemptsMade = 1
      /\ pc # "execute" /\ stoppedReason # "chased_too_long"
      /\ lastFailure = firstFailure /\ now = firstFailure.at
  BY TypeInit DEF TypeInv, TypeOK, FailureType, Begun, Begin
<1>2. attempts[1].at = firstFailure.at
  BY DEF Begun, Begin
<1>3. now <= firstFailure.at + 432000 * (attemptsMade - 1)
  BY <1>1
<1>4. 2..attemptsMade = {}
  BY <1>1
<1>. QED  BY <1>1, <1>2, <1>3, <1>4 DEF ClockInv

LEMMA ScheduledInTime ==
  ASSUME TypeInv, ClockInv, Schedule
  PROVE  /\ now + Gap + Z7Extra(firstFailure) <= proposal'
         /\ proposal' <= now + 432000
         /\ IsPermittedExecutionTime(proposal')
<1>1. /\ proposal' \in Nat
      /\ now + Gap + Z7Extra(lastFailure) <= proposal'
      /\ proposal' < now + 5 * Day
      /\ IsPermittedExecutionTime(proposal')
  BY ScheduleStep DEF TypeInv, TypeOK
<1>2. Z7Extra(lastFailure) = Z7Extra(firstFailure)
  BY DEF ClockInv, Z7Extra
<1>3. now \in Nat
  BY DEF TypeInv, TypeOK
<1>4. proposal' <= now + 432000
  BY <1>1, <1>3 DEF Day, Hour
<1>. QED  BY <1>1, <1>2, <1>4

LEMMA ClockNext == ASSUME TypeInv, BooksInv, ClockInv, [Next]_vars  PROVE ClockInv'
<1>1. /\ Gap' = Gap /\ firstFailure' = firstFailure
      /\ Z7Extra(firstFailure)' = Z7Extra(firstFailure)
  BY GapFixed DEF Z7Extra
<1>2. /\ attemptsMade \in Nat /\ attemptsMade >= 1 /\ now \in Nat
      /\ firstFailure.at \in Nat
  BY DEF TypeInv, TypeOK, FailureType
<1>3. CASE LoopBreak
  <2>1. stoppedReason' # "chased_too_long"
    <3>1. CASE StopOnRule
      <4>1. /\ stoppedReason' = StopRule(Verdict, attemptsMade, firstFailure.at, now)
            /\ Verdict = "retryable"
        BY <3>1 DEF StopOnRule, Break
      <4>2. ASSUME attemptsMade < 4  PROVE ~ChasedTooLong(firstFailure.at, now)
        BY <1>2, <4>2 DEF ClockInv, ChasedTooLong, StoppingRuleMaxDays, Day, Hour
      <4>3. CASE attemptsMade < 4
        BY <4>1, <4>2, <4>3 DEF StopRule
      <4>4. CASE ~(attemptsMade < 4)
        <5>1. BudgetExhausted(attemptsMade)
          BY <1>2, <4>4 DEF BudgetExhausted, MaxExecutionAttemptsTotal
        <5>. QED  BY <4>1, <5>1 DEF StopRule
      <4>. QED  BY <4>3, <4>4
    <3>. QED
      BY <1>3, <3>1 DEF LoopBreak, StopKilled, StopOptedOut, StopOnVerdict,
                        HoldForApproval, Break
  <2>. QED  BY <1>1, <1>3, <2>1, LoopBreakFrame DEF ClockInv
<1>4. CASE Propose
  <2>1. Schedule /\ UNCHANGED stoppedReason
        /\ UNCHANGED <<attempts, attemptsMade, now, lastFailure>>
    BY <1>4 DEF Propose, Schedule
  <2>. QED  BY <1>1, <2>1, ScheduledInTime DEF ClockInv
<1>5. CASE Veto
  <2>1. /\ pc = "execute" /\ RecordAttempt("skipped") /\ "skipped" \in Outcomes
        /\ Len(attempts) = attemptsMade
    BY <1>5 DEF Veto, Outcomes, BooksInv
  <2>2. \A i \in 1..attemptsMade : attempts'[i] = attempts[i]
    BY <2>1, RecordStep
  <2>3. /\ pc' = "return" /\ stoppedReason' = "vetoed"
        /\ UNCHANGED <<attemptsMade, now, lastFailure, proposal>>
    BY <1>5 DEF Veto, Break
  <2>4. attempts'[1] = attempts[1] /\ attempts'[attemptsMade] = attempts[attemptsMade]
    BY <1>2, <2>2
  <2>5. \A i \in 2..attemptsMade : attempts'[i] = attempts[i]
                                 /\ attempts'[i - 1] = attempts[i - 1]
    BY <1>2, <2>2
  <2>. QED  BY <1>1, <2>3, <2>4, <2>5 DEF ClockInv
<1>6. ASSUME NEW outcome \in {"success", "failed"}, Debit(outcome)
      PROVE  /\ attempts'[1].at = firstFailure.at
             /\ now' = attempts'[attemptsMade'].at
             /\ now' <= firstFailure.at + 432000 * (attemptsMade' - 1)
             /\ \A i \in 2..attemptsMade' :
                  /\ attempts'[i - 1].at + Gap + Z7Extra(firstFailure) <= attempts'[i].at
                  /\ IsPermittedExecutionTime(attempts'[i].at)
  <2>1. /\ pc = "execute" /\ RecordAttempt(outcome) /\ outcome \in Outcomes
        /\ attemptsMade' = attemptsMade + 1 /\ now' = proposal
        /\ Len(attempts) = attemptsMade
    BY <1>6 DEF Debit, Outcomes, BooksInv
  <2>2. /\ \A i \in 1..attemptsMade : attempts'[i] = attempts[i]
        /\ attempts'[attemptsMade + 1].at = proposal
    BY <2>1, RecordStep
  <2>3. attempts'[1] = attempts[1] /\ attempts'[attemptsMade] = attempts[attemptsMade]
    BY <1>2, <2>2
  <2>4. now' <= firstFailure.at + 432000 * (attemptsMade' - 1)
    <3>1. proposal \in Nat /\ proposal <= now + 432000
      BY <2>1 DEF TypeInv, ClockInv
    <3>2. now <= firstFailure.at + 432000 * (attemptsMade - 1)
      BY DEF ClockInv
    <3>. QED  BY <1>2, <2>1, <3>1, <3>2
  <2>5. ASSUME NEW i \in 2..attemptsMade'
        PROVE  /\ attempts'[i - 1].at + Gap + Z7Extra(firstFailure) <= attempts'[i].at
               /\ IsPermittedExecutionTime(attempts'[i].at)
    <3>1. CASE i = attemptsMade + 1
      <4>1. attempts'[i].at = proposal /\ attempts'[i - 1].at = now
        <5>1. i - 1 = attemptsMade
          BY <1>2, <3>1
        <5>. QED  BY <2>2, <2>3, <3>1, <5>1 DEF ClockInv
      <4>. QED  BY <2>1, <4>1 DEF ClockInv
    <3>2. CASE i # attemptsMade + 1
      <4>1. i \in 2..attemptsMade /\ i \in 1..attemptsMade /\ i - 1 \in 1..attemptsMade
        BY <1>2, <2>1, <2>5, <3>2
      <4>2. attempts'[i] = attempts[i] /\ attempts'[i - 1] = attempts[i - 1]
        BY <2>2, <4>1
      <4>. QED  BY <4>1, <4>2 DEF ClockInv
    <3>. QED  BY <3>1, <3>2
  <2>. QED  BY <2>1, <2>2, <2>3, <2>4, <2>5 DEF ClockInv
<1>7. CASE Succeed
  <2>1. /\ Debit("success") /\ pc' = "return"
        /\ UNCHANGED <<lastFailure, stoppedReason>>
    BY <1>7 DEF Succeed
  <2>. QED  BY <1>1, <1>6, <2>1 DEF ClockInv
<1>8. CASE FailAgain
  <2>1. Debit("failed") /\ pc' = "loop" /\ UNCHANGED stoppedReason
    BY <1>8 DEF FailAgain
  <2>2. lastFailure'.reason = lastFailure.reason /\ lastFailure'.npci = lastFailure.npci
    BY <1>8 DEF FailAgain, TypeInv, TypeOK, FailureType
  <2>. QED  BY <1>1, <1>6, <2>1, <2>2 DEF ClockInv
<1>9. CASE Return
  <2>1. /\ pc' = "done"
        /\ UNCHANGED <<attempts, attemptsMade, now, lastFailure, stoppedReason>>
    BY <1>9 DEF Return
  <2>. QED  BY <1>1, <2>1 DEF ClockInv
<1>10. CASE UNCHANGED vars
  BY <1>1, <1>10 DEF vars, ClockInv
<1>. QED
  BY <1>3, <1>4, <1>5, <1>7, <1>8, <1>9, <1>10 DEF Next, LoopBreak

\* The inductive invariant of the clock properties.
IInv == TypeInv /\ BooksInv /\ ClockInv

LEMMA Invariance == Spec => []IInv
<1>1. Init => IInv
  BY TypeInit, BooksInit, ClockInit, InitBegun DEF IInv
<1>2. IInv /\ [Next]_vars => IInv'
  BY TypeNext, BooksNext, ClockNext DEF IInv
<1>. QED  BY <1>1, <1>2, PTL DEF Spec

LEMMA AttemptTimes ==
  ASSUME IInv, NEW i \in Debited
  PROVE  /\ i \in 2..attemptsMade
         /\ attempts[i].at \in Nat /\ attempts[i - 1].at \in Nat
<1>1. i \in 2..attemptsMade /\ attemptsMade \in Nat
  BY DebitedInterval DEF IInv, TypeInv, TypeOK
<1>2. Len(attempts) >= attemptsMade /\ Len(attempts) \in Nat
  BY <1>1 DEF IInv, BooksInv, TypeInv, TypeOK
<1>3. i \in 1..Len(attempts) /\ i - 1 \in 1..Len(attempts)
  BY <1>1, <1>2
<1>4. attempts[i] \in AttemptType /\ attempts[i - 1] \in AttemptType
  BY <1>3 DEF IInv, TypeInv, TypeOK
<1>. QED  BY <1>1, <1>4 DEF AttemptType

LEMMA OffPeakByInv == ASSUME IInv  PROVE DebitedOffPeak
<1>1. ASSUME NEW i \in Debited  PROVE ~IsPeakHour(attempts[i].at)
  <2>1. attempts[i].at \in Int /\ IsPermittedExecutionTime(attempts[i].at)
    BY AttemptTimes DEF IInv, ClockInv
  <2>. QED  BY <2>1, PermittedIsOffPeak
<1>. QED  BY <1>1 DEF DebitedOffPeak

\* No debit falls in a peak window.
THEOREM OffPeakCorrect == Spec => []DebitedOffPeak
<1>1. IInv => DebitedOffPeak
  BY OffPeakByInv
<1>. QED  BY <1>1, Invariance, PTL

LEMMA Difference ==
  ASSUME NEW a \in Nat, NEW b \in Nat, NEW g \in Nat, NEW x \in Nat, a + g + x <= b
  PROVE  b - a >= g + x
OBVIOUS

LEMMA SpacingByInv == ASSUME IInv  PROVE RetrySpacing
<1>1. Gap \in Nat /\ Z7Extra(firstFailure) \in Nat
  BY DEF Gap, Z7Extra, Z7MinSpacingHours, Hour
<1>2. ASSUME NEW i \in Debited
      PROVE  attempts[i].at - attempts[i - 1].at >= Gap + Z7Extra(firstFailure)
  <2>1. attempts[i].at \in Nat /\ attempts[i - 1].at \in Nat
    BY AttemptTimes
  <2>2. attempts[i - 1].at + Gap + Z7Extra(firstFailure) <= attempts[i].at
    BY AttemptTimes DEF IInv, ClockInv
  <2>. QED  BY <1>1, <2>1, <2>2, Difference
<1>. QED  BY <1>2 DEF RetrySpacing, Z7Extra

\* Two debits keep the notice gap, and the Z7 spacing on top of it.
THEOREM SpacingCorrect == Spec => []RetrySpacing
<1>1. IInv => RetrySpacing
  BY SpacingByInv
<1>. QED  BY <1>1, Invariance, PTL

LEMMA ChaseByInv == ASSUME IInv  PROVE ChaseBounded
<1>1. /\ now \in Nat /\ firstFailure.at \in Nat /\ attemptsMade \in Nat
      /\ now <= firstFailure.at + 432000 * (attemptsMade - 1)
      /\ stoppedReason # "chased_too_long"
  BY DEF IInv, TypeInv, TypeOK, FailureType, ClockInv
<1>. QED  BY <1>1 DEF ChaseBounded, Day, Hour

\* A run ends within five days per retry, so the 21-day rule never decides.
THEOREM ChaseCorrect == Spec => []ChaseBounded
<1>1. IInv => ChaseBounded
  BY ChaseByInv
<1>. QED  BY <1>1, Invariance, PTL

-----------------------------------------------------------------------------
(* Refinement *)

LEMMA SamePermitted ==
  ASSUME NEW t
  PROVE  Episode!IsPermittedExecutionTime(t) <=> IsPermittedExecutionTime(t)
BY DEF Episode!IsPermittedExecutionTime, IsPermittedExecutionTime, Episode!Within, Within,
       Episode!SecondOfDay, SecondOfDay, Episode!PermittedWindows, PermittedWindows,
       Episode!Day, Day, Episode!Hour, Hour

\* run_mandate keeps the promise of RecoveryEpisode: a debit maps to Debit, the
\* return of a run that recovered nothing to Close, and all else to a stutter.
THEOREM EpisodeCorrect == Spec => ImplementsEpisode
<1>1. Init => Episode!Init
  <2>. SUFFICES ASSUME Init  PROVE Episode!Init
    OBVIOUS
  <2>1. firstFailure.at \in Nat
    BY CallsAssumption DEF Init, Begin, CallType, FailureType
  <2>. QED  BY <2>1 DEF Init, Begin, Episode!Init, Gap, Episode!Hour, Hour
<1>2. IInv /\ [Next]_vars => [Episode!Next]_Episode!vars
  <2>. SUFFICES ASSUME IInv, [Next]_vars  PROVE [Episode!Next]_Episode!vars
    OBVIOUS
  <2>1. Gap' = Gap
    BY GapFixed DEF IInv
  <2>2. attemptsMade \in 1..4 /\ attemptsMade' \in 1..4
    BY TypeNext DEF IInv, TypeInv, TypeOK
  <2>3. CASE LoopBreak
    BY <2>1, <2>3, LoopBreakFrame DEF Episode!vars
  <2>4. CASE Propose
    BY <2>1, <2>4 DEF Propose, Schedule, Episode!vars
  <2>5. CASE Veto
    BY <2>1, <2>5 DEF Veto, Episode!vars
  <2>6. ASSUME NEW outcome, Debit(outcome), finalStatus' \in {"unknown", "recovered"}
        PROVE  Episode!Debit
    <3>1. finalStatus = "unknown" /\ pc = "execute"
      BY <2>6 DEF Debit, IInv, BooksInv
    <3>2. attemptsMade' = attemptsMade + 1 /\ now' = proposal
      BY <2>6 DEF Debit
    <3>3. now' >= now + Gap
      <4>1. Z7Extra(firstFailure) \in Nat /\ Gap \in Nat
        BY DEF Z7Extra, Z7MinSpacingHours, Gap, Hour
      <4>2. now \in Nat /\ proposal \in Nat
            /\ now + Gap + Z7Extra(firstFailure) <= proposal
        BY <3>1 DEF IInv, TypeInv, TypeOK, ClockInv
      <4>. QED  BY <3>2, <4>1, <4>2
    <3>4. Episode!IsPermittedExecutionTime(now')
      BY <3>1, <3>2, SamePermitted DEF IInv, ClockInv
    <3>5. attemptsMade < 4
      BY <2>2, <3>2
    <3>. QED  BY <2>1, <2>6, <3>1, <3>2, <3>3, <3>4, <3>5 DEF Episode!Debit
  <2>7. CASE Succeed
    BY <2>6, <2>7 DEF Succeed, Episode!Next
  <2>8. CASE FailAgain
    <3>1. Debit("failed") /\ finalStatus' = "unknown"
      BY <2>8 DEF FailAgain, Debit, IInv, BooksInv
    <3>. QED  BY <2>6, <3>1 DEF Episode!Next
  <2>9. CASE Return
    <3>1. finalStatus \in {"unknown", "recovered"}
          /\ UNCHANGED <<attemptsMade, now>>
      BY <2>9 DEF Return, IInv, BooksInv
    <3>2. CASE finalStatus = "recovered"
      BY <2>1, <2>9, <3>1, <3>2 DEF Return, Episode!vars
    <3>3. CASE finalStatus = "unknown"
      <4>1. finalStatus' = IF attemptsMade = 4 THEN "halted" ELSE "stopped"
        BY <2>2, <2>9, <3>3 DEF Return, MaxExecutionAttemptsTotal
      <4>. QED  BY <2>1, <3>1, <3>3, <4>1 DEF Episode!Close, Episode!Next
    <3>. QED  BY <3>1, <3>2, <3>3
  <2>10. CASE UNCHANGED vars
    BY <2>1, <2>10 DEF vars, Episode!vars
  <2>. QED
    BY <2>3, <2>4, <2>5, <2>7, <2>8, <2>9, <2>10 DEF Next, LoopBreak
<1>. QED  BY <1>1, <1>2, Invariance, PTL DEF Spec, Episode!Spec, ImplementsEpisode
=============================================================================

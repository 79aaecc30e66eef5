--------------------------- MODULE EpisodeProofs ---------------------------
(***************************************************************************)
(* What run_mandate owes the customer: every debit is announced and its    *)
(* outcome told, nothing happens after an opt-out, discretionary notices   *)
(* keep to their daily budget, and the compliance checker finds nothing to *)
(* report.  And how a run ends: what a veto means, what status the books   *)
(* close with, and what a run under review leaves undone.                  *)
(***************************************************************************)
EXTENDS OrchestratorProofs, SequenceTheorems

Notice(type, attempt, at) == [type |-> type, at |-> at, attempt |-> attempt]

\* A notice of this type about this attempt was sent at this instant.
Has(notices, type, attempt, at) ==
  \E n \in DOMAIN notices : notices[n] = Notice(type, attempt, at)

TellType(outcome) ==
  IF outcome = "success" THEN "post_debit_confirmation" ELSE "source_aware_failure_notice"

-----------------------------------------------------------------------------
(* What a step adds to the records *)

LEMMA HasAppended ==
  ASSUME NEW notices \in Seq(NoticeType), NEW type \in InterventionType,
         NEW attempt \in Nat, NEW at \in Nat
  PROVE  Has(Append(notices, Notice(type, attempt, at)), type, attempt, at)
<1>. DEFINE e == Notice(type, attempt, at)
<1>1. e \in NoticeType
  BY DEF Notice, NoticeType
<1>. HIDE DEF e
<1>2. /\ Append(notices, e)[Len(notices) + 1] = e
      /\ Len(notices) + 1 \in DOMAIN Append(notices, e)
  BY <1>1
<1>. QED  BY <1>2 DEF Has, e

LEMMA AppendedElement ==
  ASSUME NEW S, NEW s \in Seq(S), NEW e \in S, NEW n \in DOMAIN Append(s, e)
  PROVE  Append(s, e)[n] = e \/ (n \in DOMAIN s /\ Append(s, e)[n] = s[n])
<1>1. n \in 1..(Len(s) + 1) /\ Len(s) \in Nat
  BY AppendFacts
<1>2. CASE n = Len(s) + 1
  BY <1>2, AppendFacts
<1>3. CASE n # Len(s) + 1
  <2>1. n \in 1..Len(s)
    BY <1>1, <1>3
  <2>. QED  BY <2>1, AppendFacts
<1>. QED  BY <1>2, <1>3

LEMMA HasKept ==
  ASSUME NEW notices \in Seq(NoticeType), NEW e \in NoticeType,
         NEW type, NEW attempt, NEW at, Has(notices, type, attempt, at)
  PROVE  Has(Append(notices, e), type, attempt, at)
<1>1. PICK n \in DOMAIN notices : notices[n] = Notice(type, attempt, at)
  BY DEF Has
<1>2. n \in DOMAIN Append(notices, e) /\ Append(notices, e)[n] = notices[n]
  BY <1>1
<1>. QED  BY <1>1, <1>2 DEF Has

\* A step sends at most one notice: about the next attempt, at the instant the
\* step leaves the clock at, only if the guardrail lets it pass, and the mandate
\* remembers it.
LEMMA NoticeSent ==
  ASSUME TypeInv, [Next]_vars
  PROVE  \/ /\ notifications' = notifications
            /\ mandate'.lastContactedAt = mandate.lastContactedAt
         \/ \E type \in InterventionType :
              /\ ValidateNotification(mandate, type, now')
              /\ notifications' =
                   Append(notifications, Notice(type, NextAttemptNumber, now'))
              /\ mandate'.lastContactedAt = now'
<1>1. ASSUME NEW type \in InterventionType, NEW at, now' = at,
             mandate'.lastContactedAt = MandateAfterNotice(type, at).lastContactedAt,
             notifications' = NoticesAfter(type, NextAttemptNumber, at)
      PROVE  \/ /\ notifications' = notifications
                /\ mandate'.lastContactedAt = mandate.lastContactedAt
             \/ /\ ValidateNotification(mandate, type, now')
                /\ notifications' =
                     Append(notifications, Notice(type, NextAttemptNumber, now'))
                /\ mandate'.lastContactedAt = now'
  <2>1. CASE ValidateNotification(mandate, type, at)
    <3>1. MandateAfterNotice(type, at).lastContactedAt = at
      BY <2>1 DEF MandateAfterNotice, RecordContact, TypeInv, TypeOK, MandateType
    <3>. QED  BY <1>1, <2>1, <3>1 DEF NoticesAfter, Notice
  <2>2. CASE ~ValidateNotification(mandate, type, at)
    BY <1>1, <2>2 DEF NoticesAfter, MandateAfterNotice
  <2>. QED  BY <2>1, <2>2
<1>2. CASE StopOnVerdict
  <2>1. PICK type \in Select(Verdict) :
          /\ mandate' = MandateAfterNotice(type, now)
          /\ notifications' = NoticesAfter(type, NextAttemptNumber, now)
    BY <1>2 DEF StopOnVerdict
  <2>2. type \in InterventionType
    BY <2>1, VerdictType, SelectType DEF Verdict, RetryabilityVerdict, TypeInv, TypeOK
  <2>3. now' = now
    BY <1>2 DEF StopOnVerdict
  <2>. QED  BY <1>1, <2>1, <2>2, <2>3
<1>3. CASE Propose \/ HoldForApproval
  <2>1. PICK type \in Select("retryable") :
          /\ mandate' = MandateAfterNotice(type, now)
          /\ notifications' = NoticesAfter(type, NextAttemptNumber, now)
    BY <1>3 DEF Propose, HoldForApproval, Schedule
  <2>2. type \in InterventionType
    BY <2>1, SelectType DEF RetryabilityVerdict
  <2>3. now' = now
    BY <1>3 DEF Propose, HoldForApproval, Schedule
  <2>. QED  BY <1>1, <2>1, <2>2, <2>3
<1>4. CASE Succeed
  BY <1>1, <1>4 DEF Succeed, Debit, InterventionType
<1>5. CASE FailAgain
  <2>. DEFINE m == MandateAfterNotice("source_aware_failure_notice", proposal)
  <2>1. m \in MandateType
    <3>1. proposal \in Nat
      BY <1>5 DEF FailAgain, Debit, TypeInv
    <3>. QED  BY <3>1, NoticeStep DEF InterventionType, TypeInv, TypeOK
  <2>2. mandate' = [m EXCEPT !.consecutive = @ + 1]
    BY <1>5 DEF FailAgain
  <2>3. mandate'.lastContactedAt = m.lastContactedAt
    <3>. HIDE DEF m
    <3>. QED  BY <2>1, <2>2 DEF MandateType
  <2>4. now' = proposal
        /\ notifications' =
             NoticesAfter("source_aware_failure_notice", NextAttemptNumber, proposal)
    BY <1>5 DEF FailAgain, Debit
  <2>. QED  BY <1>1, <2>3, <2>4 DEF InterventionType
<1>6. CASE Return
  BY <1>6 DEF Return, MandateType, TypeInv, TypeOK
<1>7. CASE StopKilled \/ StopOptedOut \/ StopOnRule \/ Veto \/ UNCHANGED vars
  BY <1>7 DEF StopKilled, StopOptedOut, StopOnRule, Veto, vars
<1>. QED  BY <1>2, <1>3, <1>4, <1>5, <1>6, <1>7 DEF Next

LEMMA NoticeKept ==
  ASSUME TypeInv, [Next]_vars, NEW type, NEW attempt, NEW at,
         Has(notifications, type, attempt, at)
  PROVE  Has(notifications', type, attempt, at)
<1>1. now' \in Nat /\ NextAttemptNumber \in Nat
  BY TypeNext DEF TypeInv, TypeOK, NextAttemptNumber
<1>2. ASSUME NEW sent \in InterventionType
      PROVE  Notice(sent, NextAttemptNumber, now') \in NoticeType
  BY <1>1 DEF Notice, NoticeType
<1>3. notifications \in Seq(NoticeType)
  BY DEF TypeInv, TypeOK
<1>. QED  BY <1>2, <1>3, NoticeSent, HasKept

\* A step keeps the attempts that ran; it adds one only by a debit.
LEMMA AttemptsGrow ==
  ASSUME TypeInv, BooksInv, [Next]_vars
  PROVE  /\ attemptsMade \in 1..4
         /\ \A i \in 1..attemptsMade : attempts'[i] = attempts[i]
         /\ \/ attemptsMade' = attemptsMade
            \/ \E outcome \in {"success", "failed"} :
                 /\ Debit(outcome)
                 /\ notifications' =
                      NoticesAfter(TellType(outcome), NextAttemptNumber, proposal)
                 /\ attemptsMade' = attemptsMade + 1
                 /\ attempts'[attemptsMade + 1].at = proposal
                 /\ attempts'[attemptsMade + 1].outcome = outcome
<1>1. attemptsMade \in 1..4
  BY DEF TypeInv, TypeOK
<1>2. ASSUME NEW outcome \in {"success", "failed"}, Debit(outcome)
      PROVE  /\ \A i \in 1..attemptsMade : attempts'[i] = attempts[i]
             /\ attemptsMade' = attemptsMade + 1
             /\ attempts'[attemptsMade + 1].at = proposal
             /\ attempts'[attemptsMade + 1].outcome = outcome
  <2>1. /\ pc = "execute" /\ RecordAttempt(outcome) /\ outcome \in Outcomes
        /\ attemptsMade' = attemptsMade + 1 /\ Len(attempts) = attemptsMade
    BY <1>2 DEF Debit, Outcomes, BooksInv
  <2>. QED  BY <2>1, RecordStep
<1>3. CASE Succeed
  <2>1. /\ Debit("success")
        /\ notifications' =
             NoticesAfter(TellType("success"), NextAttemptNumber, proposal)
    BY <1>3 DEF Succeed, TellType
  <2>. QED  BY <1>1, <1>2, <2>1
<1>4. CASE FailAgain
  <2>1. /\ Debit("failed")
        /\ notifications' =
             NoticesAfter(TellType("failed"), NextAttemptNumber, proposal)
    BY <1>4 DEF FailAgain, TellType
  <2>. QED  BY <1>1, <1>2, <2>1
<1>5. CASE Veto
  <2>1. /\ pc = "execute" /\ RecordAttempt("skipped") /\ "skipped" \in Outcomes
        /\ Len(attempts) = attemptsMade /\ attemptsMade' = attemptsMade
    BY <1>5 DEF Veto, Outcomes, BooksInv
  <2>. QED  BY <1>1, <2>1, RecordStep
<1>6. CASE LoopBreak \/ Propose \/ Return \/ UNCHANGED vars
  <2>1. attempts' = attempts /\ attemptsMade' = attemptsMade
    BY <1>6, LoopBreakFrame DEF Propose, Schedule, Return, vars
  <2>. QED  BY <1>1, <2>1
<1>. QED  BY <1>3, <1>4, <1>5, <1>6 DEF Next, LoopBreak

-----------------------------------------------------------------------------
(* The outcome of every debit is told *)

TalkInv ==
  \A i \in 2..attemptsMade :
    Has(notifications, TellType(attempts[i].outcome), i, attempts[i].at)

\* The guardrail cannot refuse the notice of an approved debit: its type is
\* mandatory, and the opt-out it would see was looked up at the same instant.
LEMMA TellingPasses ==
  ASSUME TypeInv, NEW outcome, Debit(outcome)
  PROVE  ValidateNotification(mandate, TellType(outcome), proposal)
<1>1. ~(mandate.optedOutAt # None /\ proposal >= mandate.optedOutAt)
  BY DEF Debit, Approved, ValidateExecution
<1>2. TellType(outcome) \in MandatoryNoticeTypes
  BY DEF TellType, MandatoryNoticeTypes
<1>. QED  BY <1>1, <1>2 DEF ValidateNotification, BudgetBlocks

LEMMA TalkNext ==
  ASSUME TypeInv, BooksInv, TalkInv, [Next]_vars
  PROVE  TalkInv'
<1>1. ASSUME NEW i \in 2..attemptsMade
      PROVE  Has(notifications', TellType(attempts'[i].outcome), i, attempts'[i].at)
  <2>1. attempts'[i] = attempts[i]
    BY <1>1, AttemptsGrow
  <2>. QED  BY <2>1, NoticeKept DEF TalkInv
<1>2. CASE attemptsMade' = attemptsMade
  BY <1>1, <1>2 DEF TalkInv
<1>3. ASSUME NEW outcome \in {"success", "failed"}, Debit(outcome),
             notifications' = NoticesAfter(TellType(outcome), NextAttemptNumber, proposal),
             attemptsMade' = attemptsMade + 1,
             attempts'[attemptsMade + 1].at = proposal,
             attempts'[attemptsMade + 1].outcome = outcome
      PROVE  TalkInv'
  <2>1. /\ notifications \in Seq(NoticeType) /\ proposal \in Nat
        /\ attemptsMade \in 1..4
    BY <1>3 DEF TypeInv, TypeOK, Debit
  <2>2. notifications' =
          Append(notifications, Notice(TellType(outcome), NextAttemptNumber, proposal))
    BY <1>3, TellingPasses DEF NoticesAfter, Notice
  <2>3. Has(notifications', TellType(outcome), NextAttemptNumber, proposal)
    <3>1. TellType(outcome) \in InterventionType /\ NextAttemptNumber \in Nat
      BY <2>1 DEF TellType, InterventionType, NextAttemptNumber
    <3>. QED  BY <2>1, <2>2, <3>1, HasAppended
  <2>4. ASSUME NEW i \in 2..attemptsMade'
        PROVE  Has(notifications', TellType(attempts'[i].outcome), i, attempts'[i].at)
    <3>1. CASE i = attemptsMade + 1
      BY <1>3, <2>3, <3>1 DEF NextAttemptNumber
    <3>2. CASE i # attemptsMade + 1
      <4>1. i \in 2..attemptsMade
        BY <1>3, <2>1, <3>2
      <4>. QED  BY <1>1, <4>1
    <3>. QED  BY <3>1, <3>2
  <2>. QED  BY <2>4 DEF TalkInv
<1>. QED  BY <1>2, <1>3, AttemptsGrow

-----------------------------------------------------------------------------
(* Nothing follows an opt-out *)

Before(at) == mandate.optedOutAt # None => at < mandate.optedOutAt

OptOutInv ==
  /\ \A n \in DOMAIN notifications : Before(notifications[n].at)
  /\ \A i \in 2..attemptsMade : Before(attempts[i].at)

LEMMA OptOutNext ==
  ASSUME TypeInv, BooksInv, OptOutInv, [Next]_vars
  PROVE  OptOutInv'
<1>1. mandate'.optedOutAt = mandate.optedOutAt
  BY MandateFrame
<1>2. ASSUME NEW at \in Nat, ~(mandate.optedOutAt # None /\ at >= mandate.optedOutAt)
      PROVE  mandate.optedOutAt # None => at < mandate.optedOutAt
  BY <1>2 DEF TypeInv, TypeOK, MandateType
<1>3. ASSUME NEW n \in DOMAIN notifications'
      PROVE  mandate.optedOutAt # None => notifications'[n].at < mandate.optedOutAt
  <2>1. CASE notifications' = notifications
    BY <1>3, <2>1 DEF OptOutInv, Before
  <2>2. ASSUME NEW type \in InterventionType,
               ValidateNotification(mandate, type, now'),
               notifications' =
                 Append(notifications, Notice(type, NextAttemptNumber, now'))
        PROVE  mandate.optedOutAt # None => notifications'[n].at < mandate.optedOutAt
    <3>. DEFINE e == Notice(type, NextAttemptNumber, now')
    <3>1. now' \in Nat /\ NextAttemptNumber \in Nat /\ notifications \in Seq(NoticeType)
      BY TypeNext DEF TypeInv, TypeOK, NextAttemptNumber
    <3>2. e \in NoticeType /\ e.at = now'
      BY <3>1 DEF Notice, NoticeType
    <3>3. mandate.optedOutAt # None => e.at < mandate.optedOutAt
      BY <1>2, <2>2, <3>1, <3>2 DEF ValidateNotification
    <3>4. notifications' = Append(notifications, e)
      BY <2>2
    <3>. HIDE DEF e
    <3>5. \/ notifications'[n] = e
          \/ n \in DOMAIN notifications /\ notifications'[n] = notifications[n]
      <4>1. n \in DOMAIN Append(notifications, e)
        BY <1>3, <3>4
      <4>2. \/ Append(notifications, e)[n] = e
            \/ /\ n \in DOMAIN notifications
               /\ Append(notifications, e)[n] = notifications[n]
        BY <3>1, <3>2, <4>1, AppendedElement
      <4>. QED  BY <3>4, <4>2
    <3>. QED  BY <3>3, <3>5 DEF OptOutInv, Before
  <2>. QED  BY <2>1, <2>2, NoticeSent
<1>4. ASSUME NEW i \in 2..attemptsMade'
      PROVE  mandate.optedOutAt # None => attempts'[i].at < mandate.optedOutAt
  <2>1. CASE i \in 2..attemptsMade
    <3>1. attempts'[i] = attempts[i]
      BY <2>1, AttemptsGrow
    <3>. QED  BY <2>1, <3>1 DEF OptOutInv, Before
  <2>2. CASE i \notin 2..attemptsMade
    <3>1. /\ i = attemptsMade + 1
          /\ \E outcome : Debit(outcome) /\ attempts'[i].at = proposal
      BY <1>4, <2>2, AttemptsGrow
    <3>2. proposal \in Nat /\ ~(mandate.optedOutAt # None /\ proposal >= mandate.optedOutAt)
      BY <3>1 DEF TypeInv, Debit, Approved, ValidateExecution
    <3>. QED  BY <1>2, <3>1, <3>2
  <2>. QED  BY <2>1, <2>2
<1>. QED  BY <1>1, <1>3, <1>4 DEF OptOutInv, Before

-----------------------------------------------------------------------------
(* A terminal failure is never followed by a debit *)

TerminalInv ==
  attemptsMade > 1 => ~IsTerminalEvent(firstFailure.reason, firstFailure.npci)

LEMMA TerminalNext ==
  ASSUME TypeInv, BooksInv, ClockInv, TerminalInv, [Next]_vars
  PROVE  TerminalInv'
<1>1. firstFailure' = firstFailure
  BY GapFixed
<1>2. CASE attemptsMade' = attemptsMade
  BY <1>1, <1>2 DEF TerminalInv
<1>3. CASE \E outcome : Debit(outcome)
  <2>1. ~IsTerminalEvent(lastFailure.reason, lastFailure.npci)
    BY <1>3 DEF Debit, Approved, ValidateExecution
  <2>2. lastFailure.reason = firstFailure.reason /\ lastFailure.npci = firstFailure.npci
    BY DEF ClockInv
  <2>. QED  BY <1>1, <2>1, <2>2 DEF TerminalInv
<1>. QED  BY <1>2, <1>3, AttemptsGrow

-----------------------------------------------------------------------------
(* Every debit is announced, where the rule table chooses the notices *)

AnnounceInv ==
  /\ pc = "execute" => Has(notifications, "pre_debit_notice", attemptsMade + 1, now)
  /\ \A i \in 2..attemptsMade :
       Has(notifications, "pre_debit_notice", i, attempts[i - 1].at)

\* The announcement of a scheduled attempt cannot be refused either.
LEMMA AnnouncementPasses ==
  ASSUME LlmAnswers = {}, TypeInv, Propose
  PROVE  Has(notifications', "pre_debit_notice", attemptsMade + 1, now)
<1>1. Select("retryable") = {"pre_debit_notice"}
  BY DEF Select, DeterministicChoice
<1>2. notifications' = NoticesAfter("pre_debit_notice", NextAttemptNumber, now)
  BY <1>1 DEF Propose, Schedule
<1>3. ValidateNotification(mandate, "pre_debit_notice", now)
  BY DEF Propose, Schedule, MayProceed, IsContactable, ValidateNotification, BudgetBlocks,
         MandatoryNoticeTypes
<1>4. notifications' = Append(notifications, Notice("pre_debit_notice", attemptsMade + 1, now))
  BY <1>2, <1>3 DEF NoticesAfter, Notice, NextAttemptNumber
<1>5. /\ "pre_debit_notice" \in InterventionType /\ attemptsMade + 1 \in Nat /\ now \in Nat
      /\ notifications \in Seq(NoticeType)
  BY DEF InterventionType, TypeInv, TypeOK
<1>. QED  BY <1>4, <1>5, HasAppended

LEMMA AnnounceNext ==
  ASSUME LlmAnswers = {}, TypeInv, BooksInv, ClockInv, AnnounceInv, [Next]_vars
  PROVE  AnnounceInv'
<1>0. attemptsMade \in 1..4
  BY DEF TypeInv, TypeOK
<1>1. pc' = "execute" => Has(notifications', "pre_debit_notice", attemptsMade' + 1, now')
  <2>1. CASE Propose
    BY <2>1, AnnouncementPasses DEF Propose, Schedule
  <2>2. CASE UNCHANGED vars
    BY <2>2 DEF vars, AnnounceInv
  <2>3. CASE LoopBreak \/ Veto \/ Succeed \/ FailAgain \/ Return
    BY <2>3, LoopBreakFrame DEF Veto, Break, Succeed, FailAgain, Return
  <2>. QED  BY <2>1, <2>2, <2>3 DEF Next, LoopBreak
<1>2. ASSUME NEW i \in 2..attemptsMade'
      PROVE  Has(notifications', "pre_debit_notice", i, attempts'[i - 1].at)
  <2>1. i - 1 \in 1..attemptsMade /\ attempts'[i - 1] = attempts[i - 1]
    BY <1>0, <1>2, AttemptsGrow
  <2>2. CASE i \in 2..attemptsMade
    BY <2>1, <2>2, NoticeKept DEF AnnounceInv
  <2>3. CASE i \notin 2..attemptsMade
    <3>1. i = attemptsMade + 1 /\ \E outcome : Debit(outcome)
      BY <1>0, <1>2, <2>3, AttemptsGrow
    <3>2. Has(notifications, "pre_debit_notice", i, now)
      BY <3>1 DEF Debit, AnnounceInv
    <3>3. now = attempts[i - 1].at
      <4>1. i - 1 = attemptsMade
        BY <1>0, <3>1
      <4>. QED  BY <4>1 DEF ClockInv
    <3>. QED  BY <2>1, <3>2, <3>3, NoticeKept
  <2>. QED  BY <2>2, <2>3
<1>. QED  BY <1>1, <1>2 DEF AnnounceInv

-----------------------------------------------------------------------------
(* What is known of the notices in every state *)

NoticeInv == IInv /\ TalkInv /\ OptOutInv /\ TerminalInv

LEMMA NoticeBegun == ASSUME Begun  PROVE NoticeInv
<1>1. IInv
  BY TypeInit, BooksInit, ClockInit DEF IInv
<1>2. 2..attemptsMade = {} /\ DOMAIN notifications = {} /\ attemptsMade = 1
  BY DEF Begun, Begin
<1>. QED  BY <1>1, <1>2 DEF NoticeInv, TalkInv, OptOutInv, TerminalInv

LEMMA NoticeNext == NoticeInv /\ [Next]_vars => NoticeInv'
<1>. SUFFICES ASSUME NoticeInv, [Next]_vars  PROVE NoticeInv'
  OBVIOUS
<1>1. IInv'
  BY TypeNext, BooksNext, ClockNext DEF NoticeInv, IInv
<1>2. TalkInv' /\ OptOutInv' /\ TerminalInv'
  BY TalkNext, OptOutNext, TerminalNext DEF NoticeInv, IInv
<1>. QED  BY <1>1, <1>2 DEF NoticeInv

LEMMA NoticeInvariance == Spec => []NoticeInv
<1>1. Init => NoticeInv
  BY InitBegun, NoticeBegun
<1>. QED  BY <1>1, NoticeNext, PTL DEF Spec

LEMMA AnnounceBegun == ASSUME Begun  PROVE AnnounceInv
BY DEF Begun, Begin, AnnounceInv

LEMMA AnnounceInvariance == (LlmAnswers = {}) /\ Spec => []AnnounceInv
<1>. SUFFICES ASSUME LlmAnswers = {}  PROVE Spec => []AnnounceInv
  OBVIOUS
<1>1. IInv /\ AnnounceInv /\ [Next]_vars => AnnounceInv'
  BY AnnounceNext DEF IInv
<1>. QED  BY <1>1, InitBegun, AnnounceBegun, Invariance, PTL DEF Spec

-----------------------------------------------------------------------------
LEMMA ToldByInv == NoticeInv => OutcomeTold
<1>. SUFFICES ASSUME NoticeInv  PROVE OutcomeTold
  OBVIOUS
<1>1. ASSUME NEW i \in Debited
      PROVE  NoticeFor(i, {TellType(attempts[i].outcome)}) # {}
  <2>1. Has(notifications, TellType(attempts[i].outcome), i, attempts[i].at)
    BY DebitedInterval DEF NoticeInv, IInv, TalkInv
  <2>. QED  BY <2>1 DEF Has, NoticeFor, Notice
<1>. QED  BY <1>1 DEF OutcomeTold, TellType

LEMMA FinalByInv == NoticeInv => OptOutIsFinal
BY DebitedInterval DEF NoticeInv, IInv, OptOutInv, Before, OptOutIsFinal

\* INV-07 for every guardrail state: the outcome of a debit is always told,
\* whatever the model answered and however often the customer was contacted.
THEOREM ToldCorrect == Spec => []OutcomeTold
BY ToldByInv, NoticeInvariance, PTL

\* INV-08 and ADR-007: no contact and no debit from the opt-out on.
THEOREM OptOutCorrect == Spec => []OptOutIsFinal
BY FinalByInv, NoticeInvariance, PTL

LEMMA HopelessByInv == ASSUME NoticeInv  PROVE HopelessNeverDebited
<1>1. ASSUME Debited # {}  PROVE CanSucceed(firstFailure) \/ firstFailure.npci = "Z7"
  <2>1. attemptsMade > 1
    <3>1. attemptsMade \in 1..4 /\ 2..attemptsMade # {}
      BY <1>1, DebitedInterval DEF NoticeInv, IInv, TypeInv, TypeOK
    <3>. QED  BY <3>1
  <2>2. ~IsTerminalEvent(firstFailure.reason, firstFailure.npci)
    BY <2>1 DEF NoticeInv, TerminalInv
  <2>. QED
    BY <2>2 DEF IsTerminalEvent, NpciOverrides, NpciOverride, ReasonsWithVerdict, CanSucceed
<1>. QED  BY <1>1 DEF HopelessNeverDebited

\* INV-03: a failure no retry can overcome is never debited again.
THEOREM HopelessCorrect == Spec => []HopelessNeverDebited
<1>1. NoticeInv => HopelessNeverDebited
  BY HopelessByInv
<1>. QED  BY <1>1, NoticeInvariance, PTL

\* A pre-debit notice about debit i, a full gap before it.
LEMMA Announced ==
  ASSUME IInv, AnnounceInv, NEW i \in 2..attemptsMade
  PROVE  \E n \in DOMAIN notifications :
           /\ notifications[n].type = "pre_debit_notice"
           /\ notifications[n].attempt = i
           /\ notifications[n].at \in Nat
           /\ notifications[n].at + Gap <= attempts[i].at
<1>1. PICK n \in DOMAIN notifications :
        notifications[n] = Notice("pre_debit_notice", i, attempts[i - 1].at)
  BY DEF AnnounceInv, Has
<1>2. /\ attempts[i - 1].at \in Nat /\ attempts[i].at \in Nat
      /\ attempts[i - 1].at + Gap + Z7Extra(firstFailure) <= attempts[i].at
  <2>1. i \in Debited
    BY DebitedInterval DEF IInv
  <2>. QED  BY <2>1, AttemptTimes DEF IInv, ClockInv
<1>3. Gap \in Nat /\ Z7Extra(firstFailure) \in Nat
  BY DEF Gap, Z7Extra, Z7MinSpacingHours, Hour
<1>4. attempts[i - 1].at + Gap <= attempts[i].at
  BY <1>2, <1>3
<1>. QED  BY <1>1, <1>2, <1>4 DEF Notice

LEMMA InTimeByInv == ASSUME IInv, AnnounceInv  PROVE PreDebitNoticeInTime
<1>1. ASSUME NEW i \in Debited
      PROVE  \E n \in NoticeFor(i, {"pre_debit_notice"}) :
               notifications[n].at + Gap <= attempts[i].at
  BY Announced, DebitedInterval DEF IInv, NoticeFor
<1>. QED  BY <1>1 DEF PreDebitNoticeInTime

\* INV-06: every debit was announced in time, where no model answers.
THEOREM AnnouncedCorrect == (LlmAnswers = {}) /\ Spec => []PreDebitNoticeInTime
<1>1. IInv /\ AnnounceInv => PreDebitNoticeInTime
  BY InTimeByInv
<1>. QED  BY <1>1, AnnounceInvariance, Invariance, PTL

-----------------------------------------------------------------------------
(* The verdict of the compliance checker *)

LEMMA OneMore ==
  ASSUME NEW m \in 1..4, NEW l, l = m \/ l = m + 1
  PROVE  l \in 1..5
OBVIOUS

LEMMA WithoutTheFirst ==
  ASSUME NEW S, NEW s \in Seq(S), Len(s) \in 1..5
  PROVE  Len(SubSeq(s, 2, Len(s))) <= 4
<1>1. Len(s) \in Nat /\ Len(s) >= 1 /\ Len(s) <= 5
  <2>1. \A l \in 1..5 : l \in Nat /\ l >= 1 /\ l <= 5
    OBVIOUS
  <2>. QED  BY <2>1
<1>2. \A i \in 2..Len(s) : s[i] \in S
  BY <1>1
<1>3. Len(SubSeq(s, 2, Len(s))) = IF 2 <= Len(s) THEN Len(s) - 2 + 1 ELSE 0
  BY <1>1, <1>2, SubSeqProperties
<1>. QED  BY <1>1, <1>3

LEMMA FiveRecords ==
  ASSUME IInv
  PROVE  attempts \in Seq(AttemptType) /\ Len(attempts) \in 1..5
<1>1. attempts \in Seq(AttemptType) /\ attemptsMade \in 1..4
  BY DEF IInv, TypeInv, TypeOK
<1>2. Len(attempts) = attemptsMade \/ Len(attempts) = attemptsMade + 1
  BY DEF IInv, BooksInv
<1>3. Len(attempts) \in 1..5
  BY <1>1, <1>2, OneMore
<1>. QED  BY <1>1, <1>3

\* Record k of what is graded is attempt k + 1; one that executed is a debit.
LEMMA GradedFacts ==
  ASSUME IInv, NEW k \in DOMAIN Graded(attempts)
  PROVE  /\ k + 1 \in 2..Len(attempts)
         /\ Graded(attempts)[k] = attempts[k + 1]
         /\ attempts[k + 1].number = k + 1
         /\ attempts[k + 1].outcome # "skipped" => k + 1 \in 2..attemptsMade
<1>1. attempts \in Seq(AttemptType) /\ Len(attempts) \in 1..5
  BY FiveRecords
<1>2. /\ k + 1 \in 2..Len(attempts)
      /\ Graded(attempts)[k] = attempts[k + 1]
  BY <1>1 DEF Graded
<1>3. attempts[k + 1].number = k + 1
  <2>1. k + 1 \in 1..Len(attempts)
    BY <1>2
  <2>. QED  BY <2>1 DEF IInv, BooksInv
<1>4. ASSUME attempts[k + 1].outcome # "skipped"  PROVE k + 1 \in 2..attemptsMade
  <2>1. k + 1 \in Debited
    <3>1. k + 1 \in DOMAIN attempts /\ k + 1 > 1
      BY <1>1, <1>2
    <3>. QED  BY <1>4, <3>1 DEF Debited
  <2>. QED  BY <2>1, DebitedInterval DEF IInv
<1>. QED  BY <1>2, <1>3, <1>4

LEMMA NoViolation ==
  ASSUME NoticeInv, AnnounceInv
  PROVE  Violations(Graded(attempts), notifications, mandate, firstFailure, TRUE) = {}
<1>. DEFINE graded == Graded(attempts)
<1>. USE DEF NoticeInv
<1>0. attemptsMade \in 1..4
  BY DEF IInv, TypeInv, TypeOK
<1>1. ~PeakExecution(graded)
  <2>1. ASSUME NEW k \in DOMAIN graded, graded[k].outcome # "skipped"
        PROVE  ~IsPeakHour(graded[k].at)
    <3>1. k + 1 \in 2..attemptsMade /\ graded[k] = attempts[k + 1]
      BY <2>1, GradedFacts
    <3>2. attempts[k + 1].at \in Nat
      BY <3>1, AttemptTimes, DebitedInterval DEF IInv
    <3>3. IsPermittedExecutionTime(attempts[k + 1].at)
      BY <3>1 DEF IInv, ClockInv
    <3>. QED  BY <3>1, <3>2, <3>3, PermittedIsOffPeak
  <2>. QED  BY <2>1 DEF PeakExecution, Indices
<1>2. ~TooManyAttempts(graded)
  <2>1. attempts \in Seq(AttemptType) /\ Len(attempts) \in 1..5
    BY FiveRecords
  <2>2. Len(graded) <= 4
    BY <2>1, WithoutTheFirst DEF Graded
  <2>. QED  BY <2>2 DEF TooManyAttempts, MaxExecutionAttemptsTotal
<1>3. ~RetryOnTerminal(graded, firstFailure)
  <2>1. ASSUME NEW k \in DOMAIN graded, graded[k].outcome = "failed"
        PROVE  ~IsTerminalEvent(firstFailure.reason, firstFailure.npci)
    <3>1. k + 1 \in 2..attemptsMade
      BY <2>1, GradedFacts
    <3>2. attemptsMade > 1
      BY <1>0, <3>1
    <3>. QED  BY <3>2 DEF TerminalInv
  <2>. QED  BY <2>1 DEF RetryOnTerminal, Indices
<1>4. ~MissingPreDebitNotice(graded, notifications, mandate)
  <2>1. ASSUME ~mandate.carveOut, NEW k \in DOMAIN graded, graded[k].outcome # "skipped"
        PROVE  \E n \in DOMAIN notifications :
                 /\ notifications[n].type = "pre_debit_notice"
                 /\ notifications[n].attempt = graded[k].number
                 /\ graded[k].at - notifications[n].at >= PreDebitNotificationHours * Hour
    <3>1. /\ k + 1 \in 2..attemptsMade /\ graded[k] = attempts[k + 1]
          /\ graded[k].number = k + 1
      BY <2>1, GradedFacts
    <3>2. attempts[k + 1].at \in Nat
      BY <3>1, AttemptTimes, DebitedInterval DEF IInv
    <3>3. PICK n \in DOMAIN notifications :
            /\ notifications[n].type = "pre_debit_notice"
            /\ notifications[n].attempt = k + 1
            /\ notifications[n].at \in Nat
            /\ notifications[n].at + Gap <= attempts[k + 1].at
      BY <3>1, Announced
    <3>4. Gap = PreDebitNotificationHours * Hour /\ Gap \in Nat
      BY <2>1 DEF Gap, PreDebitNotificationHours, Hour
    <3>5. attempts[k + 1].at - notifications[n].at >= Gap
      BY <3>2, <3>3, <3>4
    <3>. QED  BY <3>1, <3>3, <3>4, <3>5
  <2>. QED  BY <2>1 DEF MissingPreDebitNotice, Indices
<1>5. ~MissingPostDebitNotice(graded, notifications)
  <2>1. ASSUME NEW k \in DOMAIN graded, Executed(graded[k])
        PROVE  \E n \in DOMAIN notifications :
                 /\ notifications[n].type \in {"post_debit_confirmation", "source_aware_failure_notice"}
                 /\ notifications[n].attempt = graded[k].number
                 /\ notifications[n].at >= graded[k].at
    <3>1. /\ k + 1 \in 2..attemptsMade /\ graded[k] = attempts[k + 1]
          /\ graded[k].number = k + 1
      BY <2>1, GradedFacts DEF Executed
    <3>2. attempts[k + 1].at \in Nat
      BY <3>1, AttemptTimes, DebitedInterval DEF IInv
    <3>3. PICK n \in DOMAIN notifications :
            notifications[n] = Notice(TellType(attempts[k + 1].outcome), k + 1, attempts[k + 1].at)
      BY <3>1 DEF TalkInv, Has
    <3>. QED  BY <3>1, <3>2, <3>3 DEF Notice, TellType
  <2>. QED  BY <2>1 DEF MissingPostDebitNotice, Indices
<1>6. ~ContactAfterOptOut(notifications, mandate)
  <2>1. ASSUME mandate.optedOutAt # None, NEW n \in DOMAIN notifications
        PROVE  ~(notifications[n].at >= mandate.optedOutAt)
    <3>1. notifications[n].at < mandate.optedOutAt
      BY <2>1 DEF OptOutInv, Before
    <3>2. notifications[n].at \in Nat /\ mandate.optedOutAt \in Nat
      <4>1. notifications[n] \in NoticeType
        BY <2>1 DEF IInv, TypeInv, TypeOK
      <4>. QED  BY <2>1, <4>1 DEF NoticeType, IInv, TypeInv, TypeOK, MandateType
    <3>. QED  BY <3>1, <3>2
  <2>. QED  BY <2>1 DEF ContactAfterOptOut, Indices
<1>7. ~MissingToken(graded, TRUE)
  BY DEF MissingToken
<1>. HIDE DEF graded
<1>8. Violations(graded, notifications, mandate, firstFailure, TRUE) = {}
  BY <1>1, <1>2, <1>3, <1>4, <1>5, <1>6, <1>7 DEF Violations
<1>. QED  BY <1>8 DEF graded

LEMMA CompliantByInv == ASSUME NoticeInv, AnnounceInv  PROVE EngineCompliant
BY NoViolation DEF EngineCompliant

\* The evaluation's headline: where the rule table chooses the notices, the
\* independent checker never finds a violation in a run, finished or not.
THEOREM ComplianceCorrect == (LlmAnswers = {}) /\ Spec => []EngineCompliant
<1>1. NoticeInv /\ AnnounceInv => EngineCompliant
  BY CompliantByInv
<1>. QED  BY <1>1, NoticeInvariance, AnnounceInvariance, PTL

-----------------------------------------------------------------------------
(* The daily contact budget: the one instant the mandate remembers is        *)
(* enough to keep every discretionary notice the first contact of its day.   *)

LEMMA DayArithmetic ==
  ASSUME NEW s \in Nat, NEW t \in Nat
  PROVE  /\ s <= t => IstDay(s) <= IstDay(t)
         /\ StartOfIstDay(s) = Day * IstDay(s)
BY DEF IstDay, StartOfIstDay, SecondOfDay, Day, Hour

\* A later contact of another day than the last one is on another day than
\* every contact before that one.
LEMMA OtherDay ==
  ASSUME NEW first \in Nat, NEW last \in Nat, NEW t \in Nat,
         first <= last, last <= t, StartOfIstDay(last) # StartOfIstDay(t)
  PROVE  IstDay(first) # IstDay(t)
<1>1. IstDay(first) <= IstDay(last) /\ IstDay(last) <= IstDay(t)
  BY DayArithmetic
<1>2. IstDay(last) # IstDay(t)
  <2>1. StartOfIstDay(last) = Day * IstDay(last) /\ StartOfIstDay(t) = Day * IstDay(t)
    BY DayArithmetic
  <2>. QED  BY <2>1
<1>3. IstDay(first) \in Int /\ IstDay(last) \in Int /\ IstDay(t) \in Int
  BY DEF IstDay, Day, Hour
<1>. QED  BY <1>1, <1>2, <1>3

-----------------------------------------------------------------------------
(* The contacts of a run *)

\* The clock never runs back.
LEMMA Forward ==
  ASSUME TypeInv, ClockInv, [Next]_vars
  PROVE  now \in Nat /\ now' \in Nat /\ now <= now'
<1>1. now \in Nat /\ now' \in Nat
  BY TypeNext DEF TypeInv, TypeOK
<1>2. CASE \E outcome : Debit(outcome)
  <2>1. now' = proposal /\ pc = "execute"
    BY <1>2 DEF Debit
  <2>2. Gap \in Nat /\ Z7Extra(firstFailure) \in Nat
    BY DEF Gap, Z7Extra, Z7MinSpacingHours, Hour
  <2>3. now + Gap + Z7Extra(firstFailure) <= proposal /\ proposal \in Nat
    BY <2>1 DEF ClockInv, TypeInv
  <2>. QED  BY <1>1, <2>1, <2>2, <2>3
<1>3. CASE LoopBreak \/ Propose \/ Veto \/ Return \/ UNCHANGED vars
  <2>1. now' = now
    BY <1>3, LoopBreakFrame DEF Propose, Schedule, Veto, Return, vars
  <2>. QED  BY <1>1, <2>1
<1>. QED  BY <1>1, <1>2, <1>3 DEF Next, LoopBreak, Succeed, FailAgain

-----------------------------------------------------------------------------
(* The invariant *)

\* No notice is later than the last contact on record, nor that than now.
ContactInv ==
  /\ \A n \in DOMAIN notifications :
       /\ mandate.lastContactedAt \in Nat
       /\ notifications[n].at <= mandate.lastContactedAt
       /\ mandate.lastContactedAt <= now
  /\ DiscretionaryBudget

\* A discretionary notice that the guardrail lets pass is on a new day.
LEMMA NewDay ==
  ASSUME TypeInv, ContactInv, NEW t \in Nat, now <= t, NEW type,
         ValidateNotification(mandate, type, t), type \notin MandatoryNoticeTypes,
         NEW m \in DOMAIN notifications
  PROVE  IstDay(notifications[m].at) # IstDay(t)
<1>1. /\ mandate.lastContactedAt \in Nat
      /\ notifications[m].at <= mandate.lastContactedAt
      /\ mandate.lastContactedAt <= now
  BY DEF ContactInv
<1>2. notifications[m].at \in Nat /\ now \in Nat
  <2>1. notifications[m] \in NoticeType
    BY DEF TypeInv, TypeOK
  <2>. QED  BY <2>1 DEF NoticeType, TypeInv, TypeOK
<1>3. mandate.lastContactedAt # None
  BY <1>1, NoneAssumption
<1>4. StartOfIstDay(mandate.lastContactedAt) # StartOfIstDay(t)
  BY <1>3 DEF ValidateNotification, BudgetBlocks, MaxContactsPerDay
<1>5. mandate.lastContactedAt <= t
  BY <1>1, <1>2
<1>. QED  BY <1>1, <1>2, <1>4, <1>5, OtherDay

LEMMA ContactNext ==
  ASSUME TypeInv, ClockInv, ContactInv, [Next]_vars
  PROVE  ContactInv'
<1>1. now \in Nat /\ now' \in Nat /\ now <= now'
  BY Forward
<1>2. CASE notifications' = notifications
           /\ mandate'.lastContactedAt = mandate.lastContactedAt
  <2>1. ASSUME NEW n \in DOMAIN notifications
        PROVE  /\ mandate.lastContactedAt \in Nat
               /\ notifications[n].at <= mandate.lastContactedAt
               /\ mandate.lastContactedAt <= now'
    BY <1>1, <2>1 DEF ContactInv
  <2>. QED  BY <1>2, <2>1 DEF ContactInv, DiscretionaryBudget
<1>3. ASSUME NEW type \in InterventionType,
             ValidateNotification(mandate, type, now'),
             notifications' = Append(notifications, Notice(type, NextAttemptNumber, now')),
             mandate'.lastContactedAt = now'
      PROVE  ContactInv'
  <2>. DEFINE e == Notice(type, NextAttemptNumber, now')
              l == Len(notifications)
  <2>1. e \in NoticeType /\ e.at = now' /\ e.type = type
    <3>1. NextAttemptNumber \in Nat
      BY DEF NextAttemptNumber, TypeInv, TypeOK
    <3>. QED  BY <1>1, <3>1 DEF Notice, NoticeType
  <2>2. notifications \in Seq(NoticeType) /\ notifications' = Append(notifications, e)
    BY <1>3 DEF TypeInv, TypeOK
  <2>. HIDE DEF e
  <2>3. /\ l \in Nat /\ DOMAIN notifications = 1..l /\ DOMAIN notifications' = 1..(l + 1)
        /\ \A i \in 1..l : notifications'[i] = notifications[i]
        /\ notifications'[l + 1] = e
    BY <2>1, <2>2, AppendFacts
  <2>. HIDE DEF l
  <2>4. ASSUME NEW n \in 1..(l + 1)  PROVE notifications'[n].at <= now'
    <3>1. CASE n = l + 1
      BY <1>1, <2>1, <2>3, <3>1
    <3>2. CASE n # l + 1
      <4>1. n \in 1..l
        BY <2>3, <2>4, <3>2
      <4>2. /\ notifications'[n] = notifications[n]
            /\ notifications[n].at <= mandate.lastContactedAt
            /\ mandate.lastContactedAt <= now /\ mandate.lastContactedAt \in Nat
        BY <2>3, <4>1 DEF ContactInv
      <4>3. notifications[n].at \in Nat
        <5>1. notifications[n] \in NoticeType
          BY <2>2, <2>3, <4>1
        <5>. QED  BY <5>1 DEF NoticeType
      <4>. QED  BY <1>1, <4>2, <4>3
    <3>. QED  BY <3>1, <3>2
  <2>5. ASSUME NEW n \in 1..(l + 1),
               notifications'[n].type \notin
                 {"pre_debit_notice", "post_debit_confirmation", "source_aware_failure_notice"},
               NEW m \in 1..(n - 1)
        PROVE  IstDay(notifications'[m].at) # IstDay(notifications'[n].at)
    <3>1. m \in 1..l /\ notifications'[m] = notifications[m]
      BY <2>3, <2>5
    <3>2. CASE n = l + 1
      <4>1. type \notin MandatoryNoticeTypes
        BY <2>1, <2>3, <2>5, <3>2 DEF MandatoryNoticeTypes
      <4>. QED  BY <1>1, <1>3, <2>1, <2>3, <3>1, <3>2, <4>1, NewDay
    <3>3. CASE n # l + 1
      <4>1. n \in 1..l
        BY <2>3, <2>5, <3>3
      <4>2. notifications'[n] = notifications[n]
        BY <2>3, <4>1
      <4>. QED  BY <2>3, <2>5, <3>1, <4>1, <4>2 DEF ContactInv, DiscretionaryBudget
    <3>. QED  BY <3>2, <3>3
  <2>. QED  BY <1>1, <1>3, <2>3, <2>4, <2>5 DEF ContactInv, DiscretionaryBudget
<1>. QED  BY <1>2, <1>3, NoticeSent

LEMMA ContactBegun == ASSUME Begun  PROVE ContactInv
<1>1. DOMAIN notifications = {}
  BY DEF Begun, Begin
<1>. QED  BY <1>1 DEF ContactInv, DiscretionaryBudget

LEMMA ContactKept == IInv /\ ContactInv /\ [Next]_vars => ContactInv'
BY ContactNext DEF IInv

\* A discretionary notice is never a second contact of its day, whatever mix of
\* notices the model makes the engine send.
THEOREM DiscretionaryCorrect == Spec => []DiscretionaryBudget
<1>1. ContactInv => DiscretionaryBudget
  BY DEF ContactInv
<1>. QED  BY <1>1, InitBegun, ContactBegun, ContactKept, Invariance, PTL DEF Spec

-----------------------------------------------------------------------------
(* The last notice of a run its verdict stops *)

\* No notice is about an attempt beyond the pending one.
AboutInv ==
  /\ pc = "loop" => \A n \in DOMAIN notifications : notifications[n].attempt <= attemptsMade
  /\ pc = "execute" =>
       \A n \in DOMAIN notifications : notifications[n].attempt <= attemptsMade + 1

FinalInv == AboutInv /\ FinalNoticeUnlessContacted

\* A refused final notice was refused by the contact budget, since the loop top
\* has just found the customer contactable.
LEMMA FinalRefused ==
  ASSUME TypeInv, MayProceed, NEW type, ~ValidateNotification(mandate, type, now)
  PROVE  /\ mandate.lastContactedAt # None
         /\ IstDay(mandate.lastContactedAt) = IstDay(now)
<1>1. BudgetBlocks(mandate, type, now)
  BY DEF MayProceed, IsContactable, ValidateNotification
<1>2. /\ mandate.lastContactedAt # None
      /\ StartOfIstDay(mandate.lastContactedAt) = StartOfIstDay(now)
  BY <1>1 DEF BudgetBlocks
<1>3. mandate.lastContactedAt \in Nat /\ now \in Nat
  BY <1>2 DEF TypeInv, TypeOK, MandateType
<1>4. Day * IstDay(mandate.lastContactedAt) = Day * IstDay(now)
  BY <1>2, <1>3, DayArithmetic
<1>5. IstDay(mandate.lastContactedAt) \in Int /\ IstDay(now) \in Int
  BY <1>3 DEF IstDay, Day, Hour
<1>. QED  BY <1>2, <1>4, <1>5 DEF Day, Hour

LEMMA FinalSent ==
  ASSUME TypeInv, AboutInv, StopOnVerdict
  PROVE  FinalNoticeUnlessContacted'
<1>. DEFINE final == NoticeFor(NextAttemptNumber, InterventionType)
            l == Len(notifications)
<1>1. PICK type \in Select(Verdict) :
        /\ mandate' = MandateAfterNotice(type, now)
        /\ notifications' = NoticesAfter(type, NextAttemptNumber, now)
  BY DEF StopOnVerdict
<1>2. type \in InterventionType
  BY <1>1, VerdictType, SelectType DEF Verdict, RetryabilityVerdict, TypeInv, TypeOK
<1>3. /\ MayProceed /\ pc = "loop" /\ now' = now /\ attemptsMade' = attemptsMade
      /\ attemptsMade \in Nat /\ now \in Nat /\ notifications \in Seq(NoticeType)
  BY DEF StopOnVerdict, MayProceed, TypeInv, TypeOK
<1>4. \A n \in 1..l : notifications[n].attempt # attemptsMade + 1
  <2>1. \A n \in 1..l : notifications[n].attempt <= attemptsMade /\ notifications[n] \in NoticeType
    BY <1>3 DEF AboutInv
  <2>. QED  BY <1>3, <2>1 DEF NoticeType
<1>5. CASE ValidateNotification(mandate, type, now)
  <2>. DEFINE e == [type |-> type, at |-> now, attempt |-> NextAttemptNumber]
  <2>1. /\ notifications' = Append(notifications, e) /\ e \in NoticeType
        /\ e.attempt = attemptsMade + 1 /\ e.type = type
    BY <1>1, <1>2, <1>3, <1>5 DEF NoticesAfter, NoticeType, NextAttemptNumber
  <2>. HIDE DEF e
  <2>2. /\ l \in Nat /\ DOMAIN notifications' = 1..(l + 1)
        /\ \A n \in 1..l : notifications'[n] = notifications[n]
        /\ notifications'[l + 1] = e
    BY <1>3, <2>1, AppendFacts
  <2>. HIDE DEF l
  <2>3. \A n \in 1..(l + 1) : n = l + 1 \/ n \in 1..l
    BY <2>2
  <2>4. final' = { l + 1 }
    BY <1>2, <1>3, <1>4, <2>1, <2>2, <2>3 DEF NoticeFor, NextAttemptNumber
  <2>5. Cardinality({ l + 1 }) = 1
    BY FS_Singleton
  <2>. QED  BY <2>4, <2>5 DEF FinalNoticeUnlessContacted
<1>6. CASE ~ValidateNotification(mandate, type, now)
  <2>1. notifications' = notifications /\ mandate' = mandate
    BY <1>1, <1>6 DEF NoticesAfter, MandateAfterNotice
  <2>2. DOMAIN notifications = 1..l
    BY <1>3
  <2>3. final' = {}
    BY <1>3, <1>4, <2>1, <2>2 DEF NoticeFor, NextAttemptNumber
  <2>4. Cardinality({}) = 0
    BY FS_EmptySet
  <2>. QED
    BY <1>3, <1>6, <2>1, <2>3, <2>4, FinalRefused DEF FinalNoticeUnlessContacted
<1>. QED  BY <1>5, <1>6

\* Only the verdict's own break ends a run with that reason.
LEMMA VerdictOnly ==
  ASSUME TypeInv, BooksInv, [Next]_vars, stoppedReason' = "verdict", ~StopOnVerdict
  PROVE  /\ stoppedReason = "verdict"
         /\ UNCHANGED <<notifications, attemptsMade, now>>
         /\ mandate'.lastContactedAt = mandate.lastContactedAt
<1>1. ~(pc = "loop" \/ pc = "execute")
  <2>1. CASE StopKilled \/ StopOptedOut \/ HoldForApproval \/ Veto
    BY <2>1 DEF StopKilled, StopOptedOut, HoldForApproval, Veto, Break
  <2>2. CASE StopOnRule
    BY <2>2 DEF StopOnRule, Break, StopRule
  <2>3. CASE Propose \/ Succeed \/ FailAgain
    BY <2>3 DEF Propose, Schedule, MayProceed, Succeed, FailAgain, Debit, BooksInv
  <2>4. CASE Return \/ UNCHANGED vars
    BY <2>4 DEF Return, vars, BooksInv
  <2>. QED  BY <2>1, <2>2, <2>3, <2>4 DEF Next
<1>2. Return \/ UNCHANGED vars
  BY <1>1 DEF Next, StopKilled, StopOptedOut, StopOnVerdict, StopOnRule, Propose,
     HoldForApproval, Schedule, MayProceed, Veto, Succeed, FailAgain, Debit
<1>. QED  BY <1>2 DEF Return, vars, MandateType, TypeInv, TypeOK

LEMMA AboutNext ==
  ASSUME TypeInv, AboutInv, [Next]_vars
  PROVE  AboutInv'
<1>1. attemptsMade \in Nat /\ notifications \in Seq(NoticeType) /\ now' \in Nat
  BY TypeNext DEF TypeInv, TypeOK
<1>2. ASSUME NEW bound \in Nat, attemptsMade + 1 <= bound,
             \A n \in DOMAIN notifications : notifications[n].attempt <= attemptsMade + 1
      PROVE  \A n \in DOMAIN notifications' : notifications'[n].attempt <= bound
  <2>1. ASSUME NEW n \in DOMAIN notifications  PROVE notifications[n].attempt <= bound
    <3>1. notifications[n].attempt \in Nat /\ notifications[n].attempt <= attemptsMade + 1
      <4>1. notifications[n] \in NoticeType
        BY <1>1
      <4>. QED  BY <1>2, <4>1 DEF NoticeType
    <3>2. \A m \in Nat : m <= attemptsMade + 1 => m <= bound
      BY <1>1, <1>2
    <3>. QED  BY <3>1, <3>2
  <2>2. CASE notifications' = notifications
    BY <2>1, <2>2
  <2>3. ASSUME NEW type \in InterventionType,
               notifications' = Append(notifications, Notice(type, NextAttemptNumber, now'))
        PROVE  \A n \in DOMAIN notifications' : notifications'[n].attempt <= bound
    <3>. DEFINE e == Notice(type, NextAttemptNumber, now')
    <3>1. e \in NoticeType /\ e.attempt = attemptsMade + 1
      BY <1>1 DEF Notice, NoticeType, NextAttemptNumber
    <3>2. notifications' = Append(notifications, e)
      BY <2>3
    <3>. HIDE DEF e
    <3>. QED  BY <1>1, <1>2, <2>1, <3>1, <3>2, AppendedElement
  <2>. QED  BY <2>2, <2>3, NoticeSent
<1>3. CASE LoopBreak \/ Veto \/ Succeed \/ Return
  <2>1. pc' \in {"return", "done"}
    BY <1>3, LoopBreakFrame DEF Veto, Break, Succeed, Return
  <2>. QED  BY <2>1 DEF AboutInv
<1>4. CASE Propose
  <2>1. pc = "loop" /\ pc' = "execute" /\ attemptsMade' = attemptsMade
    BY <1>4 DEF Propose, Schedule, MayProceed
  <2>2. \A n \in DOMAIN notifications : notifications[n].attempt <= attemptsMade + 1
    <3>1. \A n \in DOMAIN notifications :
            notifications[n].attempt \in Nat /\ notifications[n].attempt <= attemptsMade
      <4>1. \A n \in DOMAIN notifications : notifications[n] \in NoticeType
        BY <1>1
      <4>. QED  BY <2>1, <4>1 DEF AboutInv, NoticeType
    <3>2. \A m \in Nat : m <= attemptsMade => m <= attemptsMade + 1
      BY <1>1
    <3>. QED  BY <3>1, <3>2
  <2>3. \A n \in DOMAIN notifications' : notifications'[n].attempt <= attemptsMade + 1
    BY <1>1, <1>2, <2>2
  <2>. QED  BY <2>1, <2>3 DEF AboutInv
<1>5. CASE FailAgain
  <2>1. pc = "execute" /\ pc' = "loop" /\ attemptsMade' = attemptsMade + 1
    BY <1>5 DEF FailAgain, Debit
  <2>2. \A n \in DOMAIN notifications' : notifications'[n].attempt <= attemptsMade + 1
    BY <1>1, <1>2, <2>1 DEF AboutInv
  <2>. QED  BY <2>1, <2>2 DEF AboutInv
<1>6. CASE UNCHANGED vars
  BY <1>6 DEF vars, AboutInv
<1>. QED  BY <1>3, <1>4, <1>5, <1>6 DEF Next, LoopBreak

LEMMA FinalBegun == ASSUME Begun  PROVE FinalInv
<1>1. DOMAIN notifications = {} /\ stoppedReason = "none"
  BY DEF Begun, Begin
<1>. QED  BY <1>1 DEF FinalInv, AboutInv, FinalNoticeUnlessContacted

LEMMA FinalNext == IInv /\ FinalInv /\ [Next]_vars => FinalInv'
<1>. SUFFICES ASSUME IInv, FinalInv, [Next]_vars  PROVE FinalInv'
  OBVIOUS
<1>1. AboutInv'
  BY AboutNext DEF IInv, FinalInv
<1>2. CASE StopOnVerdict
  BY <1>1, <1>2, FinalSent DEF IInv, FinalInv
<1>3. CASE ~StopOnVerdict
  <2>1. CASE stoppedReason' = "verdict"
    <3>1. /\ stoppedReason = "verdict" /\ UNCHANGED <<notifications, attemptsMade, now>>
          /\ mandate'.lastContactedAt = mandate.lastContactedAt
      BY <1>3, <2>1, VerdictOnly DEF IInv
    <3>. QED
      BY <1>1, <3>1 DEF FinalInv, FinalNoticeUnlessContacted, NoticeFor, NextAttemptNumber
  <2>2. CASE stoppedReason' # "verdict"
    BY <1>1, <2>2 DEF FinalInv, FinalNoticeUnlessContacted
  <2>. QED  BY <2>1, <2>2
<1>. QED  BY <1>2, <1>3

\* A run its verdict stops sends at most one last notice, and none only when
\* the contact budget of the day was spent, for every mandate and every model.
THEOREM FinalNoticeCorrect == Spec => []FinalNoticeUnlessContacted
<1>1. FinalInv => FinalNoticeUnlessContacted
  BY DEF FinalInv
<1>. QED  BY <1>1, InitBegun, FinalBegun, FinalNext, Invariance, PTL DEF Spec

-----------------------------------------------------------------------------
(* The gate and the guardrail agree *)

\* The guardrail's copy of the terminal table never contradicts the gate.
LEMMA RetryableNotTerminal ==
  ASSUME NEW event, NEW m,
         Evaluate(event, m) = "retryable"
  PROVE  ~IsTerminalEvent(event.reason, event.npci)
<1>1. CASE event.npci \in NpciOverrides
  BY <1>1 DEF Evaluate, IsTerminalEvent
<1>2. CASE event.npci \notin NpciOverrides
  <2>1. event.reason \in ReasonTable /\ ReasonVerdict(event.reason) = "retryable"
    BY <1>2 DEF Evaluate
  <2>2. \E v \in RetryabilityVerdict : event.reason \in ReasonsWithVerdict(v)
    BY <2>1 DEF ReasonTable
  <2>3. event.reason \in ReasonsWithVerdict("retryable")
    BY <2>1, <2>2 DEF ReasonVerdict
  <2>4. event.reason \notin ReasonsWithVerdict("terminal")
    BY <2>3 DEF ReasonsWithVerdict
  <2>. QED  BY <1>2, <2>4 DEF IsTerminalEvent
<1>. QED  BY <1>1, <1>2

\* What the allocator could not know when it proposed the attempt.
Changed ==
  \/ mandate.optedOutAt # None /\ now < mandate.optedOutAt
                               /\ mandate.optedOutAt <= proposal
  \/ mandate.status = "cancelled"

\* What the loop checked before it scheduled still holds at the execution, up
\* to the facts that may change.
GateInv ==
  /\ pc = "execute" => /\ attemptsMade < 4
                       /\ IsContactable(mandate, now)
                       /\ ~IsTerminalEvent(lastFailure.reason, lastFailure.npci)
  /\ stoppedReason = "vetoed" => attemptsMade < 4 /\ Changed

LEMMA ProposalChecked ==
  ASSUME TypeInv, Propose
  PROVE  /\ attemptsMade < 4
         /\ IsContactable(mandate, now)
         /\ ~IsTerminalEvent(lastFailure.reason, lastFailure.npci)
<1>1. StopRule(Verdict, attemptsMade, firstFailure.at, now) = "continue"
  BY DEF Propose, Schedule
<1>2. ~BudgetExhausted(attemptsMade)
  BY <1>1 DEF StopRule
<1>3. attemptsMade < 4
  BY <1>2 DEF BudgetExhausted, MaxExecutionAttemptsTotal, TypeInv, TypeOK
<1>4. IsContactable(mandate, now)
  BY DEF Propose, Schedule, MayProceed
<1>5. Evaluate(lastFailure, mandate) = "retryable"
  BY DEF Propose, Schedule, Verdict
<1>6. ~IsTerminalEvent(lastFailure.reason, lastFailure.npci)
  BY <1>5, RetryableNotTerminal DEF TypeInv, TypeOK
<1>. QED  BY <1>3, <1>4, <1>6

\* Of the five checks only two can fail.
LEMMA VetoReason ==
  ASSUME TypeInv, ClockInv, GateInv, Veto
  PROVE  attemptsMade < 4 /\ Changed
<1>1. /\ pc = "execute" /\ attemptsMade < 4 /\ IsContactable(mandate, now)
      /\ ~IsTerminalEvent(lastFailure.reason, lastFailure.npci)
  BY DEF Veto, GateInv
<1>2. attemptsMade \in 1..4 /\ now \in Nat /\ proposal \in Nat
      /\ mandate.optedOutAt \in Nat \cup {None}
  BY <1>1 DEF TypeInv, TypeOK, MandateType
<1>3. NextAttemptNumber <= MaxExecutionAttemptsTotal
  BY <1>1, <1>2 DEF NextAttemptNumber, MaxExecutionAttemptsTotal
<1>4. IsPermittedExecutionTime(proposal)
  BY <1>1 DEF ClockInv
<1>5. \/ mandate.optedOutAt # None /\ proposal >= mandate.optedOutAt
      \/ mandate.status = "cancelled"
  BY <1>1, <1>3, <1>4 DEF Veto, Approved, ValidateExecution
<1>6. mandate.optedOutAt # None => now < mandate.optedOutAt
  BY <1>1, <1>2 DEF IsContactable
<1>. QED  BY <1>1, <1>2, <1>5, <1>6 DEF Changed

LEMMA GateNext ==
  ASSUME TypeInv, BooksInv, ClockInv, GateInv, [Next]_vars
  PROVE  GateInv'
<1>1. /\ mandate'.optedOutAt = mandate.optedOutAt
      /\ pc # "return" => mandate'.status = mandate.status
  BY MandateFrame
<1>2. CASE LoopBreak
  BY <1>2, LoopBreakFrame DEF GateInv
<1>3. CASE Propose
  <2>1. /\ stoppedReason' = "none"
        /\ UNCHANGED <<now, attemptsMade, lastFailure>>
    BY <1>3 DEF Propose, Schedule, MayProceed, BooksInv
  <2>2. IsContactable(mandate, now)'
    BY <1>1, <1>3, <2>1, ProposalChecked DEF IsContactable
  <2>. QED  BY <1>3, <2>1, <2>2, ProposalChecked DEF GateInv
<1>4. CASE Veto
  <2>1. UNCHANGED <<mandate, now, proposal, attemptsMade>> /\ pc' = "return"
    BY <1>4 DEF Veto, Break
  <2>. QED  BY <1>4, <2>1, VetoReason DEF GateInv, Changed
<1>5. CASE Succeed \/ FailAgain
  BY <1>5 DEF Succeed, FailAgain, Debit, BooksInv, GateInv
<1>6. CASE Return
  <2>1. UNCHANGED <<now, proposal, attemptsMade, stoppedReason>> /\ pc' = "done"
    BY <1>6 DEF Return
  <2>2. ASSUME stoppedReason = "vetoed"  PROVE attemptsMade < 4 /\ Changed'
    <3>1. attemptsMade < 4 /\ Changed
      BY <2>2 DEF GateInv
    <3>2. mandate' = mandate
      <4>1. ~(attemptsMade >= MaxExecutionAttemptsTotal)
        BY <3>1 DEF MaxExecutionAttemptsTotal, TypeInv, TypeOK
      <4>. QED  BY <1>6, <4>1 DEF Return
    <3>. QED  BY <2>1, <3>1, <3>2 DEF Changed
  <2>. QED  BY <2>1, <2>2 DEF GateInv
<1>7. CASE UNCHANGED vars
  BY <1>7 DEF vars, GateInv, Changed
<1>. QED  BY <1>2, <1>3, <1>4, <1>5, <1>6, <1>7 DEF Next, LoopBreak

-----------------------------------------------------------------------------
(* The closing of the books *)

ClosingInv ==
  pc = "done" =>
    /\ finalStatus # "unknown"
    /\ finalStatus = "halted" <=> attemptsMade = 4 /\ finalStatus # "recovered"
    /\ finalStatus = "halted" => mandate.status = "halted"

LEMMA ClosingNext ==
  ASSUME TypeInv, ClosingInv, [Next]_vars
  PROVE  ClosingInv'
<1>1. CASE Return
  <2>1. mandate \in MandateType /\ attemptsMade \in 1..4
    BY DEF TypeInv, TypeOK
  <2>2. UNCHANGED attemptsMade
    BY <1>1 DEF Return
  <2>3. CASE finalStatus = "recovered"
    BY <1>1, <2>2, <2>3 DEF Return, ClosingInv
  <2>4. CASE finalStatus # "recovered" /\ attemptsMade = 4
    <3>1. finalStatus' = "halted" /\ mandate'.status = "halted"
      BY <1>1, <2>1, <2>4 DEF Return, MandateType, MaxExecutionAttemptsTotal
    <3>. QED  BY <2>2, <2>4, <3>1 DEF ClosingInv
  <2>5. CASE finalStatus # "recovered" /\ attemptsMade # 4
    <3>1. finalStatus' = "stopped"
      <4>1. ~(attemptsMade >= MaxExecutionAttemptsTotal)
        BY <2>1, <2>5 DEF MaxExecutionAttemptsTotal
      <4>. QED  BY <1>1, <2>5, <4>1 DEF Return
    <3>. QED  BY <2>2, <2>5, <3>1 DEF ClosingInv
  <2>. QED  BY <2>3, <2>4, <2>5
<1>2. CASE UNCHANGED vars
  BY <1>2 DEF vars, ClosingInv
<1>3. CASE LoopBreak \/ Propose \/ Veto \/ Succeed \/ FailAgain
  <2>1. pc' # "done"
    BY <1>3, LoopBreakFrame DEF Propose, Veto, Break, Succeed, FailAgain
  <2>. QED  BY <2>1 DEF ClosingInv
<1>. QED  BY <1>1, <1>2, <1>3 DEF Next, LoopBreak

-----------------------------------------------------------------------------
(* Runs under review *)

\* The engine, not being under review, would schedule a debit at once.
WouldDebit ==
  /\ ~opts.killed
  /\ IsContactable(mandate, firstFailure.at)
  /\ Evaluate(firstFailure, mandate) = "retryable"

HeldInv ==
  opts.reviewFirst =>
    /\ pc # "execute" /\ attemptsMade = 1
    /\ pc = "loop" => lastFailure = firstFailure /\ now = firstFailure.at
    /\ pc \in {"return", "done"} => (stoppedReason = "held" <=> WouldDebit)

\* A notice changes nothing the gate or the guardrail looks at.
LEMMA SameVerdict ==
  ASSUME TypeInv, LoopBreak \/ Return
  PROVE  WouldDebit' <=> WouldDebit
<1>1. ASSUME NEW type, NEW at
      PROVE  /\ MandateAfterNotice(type, at).optedOutAt = mandate.optedOutAt
             /\ MandateAfterNotice(type, at).consecutive = mandate.consecutive
             /\ MandateAfterNotice(type, at).lowBalance = mandate.lowBalance
  BY DEF MandateAfterNotice, RecordContact, MandateType, TypeInv, TypeOK
<1>2. /\ mandate'.optedOutAt = mandate.optedOutAt
      /\ mandate'.consecutive = mandate.consecutive
      /\ mandate'.lowBalance = mandate.lowBalance
  <2>1. CASE StopOnVerdict
    BY <1>1, <2>1 DEF StopOnVerdict
  <2>2. CASE HoldForApproval
    BY <1>1, <2>2 DEF HoldForApproval, Schedule
  <2>3. CASE Return
    BY <2>3 DEF Return, MandateType, TypeInv, TypeOK
  <2>4. CASE StopKilled \/ StopOptedOut \/ StopOnRule
    BY <2>4 DEF StopKilled, StopOptedOut, StopOnRule
  <2>. QED  BY <2>1, <2>2, <2>3, <2>4 DEF LoopBreak
<1>3. firstFailure' = firstFailure /\ opts' = opts
  BY GapFixed DEF LoopBreak, Next
<1>4. IsContactable(mandate, firstFailure.at)' <=> IsContactable(mandate, firstFailure.at)
  BY <1>2, <1>3 DEF IsContactable
<1>5. LooksIntentional(mandate)' <=> LooksIntentional(mandate)
  BY <1>2 DEF LooksIntentional
<1>6. Evaluate(firstFailure, mandate)' = Evaluate(firstFailure, mandate)
  BY <1>3, <1>5 DEF Evaluate
<1>. QED  BY <1>3, <1>4, <1>6 DEF WouldDebit

\* At the first turn of the loop the stopping rules have nothing to say yet.
LEMMA FirstTurnContinues ==
  ASSUME TypeInv, attemptsMade = 1, now = firstFailure.at
  PROVE  StopRule("retryable", attemptsMade, firstFailure.at, now) = "continue"
<1>1. ~BudgetExhausted(attemptsMade)
  BY DEF BudgetExhausted, MaxExecutionAttemptsTotal
<1>2. ~ChasedTooLong(firstFailure.at, now)
  <2>1. now \in Nat /\ now - firstFailure.at = 0
    BY DEF TypeInv, TypeOK
  <2>. QED  BY <2>1 DEF ChasedTooLong, StoppingRuleMaxDays, Day, Hour
<1>. QED  BY <1>1, <1>2 DEF StopRule

\* Leaving the first turn, a run is held exactly when it would have debited.
LEMMA HeldExactly ==
  ASSUME TypeInv, LoopBreak, opts.reviewFirst, HeldInv
  PROVE  stoppedReason' = "held" <=> WouldDebit
<1>1. /\ pc = "loop" /\ lastFailure = firstFailure /\ now = firstFailure.at
      /\ attemptsMade = 1
  BY LoopBreakFrame DEF HeldInv
<1>2. CASE StopKilled
  BY <1>2 DEF StopKilled, Break, WouldDebit
<1>3. CASE StopOptedOut
  BY <1>1, <1>3 DEF StopOptedOut, Break, WouldDebit
<1>4. CASE StopOnVerdict
  BY <1>1, <1>4 DEF StopOnVerdict, Break, WouldDebit, Verdict
<1>5. CASE StopOnRule
  BY <1>1, <1>5, FirstTurnContinues DEF StopOnRule
<1>6. CASE HoldForApproval
  BY <1>1, <1>6 DEF HoldForApproval, Schedule, MayProceed, Break, WouldDebit, Verdict
<1>. QED  BY <1>2, <1>3, <1>4, <1>5, <1>6 DEF LoopBreak

LEMMA HeldNext ==
  ASSUME TypeInv, HeldInv, [Next]_vars
  PROVE  HeldInv'
<1>. SUFFICES ASSUME opts'.reviewFirst  PROVE HeldInv'
  BY DEF HeldInv
<1>1. opts' = opts /\ firstFailure' = firstFailure
  BY GapFixed
<1>2. pc # "execute" /\ attemptsMade = 1
  BY <1>1 DEF HeldInv
<1>3. CASE LoopBreak
  BY <1>1, <1>2, <1>3, LoopBreakFrame, HeldExactly, SameVerdict DEF HeldInv
<1>4. CASE Propose
  BY <1>1, <1>4 DEF Propose
<1>5. CASE Veto \/ Succeed \/ FailAgain
  BY <1>2, <1>5 DEF Veto, Succeed, FailAgain, Debit
<1>6. CASE Return
  BY <1>1, <1>2, <1>6, SameVerdict DEF Return, HeldInv
<1>7. CASE UNCHANGED vars
  BY <1>7 DEF vars, HeldInv, WouldDebit
<1>. QED  BY <1>3, <1>4, <1>5, <1>6, <1>7 DEF Next, LoopBreak

-----------------------------------------------------------------------------
(* How a run ends, for every input *)

EndInv == IInv /\ GateInv /\ ClosingInv /\ HeldInv

LEMMA EndBegun == ASSUME Begun  PROVE EndInv
<1>1. IInv
  BY TypeInit, BooksInit, ClockInit DEF IInv
<1>. QED  BY <1>1 DEF Begun, Begin, EndInv, GateInv, ClosingInv, HeldInv

LEMMA EndNext == EndInv /\ [Next]_vars => EndInv'
BY TypeNext, BooksNext, ClockNext, GateNext, ClosingNext, HeldNext DEF EndInv, IInv

LEMMA EndInvariance == Spec => []EndInv
<1>1. Init => EndInv
  BY InitBegun, EndBegun
<1>. QED  BY <1>1, EndNext, PTL DEF Spec

LEMMA VetoByInv == EndInv => VetoOnlyOnChangedFacts
BY DEF EndInv, GateInv, Changed, VetoOnlyOnChangedFacts

\* The allocator never proposes what the guardrail refuses: a veto means an
\* opt-out that took effect meanwhile, or a cancelled subscription.
THEOREM VetoCorrect == Spec => []VetoOnlyOnChangedFacts
BY VetoByInv, EndInvariance, PTL

LEMMA ClosedByInv == EndInv => ClosingStatus
<1>. SUFFICES ASSUME EndInv  PROVE ClosingStatus
  OBVIOUS
<1>1. finalStatus = "recovered" <=> attempts[Len(attempts)].outcome = "success"
  <2>1. CASE Len(attempts) = attemptsMade
    BY <2>1 DEF EndInv, IInv, BooksInv
  <2>2. CASE Len(attempts) # attemptsMade
    <3>1. /\ attempts[Len(attempts)].outcome = "skipped"
          /\ attempts[attemptsMade].outcome = "failed"
      BY <2>2 DEF EndInv, IInv, BooksInv
    <3>. QED  BY <3>1 DEF EndInv, IInv, BooksInv
  <2>. QED  BY <2>1, <2>2
<1>. QED  BY <1>1 DEF EndInv, ClosingInv, ClosingStatus

\* The result, the subscription and the list of attempts agree at the return.
THEOREM ClosingCorrect == Spec => []ClosingStatus
BY ClosedByInv, EndInvariance, PTL

LEMMA HeldByInv == EndInv => HeldRunMovesNoMoney
<1>1. ASSUME EndInv, opts.reviewFirst
      PROVE  Debited = {} /\ (pc = "done" => (stoppedReason = "held" <=> WouldDebit))
  <2>1. attemptsMade = 1 /\ Debited = 2..attemptsMade
    BY <1>1, DebitedInterval DEF EndInv, IInv, HeldInv
  <2>. QED  BY <1>1, <2>1 DEF EndInv, HeldInv
<1>. QED  BY <1>1 DEF HeldRunMovesNoMoney, WouldDebit

\* A run under review debits nothing and is held exactly when the engine would
\* have gone on.
THEOREM HeldCorrect == Spec => []HeldRunMovesNoMoney
BY HeldByInv, EndInvariance, PTL
=============================================================================

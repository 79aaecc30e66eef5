--------------------------- MODULE BaselineProofs ---------------------------
(***************************************************************************)
(* What grading the naive strategies can bring to light, for every set of  *)
(* mandates, failures and outages.  The argument is about the four times   *)
(* of the fixed schedule: whatever the hour of the first failure, the      *)
(* snapping moves all three retries to the same second of their day, so    *)
(* they stay a day apart and each notice still falls after the failure     *)
(* before it.                                                              *)
(***************************************************************************)
EXTENDS Baselines, AllocatorProofs, SequenceTheorems

-----------------------------------------------------------------------------
(* The fixed schedule *)

\* A time at a second of the day that is off peak, or at midnight.
LEMMA SameSecond ==
  ASSUME NEW t \in Nat, NEW k \in 1..4
  PROVE  /\ SecondOfDay(t + 86400 * k) = SecondOfDay(t)
         /\ StartOfIstDay(t + 86400 * k) = StartOfIstDay(t) + 86400 * k
BY DEF StartOfIstDay, SecondOfDay, Day, Hour

\* Retry n = k + 1 is due k days after the failure, or at the midnight after
\* that where the failure came in a peak window.
LEMMA FixedShape ==
  ASSUME firstFailure.at \in Nat, NEW k \in 1..3
  PROVE  FixedTime(k + 1) =
           IF IsPermittedExecutionTime(firstFailure.at)
           THEN firstFailure.at + 86400 * k
           ELSE StartOfIstDay(firstFailure.at) + 86400 * k + 86400
<1>. DEFINE f == firstFailure.at
            offset == f + 86400 * k
<1>1. f + ((k + 1) - 1) * 24 * Hour = offset
  BY DEF Hour
<1>2. /\ SecondOfDay(offset) = SecondOfDay(f)
      /\ StartOfIstDay(offset) = StartOfIstDay(f) + 86400 * k
  BY SameSecond
<1>3. IsPermittedExecutionTime(offset) <=> IsPermittedExecutionTime(f)
  BY <1>2 DEF IsPermittedExecutionTime, Within
<1>4. FixedTime(k + 1) =
        IF IsPermittedExecutionTime(offset) THEN offset
        ELSE NextWindowStart(offset, PermittedWindows[1])
  BY <1>1 DEF FixedTime
<1>5. ASSUME ~IsPermittedExecutionTime(f)
      PROVE  NextWindowStart(offset, PermittedWindows[1]) = StartOfIstDay(f) + 86400 * k + 86400
  <2>1. PermittedWindows[1].start = 0 /\ PermittedWindows[1].end = 36000
    BY DEF PermittedWindows, Hour
  <2>2. SecondOfDay(f) > 0
    <3>1. SecondOfDay(f) \in Nat
      BY DEF SecondOfDay, Day, Hour
    <3>2. ~Within(f, PermittedWindows[1])
      BY <1>5 DEF IsPermittedExecutionTime
    <3>. QED  BY <2>1, <3>1, <3>2 DEF Within
  <2>3. StartOfIstDay(offset) \in Nat /\ StartOfIstDay(offset) < offset
    BY <1>2, <2>2 DEF StartOfIstDay, SecondOfDay, Day, Hour
  <2>. QED  BY <1>2, <2>1, <2>3 DEF NextWindowStart, Day, Hour
<1>. QED  BY <1>3, <1>4, <1>5

\* The three retries: in a window, a day apart, the first at least a day after
\* the failure.
LEMMA FixedSchedule ==
  ASSUME firstFailure.at \in Nat
  PROVE  /\ \A n \in 2..4 : FixedTime(n) \in Nat /\ IsPermittedExecutionTime(FixedTime(n))
         /\ firstFailure.at + 86400 <= FixedTime(2)
         /\ FixedTime(3) = FixedTime(2) + 86400
         /\ FixedTime(4) = FixedTime(3) + 86400
<1>. DEFINE f == firstFailure.at
            m == StartOfIstDay(f)
<1>0. m \in Nat /\ m <= f /\ f < m + 86400 /\ SecondOfDay(m) = 0
  BY MidnightType DEF StartOfIstDay, SecondOfDay, Day, Hour
<1>1. CASE IsPermittedExecutionTime(f)
  <2>1. \A k \in 1..3 : FixedTime(k + 1) = f + 86400 * k
    BY <1>1, FixedShape
  <2>2. \A k \in 1..3 : IsPermittedExecutionTime(f + 86400 * k)
    BY <1>1, SameSecond DEF IsPermittedExecutionTime, Within
  <2>3. \A n \in 2..4 : \E k \in 1..3 : n = k + 1
    OBVIOUS
  <2>4. FixedTime(2) = f + 86400 /\ FixedTime(3) = f + 172800 /\ FixedTime(4) = f + 259200
    BY <2>1
  <2>. QED  BY <2>1, <2>2, <2>3, <2>4
<1>2. CASE ~IsPermittedExecutionTime(f)
  <2>1. \A k \in 1..3 : FixedTime(k + 1) = m + 86400 * (k + 1)
    BY <1>0, <1>2, FixedShape
  <2>2. \A k \in 1..3 : IsPermittedExecutionTime(m + 86400 * (k + 1))
    <3>1. ASSUME NEW k \in 1..3  PROVE SecondOfDay(m + 86400 * (k + 1)) = 0
      BY <1>0, SameSecond
    <3>2. \A k \in 1..3 : Within(m + 86400 * (k + 1), PermittedWindows[1])
      BY <3>1 DEF Within, PermittedWindows, Hour
    <3>. QED  BY <3>2 DEF IsPermittedExecutionTime
  <2>3. \A n \in 2..4 : \E k \in 1..3 : n = k + 1
    OBVIOUS
  <2>4. FixedTime(2) = m + 172800 /\ FixedTime(3) = m + 259200 /\ FixedTime(4) = m + 345600
    BY <2>1
  <2>. QED  BY <1>0, <2>1, <2>2, <2>3, <2>4
<1>. QED  BY <1>1, <1>2

-----------------------------------------------------------------------------
(* The invariant *)

RetryType == [number: Nat, at: Nat, outcome: {"success", "failed"}]
PostedType == [type: InterventionType, at: Int, attempt: Nat]

TellType(outcome) ==
  IF outcome = "success" THEN "post_debit_confirmation" ELSE "source_aware_failure_notice"

\* A notice of this type about retry n was given this time.
Posted(type, n, at) ==
  \E i \in DOMAIN notices :
    notices[i].type = type /\ notices[i].attempt = n /\ notices[i].at = at

\* The books both strategies keep alike.
BooksInv ==
  /\ strategy \in {"B1", "B2"}
  /\ firstFailure.at \in Nat
  /\ attempts \in Seq(RetryType)
  /\ Len(attempts) \in 1..4
  /\ \A i \in 1..Len(attempts) : attempts[i].number = i
  /\ attempts[1].at = firstFailure.at
  /\ notices \in Seq(PostedType)

\* B1 retries hourly and tells nobody.
HourlyInv ==
  strategy = "B1" =>
    /\ notices = << >>
    /\ \A i \in 2..Len(attempts) : attempts[i].at = attempts[i - 1].at + Hour

\* B2 keeps to its schedule, and its notices go with its retries one to one.
FixedInv ==
  strategy = "B2" =>
    /\ \A n \in 2..Len(attempts) :
         /\ attempts[n].at = FixedTime(n)
         /\ Posted("pre_debit_notice", n, FixedTime(n) - 86400)
         /\ Posted(TellType(attempts[n].outcome), n, FixedTime(n))
    /\ \A i \in DOMAIN notices :
         notices[i].type = "pre_debit_notice" =>
           /\ notices[i].attempt \in 2..Len(attempts)
           /\ notices[i].at = FixedTime(notices[i].attempt) - 86400

BaselineInv == BooksInv /\ HourlyInv /\ FixedInv

LEMMA BaselineInit == ASSUME Init  PROVE BaselineInv
<1>1. firstFailure.at \in Nat
  BY FailuresAssumption DEF Init
<1>2. attempts = << [number |-> 1, at |-> firstFailure.at, outcome |-> "failed"] >>
      /\ notices = << >> /\ strategy \in {"B1", "B2"}
  BY DEF Init
<1>3. /\ attempts \in Seq(RetryType) /\ Len(attempts) = 1
      /\ attempts[1].number = 1 /\ attempts[1].at = firstFailure.at
  BY <1>1, <1>2 DEF RetryType
<1>4. 2..Len(attempts) = {} /\ DOMAIN notices = {} /\ notices \in Seq(PostedType)
  BY <1>2, <1>3
<1>5. \A i \in 1..Len(attempts) : attempts[i].number = i
  BY <1>3
<1>. QED  BY <1>1, <1>2, <1>3, <1>4, <1>5 DEF BaselineInv, BooksInv, HourlyInv, FixedInv

LEMMA Appended ==
  ASSUME NEW S, NEW s \in Seq(S), NEW e \in S
  PROVE  /\ Append(s, e) \in Seq(S)
         /\ Len(Append(s, e)) = Len(s) + 1
         /\ \A i \in 1..Len(s) : Append(s, e)[i] = s[i]
         /\ Append(s, e)[Len(s) + 1] = e
OBVIOUS

\* The books after a retry.
LEMMA RetryStep ==
  ASSUME BooksInv, NEW at \in Nat, NEW outcome \in {"success", "failed"}, Retry(at, outcome)
  PROVE  /\ attempts' \in Seq(RetryType)
         /\ Len(attempts) \in 1..3 /\ Len(attempts') = Len(attempts) + 1
         /\ \A i \in 1..Len(attempts) : attempts'[i] = attempts[i]
         /\ attempts'[Len(attempts) + 1].at = at
         /\ attempts'[Len(attempts) + 1].outcome = outcome
         /\ \A i \in 1..Len(attempts') : attempts'[i].number = i
         /\ attempts'[1].at = firstFailure'.at
         /\ UNCHANGED <<strategy, firstFailure>>
<1>. DEFINE e == [number |-> Len(attempts) + 1, at |-> at, outcome |-> outcome]
            l == Len(attempts)
<1>1. l \in 1..3 /\ l \in Nat
  BY DEF Retry, BooksInv, MaxExecutionAttemptsTotal
<1>2. e \in RetryType /\ attempts' = Append(attempts, e)
  BY <1>1 DEF Retry, NextNumber, RetryType
<1>3. e.number = l + 1 /\ e.at = at /\ e.outcome = outcome
  OBVIOUS
<1>. HIDE DEF e
<1>4. /\ attempts' \in Seq(RetryType)
      /\ Len(attempts') = l + 1
      /\ \A i \in 1..l : attempts'[i] = attempts[i]
      /\ attempts'[l + 1] = e
  BY <1>2, Appended DEF BooksInv
<1>5. \A i \in 1..(l + 1) : i \in 1..l \/ i = l + 1
  BY <1>1
<1>6. \A i \in 1..Len(attempts') : attempts'[i].number = i
  BY <1>3, <1>4, <1>5 DEF BooksInv
<1>7. UNCHANGED <<strategy, firstFailure>>
  BY DEF Retry, arguments
<1>8. attempts'[1] = attempts[1]
  BY <1>1, <1>4
<1>. QED  BY <1>1, <1>3, <1>4, <1>6, <1>7, <1>8 DEF BooksInv

LEMMA NaiveStep ==
  ASSUME BaselineInv, NEW outcome \in {"success", "failed"}, NaiveRetry(outcome)
  PROVE  BaselineInv'
<1>. DEFINE l == Len(attempts)
            due == attempts[l].at + Hour
<1>1. strategy = "B1" /\ Retry(due, outcome) /\ notices' = notices /\ BooksInv /\ HourlyInv
  BY DEF NaiveRetry, BaselineInv
<1>2. due \in Nat
  <2>1. attempts[l] \in RetryType
    BY <1>1 DEF BooksInv
  <2>. QED  BY <2>1 DEF RetryType, Hour
<1>3. /\ attempts' \in Seq(RetryType)
      /\ l \in 1..3 /\ Len(attempts') = l + 1
      /\ \A i \in 1..l : attempts'[i] = attempts[i]
      /\ attempts'[l + 1].at = due
      /\ \A i \in 1..Len(attempts') : attempts'[i].number = i
      /\ attempts'[1].at = firstFailure'.at
      /\ UNCHANGED <<strategy, firstFailure>>
  <2>. HIDE DEF due
  <2>. QED  BY <1>1, <1>2, RetryStep
<1>4. BooksInv'
  <2>1. Len(attempts') \in 1..4
    BY <1>3
  <2>. QED  BY <1>1, <1>3, <2>1 DEF BooksInv
<1>5. HourlyInv'
  <2>1. ASSUME NEW i \in 2..(l + 1)  PROVE attempts'[i].at = attempts'[i - 1].at + Hour
    <3>1. CASE i = l + 1
      <4>1. i - 1 = l /\ l \in 1..l
        BY <1>3, <3>1
      <4>. QED  BY <1>3, <3>1, <4>1
    <3>2. CASE i # l + 1
      <4>1. i \in 2..l /\ i \in 1..l /\ i - 1 \in 1..l
        BY <1>3, <2>1, <3>2
      <4>. QED  BY <1>1, <1>3, <4>1 DEF HourlyInv
    <3>. QED  BY <3>1, <3>2
  <2>. QED  BY <1>1, <1>3, <2>1 DEF HourlyInv
<1>6. FixedInv'
  BY <1>1, <1>3 DEF FixedInv
<1>. QED  BY <1>4, <1>5, <1>6 DEF BaselineInv

\* Two more notices at the end of the list.
LEMMA TwoMore ==
  ASSUME NEW S, NEW s \in Seq(S), NEW a \in S, NEW b \in S
  PROVE  /\ s \o << a, b >> \in Seq(S)
         /\ Len(s \o << a, b >>) = Len(s) + 2
         /\ \A i \in 1..Len(s) : (s \o << a, b >>)[i] = s[i]
         /\ (s \o << a, b >>)[Len(s) + 1] = a
         /\ (s \o << a, b >>)[Len(s) + 2] = b
         /\ DOMAIN (s \o << a, b >>) = 1..(Len(s) + 2)
         /\ Len(s) \in Nat /\ DOMAIN s = 1..Len(s)
OBVIOUS

LEMMA ScheduledStep ==
  ASSUME BaselineInv, NEW outcome \in {"success", "failed"}, ScheduledRetry(outcome)
  PROVE  BaselineInv'
<1>. DEFINE l == Len(attempts)
            k == Len(notices)
            due == FixedTime(l + 1)
            before == [type |-> "pre_debit_notice", at |-> due - 86400, attempt |-> l + 1]
            after == [type |-> TellType(outcome), at |-> due, attempt |-> l + 1]
<1>1. /\ strategy = "B2" /\ Retry(due, outcome)
      /\ BooksInv /\ FixedInv /\ firstFailure.at \in Nat
  BY DEF ScheduledRetry, NextNumber, BaselineInv, BooksInv
<1>2. l \in 1..3 /\ due \in Nat
  <2>1. l \in 1..4 /\ l < 4
    BY <1>1, Zenon DEF BooksInv, Retry, MaxExecutionAttemptsTotal
  <2>. HIDE DEF l
  <2>2. l \in 1..3 /\ l + 1 \in 2..4
    BY <2>1
  <2>. QED  BY <1>1, <2>2, FixedSchedule
<1>3. notices' = notices \o << before, after >>
  BY DEF ScheduledRetry, FixedNotices, Notice, NextNumber, TellType, PreDebitNotificationHours, Hour
<1>4. /\ before \in PostedType /\ after \in PostedType
      /\ before.type = "pre_debit_notice" /\ before.at = due - 86400 /\ before.attempt = l + 1
      /\ after.type = TellType(outcome) /\ after.at = due /\ after.attempt = l + 1
      /\ after.type # "pre_debit_notice"
  <2>1. TellType(outcome) \in InterventionType /\ "pre_debit_notice" \in InterventionType
        /\ TellType(outcome) # "pre_debit_notice"
    BY DEF TellType, InterventionType
  <2>2. l + 1 \in Nat /\ due - 86400 \in Int
    BY <1>1, <1>2
  <2>. HIDE DEF due
  <2>. QED  BY <1>2, <2>1, <2>2 DEF PostedType
<1>5. /\ attempts' \in Seq(RetryType)
      /\ Len(attempts') = l + 1
      /\ \A i \in 1..l : attempts'[i] = attempts[i]
      /\ attempts'[l + 1].at = due /\ attempts'[l + 1].outcome = outcome
      /\ \A i \in 1..Len(attempts') : attempts'[i].number = i
      /\ attempts'[1].at = firstFailure'.at
      /\ UNCHANGED <<strategy, firstFailure>>
  <2>. HIDE DEF due
  <2>. QED  BY <1>1, <1>2, RetryStep
<1>. HIDE DEF before, after
<1>6. /\ notices' \in Seq(PostedType)
      /\ k \in Nat /\ DOMAIN notices = 1..k /\ DOMAIN notices' = 1..(k + 2)
      /\ \A i \in 1..k : notices'[i] = notices[i]
      /\ notices'[k + 1] = before /\ notices'[k + 2] = after
  BY <1>1, <1>3, <1>4, TwoMore DEF BooksInv
<1>7. \A n : FixedTime(n)' = FixedTime(n)
  BY <1>5 DEF FixedTime
<1>8. BooksInv'
  <2>1. Len(attempts') \in 1..4
    BY <1>2, <1>5
  <2>. QED  BY <1>1, <1>5, <1>6, <2>1 DEF BooksInv
<1>9. ASSUME NEW n \in 2..(l + 1)
      PROVE  /\ attempts'[n].at = FixedTime(n)
             /\ Posted("pre_debit_notice", n, FixedTime(n) - 86400)'
             /\ Posted(TellType(attempts[n].outcome), n, FixedTime(n))'
  <2>1. CASE n = l + 1
    <3>1. k + 1 \in 1..(k + 2) /\ k + 2 \in 1..(k + 2)
      BY <1>6
    <3>2. due = FixedTime(n)
      BY <2>1
    <3>. HIDE DEF due
    <3>3. /\ k + 1 \in DOMAIN notices' /\ notices'[k + 1].type = "pre_debit_notice"
          /\ notices'[k + 1].attempt = n /\ notices'[k + 1].at = FixedTime(n) - 86400
      BY <1>4, <1>6, <2>1, <3>1, <3>2
    <3>4. /\ k + 2 \in DOMAIN notices' /\ notices'[k + 2].type = TellType(attempts'[n].outcome)
          /\ notices'[k + 2].attempt = n /\ notices'[k + 2].at = FixedTime(n)
      BY <1>4, <1>5, <1>6, <2>1, <3>1, <3>2
    <3>5. attempts'[n].at = FixedTime(n)
      BY <1>5, <2>1, <3>2
    <3>. QED  BY <1>7, <3>3, <3>4, <3>5 DEF Posted
  <2>2. CASE n # l + 1
    <3>1. n \in 2..l /\ n \in 1..l
      BY <1>1, <1>9, <2>2
    <3>2. /\ attempts[n].at = FixedTime(n)
          /\ Posted("pre_debit_notice", n, FixedTime(n) - 86400)
          /\ Posted(TellType(attempts[n].outcome), n, FixedTime(n))
      BY <1>1, <3>1 DEF FixedInv
    <3>3. \A type, at : Posted(type, n, at) => \E i \in DOMAIN notices' :
            notices'[i].type = type /\ notices'[i].attempt = n /\ notices'[i].at = at
      <4>1. \A i \in 1..k : i \in 1..(k + 2)
        BY <1>6
      <4>. QED  BY <1>6, <4>1 DEF Posted
    <3>4. attempts'[n] = attempts[n]
      BY <1>5, <3>1
    <3>5. attempts'[n].at = FixedTime(n)
      BY <3>2, <3>4
    <3>6. \E i \in DOMAIN notices' : /\ notices'[i].type = "pre_debit_notice"
                                     /\ notices'[i].attempt = n
                                     /\ notices'[i].at = FixedTime(n) - 86400
      BY <3>2, <3>3
    <3>7. \E i \in DOMAIN notices' : /\ notices'[i].type = TellType(attempts'[n].outcome)
                                     /\ notices'[i].attempt = n
                                     /\ notices'[i].at = FixedTime(n)
      BY <3>2, <3>3, <3>4
    <3>. QED  BY <1>7, <3>5, <3>6, <3>7 DEF Posted
  <2>. QED  BY <2>1, <2>2
<1>10. ASSUME NEW i \in DOMAIN notices', notices'[i].type = "pre_debit_notice"
       PROVE  /\ notices'[i].attempt \in 2..(l + 1)
              /\ notices'[i].at = FixedTime(notices'[i].attempt) - 86400
  <2>1. i \in 1..k \/ i = k + 1 \/ i = k + 2
    BY <1>6, <1>10
  <2>2. CASE i \in 1..k
    <3>1. /\ notices[i].attempt \in 2..l
          /\ notices[i].at = FixedTime(notices[i].attempt) - 86400
      BY <1>1, <1>6, <1>10, <2>2 DEF FixedInv
    <3>2. \A n \in 2..l : n \in 2..(l + 1)
      BY <1>1
    <3>. QED  BY <1>6, <2>2, <3>1, <3>2
  <2>3. CASE i = k + 1
    <3>1. l + 1 \in 2..(l + 1)
      BY <1>2
    <3>2. before.at = FixedTime(l + 1) - 86400
      BY <1>4
    <3>. QED  BY <1>4, <1>6, <2>3, <3>1, <3>2
  <2>4. CASE i = k + 2
    BY <1>4, <1>6, <1>10, <2>4
  <2>. QED  BY <2>1, <2>2, <2>3, <2>4
<1>11. HourlyInv'
  BY <1>1, <1>5 DEF HourlyInv
<1>12. FixedInv'
  BY <1>5, <1>7, <1>9, <1>10 DEF FixedInv
<1>. QED  BY <1>8, <1>11, <1>12 DEF BaselineInv

LEMMA BaselineStep == BaselineInv /\ [Next]_vars => BaselineInv'
<1>. SUFFICES ASSUME BaselineInv, [Next]_vars  PROVE BaselineInv'
  OBVIOUS
<1>1. CASE \E outcome \in {"success", "failed"} : NaiveRetry(outcome) \/ ScheduledRetry(outcome)
  BY <1>1, NaiveStep, ScheduledStep
<1>2. CASE Halt \/ UNCHANGED vars
  <2>1. UNCHANGED <<strategy, firstFailure, attempts, notices>>
    BY <1>2 DEF Halt, arguments, vars
  <2>. QED  BY <2>1 DEF BaselineInv, BooksInv, HourlyInv, FixedInv, FixedTime, Posted
<1>. QED  BY <1>1, <1>2 DEF Next

LEMMA BaselineInvariance == Spec => []BaselineInv
<1>1. Init => BaselineInv
  BY BaselineInit
<1>. QED  BY <1>1, BaselineStep, PTL DEF Spec

-----------------------------------------------------------------------------
(* The theorems *)

LEMMA LaterRecord ==
  ASSUME BooksInv, NEW i \in 2..Len(attempts)
  PROVE  /\ attempts[i - 1].at \in Nat /\ attempts[i].at \in Nat
         /\ i \in 2..4 /\ i - 1 \in 1..Len(attempts) /\ i \in 1..Len(attempts)
<1>1. i - 1 \in 1..Len(attempts) /\ i \in 1..Len(attempts) /\ i \in 2..4
  BY DEF BooksInv
<1>2. attempts[i - 1] \in RetryType /\ attempts[i] \in RetryType
  BY <1>1 DEF BooksInv
<1>. QED  BY <1>1, <1>2 DEF RetryType

\* The schedule runs ahead of the failures: each retry is at least a day after
\* the attempt before it.
LEMMA ADayApart ==
  ASSUME BaselineInv, strategy = "B2", NEW i \in 2..Len(attempts)
  PROVE  attempts[i - 1].at + 86400 <= attempts[i].at
<1>1. /\ firstFailure.at \in Nat /\ attempts[1].at = firstFailure.at
      /\ \A n \in 2..Len(attempts) : attempts[n].at = FixedTime(n)
      /\ i \in 2..4 /\ Len(attempts) \in Nat
  BY LaterRecord DEF BaselineInv, BooksInv, FixedInv
<1>2. CASE i = 2
  BY <1>1, <1>2, FixedSchedule
<1>3. CASE i # 2
  <2>1. i - 1 \in 2..Len(attempts) /\ (i = 3 \/ i = 4)
    BY <1>1, <1>3
  <2>2. attempts[i - 1].at = FixedTime(i - 1) /\ attempts[i].at = FixedTime(i)
    BY <1>1, <2>1
  <2>3. FixedTime(3) \in Nat /\ FixedTime(4) \in Nat
    BY <1>1, FixedSchedule
  <2>. QED  BY <1>1, <2>1, <2>2, <2>3, FixedSchedule
<1>. QED  BY <1>2, <1>3

\* Wherever in the day the first failure falls, the retries of both strategies
\* come in order, and no pre-debit notice of the fixed schedule precedes the
\* failure that calls for it.
THEOREM ScheduleCorrect == Spec => []AnnouncedAfterFailure
<1>1. ASSUME BaselineInv  PROVE AnnouncedAfterFailure
  <2>1. ASSUME NEW i \in 2..Len(attempts)  PROVE attempts[i - 1].at < attempts[i].at
    <3>1. attempts[i - 1].at \in Nat /\ attempts[i].at \in Nat
      BY <1>1, LaterRecord DEF BaselineInv
    <3>2. CASE strategy = "B1"
      <4>1. attempts[i].at = attempts[i - 1].at + Hour
        BY <1>1, <3>2 DEF BaselineInv, HourlyInv
      <4>. QED  BY <3>1, <4>1 DEF Hour
    <3>3. CASE strategy = "B2"
      BY <1>1, <3>1, <3>3, ADayApart
    <3>. QED  BY <1>1, <3>2, <3>3 DEF BaselineInv, BooksInv
  <2>2. ASSUME NEW n \in DOMAIN notices, notices[n].type = "pre_debit_notice"
        PROVE  notices[n].at >= attempts[notices[n].attempt - 1].at
    <3>1. strategy = "B2"
      <4>1. DOMAIN << >> = {}
        OBVIOUS
      <4>2. strategy = "B1" => notices = << >>
        BY <1>1 DEF BaselineInv, HourlyInv
      <4>. QED  BY <1>1, <2>2, <4>1, <4>2 DEF BaselineInv, BooksInv
    <3>2. PICK i \in 2..Len(attempts) : i = notices[n].attempt /\ notices[n].at = FixedTime(i) - 86400
      BY <1>1, <2>2, <3>1 DEF BaselineInv, FixedInv
    <3>3. attempts[i].at = FixedTime(i)
      BY <1>1, <3>1, <3>2 DEF BaselineInv, FixedInv
    <3>4. attempts[i - 1].at + 86400 <= attempts[i].at
      BY <1>1, <3>1, <3>2, ADayApart
    <3>5. attempts[i - 1].at \in Nat /\ attempts[i].at \in Nat
      BY <1>1, <3>2, LaterRecord DEF BaselineInv
    <3>6. FixedTime(i) - 86400 >= attempts[i - 1].at
      BY <3>3, <3>4, <3>5
    <3>. QED  BY <3>2, <3>6
  <2>. QED  BY <2>1, <2>2 DEF AnnouncedAfterFailure
<1>. QED  BY <1>1, BaselineInvariance, PTL

\* Record k of what is graded is attempt k + 1.
LEMMA GradedRecords ==
  ASSUME BooksInv
  PROVE  /\ Len(Graded(attempts)) <= 3
         /\ \A k \in DOMAIN Graded(attempts) :
              /\ k + 1 \in 2..Len(attempts)
              /\ Graded(attempts)[k] = attempts[k + 1]
              /\ attempts[k + 1].number = k + 1
<1>1. attempts \in Seq(RetryType) /\ Len(attempts) \in Nat /\ Len(attempts) >= 1 /\ Len(attempts) <= 4
  BY DEF BooksInv
<1>2. \A i \in 2..Len(attempts) : attempts[i] \in RetryType
  BY <1>1
<1>3. /\ Len(Graded(attempts)) = IF 2 <= Len(attempts) THEN Len(attempts) - 2 + 1 ELSE 0
      /\ Graded(attempts) \in Seq(RetryType)
      /\ \A k \in 1..Len(Graded(attempts)) : Graded(attempts)[k] = attempts[2 + k - 1]
  BY <1>1, <1>2, SubSeqProperties DEF Graded
<1>4. Len(Graded(attempts)) <= 3
  BY <1>1, <1>3
<1>5. ASSUME NEW k \in DOMAIN Graded(attempts)
      PROVE  k + 1 \in 2..Len(attempts) /\ Graded(attempts)[k] = attempts[k + 1]
  <2>1. k \in 1..Len(Graded(attempts))
    BY <1>3
  <2>. QED  BY <1>1, <1>3, <2>1
<1>6. \A k \in DOMAIN Graded(attempts) : attempts[k + 1].number = k + 1
  BY <1>1, <1>5 DEF BooksInv
<1>. QED  BY <1>4, <1>5, <1>6

\* The fixed schedule breaks none of the rules about times and notices.
LEMMA FixedIsGraded ==
  ASSUME BaselineInv, strategy = "B2"
  PROVE  /\ ~PeakExecution(Graded(attempts))
         /\ ~MissingPreDebitNotice(Graded(attempts), notices, mandate)
         /\ ~MissingPostDebitNotice(Graded(attempts), notices)
<1>. DEFINE graded == Graded(attempts)
<1>1. BooksInv /\ FixedInv /\ firstFailure.at \in Nat
  BY DEF BaselineInv, BooksInv
<1>2. ASSUME NEW k \in DOMAIN graded
      PROVE  /\ graded[k].number = k + 1 /\ graded[k] = attempts[k + 1]
             /\ k + 1 \in 2..4 /\ k + 1 \in 2..Len(attempts)
             /\ graded[k].at = FixedTime(k + 1) /\ FixedTime(k + 1) \in Nat
             /\ IsPermittedExecutionTime(FixedTime(k + 1))
  <2>1. k + 1 \in 2..Len(attempts) /\ graded[k] = attempts[k + 1] /\ attempts[k + 1].number = k + 1
    BY <1>1, <1>2, GradedRecords
  <2>2. k + 1 \in 2..4
    BY <1>1, <2>1, LaterRecord
  <2>3. attempts[k + 1].at = FixedTime(k + 1)
    BY <1>1, <2>1 DEF FixedInv
  <2>. QED  BY <1>1, <2>1, <2>2, <2>3, FixedSchedule
<1>. HIDE DEF graded
<1>3. ~PeakExecution(graded)
  <2>1. \A k \in DOMAIN graded : ~IsPeakHour(graded[k].at)
    BY <1>2, PermittedIsOffPeak
  <2>. QED  BY <2>1 DEF PeakExecution, Indices
<1>4. ~MissingPreDebitNotice(graded, notices, mandate)
  <2>1. ASSUME NEW k \in DOMAIN graded
        PROVE  \E n \in DOMAIN notices :
                 /\ notices[n].type = "pre_debit_notice"
                 /\ notices[n].attempt = graded[k].number
                 /\ graded[k].at - notices[n].at >= PreDebitNotificationHours * Hour
    <3>1. PICK n \in DOMAIN notices :
            /\ notices[n].type = "pre_debit_notice" /\ notices[n].attempt = k + 1
            /\ notices[n].at = FixedTime(k + 1) - 86400
      BY <1>1, <1>2 DEF FixedInv, Posted
    <3>2. graded[k].at - notices[n].at >= PreDebitNotificationHours * Hour
      BY <1>2, <3>1 DEF PreDebitNotificationHours, Hour
    <3>. QED  BY <1>2, <3>1, <3>2
  <2>. QED  BY <2>1 DEF MissingPreDebitNotice, Indices
<1>5. ~MissingPostDebitNotice(graded, notices)
  <2>1. ASSUME NEW k \in DOMAIN graded
        PROVE  \E n \in DOMAIN notices :
                 /\ notices[n].type \in {"post_debit_confirmation", "source_aware_failure_notice"}
                 /\ notices[n].attempt = graded[k].number
                 /\ notices[n].at >= graded[k].at
    <3>1. Posted(TellType(attempts[k + 1].outcome), k + 1, FixedTime(k + 1))
      BY <1>1, <1>2 DEF FixedInv
    <3>2. PICK n \in DOMAIN notices :
            /\ notices[n].type = TellType(attempts[k + 1].outcome)
            /\ notices[n].attempt = k + 1 /\ notices[n].at = FixedTime(k + 1)
      BY <3>1 DEF Posted
    <3>3. notices[n].at >= graded[k].at
      BY <1>2, <3>2
    <3>. QED  BY <1>2, <3>2, <3>3 DEF TellType
  <2>. QED  BY <2>1 DEF MissingPostDebitNotice, Indices
<1>. QED  BY <1>3, <1>4, <1>5 DEF graded

\* Neither strategy exceeds the cap, the fixed schedule never debits at a peak,
\* unannounced or untold, and the hourly one contacts nobody.
THEOREM FaultsKnown == Spec => []KnownFaults
<1>1. ASSUME BaselineInv  PROVE KnownFaults
  <2>. DEFINE graded == Graded(attempts)
              found == Violations(graded, notices, mandate, firstFailure, FALSE)
  <2>1. ~TooManyAttempts(graded)
    <3>1. Len(graded) <= 3
      BY <1>1, GradedRecords DEF BaselineInv
    <3>2. Len(graded) \in Nat
      <4>1. attempts \in Seq(RetryType) /\ Len(attempts) \in 1..4
        BY <1>1 DEF BaselineInv, BooksInv
      <4>. QED  BY <4>1 DEF Graded
    <3>. QED  BY <3>1, <3>2 DEF TooManyAttempts, MaxExecutionAttemptsTotal
  <2>2. "INV-02" \notin found
    BY <2>1 DEF Violations
  <2>3. CASE strategy = "B1"
    <3>1. notices = << >> /\ DOMAIN << >> = {}
      BY <1>1, <2>3 DEF BaselineInv, HourlyInv
    <3>2. ~ContactAfterOptOut(notices, mandate)
      BY <3>1 DEF ContactAfterOptOut, Indices
    <3>3. "INV-08" \notin found
      BY <3>2 DEF Violations
    <3>4. found \subseteq {"INV-01", "INV-03", "INV-06", "INV-07", "INV-14"}
      BY <2>2, <3>3 DEF Violations
    <3>. QED  BY <2>3, <3>4 DEF KnownFaults
  <2>4. CASE strategy = "B2"
    <3>1. /\ ~PeakExecution(graded)
          /\ ~MissingPreDebitNotice(graded, notices, mandate)
          /\ ~MissingPostDebitNotice(graded, notices)
      BY <1>1, <2>4, FixedIsGraded
    <3>2. found \subseteq {"INV-03", "INV-08", "INV-14"}
      BY <2>2, <3>1 DEF Violations
    <3>. QED  BY <2>4, <3>2 DEF KnownFaults
  <2>. QED  BY <1>1, <2>3, <2>4 DEF BaselineInv, BooksInv
<1>. QED  BY <1>1, BaselineInvariance, PTL
=============================================================================

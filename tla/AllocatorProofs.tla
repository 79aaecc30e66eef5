-------------------------- MODULE AllocatorProofs --------------------------
(***************************************************************************)
(* What the allocator promises for every mandate hash, every instant and   *)
(* every setting of the heuristics: its proposal is legal, not early and   *)
(* not far away.  The argument is about slots alone, since the score only  *)
(* picks among the candidates:                                             *)
(*   - slots 4, 5, 6, ... (from 13:00 of the day after the earliest legal  *)
(*     time) are always legal, so there are always candidates and the      *)
(*     fallback of propose_next_attempt is dead code;                      *)
(*   - for the same reason the sixth candidate is at most slot 9, three    *)
(*     days away.                                                          *)
(***************************************************************************)
EXTENDS Allocator, FiniteSetTheorems, TLAPS

-----------------------------------------------------------------------------
(* Clock arithmetic *)

\* The IST midnight of an instant is a whole number of days.
LEMMA MidnightType ==
  ASSUME NEW t \in Nat
  PROVE  /\ IstDay(t) \in Nat
         /\ StartOfIstDay(t) = 86400 * IstDay(t)
         /\ StartOfIstDay(t) <= t
         /\ t < StartOfIstDay(t) + 86400
BY DEF StartOfIstDay, SecondOfDay, IstDay, Day, Hour

\* The second of the day of an instant given as midnight plus an offset.
LEMMA OffsetFromMidnight ==
  ASSUME NEW day \in Nat, NEW x \in Nat, x < 86400
  PROVE  SecondOfDay(86400 * day + x) = x
BY DEF SecondOfDay, Day, Hour

\* timeutils: the permitted windows and the peak windows do not overlap.
LEMMA PermittedIsOffPeak ==
  ASSUME NEW t \in Int, IsPermittedExecutionTime(t)
  PROVE  ~IsPeakHour(t)
BY DEF IsPermittedExecutionTime, IsPeakHour, Within, SecondOfDay, PermittedWindows,
       PeakWindows, Day, Hour

-----------------------------------------------------------------------------
(* Slots *)

\* A slot lies in one permitted window of a day at most ten days ahead.
LEMMA SlotShape ==
  ASSUME NEW earliest \in Nat, NEW k \in SlotIds
  PROVE  /\ IstDay(earliest) \in Nat
         /\ k \div 3 \in 0..10
         /\ SlotDay(earliest, k) = 86400 * (IstDay(earliest) + k \div 3)
         /\ \/ k % 3 = 0 /\ SlotWindow(k) = [start |-> 0, end |-> 36000]
            \/ k % 3 = 1 /\ SlotWindow(k) = [start |-> 46800, end |-> 61200]
            \/ k % 3 = 2 /\ SlotWindow(k) = [start |-> 77400, end |-> 86400]
<1>1. k \div 3 \in 0..10 /\ k % 3 \in {0, 1, 2}
  BY DEF SlotIds
<1>2. IstDay(earliest) \in Nat /\ StartOfIstDay(earliest) = 86400 * IstDay(earliest)
  BY MidnightType
<1>3. SlotDay(earliest, k) = 86400 * (IstDay(earliest) + k \div 3)
  BY <1>1, <1>2 DEF SlotDay, Day, Hour
<1>4. \/ k % 3 = 0 /\ SlotWindow(k) = [start |-> 0, end |-> 36000]
      \/ k % 3 = 1 /\ SlotWindow(k) = [start |-> 46800, end |-> 61200]
      \/ k % 3 = 2 /\ SlotWindow(k) = [start |-> 77400, end |-> 86400]
  BY <1>1 DEF SlotWindow, PermittedWindows, Hour
<1>. QED  BY <1>1, <1>2, <1>3, <1>4

\* _jitter_seconds stays in the middle 80% of the window.
LEMMA JitterBounds ==
  ASSUME NEW hash \in Nat, NEW span \in {36000, 14400, 9000}
  PROVE  /\ Jitter(hash, span) \in Nat
         /\ span \div 10 <= Jitter(hash, span)
         /\ Jitter(hash, span) < span - span \div 10
BY DEF Jitter

\* The time proposed in a slot is a time, never before the earliest legal one,
\* and, in a legal slot, inside the slot's window.
LEMMA ProposedInSlot ==
  ASSUME NEW hash \in Nat, NEW earliest \in Nat, NEW k \in SlotIds
  PROVE  /\ ProposedTime(hash, earliest, k) \in Nat
         /\ earliest <= ProposedTime(hash, earliest, k)
         /\ SlotStart(earliest, k) < ProposedTime(hash, earliest, k)
         /\ SlotStart(earliest, k) + Jitter(hash, Span(k)) < SlotEnd(earliest, k)
         /\ ProposedTime(hash, earliest, k) < SlotEnd(earliest, k)
              => IsPermittedExecutionTime(ProposedTime(hash, earliest, k))
<1>. DEFINE day == IstDay(earliest) + k \div 3
            m == 86400 * day
            j == Jitter(hash, Span(k))
            p == ProposedTime(hash, earliest, k)
<1>1. /\ day \in Nat
      /\ SlotDay(earliest, k) = m
      /\ \/ SlotWindow(k) = [start |-> 0, end |-> 36000]
         \/ SlotWindow(k) = [start |-> 46800, end |-> 61200]
         \/ SlotWindow(k) = [start |-> 77400, end |-> 86400]
  BY SlotShape
<1>2. Span(k) \in {36000, 14400, 9000}
  BY <1>1 DEF Span
<1>3. j \in Nat /\ 0 < j /\ j < Span(k)
  BY <1>2, JitterBounds
<1>4. /\ SlotStart(earliest, k) = m + SlotWindow(k).start
      /\ SlotEnd(earliest, k) = m + SlotWindow(k).end
      /\ Span(k) = SlotWindow(k).end - SlotWindow(k).start
  BY <1>1 DEF SlotStart, SlotEnd, Span
<1>5. m \in Nat
  BY <1>1
<1>. HIDE DEF day, m, j
<1>6. p = IF m + SlotWindow(k).start + j >= earliest
          THEN m + SlotWindow(k).start + j ELSE earliest
  BY <1>4 DEF ProposedTime, LaterOf, j
<1>7. p \in Nat /\ earliest <= p /\ SlotStart(earliest, k) < p
  <2>. HIDE DEF p
  <2>. QED  BY <1>1, <1>3, <1>4, <1>5, <1>6
<1>8. SlotStart(earliest, k) + j < SlotEnd(earliest, k)
  BY <1>1, <1>3, <1>4, <1>5
<1>9. ASSUME p < SlotEnd(earliest, k)  PROVE IsPermittedExecutionTime(p)
  <2>. DEFINE x == p - m
  <2>. HIDE DEF p
  <2>1. x \in Nat /\ x < 86400 /\ p = m + x
    BY <1>1, <1>4, <1>5, <1>7, <1>9
  <2>2. SecondOfDay(p) = x
    <3>. HIDE DEF x
    <3>. QED  BY <1>1, <2>1, OffsetFromMidnight DEF m
  <2>3. SlotWindow(k).start <= x /\ x < SlotWindow(k).end
    BY <1>1, <1>4, <1>5, <1>7, <1>9
  <2>4. PICK i \in 1..3 : SlotWindow(k) = PermittedWindows[i]
    BY <1>1 DEF PermittedWindows, Hour
  <2>5. Within(p, PermittedWindows[i])
    BY <2>2, <2>3, <2>4 DEF Within
  <2>. QED  BY <2>5 DEF IsPermittedExecutionTime
<1>. QED  BY <1>7, <1>8, <1>9 DEF j

\* From 13:00 of the next day on, every slot is legal, Z7 spacing or not.
LEMMA LaterSlotsLegal ==
  ASSUME NEW hash \in Nat, NEW earliest \in Nat, NEW z7 \in BOOLEAN,
         NEW k \in SlotIds, k >= 4
  PROVE  LegalSlot(hash, earliest, z7, k)
<1>. DEFINE p == ProposedTime(hash, earliest, k)
            j == Jitter(hash, Span(k))
<1>1. /\ IstDay(earliest) \in Nat
      /\ SlotDay(earliest, k) = 86400 * (IstDay(earliest) + k \div 3)
      /\ \/ k % 3 = 0 /\ SlotWindow(k) = [start |-> 0, end |-> 36000]
         \/ k % 3 = 1 /\ SlotWindow(k) = [start |-> 46800, end |-> 61200]
         \/ k % 3 = 2 /\ SlotWindow(k) = [start |-> 77400, end |-> 86400]
  BY SlotShape
<1>2. earliest < 86400 * IstDay(earliest) + 86400
  BY MidnightType
<1>3. k \div 3 \in Nat /\ k \div 3 >= 1 /\ (k % 3 = 0 => k \div 3 >= 2)
  BY DEF SlotIds
<1>4. SlotWindow(k).start \in Nat /\ (k % 3 = 0 \/ SlotWindow(k).start >= 46800)
  BY <1>1
<1>5. SlotStart(earliest, k) \in Nat /\ SlotStart(earliest, k) >= earliest + 46800
  BY <1>1, <1>2, <1>3, <1>4 DEF SlotStart
<1>6. j \in Nat
  BY <1>1, JitterBounds DEF Span
<1>7. p = SlotStart(earliest, k) + j
  BY <1>5, <1>6 DEF ProposedTime, LaterOf
<1>8. p < SlotEnd(earliest, k)
  BY <1>7, ProposedInSlot
<1>9. p - earliest >= Z7MinSpacingHours * Hour
  BY <1>5, <1>6, <1>7 DEF Z7MinSpacingHours, Hour
<1>. QED  BY <1>8, <1>9 DEF LegalSlot

-----------------------------------------------------------------------------
(* Candidates *)

\* The slots before slot 4 leave room for it among the six candidates.
LEMMA CandidatesNonEmpty ==
  ASSUME NEW hash \in Nat, NEW earliest \in Nat, NEW z7 \in BOOLEAN
  PROVE  4 \in Candidates(hash, earliest, z7)
<1>. DEFINE Before == { j \in 0..(4 - 1) : LegalSlot(hash, earliest, z7, j) }
<1>1. IsFiniteSet(0..3) /\ Cardinality(0..3) = 4
  <2>1. 0 \in Int /\ 3 \in Int
    OBVIOUS
  <2>2. IsFiniteSet(0..3) /\ Cardinality(0..3) = IF 0 > 3 THEN 0 ELSE 3 - 0 + 1
    BY <2>1, FS_Interval, Zenon
  <2>. QED  BY <2>2
<1>2. Before \in SUBSET (0..3)
  OBVIOUS
<1>3. IsFiniteSet(Before) /\ Cardinality(Before) <= 4
  <2>. HIDE DEF Before
  <2>. QED  BY <1>1, <1>2, FS_Subset
<1>4. Cardinality(Before) \in Nat
  <2>. HIDE DEF Before
  <2>. QED  BY <1>3, FS_CardinalityType
<1>5. Cardinality(Before) < MaxCandidates
  <2>. HIDE DEF Before
  <2>. QED  BY <1>3, <1>4 DEF MaxCandidates
<1>6. 4 \in SlotIds /\ LegalSlot(hash, earliest, z7, 4)
  BY LaterSlotsLegal DEF SlotIds
<1>. QED  BY <1>5, <1>6 DEF Candidates

\* Slots 4 to 9 are six legal ones: the search never looks beyond them.
LEMMA CandidateBound ==
  ASSUME NEW hash \in Nat, NEW earliest \in Nat, NEW z7 \in BOOLEAN,
         NEW k \in Candidates(hash, earliest, z7)
  PROVE  k \in SlotIds /\ k <= 9 /\ LegalSlot(hash, earliest, z7, k)
<1>. DEFINE Before == { j \in 0..(k - 1) : LegalSlot(hash, earliest, z7, j) }
<1>1. /\ k \in SlotIds
      /\ LegalSlot(hash, earliest, z7, k)
      /\ Cardinality(Before) < 6
  BY DEF Candidates, MaxCandidates
<1>2. ASSUME k > 9  PROVE FALSE
  <2>1. 4..9 \in SUBSET Before
    <3>1. ASSUME NEW j \in 4..9  PROVE j \in Before
      <4>1. j \in SlotIds /\ j >= 4 /\ j \in 0..(k - 1)
        BY <1>1, <1>2 DEF SlotIds
      <4>2. LegalSlot(hash, earliest, z7, j)
        BY <4>1, LaterSlotsLegal
      <4>. QED  BY <4>1, <4>2
    <3>. QED  BY <3>1
  <2>2. IsFiniteSet(0..(k - 1))
    BY <1>1, FS_Interval DEF SlotIds
  <2>3. IsFiniteSet(Before)
    BY <2>2, FS_Subset
  <2>4. Cardinality(4..9) = 6
    <3>1. 4 \in Int /\ 9 \in Int
      OBVIOUS
    <3>2. Cardinality(4..9) = IF 4 > 9 THEN 0 ELSE 9 - 4 + 1
      BY <3>1, FS_Interval, Zenon
    <3>. QED  BY <3>2
  <2>. HIDE DEF Before
  <2>5. Cardinality(4..9) <= Cardinality(Before) /\ Cardinality(Before) \in Nat
    BY <2>1, <2>3, FS_Subset, FS_CardinalityType
  <2>. QED  BY <1>1, <2>4, <2>5
<1>. QED  BY <1>1, <1>2 DEF SlotIds

-----------------------------------------------------------------------------
(* The proposal *)

\* Whatever the heuristics prefer, a proposal is a permitted execution time,
\* not before the earliest legal one, four hours after it under Z7, and less
\* than four days after it.
THEOREM ProposalLegal ==
  ASSUME NEW hash \in Nat, NEW reason, NEW opts, NEW earliest \in Nat,
         NEW z7 \in BOOLEAN, NEW p \in Proposals(hash, reason, opts, earliest, z7)
  PROVE  /\ p \in Nat
         /\ earliest <= p
         /\ p < earliest + 4 * Day
         /\ z7 => p - earliest >= Z7MinSpacingHours * Hour
         /\ IsPermittedExecutionTime(p)
<1>1. PICK k \in Candidates(hash, earliest, z7) : p = ProposedTime(hash, earliest, k)
  <2>1. Candidates(hash, earliest, z7) # {}
    BY CandidatesNonEmpty
  <2>2. p \in Chosen(Candidates(hash, earliest, z7), hash, reason, opts, earliest)
    BY DEF Proposals
  <2>. QED  BY <2>1, <2>2 DEF Chosen
<1>2. k \in SlotIds /\ k <= 9 /\ LegalSlot(hash, earliest, z7, k)
  BY CandidateBound
<1>3. /\ p < SlotEnd(earliest, k)
      /\ z7 => p - earliest >= Z7MinSpacingHours * Hour
  BY <1>1, <1>2 DEF LegalSlot
<1>4. p \in Nat /\ earliest <= p /\ IsPermittedExecutionTime(p)
  BY <1>1, <1>2, <1>3, ProposedInSlot
<1>5. SlotEnd(earliest, k) <= 86400 * IstDay(earliest) + 4 * 86400
  <2>. DEFINE ahead == k \div 3
              end == SlotWindow(k).end
  <2>1. /\ IstDay(earliest) \in Nat
        /\ SlotDay(earliest, k) = 86400 * (IstDay(earliest) + ahead)
    BY <1>2, SlotShape
  <2>2. end \in Nat /\ end <= 86400
    BY <1>2, SlotShape
  <2>3. ahead \in Nat /\ ahead <= 3
    BY <1>2 DEF SlotIds
  <2>4. SlotEnd(earliest, k) = SlotDay(earliest, k) + end
    BY DEF SlotEnd
  <2>. HIDE DEF ahead, end
  <2>. QED  BY <2>1, <2>2, <2>3, <2>4
<1>6. p < earliest + 4 * Day
  <2>1. IstDay(earliest) \in Nat /\ 86400 * IstDay(earliest) <= earliest
    BY MidnightType
  <2>2. SlotEnd(earliest, k) \in Nat
    BY <1>2, SlotShape DEF SlotEnd
  <2>. QED  BY <1>3, <1>4, <1>5, <2>1, <2>2 DEF Day, Hour
<1>. QED  BY <1>3, <1>4, <1>6

-----------------------------------------------------------------------------
(* The ranking *)

\* Every candidate has a score, and the salary and bank heuristics are all it
\* takes from the options.
LEMMA ScoreType ==
  ASSUME NEW reason, NEW opts, NEW earliest \in Nat, NEW t \in Nat
  PROVE  Score(reason, opts, earliest, t) \in Int
<1>1. SalaryBonus(reason, opts.useSalary, t) \in Int
  BY DEF SalaryBonus, Point
<1>2. DowntimePenalty(opts.downtimes, opts.useBank, t) \in Int
  BY DEF DowntimePenalty, Point
<1>. QED  BY <1>1, <1>2 DEF Score

\* s ranks k above or level with j, and k comes first where they are level.
Beats(s, k, j) == s[j] < s[k] \/ (s[j] = s[k] /\ k <= j)

\* k is the best candidate among the first n + 1 slots.
BestUpTo(s, cand, n, k) ==
  k \in cand /\ k <= n /\ \A j \in cand : j <= n => Beats(s, k, j)

\* One slot more is compared with the best so far, as max does.
LEMMA OneSlotMore ==
  ASSUME NEW cand \in SUBSET Nat, NEW s \in [Nat -> Int], NEW n \in Nat,
         (\E j \in cand : j <= n) => \E k \in cand : BestUpTo(s, cand, n, k),
         \E j \in cand : j <= n + 1
  PROVE  \E k \in cand : BestUpTo(s, cand, n + 1, k)
<1>1. \A j \in cand : j \in Nat /\ s[j] \in Int
  OBVIOUS
<1>2. \A j \in cand : j <= n + 1 <=> j <= n \/ j = n + 1
  <2>1. \A j \in Nat : j <= n + 1 <=> j <= n \/ j = n + 1
    OBVIOUS
  <2>. QED  BY <1>1, <2>1
<1>3. CASE n + 1 \notin cand
  <2>1. \A j \in cand : j <= n + 1 <=> j <= n
    BY <1>2, <1>3
  <2>2. PICK k \in cand : BestUpTo(s, cand, n, k)
    BY <2>1
  <2>. QED  BY <2>1, <2>2 DEF BestUpTo
<1>4. CASE n + 1 \in cand /\ ~\E j \in cand : j <= n
  <2>1. \A j \in cand : j <= n + 1 => j = n + 1
    BY <1>2, <1>4
  <2>2. BestUpTo(s, cand, n + 1, n + 1)
    BY <1>1, <1>4, <2>1 DEF BestUpTo, Beats
  <2>. QED  BY <1>4, <2>2
<1>5. CASE n + 1 \in cand /\ \E j \in cand : j <= n
  <2>1. PICK k \in cand : BestUpTo(s, cand, n, k)
    BY <1>5
  <2>2. k \in Nat /\ k <= n /\ k <= n + 1 /\ s[k] \in Int /\ s[n + 1] \in Int
    BY <1>1, <2>1 DEF BestUpTo
  <2>3. CASE s[n + 1] <= s[k]
    <3>1. Beats(s, k, n + 1)
      BY <2>2, <2>3 DEF Beats
    <3>. QED  BY <1>2, <2>1, <2>2, <3>1 DEF BestUpTo
  <2>4. CASE s[k] < s[n + 1]
    <3>1. ASSUME NEW j \in cand, j <= n + 1  PROVE Beats(s, n + 1, j)
      <4>1. CASE j = n + 1
        BY <1>1, <4>1 DEF Beats
      <4>2. CASE j <= n
        <5>1. Beats(s, k, j)
          BY <2>1, <4>2 DEF BestUpTo
        <5>. QED  BY <1>1, <2>2, <2>4, <5>1 DEF Beats
      <4>. QED  BY <1>2, <3>1, <4>1, <4>2
    <3>2. BestUpTo(s, cand, n + 1, n + 1)
      BY <1>5, <3>1 DEF BestUpTo
    <3>. QED  BY <1>5, <3>2
  <2>. QED  BY <2>2, <2>3, <2>4
<1>. QED  BY <1>3, <1>4, <1>5

\* Ten slots are compared one after the other.
LEMMA BestOfTen ==
  ASSUME NEW cand \in SUBSET (0..9), cand # {}, NEW s \in [Nat -> Int]
  PROVE  \E k \in cand : \A j \in cand : Beats(s, k, j)
<1>. DEFINE Ranked(n) == (\E j \in cand : j <= n) => \E k \in cand : BestUpTo(s, cand, n, k)
<1>0. cand \in SUBSET Nat /\ \A j \in cand : j \in Nat /\ j <= 9
  OBVIOUS
<1>1. Ranked(0)
  <2>1. \A j \in cand : j <= 0 => j = 0
    BY <1>0
  <2>2. s[0] \in Int
    OBVIOUS
  <2>3. 0 \in cand => BestUpTo(s, cand, 0, 0)
    BY <2>1, <2>2 DEF BestUpTo, Beats
  <2>. QED  BY <2>1, <2>3
<1>2. \A n \in Nat : Ranked(n) => Ranked(n + 1)
  BY <1>0, OneSlotMore
<1>. HIDE DEF Ranked
<1>3. Ranked(0 + 1) /\ 0 + 1 = 1
  BY <1>1, <1>2
<1>4. Ranked(2)
  <2>1. Ranked(1 + 1)
    BY <1>2, <1>3
  <2>. QED  BY <2>1
<1>5. Ranked(3)
  <2>1. Ranked(2 + 1)
    BY <1>2, <1>4
  <2>. QED  BY <2>1
<1>6. Ranked(4)
  <2>1. Ranked(3 + 1)
    BY <1>2, <1>5
  <2>. QED  BY <2>1
<1>7. Ranked(5)
  <2>1. Ranked(4 + 1)
    BY <1>2, <1>6
  <2>. QED  BY <2>1
<1>8. Ranked(6)
  <2>1. Ranked(5 + 1)
    BY <1>2, <1>7
  <2>. QED  BY <2>1
<1>9. Ranked(7)
  <2>1. Ranked(6 + 1)
    BY <1>2, <1>8
  <2>. QED  BY <2>1
<1>10. Ranked(8)
  <2>1. Ranked(7 + 1)
    BY <1>2, <1>9
  <2>. QED  BY <2>1
<1>11. Ranked(9)
  <2>1. Ranked(8 + 1)
    BY <1>2, <1>10
  <2>. QED  BY <2>1
<1>. QED  BY <1>0, <1>11 DEF Ranked, BestUpTo

\* propose_next_attempt is a function: for every mandate hash, instant and
\* setting of the heuristics there is one best slot, no candidate scores higher,
\* and what is proposed is the time in it.
THEOREM OneProposal ==
  ASSUME NEW hash \in Nat, NEW reason, NEW opts, NEW earliest \in Nat, NEW z7 \in BOOLEAN
  PROVE  \E k \in Candidates(hash, earliest, z7) :
           /\ Proposals(hash, reason, opts, earliest, z7) = { ProposedTime(hash, earliest, k) }
           /\ \A j \in Candidates(hash, earliest, z7) :
                Score(reason, opts, earliest, ProposedTime(hash, earliest, j))
                  <= Score(reason, opts, earliest, ProposedTime(hash, earliest, k))
<1>. DEFINE cand == Candidates(hash, earliest, z7)
            s == [k \in Nat |-> IF k \in SlotIds
                                THEN Score(reason, opts, earliest, ProposedTime(hash, earliest, k))
                                ELSE 0]
            Best(k) == IsBest(k, cand, hash, reason, opts, earliest)
<1>1. cand # {} /\ cand \in SUBSET (0..9) /\ cand \in SUBSET SlotIds
  BY CandidatesNonEmpty, CandidateBound DEF SlotIds
<1>2. s \in [Nat -> Int]
  <2>1. \A k \in SlotIds : Score(reason, opts, earliest, ProposedTime(hash, earliest, k)) \in Int
    BY ProposedInSlot, ScoreType
  <2>. QED  BY <2>1
<1>3. \A k \in cand : /\ k \in Nat /\ s[k] \in Int
                      /\ s[k] = Score(reason, opts, earliest, ProposedTime(hash, earliest, k))
  BY <1>1, <1>2 DEF SlotIds
<1>. HIDE DEF cand, s
<1>4. \A k \in cand : Best(k) <=> \A j \in cand : Beats(s, k, j)
  BY <1>3 DEF IsBest, Beats
<1>5. PICK k \in cand : \A j \in cand : Beats(s, k, j)
  BY <1>1, <1>2, BestOfTen
<1>6. ASSUME NEW l \in cand, Best(l)  PROVE l = k
  <2>1. Beats(s, k, l) /\ Beats(s, l, k)
    BY <1>4, <1>5, <1>6
  <2>. QED  BY <1>3, <2>1 DEF Beats
<1>. HIDE DEF Best
<1>7. { l \in cand : Best(l) } = {k}
  BY <1>4, <1>5, <1>6
<1>8. Proposals(hash, reason, opts, earliest, z7) = { ProposedTime(hash, earliest, k) }
  <2>1. Proposals(hash, reason, opts, earliest, z7) = Chosen(cand, hash, reason, opts, earliest)
    BY DEF Proposals, cand
  <2>2. Chosen(cand, hash, reason, opts, earliest) =
          { ProposedTime(hash, earliest, l) : l \in { j \in cand : Best(j) } }
    BY <1>1 DEF Chosen, Best
  <2>. QED  BY <1>7, <2>1, <2>2
<1>9. \A j \in cand : s[j] <= s[k]
  BY <1>3, <1>5 DEF Beats
<1>. QED  BY <1>3, <1>8, <1>9 DEF cand

\* What a proposal depends on of the options it is given.
LEMMA SameHeuristics ==
  ASSUME NEW hash, NEW reason, NEW earliest, NEW z7, NEW a, NEW b,
         a.useSalary = b.useSalary, a.useBank = b.useBank, a.downtimes = b.downtimes
  PROVE  Proposals(hash, reason, a, earliest, z7) = Proposals(hash, reason, b, earliest, z7)
<1>1. \A t : Score(reason, a, earliest, t) = Score(reason, b, earliest, t)
  BY DEF Score
<1>2. \A k, cand : IsBest(k, cand, hash, reason, a, earliest)
                     <=> IsBest(k, cand, hash, reason, b, earliest)
  BY <1>1 DEF IsBest
<1>3. \A cand : Chosen(cand, hash, reason, a, earliest) = Chosen(cand, hash, reason, b, earliest)
  BY <1>2 DEF Chosen
<1>. QED  BY <1>3 DEF Proposals
=============================================================================

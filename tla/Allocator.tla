----------------------------- MODULE Allocator -----------------------------
(***************************************************************************)
(* Stage 5 (src/policy/allocator.py): the time of the next debit.          *)
(*                                                                         *)
(* The candidate slots of the next 11 days are numbered 0..32 in the order *)
(* _candidate_slots lists them: slot k is window k % 3 of day k \div 3.    *)
(* The mandate's SHA-256 enters only modulo the three jitter spans, so a   *)
(* hash is a number below their common multiple.                           *)
(*                                                                         *)
(* A bank's technical-decline percentage lowers the score of all its       *)
(* candidates alike and never changes which one wins: it is left out.      *)
(***************************************************************************)
EXTENDS TimeUtils, BankHealth, FiniteSets

CONSTANT HighLiquidityDays   \* the days (from day 0) whose day of the month
                             \* is 1, 2, 3, 28, 29, 30 or 31

HashPeriod    == 57600
HashRange     == 0..(HashPeriod - 1)
OperationalSlack == 600      \* the 10-minute buffer of the MCC carve-out
SlotIds       == 0..32
MaxCandidates == 6

LaterOf(a, b) == IF a >= b THEN a ELSE b

\* A slip: the carve-out's slack for everybody.
MutantNoNotice(now, carveOut) == now + OperationalSlack

EarliestLegalTime(now, carveOut) ==
  now + (IF carveOut THEN OperationalSlack ELSE PreDebitNotificationHours * Hour)

-----------------------------------------------------------------------------
(* Candidates *)

SlotWindow(k) == PermittedWindows[1 + (k % 3)]
Span(k)       == SlotWindow(k).end - SlotWindow(k).start
SlotDay(earliest, k)   == StartOfIstDay(earliest) + (k \div 3) * Day
SlotStart(earliest, k) == SlotDay(earliest, k) + SlotWindow(k).start
SlotEnd(earliest, k)   == SlotDay(earliest, k) + SlotWindow(k).end

\* _jitter_seconds: an offset in the middle 80% of the window.
Jitter(hash, span) == (hash % ((span * 4) \div 5)) + (span \div 10)

\* A slip: the jittered time is not clamped to the earliest legal one.
MutantUnclamped(hash, earliest, k) == SlotStart(earliest, k) + Jitter(hash, Span(k))

ProposedTime(hash, earliest, k) ==
  LaterOf(SlotStart(earliest, k) + Jitter(hash, Span(k)), earliest)

\* Slips: the clamp may run past the slot's end; the Z7 spacing is forgotten.
MutantPastSlotEnd(hash, earliest, z7, k) ==
  z7 => ProposedTime(hash, earliest, k) - earliest >= Z7MinSpacingHours * Hour
MutantNoZ7Spacing(hash, earliest, z7, k) ==
  ProposedTime(hash, earliest, k) < SlotEnd(earliest, k)

LegalSlot(hash, earliest, z7, k) ==
  /\ ProposedTime(hash, earliest, k) < SlotEnd(earliest, k)
  /\ z7 => ProposedTime(hash, earliest, k) - earliest >= Z7MinSpacingHours * Hour

\* A slip: the search is not bounded.
MutantUnboundedSearch(hash, earliest, z7) ==
  { k \in SlotIds : LegalSlot(hash, earliest, z7, k) }

\* The search stops at the sixth legal slot.
Candidates(hash, earliest, z7) ==
  { k \in SlotIds :
      /\ LegalSlot(hash, earliest, z7, k)
      /\ Cardinality({ j \in 0..(k - 1) : LegalSlot(hash, earliest, z7, j) })
           < MaxCandidates }

-----------------------------------------------------------------------------
(* Ranking *)

\* One score point is 864000 units, which makes the earlier-is-better term
\* (a tenth of a point a day) one unit a second.
Point == 864000

SalaryBonus(reason, useSalary, t) ==
  IF useSalary /\ reason = "insufficient_funds" /\ IstDay(t) \in HighLiquidityDays
  THEN 3 * Point ELSE 0

DowntimePenalty(downtimes, useBank, t) ==
  IF ~useBank THEN 0
  ELSE CASE ActiveSeverity(downtimes, t) = "high"   -> 5 * Point
         [] ActiveSeverity(downtimes, t) = "medium" -> 2 * Point
         [] OTHER -> 0

Score(reason, opts, earliest, t) ==
  SalaryBonus(reason, opts.useSalary, t)
    - DowntimePenalty(opts.downtimes, opts.useBank, t) - (t - earliest)

\* k wins: no candidate scores higher, and among equals it is the first.
IsBest(k, cand, hash, reason, opts, earliest) ==
  LET score(j) == Score(reason, opts, earliest, ProposedTime(hash, earliest, j))
  IN  \A j \in cand : score(j) < score(k) \/ (score(j) = score(k) /\ k <= j)

\* The time of the best slot of cand; slot 0's start when there is none.
Chosen(cand, hash, reason, opts, earliest) ==
  IF cand = {} THEN { SlotStart(earliest, 0) }
  ELSE { ProposedTime(hash, earliest, k) :
           k \in { j \in cand : IsBest(j, cand, hash, reason, opts, earliest) } }

\* propose_next_attempt: the one time it proposes, as a set.  (cand is bound by
\* a quantifier so that it is computed once.)
Proposals(hash, reason, opts, earliest, z7) ==
  UNION { Chosen(cand, hash, reason, opts, earliest) :
            cand \in { Candidates(hash, earliest, z7) } }
=============================================================================

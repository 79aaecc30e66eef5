--------------------------- MODULE MCOrchestrator ---------------------------
(***************************************************************************)
(* Small instances of Orchestrator.  Day 0 stands for 26 August 2026, so   *)
(* the high-liquidity days 28 August to 3 September are days 2 to 8.       *)
(***************************************************************************)
EXTENDS Orchestrator

At(day, hour, minute) == day * Day + hour * Hour + minute * 60

MCHighLiquidityDays == 2..8
NoLlmAnswers  == {}
\* A mandatory notice, a discretionary one, the expected one and an answer
\* outside the allowed set.
AnyLlmAnswers == { "pre_debit_notice", "source_aware_failure_notice",
                   "balance_nudge", "special_discount" }

\* A failure in each kind of clock position: early, at a window's end, inside
\* a peak window, in the afternoon, at the last second of the day.
Instants == { At(0, 0, 10), At(0, 9, 59), At(0, 11, 0), At(0, 14, 0), At(1, 0, 0) - 1 }

Hashes == { 0, 11519, 28799 }

High(from, to)   == [begin |-> from, end |-> to, severity |-> "high"]
Medium(from, to) == [begin |-> from, end |-> to, severity |-> "medium"]

Outages == { {}, { High(At(1, 0, 0), At(2, 9, 0)), Medium(At(2, 0, 0), At(4, 12, 0)) } }

Failures(reasons, codes, instants) ==
  [reason: reasons, npci: codes, at: instants, number: {1}]

CallsOf(mandates, failures, options) ==
  [mandate: mandates, failure: failures, options: options]

-----------------------------------------------------------------------------
(* The whole pipeline: every kind of reason and code, opt-outs before,      *)
(* during and after the episode, cancelled subscriptions, review and kill.  *)

CoreMandates ==
  [ carveOut: BOOLEAN, hash: {11519}, lowBalance: BOOLEAN, consecutive: {0, 3},
    optedOutAt: {None, At(0, 8, 0), At(1, 23, 0), At(2, 18, 0)},
    lastContactedAt: {None, At(0, 0, 5)}, status: {"active", "cancelled"} ]

CoreFailures ==
  Failures({"insufficient_funds", "payment_declined", "invalid_vpa",
            "credit_failed", "payment_cancelled", "unknown"},
           {NoCode, "Z7", "Z8"}, {At(0, 0, 10), At(0, 14, 0)})

CoreOptions ==
  { [killed |-> k, reviewFirst |-> r, useSalary |-> TRUE, useBank |-> TRUE,
     downtimes |-> d] : k \in {FALSE}, r \in BOOLEAN, d \in Outages }
  \cup
  { [killed |-> TRUE, reviewFirst |-> FALSE, useSalary |-> TRUE, useBank |-> TRUE,
     downtimes |-> {}] }

-----------------------------------------------------------------------------
(* The clock: every instant, jitter, outage and heuristic, for a mandate     *)
(* that nothing but the clock and the budget stops.                          *)

ClockMandates ==
  [ carveOut: BOOLEAN, hash: Hashes, lowBalance: {FALSE}, consecutive: {0},
    optedOutAt: {None}, lastContactedAt: {None}, status: {"active"} ]

ClockFailures ==
  Failures({"insufficient_funds", "bank_technical_error"}, {NoCode, "Z7"}, Instants)

LongOutages == Outages \cup { { High(At(0, 0, 0), At(12, 0, 0)) },
                              { High(At(1, 0, 0), At(3, 21, 0)) } }

ClockOptions ==
  [ killed: {FALSE}, reviewFirst: {FALSE}, useSalary: BOOLEAN, useBank: BOOLEAN,
    downtimes: LongOutages ]

\* The first family of calls, then the second.
EngineCalls ==
  CallsOf(CoreMandates, CoreFailures, CoreOptions)
    \cup CallsOf(ClockMandates, ClockFailures, ClockOptions)

-----------------------------------------------------------------------------
(* A model that answers anything: mandates with and without an opt-out on    *)
(* the way.                                                                  *)

LlmMandates ==
  [ carveOut: BOOLEAN, hash: {11519}, lowBalance: {TRUE}, consecutive: {1},
    optedOutAt: {None, 0, At(1, 23, 0)}, lastContactedAt: {None, At(0, 0, 5)},
    status: {"active"} ]

LlmFailures ==
  Failures({"insufficient_funds", "vpa_resolution_failed"}, {NoCode, "Z8"}, {At(0, 0, 10)})

-----------------------------------------------------------------------------
(* A customer with two past failures and an empty account.                   *)

FlipMandates ==
  [ carveOut: {FALSE}, hash: Hashes, lowBalance: {TRUE}, consecutive: {0, 2},
    optedOutAt: {None}, lastContactedAt: {None}, status: {"active"} ]

FlipFailures == Failures({"insufficient_funds"}, {NoCode}, Instants)

\* The salary heuristic and no outage.
PlainOptions ==
  [killed: {FALSE}, reviewFirst: {FALSE}, useSalary: {TRUE}, useBank: {TRUE}, downtimes: {{}}]

LlmCalls  == CallsOf(LlmMandates, LlmFailures, PlainOptions)
FlipCalls == CallsOf(FlipMandates, FlipFailures, PlainOptions)
=============================================================================

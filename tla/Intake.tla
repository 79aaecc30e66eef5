------------------------------- MODULE Intake -------------------------------
(***************************************************************************)
(* Stage 1 (src/ingest/normaliser.py): the webhook of a failed payment     *)
(* becomes a failure event.  The gateway that sends the webhooks is not in *)
(* the repository; what the code assumes of it is at-least-once delivery   *)
(* (FAILURES.md #7): a webhook is sent again until it is acknowledged, and *)
(* may be sent again after that.  A call that returns acknowledges, unless *)
(* the answer is lost; a call that raises does not.                        *)
(*                                                                         *)
(* A webhook is a record [reason, npci, complete]: the reason text and the *)
(* code as sent, and whether the fields without a default (mandate id,     *)
(* amount, time) are there and parse.  The payments that were seen are in  *)
(* the memory of the process.                                              *)
(***************************************************************************)
EXTENDS Retryability, FiniteSets

CONSTANTS
  Identified,       \* failed payments whose webhook carries an id
  Anonymous,        \* failed payments whose webhook carries none
  Webhooks,         \* what a webhook may say
  MaxDeliveries,    \* bound: deliveries of one failure
  MaxRestarts       \* bound: restarts in a behaviour

Failures == Identified \cup Anonymous

ASSUME FailuresAssumption == Identified \cap Anonymous = {}
ASSUME BoundsAssumption == MaxDeliveries \in Nat \ {0} /\ MaxRestarts \in Nat

VARIABLES
  webhook,      \* what the gateway has to say about each failure
  acked,        \* the failures it need not send again
  deliveries,   \* how often it was sent so far
  restarts,     \* restarts so far
  seen,         \* _SEEN_PAYMENT_IDS
  opened,       \* history: events opened for each failure in this life
  handled       \* history: failures that ever opened one

intakeVars  == <<webhook, acked, deliveries, restarts, seen, opened, handled>>

IntakeInit ==
  /\ webhook \in [Failures -> Webhooks]
  /\ acked = {}
  /\ deliveries = [f \in Failures |-> 0]
  /\ restarts = 0
  /\ seen = {}
  /\ opened = [f \in Failures |-> 0]
  /\ handled = {}

-----------------------------------------------------------------------------
(* The parsing *)

\* Slips: a text outside the taxonomy is guessed; one is refused.
MutantGuessedReason(hook) ==
  [ reason |-> IF hook.reason \in FailureReason THEN hook.reason ELSE "payment_declined",
    npci   |-> IF hook.npci \in NpciResponseCode THEN hook.npci ELSE NoCode ]
MutantStrictReason(hook) == hook.complete /\ hook.reason \in FailureReason

\* The event an accepted webhook becomes.
Normalised(hook) ==
  [ reason |-> IF hook.reason \in FailureReason THEN hook.reason ELSE "unknown",
    npci   |-> IF hook.npci \in NpciResponseCode THEN hook.npci ELSE NoCode ]

\* Nothing raises but a missing or malformed mandatory field.
Parses(hook) == hook.complete

-----------------------------------------------------------------------------
(* One delivery: one call of normalise *)

Deliver(f) ==
  /\ deliveries[f] < MaxDeliveries
  /\ deliveries' = [deliveries EXCEPT ![f] = @ + 1]
  /\ UNCHANGED <<webhook, restarts>>

\* The call returned; its answer may be lost on the way.
Answered(f) == acked' = acked \cup {f} \/ UNCHANGED acked

\* A slip: the mandate, which the failures here share, is taken for the payment.
MutantSameMandate(f) == f \in Identified /\ seen # {}

\* A payload without an id is never recognised, and never remembered.
IsDuplicate(f) == f \in seen
Remember(f)    == seen' = seen \cup ({f} \cap Identified)

IgnoreDuplicate(f) ==
  /\ Deliver(f)
  /\ IsDuplicate(f)
  /\ Answered(f)
  /\ UNCHANGED <<seen, opened, handled>>

\* A slip: the payment is checked but never added.
MutantForgetful(f) ==
  /\ Deliver(f)
  /\ ~IsDuplicate(f)
  /\ Parses(webhook[f])
  /\ opened' = [opened EXCEPT ![f] = @ + 1]
  /\ handled' = handled \cup {f}
  /\ Answered(f)
  /\ UNCHANGED seen

OpenEvent(f) ==
  /\ Deliver(f)
  /\ ~IsDuplicate(f)
  /\ Remember(f)
  /\ Parses(webhook[f])
  /\ opened' = [opened EXCEPT ![f] = @ + 1]
  /\ handled' = handled \cup {f}
  /\ Answered(f)

\* The payment is remembered before its payload is parsed.
Raise(f) ==
  /\ Deliver(f)
  /\ ~IsDuplicate(f)
  /\ Remember(f)
  /\ ~Parses(webhook[f])
  /\ UNCHANGED <<acked, opened, handled>>

\* The process ends and starts again, or reset_idempotency_cache is called.
IntakeRestart ==
  /\ restarts < MaxRestarts
  /\ restarts' = restarts + 1
  /\ seen' = {}
  /\ opened' = [f \in Failures |-> 0]
  /\ UNCHANGED <<webhook, acked, deliveries, handled>>

Delivery(f) == IgnoreDuplicate(f) \/ OpenEvent(f) \/ Raise(f)

IntakeNext == (\E f \in Failures : Delivery(f)) \/ IntakeRestart

IntakeSpec == IntakeInit /\ [][IntakeNext]_intakeVars

-----------------------------------------------------------------------------
(* Properties *)

IntakeTypeOK ==
  /\ webhook \in [Failures -> Webhooks]
  /\ acked \subseteq Failures
  /\ deliveries \in [Failures -> 0..MaxDeliveries]
  /\ restarts \in 0..MaxRestarts
  /\ seen \subseteq Identified
  /\ opened \in [Failures -> Nat]
  /\ handled \subseteq Failures

\* FAILURES.md #7 within one life of the process: however often the gateway
\* repeats itself, a failure with an id opens at most one event.
Promise == INSTANCE AtMostOnce WITH opened <- [f \in Identified |-> opened[f]]

ImplementsAtMostOnce == Promise!Spec

\* Failure Injection #5, across the two stages it needs: a failure whose reason
\* text is outside the taxonomy, and whose code is not one NPCI decides, goes
\* to investigation and is never retried, whatever else the webhook said.
UnrecognisedIsInvestigated ==
  \A f \in handled :
    \A mandate \in [consecutive: {0, IntentMinConsecutive}, lowBalance: BOOLEAN] :
      webhook[f].reason \notin FailureReason /\ webhook[f].npci \notin NpciOverrides
        => Evaluate(Normalised(webhook[f]), mandate) = "investigate"

\* What the gateway need not send again has been dealt with: an acknowledged
\* failure that could be parsed opened an event, in this life or an earlier one.
AckedParsableIsHandled ==
  \A f \in acked : webhook[f].complete => f \in handled

\* A failure that can be parsed is handled in the end, whatever answers are
\* lost and whenever the process restarts, as long as the gateway keeps
\* sending what was not acknowledged.
ParsableHandled ==
  \A f \in Failures : webhook[f].complete ~> f \in handled

\* What FAILURES.md:165 says of every real failure: one notice, one schedule,
\* one outcome, so at the least an event once it is acknowledged.
AckedIsHandled == acked \subseteq handled
=============================================================================

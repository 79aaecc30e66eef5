----------------------------- MODULE Simulator -----------------------------
(***************************************************************************)
(* Stage 9 (src/execute/simulator.py): what a debit attempt can do.  The   *)
(* outcome draw is a hash of (mandate, epoch hour), the same however often *)
(* it is drawn, compared with a success rate between 2% and 95%.  So any   *)
(* first draw may go either way, but a debit that failed keeps failing     *)
(* within its hour unless its odds improve.                                *)
(***************************************************************************)
EXTENDS Allocator

\* Reasons a retry of the same amount cannot overcome: no draw is made.
CanSucceed(failure) == failure.reason # "invalid_vpa" /\ failure.npci # "Z8"

\* Epoch hours start on the IST half hour.
HourBucket(t) == (t + Hour \div 2) \div Hour

\* What varies in the success rate within an episode, in percent.
Odds(reason, downtimes, t) ==
  (IF reason = "insufficient_funds" /\ IstDay(t) \in HighLiquidityDays THEN 30 ELSE 0)
    - (CASE ActiveSeverity(downtimes, t) = "high"   -> 45
         [] ActiveSeverity(downtimes, t) = "medium" -> 20
         [] OTHER -> 0)

\* The draws of the earlier retries already decide that a debit at t fails.
\* (Attempt 1 comes with the webhook and was not drawn.)
DrawAlreadyLost(attempts, reason, downtimes, t) ==
  \E i \in DOMAIN attempts :
    /\ i > 1
    /\ attempts[i].outcome = "failed"
    /\ HourBucket(attempts[i].at) = HourBucket(t)
    /\ Odds(reason, downtimes, t) <= Odds(reason, downtimes, attempts[i].at)

\* simulate_outcome: the outcomes a debit at t may have.
SimulateOutcome(attempts, failure, downtimes, t) ==
  IF CanSucceed(failure) /\ ~DrawAlreadyLost(attempts, failure.reason, downtimes, t)
  THEN { "success", "failed" } ELSE { "failed" }
=============================================================================

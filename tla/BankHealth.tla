----------------------------- MODULE BankHealth -----------------------------
(***************************************************************************)
(* The downtime half of src/policy/bank_health.py: which outage of the     *)
(* payer's bank is in force at an instant, and how bad it is.  A downtime  *)
(* is a record [begin, end, severity] of the mandate's own bank and of the *)
(* upi method; an open-ended one that has started has an end beyond every  *)
(* instant of the run, one that is only scheduled is not in the set.       *)
(***************************************************************************)
EXTENDS RegulatoryConstants

ActiveAt(d, t) == d.begin <= t /\ t <= d.end

SeverityRank(s) ==
  CASE s = "low" -> 0 [] s = "medium" -> 1 [] s = "high" -> 2

\* The worst severity among the downtimes active at t, or "none".
ActiveSeverity(downtimes, t) ==
  LET active == { d.severity : d \in { e \in downtimes : ActiveAt(e, t) } }
  IN  IF active = {} THEN "none"
      ELSE CHOOSE s \in active : \A r \in active : SeverityRank(r) <= SeverityRank(s)
=============================================================================

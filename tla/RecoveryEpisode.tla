--------------------------- MODULE RecoveryEpisode ---------------------------
(***************************************************************************)
(* What a recovery episode promises, without the pipeline that keeps the   *)
(* promise: the debits of a mandate, counted from the failed one that      *)
(* opened the episode, are at most MaxDebits; two of them are never closer *)
(* than the notice gap of the mandate; every debit the engine makes falls  *)
(* outside the peak hours; a successful debit is the last one; and the     *)
(* episode ends halted exactly when it ran out of debits.                  *)
(***************************************************************************)
EXTENDS TimeUtils

CONSTANT MaxDebits

VARIABLES
  gap,         \* the least time between two debits, fixed by the mandate
  debits,      \* debits so far
  lastDebit,   \* the instant of the last one
  status       \* "open", "recovered", "halted" or "stopped"

vars == <<gap, debits, lastDebit, status>>

Init ==
  /\ gap \in {600, 24 * Hour}
  /\ debits = 1
  /\ lastDebit \in Nat
  /\ status = "open"

Debit ==
  /\ status = "open"
  /\ debits < MaxDebits
  /\ debits' = debits + 1
  /\ lastDebit' >= lastDebit + gap
  /\ IsPermittedExecutionTime(lastDebit')
  /\ status' \in {"open", "recovered"}
  /\ UNCHANGED gap

Close ==
  /\ status = "open"
  /\ status' = IF debits = MaxDebits THEN "halted" ELSE "stopped"
  /\ UNCHANGED <<gap, debits, lastDebit>>

Next == Debit \/ Close

Spec == Init /\ [][Next]_vars
=============================================================================

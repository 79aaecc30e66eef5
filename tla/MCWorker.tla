------------------------------ MODULE MCWorker ------------------------------
(* A small instance of Worker. *)
EXTENDS Worker

\* A webhook in order, one whose reason and code nobody knows, one that lacks
\* its amount.
MCWebhooks ==
  { [reason |-> "insufficient_funds", npci |-> "none", complete |-> TRUE],
    [reason |-> "new_reason", npci |-> "XX", complete |-> TRUE],
    [reason |-> "insufficient_funds", npci |-> "none", complete |-> FALSE] }
=============================================================================

----------------------------- MODULE MCCommands -----------------------------
(* A small instance of Commands: the mandates and failures of the model's     *)
(* instances of Orchestrator, with an outage, an invalid VPA the override     *)
(* makes retryable, and a kill list that changes once.                        *)
EXTENDS Commands, MCOrchestrator

\* A discretionary notice in place of the announcement, and an answer outside
\* the allowed set.
OneLlmAnswer == { "balance_nudge", "special_discount" }

CommandMandates ==
  [ carveOut: BOOLEAN, hash: {11519}, lowBalance: {TRUE}, consecutive: {0},
    optedOutAt: {None, 0, At(1, 23, 0)}, lastContactedAt: {None}, status: {"active"} ]

CommandFailures ==
  Failures({"insufficient_funds"}, {NoCode}, {At(0, 0, 10)})
    \cup Failures({"invalid_vpa"}, {NoCode, "Z7"}, {At(0, 0, 10)})

CommandOptions ==
  [ killed: BOOLEAN, reviewFirst: {FALSE}, useSalary: {TRUE}, useBank: {TRUE},
    downtimes: { { High(At(1, 0, 0), At(2, 9, 0)), Medium(At(2, 0, 0), At(4, 12, 0)) } } ]

CommandCalls == CallsOf(CommandMandates, CommandFailures, CommandOptions)
=============================================================================

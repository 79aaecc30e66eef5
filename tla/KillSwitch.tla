----------------------------- MODULE KillSwitch -----------------------------
(***************************************************************************)
(* The operator's console: the kill list of src/audit/kill_switch.py, the  *)
(* commands of src/cli.py that change it, and the runs that consult it     *)
(* (explain, approve, and a batch of eval/run_eval.py).                    *)
(*                                                                         *)
(* Every command is a process of its own and nothing locks the file.  A    *)
(* command reads the list, opens the file for writing, which empties it,   *)
(* and writes the new list; it may be killed between any two of these.  A  *)
(* run reads the list once and goes by what it read.                       *)
(*                                                                         *)
(* What a run does with a mandate that is not on its list is the subject   *)
(* of Orchestrator; here only matters whether it debits it.                *)
(***************************************************************************)
EXTENDS Naturals, FiniteSets

CONSTANTS
  MandateIds,
  Operators,   \* processes that run kill or revive
  Runs         \* processes that run explain, approve or a batch

ASSUME MandatesAssumption == IsFiniteSet(MandateIds)

VARIABLES
  file,          \* results/killed_mandates.json
  op,            \* the local state of each kill or revive command
  run,           \* the local state of each run
  stopped,       \* history: the mandates whose last completed command is kill
  disturbed,     \* history: a command died while it was writing, or two
                 \* commands overlapped
  told           \* history: what was true when a run read the list

vars == <<file, op, run, stopped, disturbed, told>>

-----------------------------------------------------------------------------
(* The file.  Its text grows with the number of ids on it, all of the same  *)
(* length.  head is the list it begins with; the text is longer than that   *)
(* list when an older, longer one shows behind it, and shorter (empty)      *)
(* after it was opened for writing.                                         *)

Extent(ids) == Cardinality(ids) + 1

FileType == [head: SUBSET MandateIds, extent: Nat]

LaterOf(a, b) == IF a >= b THEN a ELSE b

\* load_killed_mandate_ids: a text that does not parse is an empty list.
Killed == IF file.extent = Extent(file.head) THEN file.head ELSE {}

Truncated == [head |-> {}, extent |-> 0]

\* Writing starts at the beginning and leaves what lies beyond its end.
Overwritten(ids) ==
  [head |-> ids, extent |-> LaterOf(file.extent, Extent(ids))]

-----------------------------------------------------------------------------
OpType ==
  [ step: {"idle", "loaded", "writing"}, kills: BOOLEAN,
    about: SUBSET MandateIds, ids: SUBSET MandateIds ]

RunType ==
  [ step: {"idle", "probed", "running"}, work: SUBSET MandateIds,
    seen: SUBSET MandateIds, debited: SUBSET MandateIds ]

ToldType == [stopped: SUBSET MandateIds, settled: BOOLEAN]

IdleOp  == [step |-> "idle", kills |-> FALSE, about |-> {}, ids |-> {}]
IdleRun == [step |-> "idle", work |-> {}, seen |-> {}, debited |-> {}]
Nothing == [stopped |-> {}, settled |-> FALSE]

Init ==
  /\ file = [head |-> {}, extent |-> 1]   \* a missing file reads like an empty list
  /\ op = [o \in Operators |-> IdleOp]
  /\ run = [r \in Runs |-> IdleRun]
  /\ stopped = {}
  /\ disturbed = FALSE
  /\ told = [r \in Runs |-> Nothing]

-----------------------------------------------------------------------------
(* kill and revive *)

Command(o, kills, m, ids) ==
  /\ op[o].step = "idle"
  /\ op' = [op EXCEPT ![o] = [step |-> "loaded", kills |-> kills,
                              about |-> {m}, ids |-> ids]]
  /\ disturbed' = (disturbed \/ \E p \in Operators : op[p].step # "idle")
  /\ UNCHANGED <<file, run, stopped, told>>

\* A slip: the new list is not added to the old one.
MutantKillOnlyThis(o, m) == Command(o, TRUE, m, {m})

Kill(o, m)   == Command(o, TRUE, m, Killed \cup {m})
Revive(o, m) == Command(o, FALSE, m, Killed \ {m})

Truncate(o) ==
  /\ op[o].step = "loaded"
  /\ op' = [op EXCEPT ![o].step = "writing"]
  /\ file' = Truncated
  /\ UNCHANGED <<run, stopped, disturbed, told>>

Write(o) ==
  /\ op[o].step = "writing"
  /\ op' = [op EXCEPT ![o] = IdleOp]
  /\ file' = Overwritten(op[o].ids)
  /\ stopped' = IF op[o].kills THEN stopped \cup op[o].about ELSE stopped \ op[o].about
  /\ UNCHANGED <<run, disturbed, told>>

Crash(o) ==
  /\ op[o].step # "idle"
  /\ op' = [op EXCEPT ![o] = IdleOp]
  /\ disturbed' = (disturbed \/ op[o].step = "writing")
  /\ UNCHANGED <<file, run, stopped, told>>

-----------------------------------------------------------------------------
(* The runs *)

\* The call of run_mandate that may debit is about to start.
Tell(r) ==
  told' = [told EXCEPT ![r] =
             [ stopped |-> stopped,
               settled |-> /\ ~disturbed
                           /\ \A o \in Operators : op[o].step # "writing" ]]

Start(r, work) ==
  /\ run[r].step = "idle"
  /\ run' = [run EXCEPT ![r] = [IdleRun EXCEPT !.step = "running", !.work = work,
                                               !.seen = Killed]]
  /\ Tell(r)
  /\ UNCHANGED <<file, op, stopped, disturbed>>

Explain(r, m) == Start(r, {m})
Batch(r)      == Start(r, MandateIds)

\* approve looks first, in review mode; a killed mandate has nothing pending.
Approve(r, m) ==
  /\ run[r].step = "idle"
  /\ m \notin Killed
  /\ run' = [run EXCEPT ![r] = [IdleRun EXCEPT !.step = "probed", !.work = {m},
                                               !.seen = Killed]]
  /\ UNCHANGED <<file, op, stopped, disturbed, told>>

\* A slip: the confirmed run goes by the list of the first look.
MutantConfirmFirstLook(r) ==
  /\ run[r].step = "probed"
  /\ run' = [run EXCEPT ![r].step = "running"]
  /\ Tell(r)
  /\ UNCHANGED <<file, op, stopped, disturbed>>

\* With --confirm-irreversible it runs the mandate again, from the start and
\* with the list read again.
Confirm(r) ==
  /\ run[r].step = "probed"
  /\ run' = [run EXCEPT ![r].step = "running", ![r].seen = Killed]
  /\ Tell(r)
  /\ UNCHANGED <<file, op, stopped, disturbed>>

Debit(r, m) ==
  /\ run[r].step = "running"
  /\ m \in run[r].work \ run[r].seen
  /\ run' = [run EXCEPT ![r].debited = @ \cup {m}]
  /\ UNCHANGED <<file, op, stopped, disturbed, told>>

\* The end of a run, a refused approval, or the end of its process.
Finish(r) ==
  /\ run[r].step # "idle"
  /\ run' = [run EXCEPT ![r] = IdleRun]
  /\ told' = [told EXCEPT ![r] = Nothing]
  /\ UNCHANGED <<file, op, stopped, disturbed>>

Next ==
  \/ \E o \in Operators :
       \/ \E m \in MandateIds : Kill(o, m) \/ Revive(o, m)
       \/ Truncate(o)
       \/ Write(o)
       \/ Crash(o)
  \/ \E r \in Runs :
       \/ \E m \in MandateIds : Explain(r, m) \/ Approve(r, m) \/ Debit(r, m)
       \/ Batch(r)
       \/ Confirm(r)
       \/ Finish(r)

Spec == Init /\ [][Next]_vars

-----------------------------------------------------------------------------
(* Properties *)

TypeOK ==
  /\ file \in FileType
  /\ op \in [Operators -> OpType]
  /\ run \in [Runs -> RunType]
  /\ stopped \subseteq MandateIds
  /\ disturbed \in BOOLEAN
  /\ told \in [Runs -> ToldType]

\* A run that read the list while nobody was writing it, after a past in which
\* no command died writing it and no two overlapped, debits no mandate that an
\* operator had killed before the run read it; for approve, killed before the
\* confirmed run.  (Without these conditions: see KilledRunNeverDebits.)
SettledKillHolds ==
  \A r \in Runs :
    told[r].settled => run[r].debited \cap told[r].stopped = {}

\* What the module says of itself (kill_switch.py:3-7): once a mandate is
\* killed, every future run checks it first and refuses to execute anything
\* for it.
KilledRunNeverDebits ==
  \A r \in Runs : run[r].debited \cap told[r].stopped = {}

\* The file as an abstract list: it changes at the moment it is emptied, for
\* from then on the command either completes or takes the list down with it.
List ==
  INSTANCE KillList WITH
    killed <- IF \E o \in Operators : op[o].step = "writing"
              THEN UNION { op[o].ids : o \in { p \in Operators : op[p].step = "writing" } }
              ELSE Killed,
    seen   <- [r \in Runs |-> run[r].seen]

\* With one operator at a time the file implements that list, crashes
\* included: a run sees the whole list or none of it.
ImplementsKillList == List!Spec
=============================================================================

-------------------------- MODULE KillSwitchProofs --------------------------
(***************************************************************************)
(* Proofs about KillSwitch, for every finite set of mandates and any       *)
(* number of runs: a settled kill holds whatever the number of operators,  *)
(* and with one operator at a time the file implements KillList.           *)
(***************************************************************************)
EXTENDS KillSwitch, FiniteSetTheorems, TLAPS

\* Extents are numbers.
LEMMA ExtentType ==
  ASSUME NEW S, S \subseteq MandateIds  PROVE Extent(S) \in Nat /\ Extent(S) >= 1
BY FS_Subset, FS_CardinalityType, MandatesAssumption DEF Extent

\* The list that a text parses to is a list of mandates.
LEMMA KilledType == ASSUME TypeOK  PROVE Killed \subseteq MandateIds
BY DEF TypeOK, FileType, Killed

LEMMA TypeInit == ASSUME Init  PROVE TypeOK
BY DEF Init, TypeOK, FileType, OpType, RunType, ToldType, IdleOp, IdleRun, Nothing

LEMMA TypeNext == ASSUME TypeOK, [Next]_vars  PROVE TypeOK'
<1>1. ASSUME NEW o \in Operators, NEW m \in MandateIds, Kill(o, m) \/ Revive(o, m)
      PROVE  TypeOK'
  <2>1. PICK ids \in SUBSET MandateIds, kills \in BOOLEAN : Command(o, kills, m, ids)
    <3>1. (Killed \cup {m}) \subseteq MandateIds /\ (Killed \ {m}) \subseteq MandateIds
      BY KilledType
    <3>. QED  BY <1>1, <3>1 DEF Kill, Revive
  <2>2. op' \in [Operators -> OpType]
    BY <2>1 DEF TypeOK, OpType, Command
  <2>3. disturbed' \in BOOLEAN
    BY <2>1, Zenon DEF Command
  <2>. QED  BY <2>1, <2>2, <2>3 DEF TypeOK, Command
<1>2. ASSUME NEW o \in Operators, Truncate(o)  PROVE TypeOK'
  BY <1>2 DEF TypeOK, OpType, FileType, Truncate, Truncated
<1>3. ASSUME NEW o \in Operators, Write(o)  PROVE TypeOK'
  <2>1. /\ op[o].ids \subseteq MandateIds /\ op[o].about \subseteq MandateIds
        /\ file.extent \in Nat /\ IdleOp \in OpType
    BY DEF TypeOK, OpType, FileType, IdleOp
  <2>2. Overwritten(op[o].ids) \in FileType
    BY <2>1, ExtentType DEF FileType, Overwritten, LaterOf
  <2>3. stopped' \subseteq MandateIds /\ file' \in FileType /\ op' \in [Operators -> OpType]
    BY <1>3, <2>1, <2>2 DEF TypeOK, Write
  <2>. QED  BY <1>3, <2>3 DEF TypeOK, Write
<1>4. ASSUME NEW o \in Operators, Crash(o)  PROVE TypeOK'
  BY <1>4 DEF TypeOK, OpType, Crash, IdleOp
<1>5. ASSUME NEW r \in Runs, NEW work \in SUBSET MandateIds, Start(r, work)  PROVE TypeOK'
  <2>1. told' \in [Runs -> ToldType]
    BY <1>5 DEF TypeOK, ToldType, Start, Tell
  <2>. QED  BY <1>5, <2>1, KilledType DEF TypeOK, RunType, Start, IdleRun
<1>6. ASSUME NEW r \in Runs, NEW m \in MandateIds, Explain(r, m)  PROVE TypeOK'
  BY <1>5, <1>6 DEF Explain
<1>7. ASSUME NEW r \in Runs, Batch(r)  PROVE TypeOK'
  BY <1>5, <1>7 DEF Batch
<1>8. ASSUME NEW r \in Runs, NEW m \in MandateIds, Approve(r, m)  PROVE TypeOK'
  BY <1>8, KilledType DEF TypeOK, RunType, Approve, IdleRun
<1>9. ASSUME NEW r \in Runs, Confirm(r)  PROVE TypeOK'
  <2>1. told' \in [Runs -> ToldType]
    BY <1>9 DEF TypeOK, ToldType, Confirm, Tell
  <2>. QED  BY <1>9, <2>1, KilledType DEF TypeOK, RunType, Confirm
<1>10. ASSUME NEW r \in Runs, NEW m \in MandateIds, Debit(r, m)  PROVE TypeOK'
  BY <1>10 DEF TypeOK, RunType, Debit
<1>11. ASSUME NEW r \in Runs, Finish(r)  PROVE TypeOK'
  BY <1>11 DEF TypeOK, RunType, ToldType, Finish, IdleRun, Nothing
<1>12. CASE UNCHANGED vars
  BY <1>12 DEF TypeOK, vars
<1>. QED
  BY <1>1, <1>2, <1>3, <1>4, <1>6, <1>7, <1>8, <1>9, <1>10, <1>11, <1>12 DEF Next

\* The variables keep their types.
THEOREM TypeCorrect == Spec => []TypeOK
BY TypeInit, TypeNext, PTL DEF Spec

-----------------------------------------------------------------------------
(* A settled kill *)

\* What a command carries on to write, and what the file holds meanwhile.
CommandsInOrder ==
  /\ \A o, p \in Operators : op[o].step # "idle" /\ op[p].step # "idle" => o = p
  /\ \A o \in Operators : op[o].step # "idle" =>
       op[o].ids = IF op[o].kills THEN stopped \cup op[o].about ELSE stopped \ op[o].about
  /\ \A o \in Operators : op[o].step = "writing" => file = Truncated
  /\ (\A o \in Operators : op[o].step # "writing") => Killed = stopped

\* What a run was told it has seen, and obeyed.
ToldIsSeen ==
  \A r \in Runs :
    told[r].settled =>
      /\ run[r].step = "running"
      /\ told[r].stopped \subseteq run[r].seen
      /\ run[r].debited \cap told[r].stopped = {}

\* Only a running run has debited anything.
NotYetDebited ==
  \A r \in Runs : run[r].step = "running" \/ run[r].debited = {}

SettledInv ==
  TypeOK /\ (~disturbed => CommandsInOrder) /\ ToldIsSeen /\ NotYetDebited

\* An empty file does not parse; a completely written one does.
LEMMA TruncatedReads == ASSUME file = Truncated  PROVE Killed = {}
BY DEF Truncated, Killed

LEMMA WrittenReads ==
  ASSUME TypeOK, file = Truncated, NEW o \in Operators, Write(o)
  PROVE  Killed' = op[o].ids
<1>1. op[o].ids \subseteq MandateIds
  BY DEF TypeOK, OpType
<1>2. Extent(op[o].ids) \in Nat /\ Extent(op[o].ids) >= 1
  BY <1>1, ExtentType
<1>3. file'.head = op[o].ids /\ file'.extent = Extent(op[o].ids)
  BY <1>2 DEF Write, Overwritten, LaterOf, Truncated
<1>. QED  BY <1>3 DEF Killed, Extent

LEMMA SettledInit == ASSUME Init  PROVE SettledInv
<1>1. Killed = {}
  BY DEF Init, Killed
<1>2. CommandsInOrder /\ ToldIsSeen /\ NotYetDebited
  BY <1>1 DEF Init, CommandsInOrder, ToldIsSeen, NotYetDebited, IdleOp, IdleRun, Nothing
<1>. QED  BY <1>2, TypeInit DEF SettledInv

\* Only kill, revive and their completion or death touch the file.
LEMMA OrderNext ==
  ASSUME SettledInv, [Next]_vars, ~disturbed'  PROVE CommandsInOrder'
<1>1. ASSUME NEW o \in Operators, NEW m \in MandateIds, Kill(o, m) \/ Revive(o, m)
      PROVE  CommandsInOrder'
  <2>1. ~disturbed /\ \A p \in Operators : op[p].step = "idle"
    BY <1>1, Zenon DEF Kill, Revive, Command
  <2>2. Killed = stopped /\ Killed' = Killed /\ stopped' = stopped
    BY <1>1, <2>1 DEF SettledInv, CommandsInOrder, Kill, Revive, Command, Killed
  <2>3. /\ \A p \in Operators : p # o => op'[p].step = "idle"
        /\ op'[o].step = "loaded" /\ op'[o].about = {m}
        /\ \/ op'[o].kills = TRUE /\ op'[o].ids = stopped \cup {m}
           \/ op'[o].kills = FALSE /\ op'[o].ids = stopped \ {m}
    BY <1>1, <2>1, <2>2 DEF SettledInv, TypeOK, Kill, Revive, Command
  <2>. QED  BY <2>2, <2>3 DEF CommandsInOrder
<1>2. ASSUME NEW o \in Operators, Truncate(o)  PROVE CommandsInOrder'
  <2>1. /\ ~disturbed /\ CommandsInOrder /\ stopped' = stopped /\ file' = Truncated
        /\ op[o].step # "idle"
    BY <1>2 DEF SettledInv, Truncate
  <2>2. /\ \A p \in Operators : p # o => op'[p] = op[p] /\ op'[p].step = "idle"
        /\ op'[o].step = "writing" /\ op'[o].kills = op[o].kills
        /\ op'[o].about = op[o].about /\ op'[o].ids = op[o].ids
    BY <1>2, <2>1 DEF SettledInv, TypeOK, OpType, Truncate, CommandsInOrder
  <2>. QED  BY <2>1, <2>2 DEF CommandsInOrder
<1>3. ASSUME NEW o \in Operators, Write(o)  PROVE CommandsInOrder'
  <2>1. ~disturbed /\ CommandsInOrder /\ op[o].step = "writing"
    BY <1>3 DEF SettledInv, Write
  <2>2. \A p \in Operators : op'[p].step = "idle"
    BY <1>3, <2>1 DEF SettledInv, TypeOK, Write, CommandsInOrder, IdleOp
  <2>3. Killed' = op[o].ids
    BY <1>3, <2>1, WrittenReads DEF SettledInv, CommandsInOrder
  <2>4. stopped' = op[o].ids
    BY <1>3, <2>1 DEF Write, CommandsInOrder
  <2>. QED  BY <2>2, <2>3, <2>4 DEF CommandsInOrder
<1>4. ASSUME NEW o \in Operators, Crash(o)  PROVE CommandsInOrder'
  <2>1. /\ ~disturbed /\ CommandsInOrder /\ op[o].step = "loaded"
        /\ stopped' = stopped /\ Killed' = Killed
    <3>1. ~disturbed /\ op[o].step # "writing"
      BY <1>4, Zenon DEF Crash
    <3>. QED  BY <1>4, <3>1 DEF SettledInv, TypeOK, OpType, Crash, Killed
  <2>2. \A p \in Operators : op'[p].step = "idle"
    BY <1>4, <2>1 DEF SettledInv, TypeOK, Crash, CommandsInOrder, IdleOp
  <2>3. Killed = stopped
    BY <2>1 DEF CommandsInOrder
  <2>. QED  BY <2>1, <2>2, <2>3 DEF CommandsInOrder
<1>5. ASSUME UNCHANGED <<file, op, stopped, disturbed>>  PROVE CommandsInOrder'
  BY <1>5 DEF SettledInv, CommandsInOrder, Killed
<1>6. ASSUME NEW r \in Runs,
             \/ \E m \in MandateIds : Explain(r, m) \/ Approve(r, m) \/ Debit(r, m)
             \/ Batch(r) \/ Confirm(r) \/ Finish(r)
      PROVE  CommandsInOrder'
  BY <1>5, <1>6 DEF Explain, Batch, Start, Approve, Debit, Confirm, Finish
<1>7. CASE UNCHANGED vars
  BY <1>5, <1>7 DEF vars
<1>. QED  BY <1>1, <1>2, <1>3, <1>4, <1>6, <1>7 DEF Next

\* A run that starts while all is settled reads the list the operators made.
LEMMA ToldNext == ASSUME SettledInv, [Next]_vars  PROVE ToldIsSeen'
<1>1. ASSUME NEW r \in Runs, Tell(r), run'[r].step = "running", run'[r].seen = Killed,
             run'[r].debited = {},
             \A q \in Runs : q # r => run'[q] = run[q]
      PROVE  ToldIsSeen'
  <2>1. told'[r].stopped = stopped /\ (told'[r].settled => stopped = Killed)
    <3>1. /\ told'[r].stopped = stopped
          /\ told'[r].settled =
               (~disturbed /\ \A o \in Operators : op[o].step # "writing")
      BY <1>1 DEF SettledInv, TypeOK, Tell
    <3>. QED  BY <3>1, Zenon DEF SettledInv, CommandsInOrder
  <2>2. \A q \in Runs : q # r => told'[q] = told[q]
    BY <1>1 DEF SettledInv, TypeOK, Tell
  <2>. QED  BY <1>1, <2>1, <2>2 DEF SettledInv, ToldIsSeen
<1>2. ASSUME NEW r \in Runs, NEW work, Start(r, work)  PROVE ToldIsSeen'
  <2>1. run'[r].step = "running" /\ run'[r].seen = Killed /\ run'[r].debited = {}
        /\ \A q \in Runs : q # r => run'[q] = run[q]
    BY <1>2 DEF SettledInv, TypeOK, RunType, Start, IdleRun
  <2>. QED  BY <1>1, <1>2, <2>1 DEF Start
<1>3. ASSUME NEW r \in Runs, NEW m \in MandateIds, Explain(r, m)  PROVE ToldIsSeen'
  BY <1>2, <1>3 DEF Explain
<1>4. ASSUME NEW r \in Runs, Batch(r)  PROVE ToldIsSeen'
  BY <1>2, <1>4 DEF Batch
<1>5. ASSUME NEW r \in Runs, NEW m \in MandateIds, Approve(r, m)  PROVE ToldIsSeen'
  <2>1. ~told[r].settled
    BY <1>5 DEF SettledInv, ToldIsSeen, Approve
  <2>2. told' = told /\ \A q \in Runs : q # r => run'[q] = run[q]
    BY <1>5 DEF SettledInv, TypeOK, Approve
  <2>. QED  BY <2>1, <2>2 DEF SettledInv, ToldIsSeen
<1>6. ASSUME NEW r \in Runs, Confirm(r)  PROVE ToldIsSeen'
  <2>1. run'[r].step = "running" /\ run'[r].seen = Killed
        /\ run'[r].debited = run[r].debited
        /\ \A q \in Runs : q # r => run'[q] = run[q]
    BY <1>6 DEF SettledInv, TypeOK, RunType, Confirm
  <2>2. run[r].debited = {}
    BY <1>6 DEF SettledInv, NotYetDebited, Confirm
  <2>. QED  BY <1>1, <1>6, <2>1, <2>2 DEF Confirm
<1>7. ASSUME NEW r \in Runs, NEW m \in MandateIds, Debit(r, m)  PROVE ToldIsSeen'
  <2>1. /\ told' = told /\ \A q \in Runs : q # r => run'[q] = run[q]
        /\ run'[r].step = run[r].step /\ run'[r].seen = run[r].seen
        /\ run'[r].debited = run[r].debited \cup {m}
        /\ m \notin run[r].seen
    BY <1>7 DEF SettledInv, TypeOK, RunType, Debit
  <2>. QED  BY <2>1 DEF SettledInv, ToldIsSeen
<1>8. ASSUME NEW r \in Runs, Finish(r)  PROVE ToldIsSeen'
  <2>1. /\ ~told'[r].settled
        /\ \A q \in Runs : q # r => run'[q] = run[q] /\ told'[q] = told[q]
    BY <1>8 DEF SettledInv, TypeOK, Finish, Nothing
  <2>. QED  BY <2>1 DEF SettledInv, ToldIsSeen
<1>9. ASSUME UNCHANGED <<run, told>>  PROVE ToldIsSeen'
  BY <1>9 DEF SettledInv, ToldIsSeen
<1>10. ASSUME NEW o \in Operators,
              \/ \E m \in MandateIds : Kill(o, m) \/ Revive(o, m)
              \/ Truncate(o) \/ Write(o) \/ Crash(o)
       PROVE  ToldIsSeen'
  BY <1>9, <1>10 DEF Kill, Revive, Command, Truncate, Write, Crash
<1>11. CASE UNCHANGED vars
  BY <1>9, <1>11 DEF vars
<1>. QED
  BY <1>3, <1>4, <1>5, <1>6, <1>7, <1>8, <1>10, <1>11 DEF Next

LEMMA NotYetNext == ASSUME SettledInv, [Next]_vars  PROVE NotYetDebited'
<1>1. ASSUME NEW r \in Runs,
             run'[r].step = "running" \/ run'[r].debited = {},
             \A q \in Runs : q # r => run'[q] = run[q]
      PROVE  NotYetDebited'
  BY <1>1 DEF SettledInv, NotYetDebited
<1>2. ASSUME NEW r \in Runs,
             \/ \E m \in MandateIds : Explain(r, m) \/ Approve(r, m) \/ Debit(r, m)
             \/ Batch(r) \/ Confirm(r) \/ Finish(r)
      PROVE  NotYetDebited'
  <2>1. run'[r].step = "running" \/ run'[r].debited = {}
    <3>1. ASSUME NEW work, Start(r, work)  PROVE run'[r].step = "running"
      BY <3>1 DEF SettledInv, TypeOK, RunType, Start, IdleRun
    <3>2. ASSUME NEW m \in MandateIds, Approve(r, m)  PROVE run'[r].debited = {}
      BY <3>2 DEF SettledInv, TypeOK, RunType, Approve, IdleRun
    <3>3. ASSUME NEW m \in MandateIds, Debit(r, m)  PROVE run'[r].step = "running"
      BY <3>3 DEF SettledInv, TypeOK, RunType, Debit
    <3>4. ASSUME Confirm(r)  PROVE run'[r].step = "running"
      BY <3>4 DEF SettledInv, TypeOK, RunType, Confirm
    <3>5. ASSUME Finish(r)  PROVE run'[r].debited = {}
      BY <3>5 DEF SettledInv, TypeOK, RunType, Finish, IdleRun
    <3>. QED  BY <1>2, <3>1, <3>2, <3>3, <3>4, <3>5 DEF Explain, Batch
  <2>2. \A q \in Runs : q # r => run'[q] = run[q]
    BY <1>2 DEF SettledInv, TypeOK, Explain, Batch, Start, Approve, Debit, Confirm, Finish
  <2>. QED  BY <1>1, <2>1, <2>2
<1>3. ASSUME UNCHANGED run  PROVE NotYetDebited'
  BY <1>3 DEF SettledInv, NotYetDebited
<1>4. ASSUME NEW o \in Operators,
             \/ \E m \in MandateIds : Kill(o, m) \/ Revive(o, m)
             \/ Truncate(o) \/ Write(o) \/ Crash(o)
      PROVE  NotYetDebited'
  BY <1>3, <1>4 DEF Kill, Revive, Command, Truncate, Write, Crash
<1>5. CASE UNCHANGED vars
  BY <1>3, <1>5 DEF vars
<1>. QED  BY <1>2, <1>4, <1>5 DEF Next

\* A settled kill is obeyed, with any number of operators and of runs.
THEOREM SettledKillCorrect == Spec => []SettledKillHolds
<1>1. Init => SettledInv
  BY SettledInit
<1>2. SettledInv /\ [Next]_vars => SettledInv'
  BY TypeNext, OrderNext, ToldNext, NotYetNext DEF SettledInv
<1>3. SettledInv => SettledKillHolds
  BY DEF SettledInv, ToldIsSeen, SettledKillHolds
<1>. QED  BY <1>1, <1>2, <1>3, PTL DEF Spec

-----------------------------------------------------------------------------
(* Refinement, with one operator *)

\* A command carries the list it read with its own change made.
LoneCommand ==
  \A o \in Operators :
    /\ op[o].step = "loaded" =>
         \E m \in MandateIds :
           op[o].ids = Killed \cup {m} \/ op[o].ids = Killed \ {m}
    /\ op[o].step = "writing" => file = Truncated

LoneInv == TypeOK /\ LoneCommand

LEMMA LoneNext ==
  ASSUME \A o, p \in Operators : o = p, LoneInv, [Next]_vars
  PROVE  LoneCommand'
<1>1. ASSUME NEW o \in Operators, NEW m \in MandateIds, Kill(o, m) \/ Revive(o, m)
      PROVE  LoneCommand'
  <2>1. /\ op'[o].step = "loaded" /\ Killed' = Killed
        /\ op'[o].ids = Killed \cup {m} \/ op'[o].ids = Killed \ {m}
    BY <1>1 DEF LoneInv, TypeOK, Kill, Revive, Command, Killed
  <2>. QED  BY <2>1 DEF LoneCommand
<1>2. ASSUME NEW o \in Operators, Truncate(o)  PROVE LoneCommand'
  <2>1. op'[o].step = "writing" /\ file' = Truncated
    BY <1>2 DEF LoneInv, TypeOK, OpType, Truncate
  <2>. QED  BY <2>1 DEF LoneCommand
<1>3. ASSUME NEW o \in Operators, Write(o) \/ Crash(o)  PROVE LoneCommand'
  <2>1. op'[o].step = "idle"
    BY <1>3 DEF LoneInv, TypeOK, Write, Crash, IdleOp
  <2>. QED  BY <2>1 DEF LoneCommand
<1>4. ASSUME UNCHANGED <<file, op>>  PROVE LoneCommand'
  BY <1>4 DEF LoneInv, LoneCommand, Killed
<1>5. ASSUME NEW r \in Runs,
             \/ \E m \in MandateIds : Explain(r, m) \/ Approve(r, m) \/ Debit(r, m)
             \/ Batch(r) \/ Confirm(r) \/ Finish(r)
      PROVE  LoneCommand'
  BY <1>4, <1>5 DEF Explain, Batch, Start, Approve, Debit, Confirm, Finish
<1>6. CASE UNCHANGED vars
  BY <1>4, <1>6 DEF vars
<1>. QED  BY <1>1, <1>2, <1>3, <1>5, <1>6 DEF Next

\* The list of the abstract specification.
AbstractKilled ==
  IF \E o \in Operators : op[o].step = "writing"
  THEN UNION { op[o].ids : o \in { p \in Operators : op[p].step = "writing" } }
  ELSE Killed

AbstractSeen == [r \in Runs |-> run[r].seen]

LEMMA WritingIsKilled ==
  ASSUME \A o, p \in Operators : o = p, NEW o \in Operators, op[o].step = "writing"
  PROVE  AbstractKilled = op[o].ids
<1>1. { p \in Operators : op[p].step = "writing" } = {o}
  OBVIOUS
<1>2. { op[q].ids : q \in {o} } = { op[o].ids }
  OBVIOUS
<1>. QED  BY <1>1, <1>2 DEF AbstractKilled

LEMMA RestingIsKilled ==
  ASSUME \A o \in Operators : op[o].step # "writing"  PROVE AbstractKilled = Killed
BY DEF AbstractKilled

\* Whatever a run reads is the abstract list, or nothing.
LEMMA ReadIsAll ==
  ASSUME \A o, p \in Operators : o = p, LoneInv
  PROVE  Killed \in {AbstractKilled, {}}
<1>1. CASE \E o \in Operators : op[o].step = "writing"
  BY <1>1, TruncatedReads DEF LoneInv, LoneCommand
<1>2. CASE \A o \in Operators : op[o].step # "writing"
  BY <1>2, RestingIsKilled
<1>. QED  BY <1>1, <1>2

LEMMA RunSteps ==
  ASSUME TypeOK, NEW r \in Runs, UNCHANGED <<file, op>>,
         run' = [run EXCEPT ![r] = run'[r]]
  PROVE  /\ AbstractSeen' = [AbstractSeen EXCEPT ![r] = run'[r].seen]
         /\ AbstractKilled' = AbstractKilled
BY DEF TypeOK, AbstractSeen, AbstractKilled, Killed

LEMMA OperatorSteps ==
  ASSUME \A o, p \in Operators : o = p, LoneInv, NEW o \in Operators,
         \/ \E m \in MandateIds : Kill(o, m) \/ Revive(o, m)
         \/ Truncate(o) \/ Write(o) \/ Crash(o)
  PROVE  /\ AbstractSeen' = AbstractSeen
         /\ \/ AbstractKilled' \in {AbstractKilled, {}}
            \/ \E m \in MandateIds :
                 AbstractKilled' \in {AbstractKilled \cup {m}, AbstractKilled \ {m}}
<1>1. AbstractSeen' = AbstractSeen
  BY DEF AbstractSeen, Kill, Revive, Command, Truncate, Write, Crash
<1>2. ASSUME NEW m \in MandateIds, Kill(o, m) \/ Revive(o, m)
      PROVE  AbstractKilled' = AbstractKilled
  <2>1. op[o].step # "writing" /\ op'[o].step # "writing" /\ Killed' = Killed
    BY <1>2 DEF LoneInv, TypeOK, Kill, Revive, Command, Killed
  <2>. QED  BY <2>1 DEF AbstractKilled
<1>3. ASSUME Truncate(o)
      PROVE  \E m \in MandateIds :
               AbstractKilled' \in {AbstractKilled \cup {m}, AbstractKilled \ {m}}
  <2>1. op[o].step = "loaded" /\ op'[o].step = "writing" /\ op'[o].ids = op[o].ids
    BY <1>3 DEF LoneInv, TypeOK, OpType, Truncate
  <2>2. AbstractKilled = Killed
    BY <2>1 DEF AbstractKilled
  <2>3. AbstractKilled' = op[o].ids
    <3>1. { p \in Operators : op'[p].step = "writing" } = {o}
      BY <2>1
    <3>2. { op'[q].ids : q \in {o} } = { op[o].ids }
      BY <2>1
    <3>. QED  BY <2>1, <3>1, <3>2 DEF AbstractKilled
  <2>. QED  BY <2>1, <2>2, <2>3 DEF LoneInv, LoneCommand
<1>4. ASSUME Write(o)  PROVE AbstractKilled' = AbstractKilled
  <2>1. op[o].step = "writing" /\ op'[o].step = "idle" /\ file = Truncated
    BY <1>4 DEF LoneInv, LoneCommand, TypeOK, Write, IdleOp
  <2>2. Killed' = op[o].ids
    BY <1>4, <2>1, WrittenReads DEF LoneInv
  <2>3. AbstractKilled' = Killed'
    BY <2>1 DEF AbstractKilled
  <2>. QED  BY <2>1, <2>2, <2>3, WritingIsKilled
<1>5. ASSUME Crash(o)  PROVE AbstractKilled' \in {AbstractKilled, {}}
  <2>1. op'[o].step = "idle" /\ Killed' = Killed
    BY <1>5 DEF LoneInv, TypeOK, Crash, IdleOp, Killed
  <2>2. AbstractKilled' = Killed
    BY <2>1 DEF AbstractKilled
  <2>. QED  BY <2>2, ReadIsAll
<1>. QED  BY <1>1, <1>2, <1>3, <1>4, <1>5

\* With one operator the file implements the abstract list: its list changes
\* when the file is emptied, and a death before the new text is there forgets it.
THEOREM KillListCorrect ==
  ASSUME \A o, p \in Operators : o = p  PROVE Spec => ImplementsKillList
<1>1. Init => LoneInv /\ List!Init
  <2>. SUFFICES ASSUME Init  PROVE LoneInv /\ List!Init
    OBVIOUS
  <2>1. \A o \in Operators : op[o].step = "idle"
    BY DEF Init, IdleOp
  <2>2. Killed = {}
    BY DEF Init, Killed
  <2>3. AbstractKilled = {} /\ AbstractSeen = [r \in Runs |-> {}]
    BY <2>1, <2>2 DEF Init, IdleRun, AbstractKilled, AbstractSeen
  <2>4. List!Init
    BY <2>3 DEF List!Init, AbstractKilled, AbstractSeen
  <2>. QED  BY <2>1, <2>4, TypeInit DEF LoneInv, LoneCommand
<1>2. LoneInv /\ [Next]_vars => LoneInv'
  BY LoneNext, TypeNext DEF LoneInv
<1>3. LoneInv /\ [Next]_vars => [List!Next]_List!vars
  <2>. SUFFICES ASSUME LoneInv, [Next]_vars
                PROVE  [List!Next]_<<AbstractKilled, AbstractSeen>>
    BY DEF List!vars, AbstractKilled, AbstractSeen
  <2>1. ASSUME NEW m \in MandateIds, UNCHANGED AbstractSeen,
               AbstractKilled' \in {AbstractKilled \cup {m}, AbstractKilled \ {m}}
        PROVE  List!Next
    BY <2>1 DEF List!Next, List!Kill, List!Revive, AbstractKilled, AbstractSeen
  <2>2. ASSUME UNCHANGED AbstractSeen, AbstractKilled' = {}  PROVE List!Next
    BY <2>2 DEF List!Next, List!Forget, AbstractKilled, AbstractSeen
  <2>3. ASSUME NEW r \in Runs, NEW view \in {AbstractKilled, {}}, UNCHANGED AbstractKilled,
               AbstractSeen' = [AbstractSeen EXCEPT ![r] = view]
        PROVE  List!Next
    BY <2>3 DEF List!Next, List!Look, AbstractKilled, AbstractSeen
  <2>4. ASSUME NEW o \in Operators,
               \/ \E m \in MandateIds : Kill(o, m) \/ Revive(o, m)
               \/ Truncate(o) \/ Write(o) \/ Crash(o)
        PROVE  [List!Next]_<<AbstractKilled, AbstractSeen>>
    BY <2>1, <2>2, <2>4, OperatorSteps
  <2>5. ASSUME NEW r \in Runs,
               \/ \E m \in MandateIds : Explain(r, m) \/ Approve(r, m) \/ Debit(r, m)
               \/ Batch(r) \/ Confirm(r) \/ Finish(r)
        PROVE  [List!Next]_<<AbstractKilled, AbstractSeen>>
    <3>1. UNCHANGED <<file, op>> /\ run' = [run EXCEPT ![r] = run'[r]]
      BY <2>5 DEF LoneInv, TypeOK, Explain, Batch, Start, Approve, Debit, Confirm, Finish
    <3>2. run'[r].seen \in {Killed, {}} \/ run'[r].seen = run[r].seen
      <4>1. ASSUME NEW work, Start(r, work)  PROVE run'[r].seen = Killed
        BY <4>1 DEF LoneInv, TypeOK, RunType, Start, IdleRun
      <4>2. ASSUME NEW m \in MandateIds, Approve(r, m)  PROVE run'[r].seen = Killed
        BY <4>2 DEF LoneInv, TypeOK, RunType, Approve, IdleRun
      <4>3. ASSUME NEW m \in MandateIds, Debit(r, m)  PROVE run'[r].seen = run[r].seen
        BY <4>3 DEF LoneInv, TypeOK, RunType, Debit
      <4>4. ASSUME Confirm(r)  PROVE run'[r].seen = Killed
        BY <4>4 DEF LoneInv, TypeOK, RunType, Confirm
      <4>5. ASSUME Finish(r)  PROVE run'[r].seen = {}
        BY <4>5 DEF LoneInv, TypeOK, RunType, Finish, IdleRun
      <4>. QED  BY <2>5, <4>1, <4>2, <4>3, <4>4, <4>5 DEF Explain, Batch
    <3>3. /\ AbstractSeen' = [AbstractSeen EXCEPT ![r] = run'[r].seen]
          /\ UNCHANGED AbstractKilled
      BY <3>1, RunSteps DEF LoneInv
    <3>4. CASE run'[r].seen = run[r].seen
      BY <3>3, <3>4 DEF AbstractSeen
    <3>5. CASE run'[r].seen \in {Killed, {}}
      BY <2>3, <3>3, <3>5, ReadIsAll
    <3>. QED  BY <3>2, <3>4, <3>5
  <2>6. CASE UNCHANGED vars
    BY <2>6 DEF vars, AbstractKilled, AbstractSeen, Killed
  <2>. QED  BY <2>4, <2>5, <2>6 DEF Next
<1>. QED  BY <1>1, <1>2, <1>3, PTL DEF Spec, List!Spec, ImplementsKillList
=============================================================================

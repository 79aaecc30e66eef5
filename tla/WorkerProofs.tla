---------------------------- MODULE WorkerProofs ----------------------------
(***************************************************************************)
(* Theorems about a process of the engine, for every set of failures, of   *)
(* webhooks and of banks, and every bound.                                 *)
(***************************************************************************)
EXTENDS Worker, TLAPS

-----------------------------------------------------------------------------
(* The intake *)

\* What opened an event in this life is remembered, if it can be.
SeenInv ==
  \A f \in Identified : opened[f] = 0 \/ (opened[f] = 1 /\ f \in seen)

IntakeInv == IntakeTypeOK /\ SeenInv

LEMMA IntakeInitInv == IntakeInit => IntakeInv
  BY FailuresAssumption, BoundsAssumption
  DEF IntakeInit, IntakeInv, IntakeTypeOK, SeenInv, Failures

\* A delivery keeps the invariant: the only action that opens an event is
\* enabled only for what is not remembered, and remembers it.
LEMMA DeliveryKeepsInv ==
  ASSUME IntakeInv, NEW f \in Failures, Delivery(f)
  PROVE  IntakeInv'
<1>1. /\ webhook' = webhook
      /\ restarts' = restarts
      /\ deliveries' = [deliveries EXCEPT ![f] = @ + 1]
      /\ deliveries[f] < MaxDeliveries
  BY DEF Delivery, IgnoreDuplicate, OpenEvent, Raise, Deliver
<1>2. deliveries' \in [Failures -> 0..MaxDeliveries]
  BY <1>1, BoundsAssumption DEF IntakeInv, IntakeTypeOK
<1>3. CASE IgnoreDuplicate(f)
  BY <1>1, <1>2, <1>3
  DEF IgnoreDuplicate, Answered, IntakeInv, IntakeTypeOK, SeenInv
<1>4. CASE OpenEvent(f)
  <2>1. opened' \in [Failures -> Nat] /\ opened' = [opened EXCEPT ![f] = opened[f] + 1]
    BY <1>4 DEF OpenEvent, IntakeInv, IntakeTypeOK
  <2>2. seen' = seen \cup ({f} \cap Identified) /\ f \notin seen
    BY <1>4 DEF OpenEvent, IsDuplicate, Remember
  <2>3. IntakeTypeOK'
    BY <1>1, <1>2, <1>4, <2>1, <2>2
    DEF OpenEvent, Answered, IntakeInv, IntakeTypeOK, Failures
  <2>4. ASSUME NEW g \in Identified
        PROVE  opened'[g] = 0 \/ (opened'[g] = 1 /\ g \in seen')
    <3>1. opened[g] = 0 \/ (opened[g] = 1 /\ g \in seen)
      BY DEF IntakeInv, SeenInv
    <3>2. opened \in [Failures -> Nat] /\ g \in Failures
      BY DEF IntakeInv, IntakeTypeOK, Failures
    <3>3. CASE g = f
      BY <2>1, <2>2, <3>1, <3>2, <3>3
    <3>4. CASE g # f
      BY <2>1, <2>2, <3>1, <3>2, <3>4
    <3>5. QED BY <3>3, <3>4
  <2>5. QED BY <2>3, <2>4 DEF IntakeInv, SeenInv
<1>5. CASE Raise(f)
  BY <1>1, <1>2, <1>5
  DEF Raise, Remember, IntakeInv, IntakeTypeOK, SeenInv, Failures
<1>6. QED BY <1>3, <1>4, <1>5 DEF Delivery

LEMMA RestartKeepsInv ==
  ASSUME IntakeInv, IntakeRestart
  PROVE  IntakeInv'
<1>1. restarts' \in 0..MaxRestarts
  BY BoundsAssumption DEF IntakeInv, IntakeTypeOK, IntakeRestart
<1>2. QED
  BY <1>1 DEF IntakeInv, IntakeTypeOK, SeenInv, IntakeRestart, Failures

LEMMA IntakeStutterInv ==
  ASSUME IntakeInv, UNCHANGED intakeVars
  PROVE  IntakeInv'
  BY DEF IntakeInv, IntakeTypeOK, SeenInv, intakeVars

\* A step of the process is a delivery, a restart of the intake, or none of
\* its business.
LEMMA IntakeSteps ==
  ASSUME [Next]_vars
  PROVE  (\E f \in Failures : Delivery(f)) \/ IntakeRestart \/ UNCHANGED intakeVars
  BY DEF Next, Restart, ReplaceFile, TableReset, vars

LEMMA IntakeInductive == IntakeInv /\ [Next]_vars => IntakeInv'
  BY IntakeSteps, DeliveryKeepsInv, RestartKeepsInv, IntakeStutterInv

\* The type invariant of the intake.
THEOREM IntakeTypeCorrect == Spec => []IntakeTypeOK
<1>1. Init => IntakeInv
  BY IntakeInitInv DEF Init
<1>2. IntakeInv => IntakeTypeOK
  BY DEF IntakeInv
<1>3. QED BY <1>1, <1>2, IntakeInductive, PTL DEF Spec

-----------------------------------------------------------------------------
(* The refinement *)

\* The abstract variable.
AbstractOpened == [f \in Identified |-> opened[f]]

LEMMA PromiseInit == IntakeInit => Promise!Init
  BY DEF IntakeInit, Promise!Init, Failures

LEMMA DeliveryKeepsPromise ==
  ASSUME IntakeInv, NEW h \in Failures, Delivery(h)
  PROVE  [Promise!Next]_Promise!vars
<1>1. CASE opened' = opened
  BY <1>1 DEF Promise!vars
<1>2. CASE OpenEvent(h) /\ h \in Identified
  <2>1. opened' = [opened EXCEPT ![h] = opened[h] + 1] /\ h \notin seen
    BY <1>2 DEF OpenEvent, IsDuplicate
  <2>2. opened \in [Failures -> Nat] /\ Identified \subseteq Failures
    BY DEF IntakeInv, IntakeTypeOK, Failures
  <2>3. opened[h] = 0
    BY <1>2, <2>1 DEF IntakeInv, SeenInv
  <2>4. /\ AbstractOpened[h] = 0
        /\ AbstractOpened' = [AbstractOpened EXCEPT ![h] = 1]
    <3>1. opened' = [opened EXCEPT ![h] = 1]
      BY <2>1, <2>3
    <3>2. AbstractOpened \in [Identified -> Nat] /\ AbstractOpened[h] = 0
      BY <1>2, <2>2, <2>3 DEF AbstractOpened
    <3>3. AbstractOpened' = [f \in Identified |-> IF f = h THEN 1 ELSE opened[f]]
      BY <2>2, <3>1 DEF AbstractOpened
    <3>4. [AbstractOpened EXCEPT ![h] = 1]
             = [f \in Identified |-> IF f = h THEN 1 ELSE opened[f]]
      BY <1>2 DEF AbstractOpened
    <3>5. QED BY <3>2, <3>3, <3>4
  <2>5. Promise!Open(h)
    BY <2>4 DEF Promise!Open, AbstractOpened
  <2>6. QED BY <1>2, <2>5 DEF Promise!Next
<1>3. CASE OpenEvent(h) /\ h \notin Identified
  <2>1. opened' = [opened EXCEPT ![h] = opened[h] + 1]
    BY <1>3 DEF OpenEvent
  <2>2. opened \in [Failures -> Nat] /\ Identified \subseteq Failures
    BY DEF IntakeInv, IntakeTypeOK, Failures
  <2>3. AbstractOpened' = AbstractOpened
    BY <1>3, <2>1, <2>2 DEF AbstractOpened
  <2>4. QED BY <2>3 DEF AbstractOpened, Promise!vars
<1>4. QED
  BY <1>1, <1>2, <1>3 DEF Delivery, IgnoreDuplicate, Raise

LEMMA RestartKeepsPromise ==
  ASSUME IntakeRestart
  PROVE  [Promise!Next]_Promise!vars
<1>1. Promise!Restart
  BY DEF IntakeRestart, Promise!Restart, Failures
<1>2. QED BY <1>1 DEF Promise!Next

\* Between two restarts a failure with an id opens at most one event, however
\* often it is delivered and whatever answers are lost.
THEOREM AtMostOnceCorrect == Spec => ImplementsAtMostOnce
<1>1. Init => IntakeInv /\ Promise!Init
  BY IntakeInitInv, PromiseInit DEF Init
<1>2. IntakeInv /\ [Next]_vars => [Promise!Next]_Promise!vars
  <2>1. ASSUME UNCHANGED intakeVars
        PROVE  [Promise!Next]_Promise!vars
    BY <2>1 DEF intakeVars, Promise!vars
  <2>2. QED
    BY <2>1, IntakeSteps, DeliveryKeepsPromise, RestartKeepsPromise
<1>3. QED
  BY <1>1, <1>2, IntakeInductive, PTL DEF Spec, ImplementsAtMostOnce, Promise!Spec

-----------------------------------------------------------------------------
(* What is acknowledged, and what nobody recognises *)

\* A failure that can be parsed and is remembered or acknowledged was handled:
\* only a payload that raises is remembered and forgotten at once.
HandledInv ==
  \A f \in Failures : (f \in seen \/ f \in acked) /\ webhook[f].complete => f \in handled

LEMMA DeliveryKeepsHandled ==
  ASSUME HandledInv, NEW f \in Failures, Delivery(f)
  PROVE  HandledInv'
<1>1. webhook' = webhook
  BY DEF Delivery, IgnoreDuplicate, OpenEvent, Raise, Deliver
<1>2. CASE IgnoreDuplicate(f)
  <2>1. f \in seen /\ seen' = seen /\ handled' = handled /\ acked' \subseteq acked \cup {f}
    BY <1>2 DEF IgnoreDuplicate, IsDuplicate, Answered
  <2>2. QED BY <1>1, <2>1 DEF HandledInv
<1>3. CASE OpenEvent(f)
  <2>1. /\ seen' \subseteq seen \cup {f}
        /\ acked' \subseteq acked \cup {f}
        /\ handled' = handled \cup {f}
    BY <1>3 DEF OpenEvent, Remember, Answered
  <2>2. QED BY <1>1, <2>1 DEF HandledInv
<1>4. CASE Raise(f)
  <2>1. /\ seen' \subseteq seen \cup {f}
        /\ acked' = acked /\ handled' = handled
        /\ ~webhook[f].complete
    BY <1>4 DEF Raise, Remember, Parses
  <2>2. QED BY <1>1, <2>1 DEF HandledInv
<1>5. QED BY <1>2, <1>3, <1>4 DEF Delivery

\* What the gateway need not send again opened an event, if it could be parsed.
THEOREM AckedCorrect == Spec => []AckedParsableIsHandled
<1>1. Init => HandledInv /\ acked \subseteq Failures
  BY DEF Init, IntakeInit, HandledInv
<1>2. HandledInv /\ [Next]_vars => HandledInv'
  <2>1. ASSUME HandledInv, IntakeRestart PROVE HandledInv'
    BY <2>1 DEF IntakeRestart, HandledInv
  <2>2. ASSUME HandledInv, UNCHANGED intakeVars PROVE HandledInv'
    BY <2>2 DEF intakeVars, HandledInv
  <2>3. QED BY <2>1, <2>2, IntakeSteps, DeliveryKeepsHandled
<1>3. HandledInv /\ IntakeTypeOK => AckedParsableIsHandled
  BY DEF HandledInv, IntakeTypeOK, AckedParsableIsHandled
<1>4. QED BY <1>1, <1>2, <1>3, IntakeTypeCorrect, PTL DEF Spec

\* A reason outside the taxonomy, with a code that decides nothing, is
\* investigated: neither the intake nor the gate guesses.
THEOREM UnrecognisedCorrect == Spec => []UnrecognisedIsInvestigated
<1>1. UnrecognisedIsInvestigated
  <2> SUFFICES ASSUME NEW hook,
                      NEW mandate \in [consecutive: {0, IntentMinConsecutive}, lowBalance: BOOLEAN],
                      hook.reason \notin FailureReason, hook.npci \notin NpciOverrides
               PROVE  Evaluate(Normalised(hook), mandate) = "investigate"
    BY DEF UnrecognisedIsInvestigated
  <2>1. Normalised(hook).reason = "unknown"
    BY DEF Normalised
  <2>2. Normalised(hook).npci \notin NpciOverrides
    BY DEF Normalised, NpciOverrides, NoCode
  <2>3. "unknown" \notin ReasonTable
    BY DEF ReasonTable, ReasonsWithVerdict, RetryabilityVerdict
  <2>4. QED BY <2>1, <2>2, <2>3 DEF Evaluate
<1>2. QED BY <1>1, PTL

-----------------------------------------------------------------------------
(* The reference table *)

\* A loaded table is whole, or empty and reported so; and every signal of this
\* life was read off it.
TableInv ==
  /\ TableTypeOK
  /\ loaded => table = IF loadError THEN {} ELSE Listed
  /\ ~loaded => ~loadError /\ signals = {}
  /\ \A s \in signals :
       s[2] = IF s[1] \in table THEN "calibrated_synthetic" ELSE "system_wide_fallback"

LEMMA TableInitInv == TableInit => TableInv
  BY DEF TableInit, TableInv, TableTypeOK, FileStates

LEMMA ScoreKeepsInv ==
  ASSUME TableInv, NEW bank \in Banks, Score(bank), ~Raises
  PROVE  TableInv'
<1>1. /\ table' \subseteq Listed
      /\ loadError' \in BOOLEAN
      /\ loaded'
      /\ table' = IF loadError' THEN {} ELSE Listed
      /\ signals = {} \/ table' = table
  BY DEF Score, Load, Cached, TableRead, RowsRead, TableInv, TableTypeOK
<1>2. signals' \subseteq Banks \X Confidence
  BY <1>1 DEF Score, TableInv, TableTypeOK, Confidence
<1>3. ASSUME NEW s \in signals'
      PROVE  s[2] = IF s[1] \in table' THEN "calibrated_synthetic" ELSE "system_wide_fallback"
  <2>1. CASE s \in signals
    BY <1>1, <2>1 DEF TableInv
  <2>2. CASE s \notin signals
    BY <2>2 DEF Score
  <2>3. QED BY <2>1, <2>2
<1>4. file' \in FileStates
  BY DEF Score, TableInv, TableTypeOK
<1>5. loaded' = TRUE
  BY DEF Score, Load, Cached, TableInv, TableTypeOK
<1>6. QED BY <1>1, <1>2, <1>3, <1>4, <1>5 DEF TableInv, TableTypeOK

LEMMA TableSteps ==
  ASSUME [Next]_vars
  PROVE  \/ \E bank \in Banks : Score(bank)
         \/ ReplaceFile \/ TableReset \/ UNCHANGED tableVars
  BY DEF Next, Restart, IntakeRestart, vars

LEMMA TableInductive == TableInv /\ [Next]_vars => TableInv'
<1> SUFFICES ASSUME TableInv, [Next]_vars PROVE TableInv'
  OBVIOUS
<1>1. ASSUME ReplaceFile PROVE TableInv'
  BY <1>1 DEF ReplaceFile, TableInv, TableTypeOK, FileStates
<1>2. ASSUME TableReset PROVE TableInv'
  BY <1>2 DEF TableReset, TableInv, TableTypeOK
<1>3. ASSUME UNCHANGED tableVars PROVE TableInv'
  BY <1>3 DEF tableVars, TableInv, TableTypeOK
<1>4. ASSUME NEW bank \in Banks, Score(bank) PROVE TableInv'
  BY <1>3, <1>4, ScoreKeepsInv DEF Score
<1>5. QED BY <1>1, <1>2, <1>3, <1>4, TableSteps

\* Whatever becomes of the file, a bank gets one kind of figures in one life of
\* the process.
THEOREM OneTableCorrect == Spec => []OneTablePerLife
<1>1. Init => TableInv
  BY TableInitInv DEF Init
<1>2. TableInv => OneTablePerLife
  BY DEF TableInv, OneTablePerLife
<1>3. QED BY <1>1, <1>2, TableInductive, PTL DEF Spec

\* The reported status of the load is the truth about the figures given out.
THEOREM FallbackCorrect == Spec => []FallbackIsReported
<1>1. Init => TableInv
  BY TableInitInv DEF Init
<1>2. ASSUME TableInv PROVE FallbackIsReported
  <2> SUFFICES ASSUME NEW s \in signals
               PROVE  s[2] = "system_wide_fallback" <=> s[1] \notin Listed \/ loadError
    BY DEF FallbackIsReported
  <2>1. loaded /\ table = IF loadError THEN {} ELSE Listed
    BY <1>2 DEF TableInv, TableTypeOK
  <2>2. s[2] = IF s[1] \in table THEN "calibrated_synthetic" ELSE "system_wide_fallback"
    BY <1>2 DEF TableInv
  <2>3. QED BY <2>1, <2>2
<1>3. QED BY <1>1, <1>2, TableInductive, PTL DEF Spec
=============================================================================

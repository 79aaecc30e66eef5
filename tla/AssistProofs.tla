---------------------------- MODULE AssistProofs ----------------------------
(***************************************************************************)
(* What holds of the stages with a language model, for any set of answers  *)
(* and offers the model may come up with and any number of calls.          *)
(***************************************************************************)
EXTENDS Assist, TLAPS

(* What the filters let through *)

LEMMA RuleChoiceAllowed ==
  ASSUME NEW verdict \in RetryabilityVerdict, NEW late \in BOOLEAN
  PROVE  RuleChoice(verdict, late) \in ChoiceType
<1>1. DeterministicChoice(verdict) \in InterventionType
  <2>1. CASE verdict = "likely_intentional_nonpayment"
    BY <2>1 DEF DeterministicChoice, InterventionType
  <2>2. CASE verdict = "terminal"
    BY <2>2 DEF DeterministicChoice, InterventionType
  <2>3. CASE verdict = "investigate"
    BY <2>3 DEF DeterministicChoice, InterventionType
  <2>4. CASE verdict = "retryable"
    BY <2>4 DEF DeterministicChoice, InterventionType
  <2>5. QED BY <2>1, <2>2, <2>3, <2>4 DEF RetryabilityVerdict
<1>2. QED
  BY <1>1 DEF RuleChoice, Choice, ChoiceType, AllowedGracePeriods, AllowedPauses

LEMMA SelectedChoiceAllowed ==
  ASSUME NEW reply \in Replies(ModelChoices), NEW rule \in ChoiceType
  PROVE  SelectedChoice(reply, rule) \in ChoiceType
<1>1. CASE reply = None \/ reply.type \notin InterventionType
  BY <1>1 DEF SelectedChoice
<1>2. CASE reply # None /\ reply.type \in InterventionType
  BY <1>2 DEF SelectedChoice, Choice, ChoiceType, Filter
<1>3. QED BY <1>1, <1>2

LEMMA CarriedAllowed ==
  ASSUME NEW verdict \in RetryabilityVerdict, NEW selected \in ChoiceType
  PROVE  Carried(verdict, selected) \in ChoiceType
BY DEF Carried, Choice, ChoiceType, Guard

LEMMA ScreenedTextPasses ==
  ASSUME NEW reply \in Replies(ModelTexts)
  PROVE  /\ ScreenedText(reply) \in TextType
         /\ ScreenedText(reply).flagged = FALSE
<1>1. Draft(reply) \in TextType
  BY DEF Replies, ModelTexts, Draft, Template, TextType
<1>2. QED
  BY <1>1 DEF ScreenedText, Template, TextType

-----------------------------------------------------------------------------
(* The type invariant *)

LEMMA CallTypeOK ==
  ASSUME AssistTypeOK, NEW reply, Call(reply)
  PROVE  /\ enabled' \in BOOLEAN /\ client' \in BOOLEAN
         /\ usage' \in [calls: Nat, ok: Nat] /\ usage'.ok <= usage'.calls
<1>1. usage.calls \in Nat /\ usage.ok \in Nat /\ usage.ok <= usage.calls
  BY DEF AssistTypeOK
<1>2. usage' = [ calls |-> usage.calls + 1,
                 ok    |-> usage.ok + (IF reply = None THEN 0 ELSE 1) ]
  BY DEF Call
<1>3. QED BY <1>1, <1>2 DEF Call, AssistTypeOK

LEMMA SelectKeepsType ==
  ASSUME AssistTypeOK, NEW verdict \in RetryabilityVerdict, NEW late \in BOOLEAN,
         NEW reply \in Replies(ModelChoices), SelectNotice(verdict, late, reply)
  PROVE  AssistTypeOK'
<1> DEFINE selected == SelectedChoice(reply, RuleChoice(verdict, late))
<1>1. selected \in ChoiceType
  BY RuleChoiceAllowed, SelectedChoiceAllowed
<1>2. choice' \in ChoiceType /\ phase' = "drafting"
  BY <1>1, CarriedAllowed DEF SelectNotice
<1>3. escalated' \in Nat
  BY DEF SelectNotice, AssistTypeOK
<1>4. Call(reply) /\ UNCHANGED <<rejections, vetoed, report>>
  BY DEF SelectNotice
<1>5. QED BY <1>2, <1>3, <1>4, CallTypeOK DEF AssistTypeOK

LEMMA NotifyKeepsType ==
  ASSUME AssistTypeOK, NEW carried, NEW reply \in Replies(ModelTexts), NEW approved \in BOOLEAN,
         Notify(carried, reply, approved), choice' = None \/ UNCHANGED choice
  PROVE  AssistTypeOK'
<1>1. rejections' \in Nat /\ vetoed' \in Nat
  BY DEF Notify, AssistTypeOK
<1>2. Call(reply) /\ phase' = "idle" /\ UNCHANGED <<escalated, report>>
  BY DEF Notify
<1>3. choice' \in ChoiceType \cup {None}
  BY DEF AssistTypeOK
<1>4. QED BY <1>1, <1>2, <1>3, CallTypeOK DEF AssistTypeOK

LEMMA NarrateKeepsType ==
  ASSUME AssistTypeOK, NEW reply, Narrate(reply),
         escalated' \in Nat, phase' = "idle" \/ phase' = "summarised"
  PROVE  AssistTypeOK'
<1>1. Call(reply) /\ UNCHANGED <<choice, rejections, vetoed, report>>
  BY DEF Narrate
<1>2. QED BY <1>1, CallTypeOK DEF AssistTypeOK

LEMMA TypeInductive == AssistTypeOK /\ [Next]_vars => AssistTypeOK'
<1> SUFFICES ASSUME AssistTypeOK, [Next]_vars PROVE AssistTypeOK'
  OBVIOUS
<1>1. ASSUME NEW verdict \in RetryabilityVerdict, NEW late \in BOOLEAN,
             NEW reply \in Replies(ModelChoices), SelectNotice(verdict, late, reply)
      PROVE  AssistTypeOK'
  BY <1>1, SelectKeepsType
<1>2. ASSUME NEW reply \in Replies(ModelTexts), NEW approved \in BOOLEAN,
             DraftNotice(reply, approved)
      PROVE  AssistTypeOK'
  BY <1>2, NotifyKeepsType DEF DraftNotice
<1>3. ASSUME NEW reply \in Replies(ModelTexts), NEW approved \in BOOLEAN,
             NEW type \in OutcomeNotices, TellOutcome(type, reply, approved)
      PROVE  AssistTypeOK'
  BY <1>3, NotifyKeepsType DEF TellOutcome
<1>4. ASSUME NEW reply \in Replies(ModelTexts), Brief(reply)
      PROVE  AssistTypeOK'
  <2>1. escalated' \in Nat
    BY <1>4 DEF Brief, AssistTypeOK
  <2>2. QED BY <1>4, <2>1, NarrateKeepsType DEF Brief
<1>5. ASSUME NEW reply \in Replies(ModelTexts), Summarise(reply)
      PROVE  AssistTypeOK'
  BY <1>5, NarrateKeepsType DEF Summarise, AssistTypeOK
<1>6. ASSUME NEW reply \in Replies(Suggestions), Classify(reply)
      PROVE  AssistTypeOK'
  <2>1. Call(reply) /\ UNCHANGED <<phase, choice, escalated, rejections, vetoed, report>>
    BY <1>6 DEF Classify
  <2>2. QED BY <2>1, CallTypeOK DEF AssistTypeOK
<1>7. CASE Report
  BY <1>7 DEF Report, AssistTypeOK
<1>8. CASE UNCHANGED vars
  BY <1>8 DEF vars, AssistTypeOK
<1>9. QED BY <1>1, <1>2, <1>3, <1>4, <1>5, <1>6, <1>7, <1>8 DEF Next

LEMMA TypeInit == Init => AssistTypeOK
  BY DEF Init, AssistTypeOK

\* Every variable keeps its type, whatever the model answers.
THEOREM AssistTypeCorrect == Spec => []AssistTypeOK
<1>1. QED BY TypeInit, TypeInductive, PTL DEF Spec

-----------------------------------------------------------------------------
(* The limits on what is sent *)

\* What a notice may be.
Permitted(n) == n.text.flagged = FALSE /\ n.carried \in ChoiceType

LimitsInv == notice # None => Permitted(notice)

LEMMA NotifyKeepsLimits ==
  ASSUME LimitsInv, NEW carried \in ChoiceType, NEW reply \in Replies(ModelTexts),
         NEW approved \in BOOLEAN, Notify(carried, reply, approved)
  PROVE  LimitsInv'
<1>1. CASE approved
  <2>1. notice' = [carried |-> carried, text |-> ScreenedText(reply)]
    BY <1>1 DEF Notify
  <2>2. QED BY <2>1, ScreenedTextPasses DEF LimitsInv, Permitted
<1>2. CASE ~approved
  <2>1. notice' = notice
    BY <1>2 DEF Notify
  <2>2. QED BY <2>1 DEF LimitsInv, Permitted
<1>3. QED BY <1>1, <1>2

LEMMA LimitsInductive == AssistTypeOK /\ LimitsInv /\ [Next]_vars => LimitsInv'
<1> SUFFICES ASSUME AssistTypeOK, LimitsInv, [Next]_vars PROVE LimitsInv'
  OBVIOUS
<1>1. ASSUME UNCHANGED notice PROVE LimitsInv'
  BY <1>1 DEF LimitsInv, Permitted
<1>2. ASSUME NEW reply \in Replies(ModelTexts), NEW approved \in BOOLEAN,
             DraftNotice(reply, approved)
      PROVE  LimitsInv'
  BY <1>2, NotifyKeepsLimits DEF DraftNotice, AssistTypeOK
<1>3. ASSUME NEW reply \in Replies(ModelTexts), NEW approved \in BOOLEAN,
             NEW type \in OutcomeNotices, TellOutcome(type, reply, approved)
      PROVE  LimitsInv'
  <2>1. Choice(type, None, None) \in ChoiceType
    BY DEF Choice, ChoiceType, OutcomeNotices, InterventionType
  <2>2. QED BY <1>3, <2>1, NotifyKeepsLimits DEF TellOutcome
<1>4. ASSUME NEW reply \in Replies(ModelTexts), Brief(reply) \/ Summarise(reply)
      PROVE  LimitsInv'
  BY <1>1, <1>4 DEF Brief, Summarise, Narrate
<1>5. QED
  BY <1>1, <1>2, <1>3, <1>4 DEF Next, SelectNotice, Classify, Report, vars

\* No notice goes out with a text the screen refuses or an offer outside the
\* merchant's lists, whatever the model answers.
THEOREM LimitsCorrect == Spec => []SentWithinLimits
<1>1. Init => LimitsInv
  BY DEF Init, LimitsInv
<1>2. ASSUME LimitsInv PROVE SentWithinLimits
  BY <1>2 DEF LimitsInv, Permitted, SentWithinLimits, ChoiceType, AllowedGracePeriods,
              AllowedPauses, GraceCeiling, PauseCeiling
<1>3. QED BY <1>1, <1>2, TypeInit, TypeInductive, LimitsInductive, PTL DEF Spec

-----------------------------------------------------------------------------
(* Provenance *)

LEMMA SelectHonest ==
  ASSUME NEW verdict \in RetryabilityVerdict, NEW late \in BOOLEAN,
         NEW reply \in Replies(ModelChoices), SelectNotice(verdict, late, reply)
  PROVE  ProvenanceHonest'
<1> DEFINE rule == RuleChoice(verdict, late)
<1>1. made' = [reply |-> reply, rule |-> rule, content |-> SelectedChoice(reply, rule),
               actor |-> SelectedActor(reply)]
  BY DEF SelectNotice, Make
<1>2. CASE reply = None
  BY <1>1, <1>2 DEF ProvenanceHonest, SelectedChoice, SelectedActor
<1>3. CASE reply # None /\ reply.type \notin InterventionType
  <2>1. rule.type \in InterventionType
    BY RuleChoiceAllowed DEF ChoiceType
  <2>2. QED BY <1>1, <1>3, <2>1 DEF ProvenanceHonest, SelectedChoice, SelectedActor
<1>4. CASE /\ reply # None /\ reply.type \in InterventionType
           /\ Dropped(reply.grace, AllowedGracePeriods) \/ Dropped(reply.pause, AllowedPauses)
  BY <1>1, <1>4 DEF ProvenanceHonest, SelectedChoice, SelectedActor, Dropped, Filter, Choice
<1>5. CASE /\ reply # None /\ reply.type \in InterventionType
           /\ ~Dropped(reply.grace, AllowedGracePeriods) /\ ~Dropped(reply.pause, AllowedPauses)
  <2>1. reply = [type |-> reply.type, grace |-> reply.grace, pause |-> reply.pause]
    BY <1>5 DEF Replies, ModelChoices
  <2>2. SelectedChoice(reply, rule) = reply
    BY <1>5, <2>1 DEF SelectedChoice, Dropped, Filter, Choice
  <2>3. QED BY <1>1, <1>5, <2>2 DEF ProvenanceHonest, SelectedActor
<1>6. QED BY <1>2, <1>3, <1>4, <1>5

LEMMA NotifyHonest ==
  ASSUME NEW carried, NEW reply \in Replies(ModelTexts), NEW approved \in BOOLEAN,
         Notify(carried, reply, approved)
  PROVE  ProvenanceHonest'
<1>1. made' = [reply |-> reply, rule |-> Template, content |-> ScreenedText(reply),
               actor |-> ScreenedActor(reply)]
  BY DEF Notify, Make
<1>2. CASE reply = None
  BY <1>1, <1>2
     DEF ProvenanceHonest, ScreenedText, ScreenedActor, Draft, Template, FallbackActor
<1>3. CASE reply # None
  <2>1. reply \in ModelTexts
    BY <1>3 DEF Replies
  <2>2. reply # Template /\ reply.flagged \in BOOLEAN
    BY <2>1 DEF ModelTexts, Template
  <2>3. QED BY <1>1, <1>3, <2>2 DEF ProvenanceHonest, ScreenedText, ScreenedActor, Draft
<1>4. QED BY <1>2, <1>3

LEMMA NarrateHonest ==
  ASSUME NEW reply, Narrate(reply)
  PROVE  ProvenanceHonest'
BY DEF Narrate, Make, Draft, FallbackActor, ProvenanceHonest

LEMMA ClassifyHonest ==
  ASSUME NEW reply \in Replies(Suggestions), Classify(reply)
  PROVE  ProvenanceHonest'
<1>1. CASE reply = None
  BY <1>1 DEF Classify, Make, ProvenanceHonest
<1>2. CASE reply # None
  <2>1. reply # NoSuggestion
    BY <1>2 DEF Replies, Suggestions, NoSuggestion
  <2>2. QED BY <1>2, <2>1 DEF Classify, Make, ProvenanceHonest
<1>3. QED BY <1>1, <1>2

LEMMA HonestInductive == ProvenanceHonest /\ [Next]_vars => ProvenanceHonest'
<1> SUFFICES ASSUME ProvenanceHonest, [Next]_vars PROVE ProvenanceHonest'
  OBVIOUS
<1>1. ASSUME UNCHANGED made PROVE ProvenanceHonest'
  BY <1>1 DEF ProvenanceHonest
<1>2. CASE Next
  BY <1>1, <1>2, SelectHonest, NotifyHonest, NarrateHonest, ClassifyHonest
     DEF Next, DraftNotice, TellOutcome, Brief, Summarise, Report
<1>3. QED BY <1>1, <1>2 DEF vars

\* The actor on record tells who wrote what was used, for every answer.
THEOREM ProvenanceCorrect == Spec => []ProvenanceHonest
<1>1. Init => ProvenanceHonest
  BY DEF Init, ProvenanceHonest
<1>2. QED BY <1>1, HonestInductive, PTL DEF Spec

-----------------------------------------------------------------------------
(* The switch *)

\* With the model off a call returns nothing.
LEMMA CallSwitchedOff ==
  ASSUME AssistTypeOK, SwitchedOffIsDeterministic, NEW reply, Call(reply), ~(enabled /\ client)
  PROVE  reply = None /\ usage'.ok = 0 /\ ~(enabled' /\ client')
BY DEF AssistTypeOK, SwitchedOffIsDeterministic, Call, Answering

\* What is left to show of a call: with nothing returned the rule decides.
LEMMA CallSwitched ==
  ASSUME AssistTypeOK, SwitchedOffIsDeterministic, NEW reply, Call(reply),
         NEW rule, NEW content, NEW actor, Make(reply, rule, content, actor),
         reply = None => /\ content = rule
                         /\ actor \in {FallbackActor, "deterministic"}
  PROVE  SwitchedOffIsDeterministic'
<1>1. made'.content = content /\ made'.rule = rule /\ made'.actor = actor
  BY DEF Make
<1>2. ~enabled => actor = "deterministic"
  BY CallSwitchedOff DEF FallbackActor, AssistTypeOK
<1>3. QED
  BY <1>1, <1>2, CallSwitchedOff DEF Call, SwitchedOffIsDeterministic, AssistTypeOK

LEMMA SwitchInductive ==
  AssistTypeOK /\ SwitchedOffIsDeterministic /\ [Next]_vars => SwitchedOffIsDeterministic'
<1> SUFFICES ASSUME AssistTypeOK, SwitchedOffIsDeterministic, [Next]_vars
             PROVE  SwitchedOffIsDeterministic'
  OBVIOUS
<1>1. ASSUME NEW verdict \in RetryabilityVerdict, NEW late \in BOOLEAN,
             NEW reply \in Replies(ModelChoices), SelectNotice(verdict, late, reply)
      PROVE  SwitchedOffIsDeterministic'
  BY <1>1, CallSwitched DEF SelectNotice, SelectedChoice, SelectedActor
<1>2. ASSUME NEW carried, NEW reply \in Replies(ModelTexts), NEW approved \in BOOLEAN,
             Notify(carried, reply, approved)
      PROVE  SwitchedOffIsDeterministic'
  BY <1>2, CallSwitched DEF Notify, ScreenedText, ScreenedActor, Draft, Template
<1>3. ASSUME NEW reply, Narrate(reply)
      PROVE  SwitchedOffIsDeterministic'
  BY <1>3, CallSwitched DEF Narrate, Draft
<1>4. ASSUME NEW reply \in Replies(Suggestions), Classify(reply)
      PROVE  SwitchedOffIsDeterministic'
  <2>1. CASE reply = None
    BY <1>4, <2>1, CallSwitched DEF Classify
  <2>2. CASE reply # None /\ InTaxonomy(reply)
    BY <1>4, <2>2, CallSwitched DEF Classify
  <2>3. CASE reply # None /\ ~InTaxonomy(reply)
    BY <1>4, <2>3, CallSwitched DEF Classify
  <2>4. QED BY <2>1, <2>2, <2>3
<1>5. ASSUME UNCHANGED <<enabled, client, usage, made>>
      PROVE  SwitchedOffIsDeterministic'
  BY <1>5 DEF SwitchedOffIsDeterministic
<1>6. QED
  BY <1>1, <1>2, <1>3, <1>4, <1>5
     DEF Next, DraftNotice, TellOutcome, Brief, Summarise, Report, vars

\* With the switch off, or no key, everything is what the rules make it.
THEOREM SwitchCorrect == Spec => []SwitchedOffIsDeterministic
<1>1. Init => SwitchedOffIsDeterministic
  BY DEF Init, SwitchedOffIsDeterministic
<1>2. QED BY <1>1, TypeInit, TypeInductive, SwitchInductive, PTL DEF Spec
=============================================================================

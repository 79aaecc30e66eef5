------------------------------- MODULE Assist -------------------------------
(***************************************************************************)
(* Where a language model has a word: the selection of a notice (src/      *)
(* intervene/selector.py), its text (copy_generator.py, screened by        *)
(* guardrails/dark_pattern_screen.py), the brief of an escalation          *)
(* (escalation_brief.py), the classification of an unknown reason          *)
(* (classify/reason_classifier.py) and the paragraph over an evaluation    *)
(* (eval/batch_summary.py).  All of them call the model through            *)
(* llm_client.call_structured, which counts the calls, and all of them     *)
(* have a rule to fall back on.                                            *)
(*                                                                         *)
(* The behaviour is that of one process, a command or an evaluation: any   *)
(* number of notices, briefs and classifications, then, in an evaluation,  *)
(* the paragraph and the report.  When a run of run_mandate asks for which *)
(* notice is the subject of Orchestrator.  A text is the record of who     *)
(* wrote it and whether the screen's patterns match it; no template does   *)
(* match (a unit test says so).                                            *)
(***************************************************************************)
EXTENDS Selector, Naturals

CONSTANTS
  None,      \* no offer, no reply
  Offers,    \* the grace periods and pauses the model may name, or None
  MaxCalls   \* bound: the calls of the model by one process

ASSUME AssistAssumption == /\ None \notin Nat
                           /\ None \in Offers
                           /\ Offers \ {None} \subseteq Nat

VARIABLES
  enabled,    \* RECOVERY_ENGINE_USE_LLM
  client,     \* the package is installed and a key is set
  usage,      \* UsageStats
  phase,      \* "idle", "drafting" a chosen notice, "summarised", "reported"
  choice,     \* the notice being drafted
  made,       \* the last thing made, and what it was made from
  notice,     \* the last notice that was sent
  escalated,  \* the escalations still without a brief
  rejections, \* the notices sent with a text that fails the screen
  vetoed,     \* history: the drafts the screen refused
  report      \* what the report says of the model and of the screen

vars == <<enabled, client, usage, phase, choice, made, notice, escalated, rejections,
          vetoed, report>>

Actors == {"deterministic", "llm", "llm_fallback"}

-----------------------------------------------------------------------------
(* The client *)

\* A slip: the switch is not looked at.
MutantNoSwitch == client

\* _call_structured_uncounted reaches the model.
Answering == enabled /\ client

\* call_structured: a call fails, or returns one of the replies; either way it
\* is counted, with the switch off as well.
Call(reply) ==
  /\ usage.calls < MaxCalls
  /\ reply # None => Answering
  /\ usage' = [ calls |-> usage.calls + 1,
                ok    |-> usage.ok + (IF reply = None THEN 0 ELSE 1) ]
  /\ UNCHANGED <<enabled, client>>

\* The actor most stages record when they fall back on their rule.
FallbackActor == IF enabled THEN "llm_fallback" ELSE "deterministic"

Make(reply, rule, content, actor) ==
  made' = [reply |-> reply, rule |-> rule, content |-> content, actor |-> actor]

-----------------------------------------------------------------------------
(* Selecting *)

AllowedGracePeriods == 1..3
AllowedPauses       == 1..3
GraceCeiling == 3
PauseCeiling == 3

Choice(type, grace, pause) == [type |-> type, grace |-> grace, pause |-> pause]

ModelChoices == [type: LlmAnswers, grace: Offers, pause: Offers]

\* _deterministic_choice; late: arrears exist and it is the third attempt or
\* the fourth.
RuleChoice(verdict, late) ==
  Choice(DeterministicChoice(verdict),
         IF verdict = "retryable" /\ late THEN 1 ELSE None,
         IF verdict = "likely_intentional_nonpayment" THEN 1 ELSE None)

Filter(offer, allowed) == IF offer \in allowed THEN offer ELSE None

Dropped(offer, allowed) == offer # None /\ offer \notin allowed

\* A slip: the type is not checked against the set.
MutantAnyType(reply, rule) ==
  IF reply = None THEN rule
  ELSE Choice(reply.type, Filter(reply.grace, AllowedGracePeriods),
                          Filter(reply.pause, AllowedPauses))

SelectedChoice(reply, rule) ==
  IF reply = None THEN rule
  ELSE IF reply.type \notin InterventionType THEN rule
  ELSE Choice(reply.type, Filter(reply.grace, AllowedGracePeriods),
                          Filter(reply.pause, AllowedPauses))

SelectedActor(reply) ==
  IF reply = None THEN "deterministic"
  ELSE IF \/ reply.type \notin InterventionType
          \/ Dropped(reply.grace, AllowedGracePeriods)
          \/ Dropped(reply.pause, AllowedPauses)
    THEN "llm_fallback"
  ELSE "llm"

\* validate_grace_period, validate_pause_offer
Guard(offer, allowed, ceiling) ==
  IF offer # None /\ (offer \notin allowed \/ offer > ceiling) THEN None ELSE offer

\* What the notice will carry: run_mandate guards and passes on the grace
\* period of a retry, and the pause of a run that ends.
Carried(verdict, selected) ==
  IF verdict = "retryable"
  THEN Choice(selected.type, Guard(selected.grace, AllowedGracePeriods, GraceCeiling), None)
  ELSE Choice(selected.type, None, Guard(selected.pause, AllowedPauses, PauseCeiling))

SelectNotice(verdict, late, reply) ==
  LET rule     == RuleChoice(verdict, late)
      selected == SelectedChoice(reply, rule)
  IN  /\ phase = "idle"
      /\ Call(reply)
      /\ Make(reply, rule, selected, SelectedActor(reply))
      /\ choice' = Carried(verdict, selected)
      /\ escalated' = escalated + (IF selected.type = "escalate_to_support" THEN 1 ELSE 0)
      /\ phase' = "drafting"
      /\ UNCHANGED <<notice, rejections, vetoed, report>>

-----------------------------------------------------------------------------
(* Drafting *)

Template   == [by |-> "template", flagged |-> FALSE]
ModelTexts == [by: {"model"}, flagged: BOOLEAN]

Draft(reply) == IF reply = None THEN Template ELSE reply

\* A slip: the veto is recorded, the draft is sent all the same.
MutantKeepDraft(reply) == Draft(reply)

\* generate: a flagged draft gives way to the template.
ScreenedText(reply) == IF Draft(reply).flagged THEN Template ELSE Draft(reply)

\* A slip: the template that replaces a vetoed draft keeps the draft's author.
MutantKeepActor(reply) == IF reply = None THEN FallbackActor ELSE "llm"

ScreenedActor(reply) ==
  IF Draft(reply).flagged THEN "llm_fallback"
  ELSE IF reply = None THEN FallbackActor ELSE "llm"

\* The text of a notice is drafted and screened; the notification guardrail
\* lets it pass or not (approved).
Notify(carried, reply, approved) ==
  /\ Call(reply)
  /\ Make(reply, Template, ScreenedText(reply), ScreenedActor(reply))
  /\ vetoed' = vetoed + (IF Draft(reply).flagged THEN 1 ELSE 0)
  /\ rejections' = rejections + (IF approved /\ ScreenedText(reply).flagged THEN 1 ELSE 0)
  /\ notice' = IF approved THEN [carried |-> carried, text |-> ScreenedText(reply)] ELSE notice
  /\ phase' = "idle"
  /\ UNCHANGED <<escalated, report>>

DraftNotice(reply, approved) ==
  /\ phase = "drafting"
  /\ Notify(choice, reply, approved)
  /\ choice' = None

\* After a debit: the type is given, only the text is drafted.
TellOutcome(type, reply, approved) ==
  /\ phase = "idle"
  /\ Notify(Choice(type, None, None), reply, approved)
  /\ UNCHANGED choice

-----------------------------------------------------------------------------
(* Narrating and classifying *)

\* A text for a human reader that no screen looks at.
Narrate(reply) ==
  /\ Call(reply)
  /\ Make(reply, Template, Draft(reply), IF reply = None THEN FallbackActor ELSE "llm")
  /\ UNCHANGED <<choice, notice, rejections, vetoed, report>>

Brief(reply) ==
  /\ phase = "idle"
  /\ escalated > 0
  /\ escalated' = escalated - 1
  /\ Narrate(reply)
  /\ UNCHANGED phase

Summarise(reply) ==
  /\ phase = "idle"
  /\ phase' = "summarised"
  /\ Narrate(reply)
  /\ UNCHANGED escalated

Suggestions   == { [reason |-> r] : r \in {"bank_technical_error", "a_new_reason"} }
NoSuggestion  == [reason |-> "none"]
InTaxonomy(s) == s.reason \in FailureReason \ {"unknown"}

\* classify_unknown_reason: a suggestion for a human, read by nothing.
Classify(reply) ==
  /\ phase = "idle"
  /\ Call(reply)
  /\ IF reply = None THEN Make(reply, NoSuggestion, NoSuggestion, "deterministic")
     ELSE IF InTaxonomy(reply) THEN Make(reply, NoSuggestion, reply, "llm")
     ELSE Make(reply, NoSuggestion, NoSuggestion, "llm_fallback")
  /\ UNCHANGED <<phase, choice, notice, escalated, rejections, vetoed, report>>

-----------------------------------------------------------------------------
(* The report of an evaluation: the cost line of render_markdown, and the   *)
(* rejections, which compute_metrics counts among the notices sent.         *)

Report ==
  /\ phase = "summarised"
  /\ phase' = "reported"
  /\ report' = [usesModel |-> usage.calls # 0, rejections |-> rejections]
  /\ UNCHANGED <<enabled, client, usage, choice, made, notice, escalated, rejections, vetoed>>

-----------------------------------------------------------------------------
Init ==
  /\ enabled \in BOOLEAN
  /\ client \in BOOLEAN
  /\ usage = [calls |-> 0, ok |-> 0]
  /\ phase = "idle"
  /\ choice = None
  /\ made = None
  /\ notice = None
  /\ escalated = 0
  /\ rejections = 0
  /\ vetoed = 0
  /\ report = None

Replies(answers) == {None} \cup answers

OutcomeNotices == {"post_debit_confirmation", "source_aware_failure_notice"}

Next ==
  \/ \E verdict \in RetryabilityVerdict, late \in BOOLEAN, reply \in Replies(ModelChoices) :
       SelectNotice(verdict, late, reply)
  \/ \E reply \in Replies(ModelTexts), approved \in BOOLEAN :
       \/ DraftNotice(reply, approved)
       \/ \E type \in OutcomeNotices : TellOutcome(type, reply, approved)
  \/ \E reply \in Replies(ModelTexts) : Brief(reply) \/ Summarise(reply)
  \/ \E reply \in Replies(Suggestions) : Classify(reply)
  \/ Report

Spec == Init /\ [][Next]_vars

-----------------------------------------------------------------------------
(* Properties *)

ChoiceType == [type: InterventionType, grace: AllowedGracePeriods \cup {None},
               pause: AllowedPauses \cup {None}]
TextType   == [by: {"template", "model"}, flagged: BOOLEAN]

AssistTypeOK ==
  /\ enabled \in BOOLEAN /\ client \in BOOLEAN
  /\ usage \in [calls: Nat, ok: Nat] /\ usage.ok <= usage.calls
  /\ phase \in {"idle", "drafting", "summarised", "reported"}
  /\ choice \in ChoiceType \cup {None}
  /\ phase = "drafting" => choice \in ChoiceType
  /\ escalated \in Nat /\ rejections \in Nat /\ vetoed \in Nat
  /\ report \in [usesModel: BOOLEAN, rejections: Nat] \cup {None}

\* INV-09 and INV-10: whatever the model answers, and at whichever of the calls,
\* a notice that was sent has a text the screen passes and offers nothing the
\* merchant does not allow.
SentWithinLimits ==
  notice # None =>
    /\ ~notice.text.flagged
    /\ notice.carried.grace \in (AllowedGracePeriods \cup {None})
    /\ notice.carried.grace # None => notice.carried.grace <= GraceCeiling
    /\ notice.carried.pause \in (AllowedPauses \cup {None})
    /\ notice.carried.pause # None => notice.carried.pause <= PauseCeiling

\* The actor on an audit entry or beside a text tells where it came from: "llm"
\* on the model's own words and on nothing else, "deterministic" on the rule's
\* where the model said nothing.
ProvenanceHonest ==
  made # None =>
    /\ made.actor = "llm" <=> made.reply # None /\ made.content = made.reply
    /\ made.actor = "deterministic" => made.reply = None /\ made.content = made.rule

\* Every caller's own fallback, with the switch off or without a key: the rule
\* table decides (selector.py:45-46), and the texts are the templates.  With the
\* switch off every caller also records "deterministic" (selector.py:110-111,
\* copy_generator.py:96, escalation_brief.py:53, reason_classifier.py:58,
\* batch_summary.py:45), as tests/test_narration.py:19 and :35 expect of two.
\* The docstring of llm_client.py (lines 8-11) says the opposite of that actor.
SwitchedOffIsDeterministic ==
  /\ ~(enabled /\ client) => /\ usage.ok = 0
                             /\ made # None => made.content = made.rule
  /\ ~enabled /\ made # None => made.actor = "deterministic"

\* What AI_USAGE.md (lines 172-176) and EVALUATION.md's cost section are for:
\* the report says the model was used only when it was switched on.
CostLineTruthful == report # None /\ report.usesModel => enabled

\* What the screen (dark_pattern_screen.py:7) and README.md (line 147) promise:
\* every draft the screen refused is in the report's count.
VetoesReported == report # None => report.rejections = vetoed
=============================================================================

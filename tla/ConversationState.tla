------------------------- MODULE ConversationState -------------------------
(***************************************************************************)
(* The conversation state kept with a support case                         *)
(* (harness::CaseConvState) and the decisions taken from it (api.rs,       *)
(* harness/time_pref.rs), as operators on one state.  Whatever a language  *)
(* model or the evaluation decides is an argument.                         *)
(***************************************************************************)
EXTENDS Integers

CONSTANT ClarifyMaxTurns  \* [api] clarify_max_turns

ASSUME ClarifyMaxTurnsAssumption == ClarifyMaxTurns \in Nat

-----------------------------------------------------------------------------
(* CaseConvState.                                                          *)

FalseLimit == 2  \* handle_time_pref
ErrorLimit == 3  \* TIME_PREF_EXTRACTION_ERROR_LIMIT

Conv == [clarify : 0..ClarifyMaxTurns,
         awaiting : BOOLEAN,                   \* awaiting_time_pref
         misses : 0..FalseLimit - 1,           \* time_pref_false_count
         errors : 0..ErrorLimit - 1,           \* time_pref_extraction_error_count
         contact : {"none", "inside", "outside"},  \* preferred_contact_time
         confirmed : BOOLEAN]                  \* escalation_confirmed

NewConv == [clarify |-> 0, awaiting |-> FALSE, misses |-> 0, errors |-> 0,
            contact |-> "none", confirmed |-> FALSE]

\* Cases written before escalation_confirmed existed: escalated, with the
\* contact time still asked for, given, or asked for in vain.
LegacyConv ==
  {[NewConv EXCEPT !.awaiting = TRUE]} \cup
  {[NewConv EXCEPT !.contact = c] : c \in {"inside", "outside"}}

IsAlreadyEscalated(c) == c.confirmed \/ c.awaiting \/ c.contact # "none"

-----------------------------------------------------------------------------
(* What one turn does to the state.                                        *)

\* handle_time_pref on a time preference, inside or outside business hours.
TimePrefGiven(c, where) ==
  [c EXCEPT !.errors = 0, !.misses = 0, !.awaiting = FALSE, !.contact = where]

\* Mutant: the count is cleared with every miss.
MissedWithoutCount(c) == [c EXCEPT !.errors = 0]

\* handle_time_pref on anything else.
TimePrefMissed(c) ==
  IF c.misses + 1 < FalseLimit
  THEN [c EXCEPT !.errors = 0, !.misses = c.misses + 1]
  ELSE [c EXCEPT !.errors = 0, !.misses = 0, !.awaiting = FALSE]

\* note_time_pref_extraction_failure.
TimePrefError(c) ==
  IF c.errors + 1 < ErrorLimit
  THEN [c EXCEPT !.errors = c.errors + 1]
  ELSE [c EXCEPT !.errors = 0, !.misses = 0, !.awaiting = FALSE]

\* Mutant: arming leaves escalation_confirmed alone.
ArmWithoutConfirming(c) == [c EXCEPT !.awaiting = TRUE, !.misses = 0, !.clarify = 0]

\* arm_time_pref_solicitation.
Arm(c) == [c EXCEPT !.awaiting = TRUE, !.misses = 0, !.clarify = 0, !.confirmed = TRUE]

\* What the reply decision tells apart of an EvaluationOutcome and the answer
\* of the hearing model.
Outcome == [fallback : BOOLEAN,                        \* ExtractionMode::LexiconFallback
            decision : {"allowed", "escalate", "hearing"},  \* hearing: layer 1, ProductAndSymptom
            draft : {"none", "whole", "truncated"},
            clarifiable : BOOLEAN,                     \* clarification_allowed
            enough : {"unknown", "no", "yes"}]         \* has_enough_info against its threshold

\* decide_jev_hearing_action applies: the turn is a hearing turn and the model
\* answered.
IsJevTurn(o, c) ==
  /\ ~o.fallback /\ o.decision = "hearing" /\ o.enough # "unknown"
  /\ ~IsAlreadyEscalated(c)

\* Mutant: a question is allowed when the maximum has just been reached.
ReplyActionOffByOne(o, c) ==
  IF ~o.fallback /\ o.decision = "allowed" /\ o.draft = "whole" THEN "answer"
  ELSE IF o.clarifiable /\ c.clarify <= ClarifyMaxTurns /\ ~IsAlreadyEscalated(c)
       THEN "clarify" ELSE "escalation"

\* decide_jev_hearing_action on a hearing turn, else decide_reply_action.
ReplyAction(o, c) ==
  LET mayAsk == c.clarify < ClarifyMaxTurns
  IN CASE IsJevTurn(o, c) -> IF o.enough = "no" /\ mayAsk THEN "clarify" ELSE "escalation"
       [] o.fallback -> "escalation"
       [] ~o.fallback /\ o.decision = "allowed" ->
            IF o.draft = "whole" THEN "answer" ELSE "escalation"
       [] OTHER -> IF o.clarifiable /\ mayAsk /\ ~IsAlreadyEscalated(c)
                   THEN "clarify" ELSE "escalation"

\* The state the handler saves with its reply; the same state means that it
\* saves nothing (build_escalation_reply_text returns false).
AfterReply(action, c) ==
  CASE action = "clarify" -> [c EXCEPT !.clarify = c.clarify + 1]
    [] action = "escalation" /\ ~IsAlreadyEscalated(c) -> Arm(c)
    [] OTHER -> c

-----------------------------------------------------------------------------
\* How far a case has gone when its state is c and its customer was asked back
\* `asked` times, got `sent` escalation blocks, and wrote `tried` messages that
\* were read as an answer since the contact time was asked for.
WithinBounds(c, asked, sent, tried) ==
  /\ c \in Conv
  /\ asked \in 0..ClarifyMaxTurns /\ sent \in 0..1 /\ tried \in 0..FalseLimit * ErrorLimit
  /\ sent = 0 => asked = c.clarify
  /\ sent = 1 => c.confirmed
  /\ c.awaiting => c.contact = "none" /\ tried <= ErrorLimit * c.misses + c.errors
=============================================================================

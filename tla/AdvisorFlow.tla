---------------------------- MODULE AdvisorFlow -----------------------------
(***************************************************************************)
(* The conversation of the home security advisor (advisor/api.rs,          *)
(* advisor/decide.rs), one turn after the other, and the product support   *)
(* it hands a turn over to (advisor/cs_support.rs).                        *)
(*                                                                         *)
(* The two keep a case each, in two schemas.  The advisor reads its case   *)
(* at the start of a turn and writes it back, all attributes at once, at   *)
(* the end; a turn of product support saves its own case in between.  So   *)
(* the turn may fail, or be given up, with one case saved and the other    *)
(* not.  What links them is support_case_id in the advisor's case.         *)
(*                                                                         *)
(* Whatever a language model or the evaluation decides is an argument.     *)
(* A read and write of one case is a step (CaseRecord has them apart; the  *)
(* names leave those of CaseRecord alone).                                 *)
(***************************************************************************)
EXTENDS ConversationState

CONSTANTS
  CsCases,  \* bound: the ids product support may give its cases
  None

ASSUME NoneAssumption == None \notin CsCases /\ None \notin Conv

VARIABLES
  case,  \* the advisor's support_case
  cs,    \* by id: the conversation state of that support case, or None
  at,    \* where the handler of the current message is
  copy,  \* the turn's copy of the advisor's case
  kind,  \* the reply it is going to send
  urtect,     \* the current message is itself about the product (urtect_support)
  clarifiedOf, blocksOf, attemptsOf,  \* history, by support case, as in ReplyFlow
  stage,      \* history: who conducted the last turn saved, "advisor" or "support"
  told,       \* history: the support cases whose reference number was sent
  promised    \* history: a contact by the staff has been confirmed to the customer

csHistory == <<clarifiedOf, blocksOf, attemptsOf>>
advisorHistory == <<csHistory, stage, told, promised>>
turn == <<copy, kind, urtect>>
advisorVars == <<case, cs, at, turn, advisorHistory>>

-----------------------------------------------------------------------------
(* The advisor's case: CaseConvState, AdvisorCaseAttrs and turn_count.     *)

NewAdvisorCase ==
  [conv |-> NewConv, requested |-> FALSE, mode |-> FALSE, link |-> None,
   asking |-> FALSE,    \* support_last_reply_kind = "support_clarify"
   replied |-> FALSE]   \* turn_count >= 1

\* What decide tells apart of an Understanding; missing_conditions is asked of
\* the conditions of all turns so far.  An emergency is told apart first, the
\* product next; the rest is asked of the other messages in domain only.
Understanding ==
  {u \in [inDomain : BOOLEAN, urtect : BOOLEAN,
          lead : BOOLEAN, product : BOOLEAN, missing : BOOLEAN] :
     /\ u.urtect \/ ~u.inDomain => ~u.lead /\ ~u.missing
     /\ u.product => u.lead}

\* cs_continuing: the last support reply asked back, or support awaits a
\* contact time.  Where that cannot be read, it counts as no.
Continuing(m) ==
  IF ~m.mode \/ m.link = None THEN {FALSE}
  ELSE IF m.asking THEN {TRUE}
  ELSE {FALSE, cs[m.link] # None /\ cs[m.link].awaiting}

WantsSupport(u, m, continuing) ==
  u.urtect \/ (m.mode /\ (~u.inDomain \/ continuing))

\* decide_in_domain_flow.
InDomainFlow(u, m, maySolicit, continuing) ==
  CASE WantsSupport(u, m, continuing) -> "support"
    [] ~WantsSupport(u, m, continuing) /\ ~u.inDomain -> "out_of_domain"
    [] OTHER ->
         IF maySolicit /\ u.lead /\ ~m.requested /\ ~(~m.replied /\ u.product)
         THEN "lead_solicit"
         ELSE IF u.missing /\ m.conv.clarify < ClarifyMaxTurns THEN "clarify" ELSE "answer"

\* What the message says as an answer to the contact time question.
Extractions == {"fits", "outside", "missed", "error"}

\* Mutant: every time given counts anew.
AfterExtractionRecounted(c, x) ==
  CASE x = "fits" -> TimePrefGiven(c, "inside")
    [] x = "outside" -> [c EXCEPT !.errors = 0, !.misses = 1, !.contact = "none"]
    [] x = "missed" -> TimePrefMissed(c)
    [] OTHER -> TimePrefError(c)

\* decide_time_pref and decide_time_pref_extraction_failed: a time that does not
\* fit the business hours whole counts as a miss, and is not kept.
AfterExtraction(c, x) ==
  CASE x = "fits" -> TimePrefGiven(c, "inside")
    [] x = "outside" -> [TimePrefMissed(c) EXCEPT !.contact = "none"]
    [] x = "missed" -> TimePrefMissed(c)
    [] OTHER -> TimePrefError(c)

TimePrefAction(u, m, x, continuing) ==
  CASE x = "fits" -> "lead_confirmed"
    [] x \in {"outside", "error"} /\ m.conv.awaiting -> "time_pref"
    [] OTHER -> InDomainFlow(u, m, FALSE, continuing)

\* Mutant: whoever leaves support starts a new case when he comes back.
LeaveUnlinks(m) == [m EXCEPT !.mode = FALSE, !.asking = FALSE, !.link = None]

Leave(m) == [m EXCEPT !.mode = FALSE, !.asking = FALSE]

\* Mutant: an emergency stops the questions only.
CalmKeepsMode(m) == [m EXCEPT !.conv.awaiting = FALSE, !.conv.misses = 0]

Calm(m) == [Leave(m) EXCEPT !.conv.awaiting = FALSE, !.conv.misses = 0]

\* Mutant: the confirmed request is not noted.
ConfirmOnly(m) == Leave(m)

Confirm(m) == [Leave(m) EXCEPT !.requested = TRUE]

Solicit(m) ==
  [Leave(m) EXCEPT !.conv.awaiting = TRUE, !.conv.misses = 0, !.conv.clarify = 0]

\* apply_action_contract.
Contract(action, m) ==
  CASE action = "safety" -> Calm(m)
    [] action = "support" -> [m EXCEPT !.mode = TRUE]
    [] action = "lead_solicit" -> Solicit(m)
    [] action = "clarify" -> [Leave(m) EXCEPT !.conv.clarify = m.conv.clarify + 1]
    [] action = "lead_confirmed" -> Confirm(m)
    [] action \in {"out_of_domain", "answer"} -> Leave(m)
    [] OTHER -> m

NoTurn == at' = "idle" /\ copy' = NewAdvisorCase /\ kind' = "none" /\ urtect' = FALSE

-----------------------------------------------------------------------------
AdvisorInit ==
  /\ case = NewAdvisorCase /\ cs = [c \in CsCases |-> None]
  /\ at = "idle" /\ copy = NewAdvisorCase /\ kind = "none" /\ urtect = FALSE
  /\ clarifiedOf = [c \in CsCases |-> 0] /\ blocksOf = [c \in CsCases |-> 0]
  /\ attemptsOf = [c \in CsCases |-> 0]
  /\ stage = "advisor" /\ told = {} /\ promised = FALSE

\* The turn decides from the case it has just read.
Decided(action, m, aboutProduct) ==
  /\ copy' = Contract(action, m)
  /\ kind' = action /\ urtect' = aboutProduct
  /\ at' = IF action = "support" THEN "gate" ELSE "record"
  /\ UNCHANGED <<case, cs, advisorHistory>>

Emergency ==
  /\ at = "idle"
  /\ Decided("safety", case, FALSE)

Turn(u) ==
  /\ at = "idle" /\ ~case.conv.awaiting
  /\ \E continuing \in Continuing(case) :
       Decided(InDomainFlow(u, case, TRUE, continuing), case, u.urtect)

ContactTimeTurn(u, x) ==
  /\ at = "idle" /\ case.conv.awaiting
  /\ \E continuing \in Continuing(case) :
       LET m == [case EXCEPT !.conv = AfterExtraction(case.conv, x)]
       IN Decided(TimePrefAction(u, m, x, continuing), m, u.urtect)

\* The message could not be understood: the fallback reply, and the case is
\* written as it was read.
NotUnderstood ==
  /\ at = "idle"
  /\ Decided("fallback", case, FALSE)

-----------------------------------------------------------------------------
(* run_support_turn, on the case copy.link.                                 *)

Known == copy.link # None /\ cs[copy.link] # None

\* A new uuid: of no case, and not the one the advisor goes by.
FreshIds == {c \in CsCases : cs[c] = None /\ c # copy.link}

SupportConv(c) == IF cs[c] = None THEN NewConv ELSE cs[c]

\* support_reply_kind_to_advisor.
SupportKinds == {"support_answer", "support_clarify", "support_escalation",
                 "support_time_pref", "support_out_of_scope"}

\* The reply is there: run_cs_support_mode_turn notes the case and the kind.
SupportReplies(c, k) ==
  /\ copy' = [copy EXCEPT !.link = c, !.asking = k = "support_clarify"]
  /\ kind' = k
  /\ at' = "record"

\* A product out of scope, found in the message: the case given, or a new one;
\* when recording it fails, the id given or one of no case.
SupportOutOfScope ==
  /\ at = "gate"
  /\ \/ Known /\ SupportReplies(copy.link, "support_out_of_scope") /\ UNCHANGED cs
     \/ /\ ~Known
        /\ \E c \in FreshIds : /\ cs' = [cs EXCEPT ![c] = NewConv]
                               /\ SupportReplies(c, "support_out_of_scope")
     \/ /\ ~Known
        /\ \E id \in IF copy.link = None THEN FreshIds ELSE {copy.link} :
             /\ SupportReplies(id, "support_out_of_scope")
             /\ cs' \in {cs} \cup {[cs EXCEPT ![c] = NewConv] : c \in FreshIds \ {id}}
  /\ UNCHANGED <<case, urtect, advisorHistory>>

\* The message is read as the contact time that support awaits.  The write may
\* be carried out and still report an error, which ends the turn.
ContactTimeGiven(where) ==
  /\ at = "gate" /\ Known /\ cs[copy.link].awaiting
  /\ cs' = [cs EXCEPT ![copy.link] = TimePrefGiven(cs[copy.link], where)]
  /\ attemptsOf' = [attemptsOf EXCEPT ![copy.link] = attemptsOf[copy.link] + 1]
  /\ SupportReplies(copy.link, "support_time_pref")
  /\ UNCHANGED <<case, urtect, clarifiedOf, blocksOf, stage, told, promised>>

ContactTimePassed ==
  /\ at = "gate" /\ Known /\ cs[copy.link].awaiting
  /\ \E c \in {TimePrefMissed(cs[copy.link]), TimePrefError(cs[copy.link])} :
       cs' = [cs EXCEPT ![copy.link] = c]
  /\ attemptsOf' = [attemptsOf EXCEPT ![copy.link] = attemptsOf[copy.link] + 1]
  /\ at' = "evaluate"
  /\ UNCHANGED <<case, turn, clarifiedOf, blocksOf, stage, told, promised>>

NoContactTime ==
  /\ at = "gate" /\ ~(Known /\ cs[copy.link].awaiting)
  /\ at' = "evaluate"
  /\ UNCHANGED <<case, cs, turn, advisorHistory>>

\* Harness::evaluate, which starts a new case for an id it does not know.
Evaluate ==
  /\ at = "evaluate"
  /\ \/ Known /\ UNCHANGED <<cs, copy>>
     \/ /\ ~Known
        /\ \E c \in FreshIds : /\ cs' = [cs EXCEPT ![c] = NewConv]
                               /\ copy' = [copy EXCEPT !.link = c]
  /\ at' = "reply"
  /\ UNCHANGED <<case, kind, urtect, advisorHistory>>

\* Its second look finds a product out of scope after all.
Demote ==
  /\ at = "reply"
  /\ SupportReplies(copy.link, "support_out_of_scope")
  /\ UNCHANGED <<case, cs, urtect, advisorHistory>>

\* Mutant: only a question asked back is saved.
SavedClarifyOnly(action, c) == IF action = "clarify" THEN AfterReply(action, c) ELSE c

\* save_conv_state, after a question or an escalation.
Saved(action, c) == AfterReply(action, c)

\* decide_reply_action alone: product support asks no hearing model here.
Reply(o) ==
  LET id == copy.link
      action == ReplyAction(o, cs[id])
  IN /\ at = "reply" /\ o.enough = "unknown"
     /\ cs' = [cs EXCEPT ![id] = Saved(action, cs[id])]
     /\ clarifiedOf' =
          [clarifiedOf EXCEPT ![id] = IF action = "clarify" THEN @ + 1 ELSE @]
     /\ IF action = "escalation" /\ ~IsAlreadyEscalated(cs[id])
        THEN /\ blocksOf' = [blocksOf EXCEPT ![id] = @ + 1]
             /\ attemptsOf' = [attemptsOf EXCEPT ![id] = 0]
        ELSE UNCHANGED <<blocksOf, attemptsOf>>
     /\ SupportReplies(id, CASE action = "clarify" -> "support_clarify"
                             [] action = "escalation" -> "support_escalation"
                             [] OTHER -> "support_answer")
     /\ UNCHANGED <<case, urtect, stage, told, promised>>

-----------------------------------------------------------------------------
(* The end of the turn.                                                    *)

\* merge_support_case_attrs and record: the whole case in one write.  It may be
\* carried out and still report an error; the customer gets an error then.
Record ==
  /\ at = "record"
  /\ case' = copy
  /\ stage' = CASE kind \in SupportKinds -> "support"
                [] kind \in {"time_pref", "fallback"} -> stage
                [] OTHER -> "advisor"
  /\ NoTurn \/ (at' = "turn" /\ UNCHANGED turn)
  /\ UNCHANGED <<cs, csHistory, told, promised>>

\* record_conversation_turn, which may fail or time out, and the answer.
Answer ==
  /\ at = "turn"
  /\ case' \in {case, [case EXCEPT !.replied = TRUE]}
  /\ told' = IF kind = "support_escalation" THEN told \cup {copy.link} ELSE told
  /\ promised' = (promised \/ kind = "lead_confirmed")
  /\ NoTurn
  /\ UNCHANGED <<cs, csHistory, stage>>

\* An error of a read, of the evaluation or of a write, the client gone, or the
\* process stopped: what is saved so far stays.
Abandon ==
  /\ at # "idle"
  /\ NoTurn
  /\ UNCHANGED <<case, cs, advisorHistory>>

AdvisorNext ==
  \/ \E u \in Understanding : Turn(u) \/ \E x \in Extractions : ContactTimeTurn(u, x)
  \/ Emergency \/ NotUnderstood
  \/ SupportOutOfScope \/ ContactTimePassed \/ NoContactTime \/ Evaluate \/ Demote
  \/ \E where \in {"inside", "outside"} : ContactTimeGiven(where)
  \/ \E o \in Outcome : Reply(o)
  \/ Record \/ Answer \/ Abandon

AdvisorSpec == AdvisorInit /\ [][AdvisorNext]_advisorVars

-----------------------------------------------------------------------------
AdvisorCase == [conv : Conv, requested : BOOLEAN, mode : BOOLEAN,
                link : CsCases \cup {None}, asking : BOOLEAN, replied : BOOLEAN]

AdvisorTypeOK ==
  /\ case \in AdvisorCase /\ copy \in AdvisorCase
  /\ cs \in [CsCases -> Conv \cup {None}]
  /\ at \in {"idle", "gate", "evaluate", "reply", "record", "turn"}
  /\ urtect \in BOOLEAN /\ stage \in {"advisor", "support"}
  /\ \A h \in {clarifiedOf, blocksOf, attemptsOf} : h \in [CsCases -> Nat]
  /\ told \subseteq CsCases /\ promised \in BOOLEAN

\* The reference number the customer was given is the one the conversation goes
\* on with: leaving support, failed turns and cases left behind by a turn that
\* failed do not make a second one.
ReferenceKept == told \subseteq {case.link}

\* A contact that was confirmed to the customer is in the case for the staff,
\* with its time, and stays there; the question is not opened again.
PromiseKept ==
  promised => case.requested /\ case.conv.contact = "inside" /\ ~case.conv.awaiting

\* Without a word about the product a message is handed to product support only
\* when support conducted the turn before: not after an emergency, nor once the
\* customer has gone back to the advisor.
SupportIsLeft == at \in {"gate", "evaluate", "reply"} /\ ~urtect => stage = "support"

\* The advisor's contact time question lets go: every message that is read as an
\* answer and leaves it open brings it nearer to its end, so that times that do
\* not fit, other messages and errors cannot keep each other going.
Spent(c) == ErrorLimit * c.misses + c.errors

AdvisorQuestionEnds ==
  at = "record" /\ case.conv.awaiting /\ copy.conv.awaiting /\ kind # "fallback" =>
    Spent(copy.conv) > Spent(case.conv)

\* Product support keeps to the customer, in each of its cases, the promises of
\* ReplyFlow, although it is conducted through the advisor's case.
SupportFlow(c) == INSTANCE ReplyFlow WITH
  conv <- SupportConv(c),
  phase <- IF at \in {"evaluate", "reply"} /\ copy.link = c THEN "evaluate" ELSE "idle",
  clarified <- clarifiedOf[c], blocks <- blocksOf[c], attempts <- attemptsOf[c]

SupportImplementsReplyFlow ==
  /\ \A c \in CsCases : SupportFlow(c)!Init
  /\ [][\A c \in CsCases :
          UNCHANGED SupportFlow(c)!vars \/ SupportFlow(c)!Next]_advisorVars

\* So each of these cases comes to its end: questions back, escalation blocks and
\* requests for a contact time are bounded, although turns fail half way, other
\* subjects and emergencies come in between, and a failed turn leaves the case.
ConversationBounded == \A c \in CsCases : SupportFlow(c)!ConversationBounded

-----------------------------------------------------------------------------
(* The inductive invariant.                                                *)

\* A turn works on the support case of the conversation, unless there is none.
LinkIsCurrent ==
  /\ at \in {"gate", "evaluate"} => copy.link = case.link
  /\ at \in {"reply", "record"} /\ case.link # None =>
       cs[case.link] = None \/ copy.link = case.link
  /\ at = "reply" => Known
  /\ at \in {"record", "turn"} /\ kind = "support_escalation" => Known
  /\ at = "turn" => copy = case
  /\ \A c \in told : cs[c] # None

\* A request that is noted has its contact time and no open question, and no turn
\* takes it back.
RequestStands ==
  /\ \A m \in {case, copy} : m.requested => m.conv.contact = "inside" /\ ~m.conv.awaiting
  /\ case.requested /\ at # "idle" => copy.requested
  /\ at \in {"record", "turn"} /\ kind = "lead_confirmed" => copy.requested
  /\ promised => case.requested

\* The mode is on only after a turn of product support.
ModeIsSupport ==
  /\ case.mode => stage = "support"
  /\ at = "record" => \/ kind \in SupportKinds
                      \/ kind \in {"time_pref", "fallback"} /\ copy.mode = case.mode
                      \/ ~copy.mode

\* A turn that leaves the question open has come nearer to its end.
QuestionShrinks ==
  /\ at \in {"gate", "evaluate", "reply"} \/ (at = "record" /\ kind # "fallback")
  /\ case.conv.awaiting /\ copy.conv.awaiting
  => Spent(copy.conv) > Spent(case.conv)

AdvisorInv ==
  /\ AdvisorTypeOK /\ LinkIsCurrent /\ RequestStands /\ ModeIsSupport /\ QuestionShrinks
  /\ ReferenceKept /\ SupportIsLeft
  /\ \A c \in CsCases :
       WithinBounds(SupportConv(c), clarifiedOf[c], blocksOf[c], attemptsOf[c])
=============================================================================

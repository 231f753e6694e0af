----------------------------- MODULE ReplyFlow -----------------------------
(***************************************************************************)
(* The conversation of one support case as /api/reply conducts it, one     *)
(* turn after the other.                                                   *)
(*                                                                         *)
(* What the case promises its customer: at most clarify_max_turns          *)
(* questions back, then one escalation with a reference number, in which   *)
(* the customer is asked for a contact time, a bounded number of times.    *)
(*                                                                         *)
(* CaseRecord has the reads and writes each turn is made of, and           *)
(* implements this module while turns are serialised.                      *)
(***************************************************************************)
EXTENDS ConversationState

VARIABLES
  conv,       \* the conversation state of the case
  phase,      \* "idle" between turns, "evaluate" once a turn is past the time preference
  clarified,  \* history: questions asked back in this case
  blocks,     \* history: escalation blocks sent (reference number, contact time asked)
  attempts    \* history: messages read as an answer since the contact time was asked

vars == <<conv, phase, clarified, blocks, attempts>>

-----------------------------------------------------------------------------
Init ==
  /\ conv \in {NewConv} \cup LegacyConv
  /\ phase = "idle"
  /\ clarified = 0 /\ blocks = 0 /\ attempts = 0

\* The message answers the contact time question: the turn ends here.
TimePrefAnswered(where) ==
  /\ phase = "idle" /\ conv.awaiting
  /\ conv' = TimePrefGiven(conv, where)
  /\ attempts' = attempts + 1
  /\ UNCHANGED <<phase, clarified, blocks>>

\* It does not, or the extraction failed: the turn goes on to the evaluation,
\* unless the answer to the write is an error although it was carried out.
TimePrefPassed ==
  /\ phase = "idle" /\ conv.awaiting
  /\ conv' \in {TimePrefMissed(conv), TimePrefError(conv)}
  /\ attempts' = attempts + 1
  /\ phase' \in {"evaluate", "idle"}
  /\ UNCHANGED <<clarified, blocks>>

NoTimePref ==
  /\ phase = "idle" /\ ~conv.awaiting
  /\ phase' = "evaluate"
  /\ UNCHANGED <<conv, clarified, blocks, attempts>>

Reply(o) ==
  LET action == ReplyAction(o, conv) IN
  /\ phase = "evaluate"
  /\ conv' = AfterReply(action, conv)
  /\ clarified' = IF action = "clarify" THEN clarified + 1 ELSE clarified
  /\ IF action = "escalation" /\ conv' # conv
     THEN blocks' = blocks + 1 /\ attempts' = 0
     ELSE UNCHANGED <<blocks, attempts>>
  /\ phase' = "idle"

\* An out-of-scope reply, or an error: the conversation state is not touched.
EndTurn ==
  /\ phase = "evaluate"
  /\ phase' = "idle"
  /\ UNCHANGED <<conv, clarified, blocks, attempts>>

Next ==
  \/ \E where \in {"inside", "outside"} : TimePrefAnswered(where)
  \/ TimePrefPassed
  \/ NoTimePref
  \/ \E o \in Outcome : Reply(o)
  \/ EndTurn

Spec == Init /\ [][Next]_vars

-----------------------------------------------------------------------------
TypeOK ==
  /\ conv \in Conv
  /\ phase \in {"idle", "evaluate"}
  /\ clarified \in Nat /\ blocks \in Nat /\ attempts \in Nat

\* A case is asked back at most clarify_max_turns times in its whole life,
\* although every escalation sets the counter back to zero.
ClarifyBounded == clarified <= ClarifyMaxTurns

\* The escalation block, with its reference number and its request for a
\* contact time, is sent at most once, however the contact time is answered,
\* missed or lost to extraction errors afterwards.
OneEscalationBlock == blocks <= 1

\* The customer is not asked back once the case has its reference number.
NoQuestionAfterEscalation == [][blocks > 0 => clarified' = clarified]_vars

\* The contact time question lets go: a case reads at most five messages in a
\* row as a possible answer without letting the question go, six with the one
\* that closes it, and errors and misses cannot keep each other going.
SolicitationEnds ==
  /\ attempts <= FalseLimit * ErrorLimit
  /\ conv.awaiting => attempts < FalseLimit * ErrorLimit

\* A conversation comes to its end: questions back, escalation blocks and
\* requests for a contact time are bounded, in whatever order turns, errors and
\* escalations come.
ConversationBounded == ClarifyBounded /\ OneEscalationBlock /\ SolicitationEnds

\* A contact time, once noted for the staff, stays as the customer gave it.
ContactTimeKept == [][conv.contact # "none" => conv'.contact = conv.contact]_vars

\* The inductive invariant behind these.
IndInv ==
  /\ phase \in {"idle", "evaluate"}
  /\ WithinBounds(conv, clarified, blocks, attempts)
=============================================================================

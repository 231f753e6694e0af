------------------------- MODULE ConversationProofs -------------------------
(***************************************************************************)
(* Theorems about the conversation of a support case, for every            *)
(* clarify_max_turns: the bounds ReplyFlow promises, the case record that  *)
(* keeps them turn by turn (CaseRecord), and the advisor that conducts     *)
(* such cases beside its own (AdvisorFlow).                                *)
(*                                                                         *)
(* What all three rest on is said once, of values: WithinBounds is kept by *)
(* every update of the conversation state, whoever makes it.               *)
(***************************************************************************)
EXTENDS CaseRecord, AdvisorFlow, TLAPS

\* The single updates the helpers are made of stay in the type.
LEMMA FieldUpdate ==
  ASSUME NEW c \in Conv
  PROVE  /\ [c EXCEPT !.clarify = 0] \in Conv
         /\ c.clarify < ClarifyMaxTurns => [c EXCEPT !.clarify = c.clarify + 1] \in Conv
         /\ [c EXCEPT !.misses = 0] \in Conv
         /\ c.misses + 1 < FalseLimit => [c EXCEPT !.misses = c.misses + 1] \in Conv
         /\ [c EXCEPT !.errors = 0] \in Conv
         /\ c.errors + 1 < ErrorLimit => [c EXCEPT !.errors = c.errors + 1] \in Conv
         /\ [c EXCEPT !.awaiting = TRUE] \in Conv
         /\ [c EXCEPT !.awaiting = FALSE] \in Conv
         /\ [c EXCEPT !.confirmed = TRUE] \in Conv
         /\ \A w \in {"none", "inside", "outside"} : [c EXCEPT !.contact = w] \in Conv
<1>1. [c EXCEPT !.clarify = 0] \in Conv
  BY ClarifyMaxTurnsAssumption DEF Conv
<1>2. c.clarify < ClarifyMaxTurns => [c EXCEPT !.clarify = c.clarify + 1] \in Conv
  BY ClarifyMaxTurnsAssumption DEF Conv
<1>3. [c EXCEPT !.misses = 0] \in Conv
  BY DEF Conv, FalseLimit
<1>4. c.misses + 1 < FalseLimit => [c EXCEPT !.misses = c.misses + 1] \in Conv
  BY DEF Conv, FalseLimit
<1>5. [c EXCEPT !.errors = 0] \in Conv
  BY DEF Conv, ErrorLimit
<1>6. c.errors + 1 < ErrorLimit => [c EXCEPT !.errors = c.errors + 1] \in Conv
  BY DEF Conv, ErrorLimit
<1>7. [c EXCEPT !.awaiting = TRUE] \in Conv
  BY DEF Conv
<1>8. [c EXCEPT !.awaiting = FALSE] \in Conv
  BY DEF Conv
<1>9. [c EXCEPT !.confirmed = TRUE] \in Conv
  BY DEF Conv
<1>10. \A w \in {"none", "inside", "outside"} : [c EXCEPT !.contact = w] \in Conv
  BY DEF Conv
<1> QED BY <1>1, <1>2, <1>3, <1>4, <1>5, <1>6, <1>7, <1>8, <1>9, <1>10

\* handle_time_pref and note_time_pref_extraction_failure stay in the type.
LEMMA TimePrefType ==
  ASSUME NEW c \in Conv
  PROVE  /\ \A where \in {"inside", "outside"} : TimePrefGiven(c, where) \in Conv
         /\ TimePrefMissed(c) \in Conv
         /\ TimePrefError(c) \in Conv
<1> DEFINE reset == [c EXCEPT !.errors = 0]
           clear == [reset EXCEPT !.misses = 0]
           closed == [clear EXCEPT !.awaiting = FALSE]
<1>1. reset \in Conv
  BY FieldUpdate
<1>2. reset.misses = c.misses
  BY DEF Conv
<1>3. clear \in Conv
  <2> HIDE DEF reset
  <2> QED BY <1>1, FieldUpdate
<1>4. closed \in Conv
  <2> HIDE DEF clear
  <2> QED BY <1>3, FieldUpdate
<1>5. \A where \in {"inside", "outside"} : [closed EXCEPT !.contact = where] \in Conv
  <2> HIDE DEF closed
  <2> QED BY <1>4, FieldUpdate
<1>6. c.misses + 1 < FalseLimit => [reset EXCEPT !.misses = c.misses + 1] \in Conv
  <2> HIDE DEF reset
  <2>1. c.misses + 1 < FalseLimit => [reset EXCEPT !.misses = reset.misses + 1] \in Conv
    BY <1>1, <1>2, FieldUpdate
  <2> QED BY <1>2, <2>1
<1>7. \A where \in {"inside", "outside"} : TimePrefGiven(c, where) \in Conv
  BY <1>5 DEF TimePrefGiven
<1>8. TimePrefMissed(c) \in Conv
  BY <1>4, <1>6 DEF TimePrefMissed
<1>9. TimePrefError(c) \in Conv
  BY <1>4, FieldUpdate DEF TimePrefError
<1> QED BY <1>7, <1>8, <1>9

\* A question is only asked below the maximum, and in a case that has no
\* reference number yet.
LEMMA ClarifyIsAllowed ==
  ASSUME NEW c \in Conv, NEW o \in Outcome, ReplyAction(o, c) = "clarify"
  PROVE  c.clarify < ClarifyMaxTurns /\ ~IsAlreadyEscalated(c)
BY DEF ReplyAction, IsJevTurn

\* What a reply may do to the state: nothing, one more question, or the
\* escalation block.
LEMMA ReplyCases ==
  ASSUME NEW o \in Outcome, NEW c
  PROVE  ReplyAction(o, c) \in {"answer", "clarify", "escalation"}
BY DEF ReplyAction

LEMMA ArmType ==
  ASSUME NEW c \in Conv
  PROVE  Arm(c) \in Conv
<1> DEFINE asked == [c EXCEPT !.awaiting = TRUE]
           clear == [asked EXCEPT !.misses = 0]
           fresh == [clear EXCEPT !.clarify = 0]
<1>1. asked \in Conv
  BY FieldUpdate
<1>2. clear \in Conv
  <2> HIDE DEF asked
  <2> QED BY <1>1, FieldUpdate
<1>3. fresh \in Conv
  <2> HIDE DEF clear
  <2> QED BY <1>2, FieldUpdate
<1>4. [fresh EXCEPT !.confirmed = TRUE] \in Conv
  <2> HIDE DEF fresh
  <2> QED BY <1>3, FieldUpdate
<1> QED BY <1>4 DEF Arm

\* A question back or an escalation block changes the state to one of the type.
LEMMA AfterReplyType ==
  ASSUME NEW c \in Conv, NEW o \in Outcome
  PROVE  AfterReply(ReplyAction(o, c), c) \in Conv
<1>1. CASE ReplyAction(o, c) = "clarify"
  BY <1>1, ClarifyIsAllowed, FieldUpdate DEF AfterReply
<1>2. CASE ReplyAction(o, c) = "escalation"
  BY <1>2, ArmType DEF AfterReply
<1>3. CASE ReplyAction(o, c) = "answer"
  BY <1>3 DEF AfterReply
<1> QED BY <1>1, <1>2, <1>3, ReplyCases

-----------------------------------------------------------------------------
(* WithinBounds, update by update.                                         *)

\* A case of this version starts within the bounds, and so does a legacy one.
LEMMA StartsWithinBounds ==
  ASSUME NEW c \in {NewConv} \cup LegacyConv
  PROVE  c \in Conv /\ WithinBounds(c, 0, 0, 0)
<1>1. NewConv \in Conv
  BY ClarifyMaxTurnsAssumption DEF NewConv, Conv, FalseLimit, ErrorLimit
<1>2. c \in Conv
  BY <1>1, FieldUpdate DEF LegacyConv
<1>3. /\ c.clarify = 0 /\ c.misses = 0 /\ c.errors = 0
      /\ c.awaiting => c.contact = "none"
  BY DEF NewConv, LegacyConv
<1> QED BY <1>2, <1>3, ClarifyMaxTurnsAssumption DEF WithinBounds, FalseLimit, ErrorLimit

LEMMA GivenWithinBounds ==
  ASSUME NEW c, NEW asked, NEW sent, NEW tried, WithinBounds(c, asked, sent, tried),
         c.awaiting, NEW where \in {"inside", "outside"}
  PROVE  WithinBounds(TimePrefGiven(c, where), asked, sent, tried + 1)
<1> DEFINE d == TimePrefGiven(c, where)
<1>1. c \in Conv /\ d \in Conv
  BY TimePrefType DEF WithinBounds
<1>2. d.clarify = c.clarify /\ d.confirmed = c.confirmed /\ ~d.awaiting
  BY <1>1 DEF TimePrefGiven, Conv
<1>3. tried + 1 \in 0..FalseLimit * ErrorLimit
  BY <1>1 DEF WithinBounds, Conv, FalseLimit, ErrorLimit
<1>4. WithinBounds(d, asked, sent, tried + 1)
  <2> HIDE DEF d
  <2> QED BY <1>1, <1>2, <1>3 DEF WithinBounds
<1> QED BY <1>4

LEMMA PassedWithinBounds ==
  ASSUME NEW c, NEW asked, NEW sent, NEW tried, WithinBounds(c, asked, sent, tried),
         c.awaiting, NEW d \in {TimePrefMissed(c), TimePrefError(c)}
  PROVE  WithinBounds(d, asked, sent, tried + 1)
<1> USE DEF FalseLimit, ErrorLimit
<1>1. /\ c \in Conv /\ d \in Conv
      /\ tried \in Nat /\ c.contact = "none" /\ tried <= ErrorLimit * c.misses + c.errors
  BY TimePrefType DEF WithinBounds
<1>2. d.clarify = c.clarify /\ d.confirmed = c.confirmed /\ d.contact = c.contact
  BY <1>1 DEF TimePrefMissed, TimePrefError, Conv
<1>3. d.awaiting => \/ d.misses = c.misses + 1 /\ d.errors = 0
                    \/ d.misses = c.misses /\ d.errors = c.errors + 1
  BY <1>1 DEF TimePrefMissed, TimePrefError, Conv
<1>4. tried + 1 \in 0..6 /\ (d.awaiting => tried + 1 <= 3 * d.misses + d.errors)
  BY <1>1, <1>3 DEF Conv
<1> QED BY <1>1, <1>2, <1>4 DEF WithinBounds

\* A reply asks one question more, sends the one block, or leaves the state alone.
LEMMA ReplyWithinBounds ==
  ASSUME NEW c, NEW asked, NEW sent, NEW tried, WithinBounds(c, asked, sent, tried),
         NEW o \in Outcome
  PROVE  LET action == ReplyAction(o, c)
             d == AfterReply(action, c)
         IN /\ action = "clarify" => d # c /\ WithinBounds(d, asked + 1, sent, tried)
            /\ action = "escalation" /\ ~IsAlreadyEscalated(c) =>
                 d # c /\ WithinBounds(d, asked, sent + 1, 0)
            /\ action = "escalation" /\ IsAlreadyEscalated(c) => d = c
            /\ action = "answer" => d = c
<1> DEFINE action == ReplyAction(o, c)
           d == AfterReply(action, c)
<1> USE DEF FalseLimit, ErrorLimit
<1>1. /\ c \in Conv /\ d \in Conv /\ asked \in Nat /\ asked <= ClarifyMaxTurns
      /\ sent \in {0, 1} /\ tried \in 0..6
      /\ (sent = 0 => asked = c.clarify) /\ (sent = 1 => c.confirmed)
  BY AfterReplyType, ClarifyMaxTurnsAssumption DEF WithinBounds
<1>2. ASSUME action = "clarify"
      PROVE  d # c /\ WithinBounds(d, asked + 1, sent, tried)
  <2>1. c.clarify < ClarifyMaxTurns /\ ~c.awaiting /\ ~c.confirmed
    BY <1>1, <1>2, ClarifyIsAllowed DEF IsAlreadyEscalated
  <2>2. d.clarify = c.clarify + 1 /\ d.awaiting = c.awaiting /\ c.clarify \in Nat
    BY <1>1, <1>2 DEF AfterReply, Conv
  <2> HIDE DEF d
  <2> QED BY <1>1, <2>1, <2>2, ClarifyMaxTurnsAssumption DEF WithinBounds
<1>3. ASSUME action = "escalation", ~IsAlreadyEscalated(c)
      PROVE  d # c /\ WithinBounds(d, asked, sent + 1, 0)
  <2>1. ~c.confirmed /\ c.contact = "none"
    BY <1>3 DEF IsAlreadyEscalated
  <2>2. d.confirmed /\ d.contact = c.contact
    BY <1>1, <1>3 DEF AfterReply, Arm, Conv
  <2>3. d.misses \in Nat /\ d.errors \in Nat
    BY <1>1 DEF Conv
  <2> HIDE DEF d
  <2> QED BY <1>1, <2>1, <2>2, <2>3 DEF WithinBounds
<1>4. ASSUME action = "escalation", IsAlreadyEscalated(c)
      PROVE  d = c
  BY <1>4 DEF AfterReply
<1>5. ASSUME action = "answer"
      PROVE  d = c
  BY <1>5 DEF AfterReply
<1> QED BY <1>2, <1>3, <1>4, <1>5

-----------------------------------------------------------------------------
(* ReplyFlow.  The history of its one case goes by the names CaseRecord     *)
(* has for it.                                                             *)

VARIABLES conv, phase

Conversation == INSTANCE ReplyFlow

\* The operators of the conversation state, as ReplyFlow has them.
LEMMA ConversationOperators ==
  /\ Conversation!NewConv = NewConv /\ Conversation!LegacyConv = LegacyConv
  /\ Conversation!Outcome = Outcome
  /\ Conversation!FalseLimit = FalseLimit /\ Conversation!ErrorLimit = ErrorLimit
  /\ \A c : /\ \A where : Conversation!TimePrefGiven(c, where) = TimePrefGiven(c, where)
           /\ Conversation!TimePrefMissed(c) = TimePrefMissed(c)
           /\ Conversation!TimePrefError(c) = TimePrefError(c)
           /\ \A o : Conversation!ReplyAction(o, c) = ReplyAction(o, c)
           /\ \A action : Conversation!AfterReply(action, c) = AfterReply(action, c)
           /\ \A asked, sent, tried :
                Conversation!WithinBounds(c, asked, sent, tried) <=>
                  WithinBounds(c, asked, sent, tried)
BY DEF NewConv, LegacyConv, Outcome, FalseLimit, ErrorLimit, TimePrefGiven,
   TimePrefMissed, TimePrefError, IsJevTurn, IsAlreadyEscalated, ReplyAction, Arm,
   AfterReply, WithinBounds, Conv, Conversation!NewConv, Conversation!LegacyConv,
   Conversation!Outcome, Conversation!FalseLimit, Conversation!ErrorLimit,
   Conversation!TimePrefGiven, Conversation!TimePrefMissed,
   Conversation!TimePrefError, Conversation!IsJevTurn,
   Conversation!IsAlreadyEscalated, Conversation!ReplyAction, Conversation!Arm,
   Conversation!AfterReply, Conversation!WithinBounds, Conversation!Conv

LEMMA ReplyFlowStep ==
  Conversation!IndInv /\ [Conversation!Next]_(Conversation!vars) => Conversation!IndInv'
<1> SUFFICES ASSUME Conversation!IndInv, [Conversation!Next]_(Conversation!vars)
             PROVE  Conversation!IndInv'
  OBVIOUS
<1> DEFINE Inv == phase \in {"idle", "evaluate"} /\ WithinBounds(conv, clarified, blocks, attempts)
<1>1. Inv /\ (Inv' => Conversation!IndInv')
  BY ConversationOperators DEF Conversation!IndInv
<1>2. ASSUME NEW where \in {"inside", "outside"}, Conversation!TimePrefAnswered(where)
      PROVE  Inv'
  <2>1. /\ conv.awaiting /\ conv' = TimePrefGiven(conv, where) /\ attempts' = attempts + 1
        /\ UNCHANGED <<phase, clarified, blocks>>
    BY <1>2, ConversationOperators DEF Conversation!TimePrefAnswered
  <2> QED BY <1>1, <2>1, GivenWithinBounds
<1>3. CASE Conversation!TimePrefPassed
  <2>1. /\ conv.awaiting /\ conv' \in {TimePrefMissed(conv), TimePrefError(conv)}
        /\ attempts' = attempts + 1 /\ phase' \in {"idle", "evaluate"}
        /\ UNCHANGED <<clarified, blocks>>
    BY <1>3, ConversationOperators DEF Conversation!TimePrefPassed
  <2> QED BY <1>1, <2>1, PassedWithinBounds
<1>4. CASE Conversation!NoTimePref \/ Conversation!EndTurn \/ UNCHANGED Conversation!vars
  BY <1>1, <1>4 DEF Conversation!NoTimePref, Conversation!EndTurn, Conversation!vars
<1>5. ASSUME NEW o \in Outcome, Conversation!Reply(o)
      PROVE  Inv'
  <2> DEFINE action == ReplyAction(o, conv)
  <2>1. /\ conv' = AfterReply(action, conv) /\ phase' = "idle"
        /\ clarified' = IF action = "clarify" THEN clarified + 1 ELSE clarified
        /\ IF action = "escalation" /\ conv' # conv
           THEN blocks' = blocks + 1 /\ attempts' = 0
           ELSE UNCHANGED <<blocks, attempts>>
    BY <1>5, ConversationOperators DEF Conversation!Reply
  <2>2. action \in {"answer", "clarify", "escalation"}
    BY ReplyCases
  <2>3. /\ action = "clarify" => conv' # conv /\ WithinBounds(conv', clarified + 1, blocks, attempts)
        /\ action = "escalation" /\ ~IsAlreadyEscalated(conv) =>
             conv' # conv /\ WithinBounds(conv', clarified, blocks + 1, 0)
        /\ action = "escalation" /\ IsAlreadyEscalated(conv) => conv' = conv
        /\ action = "answer" => conv' = conv
    BY <1>1, <2>1, ReplyWithinBounds
  <2> HIDE DEF action
  <2>4. WithinBounds(conv', clarified', blocks', attempts')
    BY <1>1, <2>1, <2>2, <2>3
  <2> QED BY <2>1, <2>4
<1> QED
  BY <1>1, <1>2, <1>3, <1>4, <1>5, ConversationOperators DEF Conversation!Next

LEMMA ReplyFlowInv == Conversation!Spec => []Conversation!IndInv
<1>1. Conversation!Init => Conversation!IndInv
  BY StartsWithinBounds, ConversationOperators DEF Conversation!Init, Conversation!IndInv
<1> QED BY <1>1, ReplyFlowStep, PTL DEF Conversation!Spec

\* Within the bounds of the state, the conversation is bounded.
LEMMA BoundedConversation ==
  ASSUME NEW c, NEW asked, NEW sent, NEW tried, WithinBounds(c, asked, sent, tried)
  PROVE  /\ asked \in Nat /\ sent \in Nat /\ tried \in Nat
         /\ asked <= ClarifyMaxTurns /\ sent <= 1
         /\ tried <= FalseLimit * ErrorLimit
         /\ c.awaiting => tried < FalseLimit * ErrorLimit
BY ClarifyMaxTurnsAssumption DEF WithinBounds, Conv, FalseLimit, ErrorLimit

\* A case is asked back at most clarify_max_turns times, gets at most one
\* escalation block, and its contact time question lets go after a bounded
\* number of messages, for every clarify_max_turns.
THEOREM ConversationIsBounded ==
  Conversation!Spec => []Conversation!TypeOK /\ []Conversation!ConversationBounded
<1>1. Conversation!IndInv => Conversation!TypeOK /\ Conversation!ConversationBounded
  BY BoundedConversation, ConversationOperators
     DEF Conversation!IndInv, Conversation!TypeOK, Conversation!ConversationBounded, Conversation!ClarifyBounded,
         Conversation!OneEscalationBlock, Conversation!SolicitationEnds,
         Conversation!Conv, Conv, WithinBounds
<1> QED BY <1>1, ReplyFlowInv, PTL

\* No question back follows the reference number.
THEOREM EscalatedIsNotAskedBack == Conversation!Spec => Conversation!NoQuestionAfterEscalation
<1>1. Conversation!IndInv /\ [Conversation!Next]_(Conversation!vars) =>
        [blocks > 0 => clarified' = clarified]_(Conversation!vars)
  <2> SUFFICES ASSUME Conversation!IndInv, Conversation!Next, blocks > 0 PROVE clarified' = clarified
    OBVIOUS
  <2>1. conv.confirmed /\ conv \in Conv
    BY ConversationOperators DEF Conversation!IndInv, WithinBounds
  <2>2. ASSUME NEW o \in Outcome, Conversation!Reply(o) PROVE clarified' = clarified
    <3>1. ReplyAction(o, conv) # "clarify"
      BY <2>1, ClarifyIsAllowed DEF IsAlreadyEscalated
    <3> QED BY <2>2, <3>1, ConversationOperators DEF Conversation!Reply
  <2> QED
    BY <2>2, ConversationOperators DEF Conversation!Next, Conversation!TimePrefAnswered, Conversation!TimePrefPassed,
       Conversation!NoTimePref, Conversation!EndTurn
<1> QED BY <1>1, ReplyFlowInv, PTL DEF Conversation!Spec, Conversation!NoQuestionAfterEscalation

\* The contact time the customer gave is never replaced or lost.
THEOREM ContactTimeIsKept == Conversation!Spec => Conversation!ContactTimeKept
<1>1. Conversation!IndInv /\ [Conversation!Next]_(Conversation!vars) =>
        [conv.contact # "none" => conv'.contact = conv.contact]_(Conversation!vars)
  <2> SUFFICES ASSUME Conversation!IndInv, Conversation!Next, conv.contact # "none"
               PROVE  conv'.contact = conv.contact
    OBVIOUS
  <2>1. ~conv.awaiting /\ IsAlreadyEscalated(conv) /\ conv \in Conv
    BY ConversationOperators DEF Conversation!IndInv, WithinBounds, IsAlreadyEscalated
  <2>2. ASSUME NEW o \in Outcome, Conversation!Reply(o) PROVE conv' = conv
    <3>1. ReplyAction(o, conv) # "clarify"
      BY <2>1, ClarifyIsAllowed
    <3> QED
      BY <2>1, <2>2, <3>1, ConversationOperators DEF Conversation!Reply, AfterReply
  <2> QED
    BY <2>1, <2>2, ConversationOperators DEF Conversation!Next, Conversation!TimePrefAnswered, Conversation!TimePrefPassed,
       Conversation!NoTimePref, Conversation!EndTurn
<1> QED BY <1>1, ReplyFlowInv, PTL DEF Conversation!Spec, Conversation!ContactTimeKept

-----------------------------------------------------------------------------
(* CaseRecord: turns that do not overlap.                                  *)

\* A write keeps the shape of a record, and every attribute but its writer's.
LEMMA MergedCase ==
  ASSUME NEW r \in Case, NEW c \in Conv, NEW j
  PROVE  LET m == Merge(j, r, c)
             mine == j \in {"given", "passed", "clarify", "escalation"}
         IN /\ m \in Case /\ m # NoCase
            /\ mine => m = [r EXCEPT !.conv = c]
            /\ m.conv = (IF mine THEN c ELSE r.conv)
            /\ m.count = (IF mine \/ j = "demote" \/ j = "link" THEN r.count ELSE r.count + 1)
            /\ m.verdict = (IF j = "demote" THEN "out_of_scope" ELSE r.verdict)
            /\ m.linked = (j = "link" \/ r.linked)
<1> DEFINE m == Merge(j, r, c)
<1>1. CASE j \in {"given", "passed", "clarify", "escalation"}
  <2>1. m = [r EXCEPT !.conv = c]
    BY <1>1 DEF Merge
  <2> QED BY <1>1, <2>1, NoCaseAssumption DEF Case
<1>2. CASE j = "demote"
  <2>1. m = [r EXCEPT !.verdict = "out_of_scope"]
    BY <1>2 DEF Merge
  <2> QED BY <1>2, <2>1, NoCaseAssumption DEF Case
<1>3. CASE j = "link"
  <2>1. m = [r EXCEPT !.linked = TRUE]
    BY <1>3 DEF Merge
  <2> QED BY <1>3, <2>1, NoCaseAssumption DEF Case
<1>4. CASE j \notin {"given", "passed", "clarify", "escalation", "demote", "link"}
  <2>1. m = [r EXCEPT !.count = r.count + 1]
    BY <1>4 DEF Merge
  <2> QED BY <1>4, <2>1, NoCaseAssumption DEF Case
<1> QED BY <1>1, <1>2, <1>3, <1>4

LEMMA DecidedCase ==
  ASSUME NEW r \in Case
  PROVE  LET m == [r EXCEPT !.verdict = "decided"]
         IN /\ m \in Case /\ m # NoCase
            /\ m.conv = r.conv /\ m.count = r.count /\ m.linked = r.linked
BY NoCaseAssumption DEF Case

LEMMA NewCaseIsCase ==
  /\ NewConv \in Conv /\ NewCase \in Case /\ NewCase # NoCase
  /\ NewCase.conv = NewConv /\ ~NewConv.awaiting
<1>1. NewConv \in Conv
  BY StartsWithinBounds
<1>2. NewCase \in Case
  BY <1>1 DEF NewCase, Case
<1> QED BY <1>1, <1>2, NoCaseAssumption DEF NewCase, NewConv

\* A case is as it was created, or as an earlier version left it.
LEMMA LegacyState ==
  ASSUME store = NoCase \/ store \in LegacyCase
  PROVE  store \in Case \cup {NoCase} /\ ConvOf(store) \in {NewConv} \cup LegacyConv
<1>1. CASE store = NoCase
  BY <1>1 DEF ConvOf
<1>2. CASE store \in LegacyCase
  <2>1. PICK c \in LegacyConv : store = [[NewCase EXCEPT !.conv = c] EXCEPT !.verdict = "decided"]
    BY <1>2 DEF LegacyCase
  <2>2. c \in Conv
    BY StartsWithinBounds
  <2>3. store \in Case /\ store.conv = c
    BY <2>1, <2>2 DEF NewCase, Case
  <2> QED BY <2>3, NoCaseAssumption DEF ConvOf
<1> QED BY <1>1, <1>2

LEMMA InitIndInv == Init => IndInv
<1> SUFFICES ASSUME Init PROVE IndInv
  OBVIOUS
<1>1. /\ store \in Case \cup {NoCase}
      /\ ConvOf(store) \in {NewConv} \cup LegacyConv
  BY LegacyState DEF Init
<1>2. WithinBounds(ConvOf(store), clarified, blocks, attempts)
  BY <1>1, StartsWithinBounds DEF Init
<1>3. TypeOK
  <2>1. heard \in [asked : Nat, told : Nat]
    BY DEF Init
  <2>2. nodes \in Seq(Nat) /\ late \subseteq Case /\ own \in Conv
    BY NewCaseIsCase DEF Init
  <2>3. turns = 0 /\ session \in BOOLEAN
    BY Zenon DEF Init
  <2>4. turns \in 0..MaxTurns
    BY <2>3, MaxTurnsAssumption
  <2> QED BY <1>1, <2>1, <2>2, <2>3, <2>4 DEF Init, TypeOK
<1> QED
  BY <1>2, <1>3
     DEF Init, IndInv, CopyIsCurrent, OwnIsDue, NotYetHeard, TurnNumbersAreUnique, SavedBeforeSent

\* The state the record has, whatever became of it.
LEMMA StoredConv ==
  ASSUME TypeOK
  PROVE  /\ ConvOf(store) \in Conv
         /\ store # NoCase => store \in Case /\ ConvOf(store) = store.conv
         /\ ConvOf(store).awaiting => store # NoCase
BY NewCaseIsCase DEF TypeOK, ConvOf, Case

Steps == {"idle", "timepref", "evaluate", "write", "reply", "load", "save",
          "record", "node", "respond", "failed"}
\* A step keeps the types.
LEMMA TypeStep ==
  ASSUME IndInv, Next
  PROVE  TypeOK'
<1> USE DEF IndInv, turnVars, history
<1>1. CASE Receive
  <2>1. turns' \in 0..MaxTurns
    BY <1>1, MaxTurnsAssumption DEF Receive, TypeOK
  <2> QED BY <1>1, <2>1 DEF Receive, TypeOK
<1>2. CASE ReceiveOutOfScope
  <2>1. turns' \in 0..MaxTurns
    BY <1>2, MaxTurnsAssumption DEF ReceiveOutOfScope, TypeOK
  <2> QED BY <1>2, <2>1, NewCaseIsCase DEF ReceiveOutOfScope, TypeOK
<1>3. CASE TimePref
  <2>1. own' \in Conv
    BY <1>3, StoredConv, TimePrefType DEF TimePref, TypeOK
  <2> QED BY <1>3, <2>1 DEF TimePref, TypeOK
<1>4. CASE EvaluateLoad \/ EvaluateCreate \/ EvaluateCreateErrs
  BY <1>4, NewCaseIsCase DEF EvaluateLoad, EvaluateCreate, EvaluateCreateErrs, TypeOK
<1>5. CASE EvaluateWrite
  <2>1. store' \in Case
    BY <1>5, DecidedCase DEF EvaluateWrite, CopyIsCurrent, TypeOK
  <2> QED BY <1>5, <2>1 DEF EvaluateWrite, TypeOK
<1>6. CASE OutOfScope \/ RecordTurn
  BY <1>6 DEF OutOfScope, RecordTurn, TypeOK
<1>7. ASSUME NEW o \in Outcome, Decide(o) PROVE TypeOK'
  <2>1. own' \in Conv
    BY <1>7, StoredConv, AfterReplyType DEF Decide
  <2>2. ReplyAction(o, ConvOf(store)) \in {"answer", "clarify", "escalation"}
    BY ReplyCases
  <2>3. job' \in {job, "clarify", "escalation"} /\ reply' \in {"plain", "clarify", "escalation"}
    BY <1>7, <2>2 DEF Decide, AfterReply
  <2> QED BY <1>7, <2>1, <2>3 DEF Decide, TypeOK
<1>8. CASE Load
  BY <1>8 DEF Load, TypeOK
<1>9. CASE Save
  <2>1. store' \in Case
    BY <1>9, MergedCase DEF Save, CopyIsCurrent, TypeOK
  <2>2. clarified' \in Nat /\ blocks' \in Nat /\ attempts' \in Nat
    BY <1>9 DEF Save, TypeOK
  <2>3. pc' \in Steps
    BY <1>9 DEF Save, AfterJob, AfterError, Steps
  <2> QED BY <1>9, <2>1, <2>2, <2>3 DEF Save, TypeOK, Steps
<1>10. CASE WriteNode
  <2>1. snap.count + 1 \in Nat
    BY <1>10 DEF WriteNode, CopyIsCurrent, TypeOK, Case
  <2>2. nodes' \in Seq(Nat)
    BY <1>10, <2>1 DEF WriteNode, TypeOK
  <2> QED BY <1>10, <2>2 DEF WriteNode, TypeOK
<1>11. CASE Fails
  <2>1. pc' \in Steps
    BY <1>11 DEF Fails, AfterError, Steps
  <2> QED BY <1>11, <2>1 DEF Fails, TypeOK, Steps
<1>12. CASE Respond
  <2>1. heard' \in [asked : Nat, told : Nat]
    BY <1>12 DEF Respond, TypeOK
  <2>2. session' \in BOOLEAN
    BY <1>12 DEF Respond, TypeOK
  <2> QED BY <1>12, <2>1, <2>2, NewCaseIsCase DEF Respond, TypeOK
<1>13. CASE GiveUp \/ Forget
  BY <1>13, NewCaseIsCase DEF GiveUp, Forget, TypeOK
<1> QED
  BY <1>1, <1>2, <1>3, <1>4, <1>5, <1>6, <1>7, <1>8, <1>9, <1>10, <1>11, <1>12, <1>13 DEF Next

\* Where a writer goes on.
LEMMA AfterJobs ==
  ASSUME NEW j
  PROVE  /\ AfterJob(j) \in {"evaluate", "reply", "node", "record"}
         /\ AfterError(j) \in {"failed", "record", "reply", "respond"}
         /\ AfterJob(j) = "node" <=> j = "count"
         /\ AfterError(j) = "reply" <=> j = "link"
         /\ AfterJob(j) = "reply" <=> j = "link"
         /\ AfterJob(j) = "evaluate" <=> j = "passed"
         /\ j \in {"given", "passed", "clarify", "escalation"} => AfterError(j) = "failed"
BY DEF AfterJob, AfterError

\* What a write does to the record that is stored.
LEMMA SavedCase ==
  ASSUME IndInv, Save
  PROVE  LET mine == job \in {"given", "passed", "clarify", "escalation"}
         IN /\ store \in Case /\ store # NoCase /\ snap = store
            /\ store' \in Case /\ store' # NoCase
            /\ ConvOf(store') = (IF mine THEN own ELSE ConvOf(store))
            /\ job = "count" => store'.count = store.count + 1
            /\ store'.count >= store.count
            /\ store.linked => store'.linked
            /\ store.verdict = "out_of_scope" => store'.verdict = "out_of_scope"
<1>1. store \in Case /\ store # NoCase /\ snap = store /\ own \in Conv /\ store.count \in Nat
  BY DEF IndInv, CopyIsCurrent, TypeOK, Save, Case
<1>2. store' = Merge(job, store, own)
  BY <1>1 DEF Save
<1>3. LET mine == job \in {"given", "passed", "clarify", "escalation"}
      IN /\ store' \in Case /\ store' # NoCase
         /\ store'.conv = (IF mine THEN own ELSE store.conv)
         /\ store'.count = (IF mine \/ job = "demote" \/ job = "link"
                           THEN store.count ELSE store.count + 1)
         /\ store'.verdict = (IF job = "demote" THEN "out_of_scope" ELSE store.verdict)
         /\ store'.linked = (job = "link" \/ store.linked)
  BY <1>1, <1>2, MergedCase
<1>4. ConvOf(store') = store'.conv /\ ConvOf(store) = store.conv
  BY <1>1, <1>3 DEF ConvOf
<1> HIDE DEF IndInv
<1>5. store.linked => store'.linked
  BY <1>3, Zenon
<1> QED BY <1>1, <1>3, <1>4, <1>5

LEMMA CopyStep ==
  ASSUME IndInv, Next
  PROVE  CopyIsCurrent'
<1>1. CASE EvaluateLoad \/ EvaluateCreate \/ Load
  BY <1>1, NewCaseIsCase DEF EvaluateLoad, EvaluateCreate, Load, CopyIsCurrent
<1>2. CASE Save
  <2>1. pc' \in {"evaluate", "reply", "node", "record", "failed", "respond"}
        /\ (pc' = "node" => job = "count")
    BY <1>2, AfterJobs DEF Save
  <2>2. CASE pc' = "node"
    <3>1. /\ snap' = snap /\ snap = store /\ store # NoCase /\ store' # NoCase
          /\ store'.count = store.count + 1 /\ store.count \in Nat /\ nodes' = nodes
      <4>1. pc = "save" /\ job = "count" /\ snap' = snap /\ nodes' = nodes
        BY <1>2, <2>1, <2>2 DEF Save
      <4>2. store \in Case /\ store # NoCase /\ snap = store /\ store' # NoCase
            /\ store'.count = store.count + 1
        BY <1>2, <4>1, SavedCase
      <4> QED BY <4>1, <4>2 DEF Case
    <3>2. nodes # <<>> => nodes[Len(nodes)] \in Nat /\ nodes[Len(nodes)] <= store.count
      BY DEF IndInv, TypeOK, TurnNumbersAreUnique
    <3>3. nodes' # <<>> => nodes'[Len(nodes')] < store'.count
      BY <3>1, <3>2
    <3> QED BY <2>2, <3>1, <3>3 DEF CopyIsCurrent
  <2> QED BY <2>1, <2>2 DEF CopyIsCurrent
<1>3. CASE Fails
  <2>1. pc' \in {"failed", "record", "reply", "respond"}
    BY <1>3, AfterJobs DEF Fails
  <2> QED BY <2>1 DEF CopyIsCurrent
<1>4. ASSUME NEW o \in Outcome, Decide(o) PROVE CopyIsCurrent'
  BY <1>4 DEF Decide, CopyIsCurrent
<1>5. CASE Receive \/ ReceiveOutOfScope \/ TimePref \/ EvaluateCreateErrs \/ EvaluateWrite
  BY <1>5 DEF Receive, ReceiveOutOfScope, TimePref, EvaluateCreateErrs, EvaluateWrite,
     CopyIsCurrent
<1>6. CASE OutOfScope \/ RecordTurn \/ WriteNode \/ Respond \/ GiveUp \/ Forget
  BY <1>6 DEF OutOfScope, RecordTurn, WriteNode, Respond, GiveUp, Forget, CopyIsCurrent
<1> QED BY <1>1, <1>2, <1>3, <1>4, <1>5, <1>6 DEF Next

LEMMA OwnStep ==
  ASSUME IndInv, Next
  PROVE  OwnIsDue'
<1>1. CASE TimePref
  <2>1. CASE ConvOf(store).awaiting
    <3>1. store' = store /\ ConvOf(store) = store.conv
      BY <1>1, <2>1, StoredConv DEF TimePref, IndInv
    <3>2. CASE \E where \in {"inside", "outside"} : own' = TimePrefGiven(store.conv, where) /\ job' = "given"
      BY <2>1, <3>1, <3>2 DEF OwnIsDue
    <3>3. CASE own' \in {TimePrefMissed(store.conv), TimePrefError(store.conv)} /\ job' = "passed"
      BY <2>1, <3>1, <3>3 DEF OwnIsDue
    <3> QED BY <1>1, <2>1, <3>2, <3>3 DEF TimePref
  <2>2. CASE ~ConvOf(store).awaiting
    BY <1>1, <2>2 DEF TimePref, OwnIsDue
  <2> QED BY <2>1, <2>2
<1>2. ASSUME NEW o \in Outcome, Decide(o) PROVE OwnIsDue'
  <2> DEFINE c == ConvOf(store)
             action == ReplyAction(o, c)
  <2>1. CASE own' = c
    BY <1>2, <2>1 DEF Decide, OwnIsDue
  <2>2. CASE own' # c
    <3>1. action \in {"clarify", "escalation"}
      BY <1>2, <2>2, ReplyCases DEF Decide, AfterReply
    <3>2. own' = AfterReply(action, c) /\ job' = action /\ store' = store
      BY <1>2, <2>2 DEF Decide
    <3>3. ConvOf(store') = c
      BY <3>2
    <3> QED BY <2>2, <3>1, <3>2, <3>3 DEF OwnIsDue
  <2> QED BY <2>1, <2>2
<1>3. CASE Load
  BY <1>3 DEF Load, OwnIsDue, IndInv
<1>4. CASE Save \/ Fails
  <2>1. pc' \notin {"load", "save"}
    BY <1>4, AfterJobs DEF Save, Fails
  <2> QED BY <2>1 DEF OwnIsDue
<1>5. CASE EvaluateWrite \/ OutOfScope \/ RecordTurn
  BY <1>5 DEF EvaluateWrite, OutOfScope, RecordTurn, OwnIsDue
<1>6. CASE \/ Receive \/ ReceiveOutOfScope \/ EvaluateLoad \/ EvaluateCreate
           \/ EvaluateCreateErrs \/ WriteNode \/ Respond \/ GiveUp \/ Forget
  BY <1>6 DEF Receive, ReceiveOutOfScope, EvaluateLoad, EvaluateCreate, EvaluateCreateErrs,
     WriteNode, Respond, GiveUp, Forget, OwnIsDue
<1> QED BY <1>1, <1>2, <1>3, <1>4, <1>5, <1>6 DEF Next

\* Only a write of the conversation state changes it.
LEMMA ConvIsLeftAlone ==
  ASSUME IndInv, Next, ~Save
  PROVE  ConvOf(store') = ConvOf(store) /\ UNCHANGED <<clarified, blocks, attempts>>
<1> USE DEF history
<1>1. CASE ReceiveOutOfScope \/ EvaluateCreate \/ EvaluateCreateErrs
  BY <1>1, NewCaseIsCase DEF ReceiveOutOfScope, EvaluateCreate, EvaluateCreateErrs, ConvOf
<1>2. CASE EvaluateWrite
  <2>1. store \in Case /\ store # NoCase /\ store' = [store EXCEPT !.verdict = "decided"]
    BY <1>2 DEF EvaluateWrite, IndInv, CopyIsCurrent, TypeOK
  <2> QED BY <1>2, <2>1, DecidedCase DEF EvaluateWrite, ConvOf
<1>3. ASSUME NEW o \in Outcome, Decide(o)
      PROVE  UNCHANGED <<store, clarified, blocks, attempts>>
  BY <1>3 DEF Decide
<1>4. CASE Receive \/ TimePref \/ EvaluateLoad \/ OutOfScope \/ Load \/ RecordTurn
  BY <1>4 DEF Receive, TimePref, EvaluateLoad, OutOfScope, Load, RecordTurn
<1>5. CASE WriteNode \/ Fails \/ Respond \/ GiveUp \/ Forget
  BY <1>5 DEF WriteNode, Fails, Respond, GiveUp, Forget
<1> QED BY <1>1, <1>2, <1>3, <1>4, <1>5 DEF Next

\* What a write counts is what it changes: the history stays within the bounds.
LEMMA BoundsStep ==
  ASSUME IndInv, Next
  PROVE  WithinBounds(ConvOf(store'), clarified', blocks', attempts')
<1> DEFINE c == ConvOf(store)
<1>1. WithinBounds(c, clarified, blocks, attempts)
  BY DEF IndInv
<1>2. CASE ~Save
  BY <1>1, <1>2, ConvIsLeftAlone
<1>3. CASE Save
  <2>1. /\ clarified' = IF job = "clarify" THEN clarified + 1 ELSE clarified
        /\ blocks' = IF job = "escalation" THEN blocks + 1 ELSE blocks
        /\ attempts' = IF job = "escalation" THEN 0
                       ELSE IF job \in {"given", "passed"} THEN attempts + 1 ELSE attempts
        /\ ConvOf(store') = IF job \in {"given", "passed", "clarify", "escalation"}
                            THEN own ELSE c
    BY <1>3, SavedCase DEF Save
  <2>2. \/ job \in {"demote", "link", "count"}
        \/ /\ job = "given" /\ c.awaiting
           /\ \E where \in {"inside", "outside"} : own = TimePrefGiven(c, where)
        \/ /\ job = "passed" /\ c.awaiting
           /\ own \in {TimePrefMissed(c), TimePrefError(c)}
        \/ /\ job \in {"clarify", "escalation"} /\ own # c
           /\ \E o \in Outcome : ReplyAction(o, c) = job /\ own = AfterReply(job, c)
    BY <1>3 DEF Save, IndInv, OwnIsDue
  <2> HIDE DEF c
  <2>3. CASE job \in {"demote", "link", "count"}
    BY <1>1, <2>1, <2>3
  <2>4. CASE job = "given"
    <3>1. PICK where \in {"inside", "outside"} : own = TimePrefGiven(c, where)
      BY <2>2, <2>4
    <3> QED BY <1>1, <2>1, <2>2, <2>4, <3>1, GivenWithinBounds
  <2>5. CASE job = "passed"
    BY <1>1, <2>1, <2>2, <2>5, PassedWithinBounds
  <2>6. CASE job \in {"clarify", "escalation"}
    <3>1. PICK o \in Outcome : ReplyAction(o, c) = job /\ own = AfterReply(job, c)
      BY <2>2, <2>6
    <3>2. own # c
      BY <2>2, <2>6
    <3>3. /\ job = "clarify" => WithinBounds(own, clarified + 1, blocks, attempts)
          /\ job = "escalation" => WithinBounds(own, clarified, blocks + 1, 0)
      BY <1>1, <3>1, <3>2, ReplyWithinBounds
    <3> QED BY <2>1, <2>6, <3>3
  <2> QED BY <2>2, <2>3, <2>4, <2>5, <2>6
<1> QED BY <1>2, <1>3

\* No step but the write of a turn lowers turn_count or loses the record.
LEMMA NothingIsLost ==
  ASSUME IndInv, Next, store # NoCase
  PROVE  /\ store' # NoCase /\ store \in Case
         /\ store'.count >= store.count
         /\ store.linked => store'.linked
         /\ store.verdict = "out_of_scope" /\ pc # "write" => store'.verdict = "out_of_scope"
<1>1. store \in Case /\ store.count \in Nat
  BY DEF IndInv, TypeOK, Case
<1>2. CASE Save
  BY <1>1, <1>2, SavedCase
<1>3. CASE EvaluateWrite
  <2>1. store' = [store EXCEPT !.verdict = "decided"] /\ pc = "write"
    BY <1>3 DEF EvaluateWrite, IndInv, CopyIsCurrent
  <2> QED BY <1>1, <2>1, DecidedCase
<1>4. CASE ~Save /\ ~EvaluateWrite
  <2>1. store' = store
    <3>1. ASSUME NEW o \in Outcome, Decide(o) PROVE store' = store
      BY <3>1 DEF Decide
    <3>2. CASE Receive \/ ReceiveOutOfScope \/ TimePref \/ EvaluateLoad
               \/ EvaluateCreate \/ EvaluateCreateErrs
      BY <3>2 DEF Receive, ReceiveOutOfScope, TimePref, EvaluateLoad, EvaluateCreate,
         EvaluateCreateErrs
    <3>3. CASE OutOfScope \/ Load \/ RecordTurn \/ WriteNode \/ Fails \/ Respond \/ GiveUp \/ Forget
      BY <3>3 DEF OutOfScope, Load, RecordTurn, WriteNode, Fails, Respond, GiveUp, Forget
    <3> QED BY <1>4, <3>1, <3>2, <3>3 DEF Next
  <2> QED BY <1>1, <2>1
<1> QED BY <1>2, <1>3, <1>4

LEMMA NumbersStep ==
  ASSUME IndInv, Next
  PROVE  TurnNumbersAreUnique'
<1>1. nodes \in Seq(Nat) /\ TurnNumbersAreUnique
  BY DEF IndInv, TypeOK
<1>2. CASE WriteNode
  <2> DEFINE n == snap.count + 1
  <2>1. /\ nodes' = Append(nodes, n) /\ store' = store /\ store # NoCase
        /\ n = store.count /\ n \in Nat
        /\ nodes # <<>> => nodes[Len(nodes)] < n
    BY <1>2 DEF WriteNode, IndInv, CopyIsCurrent, TypeOK, Case
  <2> HIDE DEF n
  <2>2. /\ Len(nodes') = Len(nodes) + 1 /\ nodes'[Len(nodes) + 1] = n
        /\ \A i \in 1..Len(nodes) : nodes'[i] = nodes[i]
        /\ DOMAIN nodes' = 1..Len(nodes) + 1 /\ nodes' # <<>>
    BY <1>1, <2>1
  <2>3. \A i \in 1..Len(nodes) : nodes[i] \in Nat /\ nodes[i] < n
    <3> SUFFICES ASSUME NEW i \in 1..Len(nodes) PROVE nodes[i] \in Nat /\ nodes[i] < n
      OBVIOUS
    <3>1. nodes # <<>> /\ nodes[i] \in Nat /\ nodes[Len(nodes)] \in Nat
      BY <1>1
    <3>2. i = Len(nodes) \/ nodes[i] < nodes[Len(nodes)]
      BY <1>1 DEF TurnNumbersAreUnique
    <3> QED BY <2>1, <3>1, <3>2
  <2>4. \A i, j \in 1..Len(nodes) + 1 : i < j => nodes'[i] < nodes'[j]
    <3> SUFFICES ASSUME NEW i \in 1..Len(nodes) + 1, NEW j \in 1..Len(nodes) + 1, i < j
                 PROVE  nodes'[i] < nodes'[j]
      OBVIOUS
    <3>1. i \in 1..Len(nodes)
      BY <1>1
    <3>2. CASE j = Len(nodes) + 1
      BY <2>2, <2>3, <3>1, <3>2
    <3>3. CASE j # Len(nodes) + 1
      <4>1. j \in 1..Len(nodes)
        BY <1>1, <3>3
      <4>2. nodes[i] < nodes[j]
        BY <1>1, <3>1, <4>1 DEF TurnNumbersAreUnique
      <4> QED BY <2>2, <3>1, <4>1, <4>2
    <3> QED BY <3>2, <3>3
  <2> QED BY <2>1, <2>2, <2>4 DEF TurnNumbersAreUnique
<1>3. CASE ~WriteNode
  <2>1. nodes' = nodes
    <3>1. ASSUME NEW o \in Outcome, Decide(o) PROVE nodes' = nodes
      BY <3>1 DEF Decide
    <3>2. CASE Receive \/ ReceiveOutOfScope \/ TimePref \/ EvaluateLoad
               \/ EvaluateCreate \/ EvaluateCreateErrs \/ EvaluateWrite \/ Save
      BY <3>2 DEF Receive, ReceiveOutOfScope, TimePref, EvaluateLoad, EvaluateCreate,
         EvaluateCreateErrs, EvaluateWrite, Save
    <3>3. CASE OutOfScope \/ Load \/ RecordTurn \/ Fails \/ Respond \/ GiveUp \/ Forget
      BY <3>3 DEF OutOfScope, Load, RecordTurn, Fails, Respond, GiveUp, Forget
    <3> QED BY <1>3, <3>1, <3>2, <3>3 DEF Next
  <2>2. CASE nodes = <<>>
    BY <2>1, <2>2 DEF TurnNumbersAreUnique
  <2>3. CASE nodes # <<>>
    <3>1. store # NoCase /\ nodes[Len(nodes)] <= store.count /\ nodes[Len(nodes)] \in Nat
      BY <1>1, <2>3 DEF TurnNumbersAreUnique
    <3>2. store' # NoCase /\ store'.count >= store.count /\ store.count \in Nat
      BY <3>1, NothingIsLost DEF Case
    <3>3. store' \in Case /\ store'.count \in Nat
      BY <3>2, TypeStep DEF TypeOK, Case
    <3>4. nodes[Len(nodes)] <= store'.count
      BY <3>1, <3>2, <3>3
    <3> QED BY <1>1, <2>1, <3>2, <3>4 DEF TurnNumbersAreUnique
  <2> QED BY <2>2, <2>3
<1> QED BY <1>2, <1>3

LEMMA HeardStep ==
  ASSUME IndInv, Next
  PROVE  NotYetHeard' /\ SavedBeforeSent'
<1> USE DEF turnVars, history
<1>1. /\ NotYetHeard /\ SavedBeforeSent
      /\ clarified \in Nat /\ blocks \in Nat /\ heard.asked \in Nat /\ heard.told \in Nat
  BY DEF IndInv, TypeOK
<1>2. CASE Save
  <2>1. /\ pc = "save" /\ reply' = reply /\ heard' = heard
        /\ clarified' = IF job = "clarify" THEN clarified + 1 ELSE clarified
        /\ blocks' = IF job = "escalation" THEN blocks + 1 ELSE blocks
    BY <1>2 DEF Save
  <2> QED BY <1>1, <2>1 DEF NotYetHeard, SavedBeforeSent
<1>3. ASSUME NEW o \in Outcome, Decide(o) PROVE NotYetHeard' /\ SavedBeforeSent'
  <2>1. UNCHANGED <<heard, clarified, blocks>>
    BY <1>3 DEF Decide
  <2>2. reply' = "plain" \/ (pc' = "load" /\ job' = reply')
    BY <1>3 DEF Decide
  <2> QED BY <1>1, <2>1, <2>2 DEF NotYetHeard, SavedBeforeSent
<1>4. CASE Fails
  <2>1. UNCHANGED <<heard, clarified, blocks, reply, job>>
    BY <1>4 DEF Fails
  <2>2. pc \in {"load", "save"} /\ job \in {"clarify", "escalation"} => pc' = "failed"
    BY <1>4, AfterJobs DEF Fails
  <2>3. pc # "failed"
    BY <1>4 DEF Fails
  <2> QED BY <1>1, <2>1, <2>2, <2>3 DEF NotYetHeard, SavedBeforeSent
<1>5. CASE Respond
  <2>1. UNCHANGED <<clarified, blocks>> /\ reply' = "none" /\ pc \in {"respond", "failed"}
    BY <1>5 DEF Respond
  <2>2. heard' = heard \/
          /\ pc = "respond"
          /\ heard' = [asked |-> heard.asked + (IF reply = "clarify" THEN 1 ELSE 0),
                       told |-> heard.told + (IF reply = "escalation" THEN 1 ELSE 0)]
    BY <1>5, <2>1 DEF Respond
  <2>3. SavedBeforeSent'
    BY <1>1, <2>1, <2>2 DEF NotYetHeard, SavedBeforeSent
  <2> QED BY <2>1, <2>3 DEF NotYetHeard
<1>6. CASE ~Save /\ ~Fails /\ ~Respond /\ ~(\E o \in Outcome : Decide(o))
  <2>1. /\ UNCHANGED <<heard, clarified, blocks>>
        /\ reply' = reply \/ reply' \notin {"clarify", "escalation"}
        /\ pc # "failed" \/ reply' \notin {"clarify", "escalation"}
        /\ pc \in {"load", "save"} => \/ pc' \in {"load", "save"} /\ job' = job
                                      \/ reply' \notin {"clarify", "escalation"}
    <3>1. CASE Receive \/ ReceiveOutOfScope \/ TimePref
      BY <3>1 DEF Receive, ReceiveOutOfScope, TimePref
    <3>2. CASE EvaluateLoad \/ EvaluateCreate \/ EvaluateCreateErrs \/ EvaluateWrite
      BY <3>2 DEF EvaluateLoad, EvaluateCreate, EvaluateCreateErrs, EvaluateWrite
    <3>3. CASE OutOfScope \/ Load \/ RecordTurn \/ WriteNode \/ GiveUp \/ Forget
      BY <3>3 DEF OutOfScope, Load, RecordTurn, WriteNode, GiveUp, Forget
    <3> QED BY <1>6, <3>1, <3>2, <3>3 DEF Next
  <2> QED BY <1>1, <2>1 DEF NotYetHeard, SavedBeforeSent
<1> QED BY <1>2, <1>3, <1>4, <1>5, <1>6

LEMMA CaseRecordStep == IndInv /\ [Next]_vars => IndInv'
<1> SUFFICES ASSUME IndInv, [Next]_vars PROVE IndInv'
  OBVIOUS
<1>1. CASE Next
  BY <1>1, TypeStep, BoundsStep, CopyStep, OwnStep, HeardStep, NumbersStep DEF IndInv
<1>2. CASE UNCHANGED vars
  <2>1. TypeOK'
    BY <1>2 DEF vars, IndInv, TypeOK
  <2> QED
    BY <1>2, <2>1 DEF vars, IndInv, CopyIsCurrent, OwnIsDue, NotYetHeard,
       TurnNumbersAreUnique, SavedBeforeSent
<1> QED BY <1>1, <1>2

\* What turns that do not overlap keep of their case, for any number of turns and
\* every clarify_max_turns: what the next theorems rest on.
THEOREM CaseRecordInv == Spec => []IndInv
BY InitIndInv, CaseRecordStep, PTL DEF Spec

\* The turns of a case have distinct numbers in their order, and turn_count does
\* not fall behind (record_conversation_turn), whichever write fails.
THEOREM TurnNumbersAreUniqueAlways == Spec => []TurnNumbersAreUnique
<1>1. IndInv => TurnNumbersAreUnique
  BY DEF IndInv
<1> QED BY <1>1, CaseRecordInv, PTL

\* No question and no escalation block reaches the customer before the record
\* knows of it (save_conv_state before the reply).
THEOREM SavedBeforeSentAlways == Spec => []SavedBeforeSent
<1>1. IndInv => SavedBeforeSent
  BY DEF IndInv
<1> QED BY <1>1, CaseRecordInv, PTL

\* No writer of the record loses what another has written, although each sends
\* the whole record.
THEOREM NoWriteIsLost == Spec => NothingLost
<1>1. IndInv /\ [Next]_vars =>
        [store # NoCase =>
           /\ store' # NoCase
           /\ store'.count >= store.count
           /\ store.linked => store'.linked
           /\ store.verdict = "out_of_scope" /\ pc # "write" => store'.verdict = "out_of_scope"
        ]_vars
  BY NothingIsLost
<1> QED BY <1>1, CaseRecordInv, PTL DEF Spec, NothingLost

-----------------------------------------------------------------------------
(* The record implements ReplyFlow.                                        *)

\* The operators of the conversation state, as Flow has them.
LEMMA FlowOperators ==
  /\ Flow!NewConv = NewConv /\ Flow!LegacyConv = LegacyConv /\ Flow!Outcome = Outcome
  /\ Flow!FalseLimit = FalseLimit /\ Flow!ErrorLimit = ErrorLimit
  /\ \A c : /\ \A where : Flow!TimePrefGiven(c, where) = TimePrefGiven(c, where)
           /\ Flow!TimePrefMissed(c) = TimePrefMissed(c)
           /\ Flow!TimePrefError(c) = TimePrefError(c)
           /\ \A o : Flow!ReplyAction(o, c) = ReplyAction(o, c)
           /\ \A action : Flow!AfterReply(action, c) = AfterReply(action, c)
           /\ \A asked, sent, tried :
                Flow!WithinBounds(c, asked, sent, tried) <=> WithinBounds(c, asked, sent, tried)
BY DEF NewConv, LegacyConv, Outcome, FalseLimit, ErrorLimit, TimePrefGiven,
   TimePrefMissed, TimePrefError, IsJevTurn, IsAlreadyEscalated, ReplyAction, Arm,
   AfterReply, WithinBounds, Conv, Flow!NewConv, Flow!LegacyConv, Flow!Outcome,
   Flow!FalseLimit, Flow!ErrorLimit, Flow!TimePrefGiven, Flow!TimePrefMissed,
   Flow!TimePrefError, Flow!IsJevTurn, Flow!IsAlreadyEscalated, Flow!ReplyAction,
   Flow!Arm, Flow!AfterReply, Flow!WithinBounds, Flow!Conv

\* The steps of ReplyFlow, told by what they do to the record.
FlowPhase == IF InEvaluation THEN "evaluate" ELSE "idle"

LEMMA FlowStutters ==
  ASSUME ConvOf(store') = ConvOf(store), FlowPhase' = FlowPhase,
         UNCHANGED <<clarified, blocks, attempts>>
  PROVE  UNCHANGED Flow!vars
BY DEF Flow!vars, FlowPhase

LEMMA FlowEndsTurn ==
  ASSUME ConvOf(store') = ConvOf(store), InEvaluation, ~InEvaluation',
         UNCHANGED <<clarified, blocks, attempts>>
  PROVE  Flow!Next
BY DEF Flow!Next, Flow!EndTurn

LEMMA FlowNoTimePref ==
  ASSUME ConvOf(store') = ConvOf(store), ~ConvOf(store).awaiting,
         ~InEvaluation, InEvaluation', UNCHANGED <<clarified, blocks, attempts>>
  PROVE  Flow!Next
BY DEF Flow!Next, Flow!NoTimePref

\* Only a write of the conversation state is a step of the conversation; the others
\* begin a turn, end it, or are not seen.
LEMMA QuietStepOfFlow ==
  ASSUME IndInv, Next, ~Save
  PROVE  Flow!Next \/ UNCHANGED Flow!vars
<1> DEFINE Goal == Flow!Next \/ UNCHANGED Flow!vars
<1> USE DEF InEvaluation, turnVars
<1>1. ConvOf(store') = ConvOf(store) /\ UNCHANGED <<clarified, blocks, attempts>>
  BY ConvIsLeftAlone
<1>2. ASSUME ~InEvaluation, ~InEvaluation' PROVE Goal
  BY <1>1, <1>2, FlowStutters DEF FlowPhase
<1>3. ASSUME InEvaluation PROVE Goal
  <2>1. CASE InEvaluation'
    BY <1>1, <1>3, <2>1, FlowStutters DEF FlowPhase
  <2>2. CASE ~InEvaluation'
    BY <1>1, <1>3, <2>2, FlowEndsTurn
  <2> QED BY <2>1, <2>2
<1>4. ASSUME ~InEvaluation, InEvaluation' PROVE Goal
  <2>1. ~ConvOf(store).awaiting
    <3>1. CASE Receive
      BY <1>4, <3>1, NewCaseIsCase DEF Receive, ConvOf
    <3>2. CASE TimePref
      BY <1>4, <3>2 DEF TimePref
    <3>3. CASE ReceiveOutOfScope \/ RecordTurn \/ WriteNode \/ Respond \/ GiveUp \/ Forget
      BY <1>4, <3>3 DEF ReceiveOutOfScope, RecordTurn, WriteNode, Respond, GiveUp, Forget
    <3>4. CASE EvaluateLoad \/ EvaluateCreate \/ EvaluateCreateErrs \/ EvaluateWrite \/ OutOfScope
      BY <1>4, <3>4 DEF EvaluateLoad, EvaluateCreate, EvaluateCreateErrs, EvaluateWrite, OutOfScope
    <3>5. CASE Load \/ Fails
      BY <1>4, <3>5, AfterJobs DEF Load, Fails
    <3>6. ASSUME NEW o \in Outcome, Decide(o) PROVE FALSE
      BY <1>4, <3>6 DEF Decide
    <3> QED BY <3>1, <3>2, <3>3, <3>4, <3>5, <3>6 DEF Next
  <2> QED BY <1>1, <1>4, <2>1, FlowNoTimePref
<1> QED BY <1>2, <1>3, <1>4

LEMMA SaveStepOfFlow ==
  ASSUME IndInv, Save
  PROVE  Flow!Next \/ UNCHANGED Flow!vars
<1> DEFINE c == ConvOf(store)
<1>1. /\ pc = "save" /\ pc' \in {AfterJob(job), AfterError(job)} /\ job' = job
      /\ clarified' = IF job = "clarify" THEN clarified + 1 ELSE clarified
      /\ blocks' = IF job = "escalation" THEN blocks + 1 ELSE blocks
      /\ attempts' = IF job = "escalation" THEN 0
                     ELSE IF job \in {"given", "passed"} THEN attempts + 1 ELSE attempts
      /\ ConvOf(store') = IF job \in {"given", "passed", "clarify", "escalation"}
                          THEN own ELSE c
  BY SavedCase DEF Save
<1>2. \/ job \in {"demote", "link", "count"}
      \/ /\ job = "given" /\ c.awaiting
         /\ \E where \in {"inside", "outside"} : own = TimePrefGiven(c, where)
      \/ /\ job = "passed" /\ c.awaiting
         /\ own \in {TimePrefMissed(c), TimePrefError(c)}
      \/ /\ job \in {"clarify", "escalation"} /\ own # c
         /\ \E o \in Outcome : ReplyAction(o, c) = job /\ own = AfterReply(job, c)
  BY DEF Save, IndInv, OwnIsDue
<1>3. CASE job \in {"demote", "link", "count"}
  <2>1. InEvaluation' <=> InEvaluation
    BY <1>1, <1>3, AfterJobs DEF InEvaluation
  <2> QED BY <1>1, <1>3, <2>1, FlowStutters DEF FlowPhase
<1>4. CASE job = "given"
  <2>1. ~InEvaluation /\ ~InEvaluation'
    BY <1>1, <1>4, AfterJobs DEF InEvaluation
  <2>2. PICK where \in {"inside", "outside"} : own = TimePrefGiven(c, where)
    BY <1>2, <1>4
  <2>3. Flow!TimePrefAnswered(where)
    BY <1>1, <1>2, <1>4, <2>1, <2>2, FlowOperators DEF Flow!TimePrefAnswered
  <2> QED BY <2>3 DEF Flow!Next
<1>5. CASE job = "passed"
  <2>1. ~InEvaluation
    BY <1>1, <1>5 DEF InEvaluation
  <2>2. Flow!TimePrefPassed
    BY <1>1, <1>2, <1>5, <2>1, FlowOperators DEF Flow!TimePrefPassed
  <2> QED BY <2>2 DEF Flow!Next
<1>6. CASE job \in {"clarify", "escalation"}
  <2>1. InEvaluation /\ ~InEvaluation'
    BY <1>1, <1>6, AfterJobs DEF InEvaluation, AfterJob
  <2>2. PICK o \in Outcome : ReplyAction(o, c) = job /\ own = AfterReply(job, c)
    BY <1>2, <1>6
  <2>3. own # c
    BY <1>2, <1>6
  <2>4. Flow!Reply(o)
    BY <1>1, <1>6, <2>1, <2>2, <2>3, FlowOperators DEF Flow!Reply
  <2> QED BY <2>4, FlowOperators DEF Flow!Next
<1> QED BY <1>2, <1>3, <1>4, <1>5, <1>6

\* Reads, merges and writes that fail, time out or are given up: seen through its
\* conversation state, the record goes the way of ReplyFlow.
THEOREM CaseRecordImplementsReplyFlow == Spec => ImplementsReplyFlow
<1>1. Init => Flow!Init
  <2> SUFFICES ASSUME Init PROVE Flow!Init
    OBVIOUS
  <2>1. ConvOf(store) \in {NewConv} \cup LegacyConv
    BY LegacyState DEF Init
  <2> QED BY <2>1, FlowOperators DEF Init, Flow!Init, InEvaluation
<1>2. IndInv /\ [Next]_vars => [Flow!Next]_(Flow!vars)
  <2> SUFFICES ASSUME IndInv, [Next]_vars, ~(UNCHANGED Flow!vars) PROVE Flow!Next
    OBVIOUS
  <2>1. CASE UNCHANGED vars
    BY <2>1 DEF vars, Flow!vars, InEvaluation, ConvOf
  <2> QED BY <2>1, QuietStepOfFlow, SaveStepOfFlow
<1> QED BY <1>1, <1>2, CaseRecordInv, PTL DEF Spec, ImplementsReplyFlow, Flow!Spec

\* So the customer of a case is asked back at most clarify_max_turns times, gets one
\* escalation block at most, and the contact time question lets go, whatever fails.
THEOREM RecordedConversationIsBounded == Spec => []Flow!ConversationBounded
<1>1. IndInv => Flow!ConversationBounded
  BY BoundedConversation, FlowOperators
     DEF IndInv, Flow!ConversationBounded, Flow!ClarifyBounded, Flow!OneEscalationBlock,
         Flow!SolicitationEnds
<1> QED BY <1>1, CaseRecordInv, PTL

-----------------------------------------------------------------------------
(* AdvisorFlow: what a decision does to the advisor's case.                *)

AdvisorActions == {"safety", "support", "lead_solicit", "lead_confirmed", "clarify",
                   "time_pref", "out_of_domain", "answer", "fallback"}

\* The conversation state of the case after the decision.
DecidedConv(action, c) ==
  CASE action = "safety" -> [[c EXCEPT !.awaiting = FALSE] EXCEPT !.misses = 0]
    [] action = "lead_solicit" ->
         [[[c EXCEPT !.awaiting = TRUE] EXCEPT !.misses = 0] EXCEPT !.clarify = 0]
    [] action = "clarify" -> [c EXCEPT !.clarify = c.clarify + 1]
    [] OTHER -> c

LEMMA DecidedConvType ==
  ASSUME NEW c \in Conv, NEW action \in AdvisorActions,
         action = "clarify" => c.clarify < ClarifyMaxTurns
  PROVE  DecidedConv(action, c) \in Conv
<1>1. CASE action = "safety"
  <2>1. [c EXCEPT !.awaiting = FALSE] \in Conv
    BY FieldUpdate
  <2>2. [[c EXCEPT !.awaiting = FALSE] EXCEPT !.misses = 0] \in Conv
    BY <2>1, FieldUpdate
  <2> QED BY <1>1, <2>2 DEF DecidedConv
<1>2. CASE action = "lead_solicit"
  <2>1. [c EXCEPT !.awaiting = TRUE] \in Conv
    BY FieldUpdate
  <2>2. [[c EXCEPT !.awaiting = TRUE] EXCEPT !.misses = 0] \in Conv
    BY <2>1, FieldUpdate
  <2>3. [[[c EXCEPT !.awaiting = TRUE] EXCEPT !.misses = 0] EXCEPT !.clarify = 0] \in Conv
    BY <2>2, FieldUpdate
  <2> QED BY <1>2, <2>3 DEF DecidedConv
<1>3. CASE action = "clarify"
  BY <1>3, FieldUpdate DEF DecidedConv
<1>4. CASE action \notin {"safety", "lead_solicit", "clarify"}
  BY <1>4 DEF DecidedConv
<1> QED BY <1>1, <1>2, <1>3, <1>4

\* The other attributes: the link stays, a request once noted stays, and only
\* product support, the contact time question and the fallback leave the mode on.
LEMMA ContractFields ==
  ASSUME NEW m \in AdvisorCase, NEW action \in AdvisorActions
  PROVE  LET d == Contract(action, m)
         IN /\ d.conv = DecidedConv(action, m.conv) /\ d.link = m.link
            /\ d.requested <=> m.requested \/ action = "lead_confirmed"
            /\ d.mode => action \in {"support", "time_pref", "fallback"}
            /\ action \in {"time_pref", "fallback"} => d.mode = m.mode
            /\ DecidedConv(action, m.conv) \in Conv => d \in AdvisorCase
<1> USE DEF Contract, DecidedConv, AdvisorCase, Leave
<1>1. CASE action = "safety"
  BY <1>1 DEF Calm
<1>2. CASE action = "lead_solicit"
  BY <1>2 DEF Solicit
<1>3. CASE action = "lead_confirmed"
  BY <1>3 DEF Confirm
<1>4. CASE action = "clarify"
  BY <1>4
<1>5. CASE action = "support"
  BY <1>5
<1>6. CASE action \in {"out_of_domain", "answer"}
  BY <1>6
<1>7. CASE action \in {"time_pref", "fallback"}
  BY <1>7
<1> QED BY <1>1, <1>2, <1>3, <1>4, <1>5, <1>6, <1>7 DEF AdvisorActions

\* A message read as the answer to the contact time question: the time is kept
\* and the question closed, or the question is closed, or it is nearer its end.
LEMMA ExtractionCases ==
  ASSUME NEW c \in Conv, NEW x \in Extractions
  PROVE  LET d == AfterExtraction(c, x)
         IN /\ d \in Conv
            /\ x = "fits" => d.contact = "inside" /\ ~d.awaiting
            /\ d.awaiting => Spent(d) > Spent(c)
<1> DEFINE d == AfterExtraction(c, x)
<1>1. d \in Conv
  BY TimePrefType, FieldUpdate DEF AfterExtraction
<1>2. x = "fits" => d.contact = "inside" /\ ~d.awaiting
  BY DEF AfterExtraction, TimePrefGiven, Conv
<1>3. /\ TimePrefMissed(c).awaiting =>
           TimePrefMissed(c).misses = c.misses + 1 /\ TimePrefMissed(c).errors = 0
      /\ TimePrefError(c).awaiting =>
           TimePrefError(c).misses = c.misses /\ TimePrefError(c).errors = c.errors + 1
  BY DEF TimePrefMissed, TimePrefError, Conv
<1>4. x = "outside" => /\ d.awaiting = TimePrefMissed(c).awaiting
                       /\ d.misses = TimePrefMissed(c).misses
                       /\ d.errors = TimePrefMissed(c).errors
  BY TimePrefType DEF AfterExtraction, Conv
<1>5. d.awaiting => \/ d.misses = c.misses + 1 /\ d.errors = 0
                    \/ d.misses = c.misses /\ d.errors = c.errors + 1
  BY <1>2, <1>3, <1>4 DEF AfterExtraction, Extractions
<1>6. c.misses \in Nat /\ c.errors \in 0..2
  BY DEF Conv, FalseLimit, ErrorLimit
<1>7. d.awaiting => Spent(d) > Spent(c)
  <2> HIDE DEF d
  <2> QED BY <1>5, <1>6 DEF Spent, ErrorLimit
<1> QED BY <1>1, <1>2, <1>7

\* What a turn decides from its case, without a contact time being asked for.
LEMMA FlowCases ==
  ASSUME NEW u \in Understanding, NEW m \in AdvisorCase, NEW maySolicit \in BOOLEAN,
         NEW continuing \in BOOLEAN
  PROVE  LET action == InDomainFlow(u, m, maySolicit, continuing)
         IN /\ action \in {"support", "out_of_domain", "lead_solicit", "clarify", "answer"}
            /\ action = "support" => u.urtect \/ m.mode
            /\ action = "lead_solicit" => maySolicit /\ ~m.requested
            /\ action = "clarify" => m.conv.clarify < ClarifyMaxTurns
<1> DEFINE support == WantsSupport(u, m, continuing)
           action == InDomainFlow(u, m, maySolicit, continuing)
<1>1. support => u.urtect \/ m.mode
  BY DEF WantsSupport
<1>2. support => action = "support"
  BY Zenon DEF InDomainFlow
<1>3. ~support /\ ~u.inDomain => action = "out_of_domain"
  BY DEF InDomainFlow
<1>4. ~support /\ u.inDomain =>
        action = IF maySolicit /\ u.lead /\ ~m.requested /\ ~(~m.replied /\ u.product)
                 THEN "lead_solicit"
                 ELSE IF u.missing /\ m.conv.clarify < ClarifyMaxTurns THEN "clarify" ELSE "answer"
  BY DEF InDomainFlow
<1> HIDE DEF support, action
<1>5. /\ action \in {"support", "out_of_domain", "lead_solicit", "clarify", "answer"}
      /\ action = "support" => u.urtect \/ m.mode
      /\ action = "lead_solicit" => maySolicit /\ ~m.requested
      /\ action = "clarify" => m.conv.clarify < ClarifyMaxTurns
  BY <1>1, <1>2, <1>3, <1>4
<1> QED BY <1>5 DEF action

\* Only an emergency and the offer of a contact touch the question.
LEMMA DecidedConvFields ==
  ASSUME NEW c \in Conv, NEW action \in AdvisorActions
  PROVE  LET d == DecidedConv(action, c)
         IN /\ d.contact = c.contact
            /\ d.awaiting => action # "safety" /\ (c.awaiting \/ action = "lead_solicit")
            /\ action \notin {"safety", "lead_solicit"} => Spent(d) = Spent(c)
<1> USE DEF DecidedConv, Conv, Spent
<1>1. CASE action = "safety"
  BY <1>1
<1>2. CASE action = "lead_solicit"
  BY <1>2
<1>3. CASE action = "clarify"
  BY <1>3
<1>4. CASE action \notin {"safety", "lead_solicit", "clarify"}
  BY <1>4
<1> QED BY <1>1, <1>2, <1>3, <1>4

-----------------------------------------------------------------------------
(* AdvisorInv, action by action.                                           *)

SupportBounds ==
  \A c \in CsCases : WithinBounds(SupportConv(c), clarifiedOf[c], blocksOf[c], attemptsOf[c])

\* A turn decides with what is left of the case it has read; m is that case with
\* the contact time question updated.
LEMMA DecidedStep ==
  ASSUME AdvisorInv, at = "idle",
         NEW m \in AdvisorCase, NEW action \in AdvisorActions, NEW aboutProduct \in BOOLEAN,
         Decided(action, m, aboutProduct),
         m.requested = case.requested, m.mode = case.mode, m.link = case.link,
         m.requested => m.conv.contact = "inside" /\ ~m.conv.awaiting,
         action = "support" => aboutProduct \/ m.mode,
         action = "lead_solicit" => ~m.requested /\ ~case.conv.awaiting,
         action = "lead_confirmed" => m.conv.contact = "inside" /\ ~m.conv.awaiting,
         action = "clarify" => m.conv.clarify < ClarifyMaxTurns,
         case.conv.awaiting /\ m.conv.awaiting /\ action \notin {"safety", "fallback"} =>
           Spent(m.conv) > Spent(case.conv)
  PROVE  AdvisorInv'
<1> DEFINE d == Contract(action, m)
<1>1. /\ copy' = d /\ kind' = action /\ urtect' = aboutProduct
      /\ at' = IF action = "support" THEN "gate" ELSE "record"
      /\ UNCHANGED <<case, cs, clarifiedOf, blocksOf, attemptsOf, stage, told, promised>>
  BY DEF Decided, advisorHistory, csHistory
<1>2. /\ d.conv = DecidedConv(action, m.conv) /\ d.link = m.link
      /\ d.requested <=> m.requested \/ action = "lead_confirmed"
      /\ d.mode => action \in {"support", "time_pref", "fallback"}
      /\ action \in {"time_pref", "fallback"} => d.mode = m.mode
  BY ContractFields
<1>3. d \in AdvisorCase
  <2>1. m.conv \in Conv
    BY DEF AdvisorCase
  <2>2. DecidedConv(action, m.conv) \in Conv
    BY <2>1, DecidedConvType
  <2> QED BY <2>2, ContractFields
<1>4. /\ d.conv.contact = m.conv.contact
      /\ d.conv.awaiting =>
           action # "safety" /\ (m.conv.awaiting \/ action = "lead_solicit")
      /\ action \notin {"safety", "lead_solicit"} => Spent(d.conv) = Spent(m.conv)
  BY <1>2, DecidedConvFields DEF AdvisorCase
<1> HIDE DEF d
<1>5. AdvisorTypeOK'
  BY <1>1, <1>3 DEF AdvisorInv, AdvisorTypeOK
<1>6. LinkIsCurrent'
  BY <1>1, <1>2 DEF AdvisorInv, LinkIsCurrent, AdvisorActions, Known
<1>7. RequestStands'
  BY <1>1, <1>2, <1>4 DEF AdvisorInv, RequestStands
<1>8. ModeIsSupport'
  BY <1>1, <1>2 DEF AdvisorInv, ModeIsSupport, SupportKinds
<1>9. QuestionShrinks'
  BY <1>1, <1>4 DEF QuestionShrinks
<1>10. ReferenceKept' /\ SupportIsLeft'
  BY <1>1 DEF AdvisorInv, ReferenceKept, SupportIsLeft, ModeIsSupport
<1>11. SupportBounds => SupportBounds'
  BY <1>1 DEF SupportBounds, SupportConv
<1> QED BY <1>5, <1>6, <1>7, <1>8, <1>9, <1>10, <1>11 DEF AdvisorInv, SupportBounds

LEMMA StartStep ==
  ASSUME AdvisorInv, Emergency \/ NotUnderstood
  PROVE  AdvisorInv'
<1>1. case \in AdvisorCase /\ (case.requested => case.conv.contact = "inside" /\ ~case.conv.awaiting)
  BY DEF AdvisorInv, AdvisorTypeOK, RequestStands
<1>2. CASE Emergency
  BY <1>1, <1>2, DecidedStep DEF Emergency, AdvisorActions
<1>3. CASE NotUnderstood
  BY <1>1, <1>3, DecidedStep DEF NotUnderstood, AdvisorActions
<1> QED BY <1>2, <1>3

LEMMA TurnStep ==
  ASSUME AdvisorInv, NEW u \in Understanding, Turn(u)
  PROVE  AdvisorInv'
<1>1. PICK continuing \in Continuing(case) :
        Decided(InDomainFlow(u, case, TRUE, continuing), case, u.urtect)
  BY DEF Turn
<1>2. case \in AdvisorCase /\ (case.requested => case.conv.contact = "inside" /\ ~case.conv.awaiting)
  BY DEF AdvisorInv, AdvisorTypeOK, RequestStands
<1>3. cs[case.link] # None => cs[case.link].awaiting \in BOOLEAN \/ case.link = None
  BY <1>2 DEF AdvisorInv, AdvisorTypeOK, AdvisorCase, Conv
<1>4. continuing \in BOOLEAN
  BY <1>1, <1>3 DEF Continuing
<1> DEFINE action == InDomainFlow(u, case, TRUE, continuing)
<1>5. /\ action \in {"support", "out_of_domain", "lead_solicit", "clarify", "answer"}
      /\ action = "support" => u.urtect \/ case.mode
      /\ action = "lead_solicit" => ~case.requested
      /\ action = "clarify" => case.conv.clarify < ClarifyMaxTurns
  BY <1>2, <1>4, FlowCases
<1>6. at = "idle" /\ ~case.conv.awaiting /\ u.urtect \in BOOLEAN
  BY DEF Turn, Understanding
<1>7. Decided(action, case, u.urtect)
  BY <1>1
<1> HIDE DEF action
<1> QED BY <1>2, <1>5, <1>6, <1>7, DecidedStep DEF AdvisorActions

LEMMA ContactTimeTurnStep ==
  ASSUME AdvisorInv, NEW u \in Understanding, NEW x \in Extractions, ContactTimeTurn(u, x)
  PROVE  AdvisorInv'
<1> DEFINE d == AfterExtraction(case.conv, x)
           m == [case EXCEPT !.conv = d]
<1>1. PICK continuing \in Continuing(case) :
        Decided(TimePrefAction(u, m, x, continuing), m, u.urtect)
  BY DEF ContactTimeTurn
<1>2. /\ case \in AdvisorCase /\ case.conv \in Conv
      /\ at = "idle" /\ case.conv.awaiting /\ ~case.requested /\ u.urtect \in BOOLEAN
  BY DEF AdvisorInv, AdvisorTypeOK, AdvisorCase, RequestStands, ContactTimeTurn, Understanding
<1>3. cs[case.link] # None => cs[case.link].awaiting \in BOOLEAN \/ case.link = None
  BY <1>2 DEF AdvisorInv, AdvisorTypeOK, AdvisorCase, Conv
<1>4. continuing \in BOOLEAN
  BY <1>1, <1>3 DEF Continuing
<1>5. /\ d \in Conv
      /\ x = "fits" => d.contact = "inside" /\ ~d.awaiting
      /\ d.awaiting => Spent(d) > Spent(case.conv)
  BY <1>2, ExtractionCases
<1> HIDE DEF d
<1>6. /\ m \in AdvisorCase /\ m.conv = d /\ m.requested = case.requested
      /\ m.mode = case.mode /\ m.link = case.link
  BY <1>2, <1>5 DEF AdvisorCase
<1> HIDE DEF m
<1> DEFINE action == TimePrefAction(u, m, x, continuing)
<1>7. /\ action \in AdvisorActions
      /\ action = "support" => u.urtect \/ m.mode
      /\ action # "lead_solicit"
      /\ action = "lead_confirmed" => x = "fits"
      /\ action = "clarify" => m.conv.clarify < ClarifyMaxTurns
  <2>1. CASE x = "fits"
    BY <2>1 DEF TimePrefAction, AdvisorActions
  <2>2. CASE x # "fits" /\ x \in {"outside", "error"} /\ m.conv.awaiting
    BY <2>2 DEF TimePrefAction, AdvisorActions
  <2>3. CASE x # "fits" /\ ~(x \in {"outside", "error"} /\ m.conv.awaiting)
    <3>1. action = InDomainFlow(u, m, FALSE, continuing)
      BY <2>3 DEF TimePrefAction
    <3> DEFINE plain == InDomainFlow(u, m, FALSE, continuing)
    <3>2. /\ plain \in {"support", "out_of_domain", "lead_solicit", "clarify", "answer"}
          /\ plain = "support" => u.urtect \/ m.mode
          /\ plain # "lead_solicit"
          /\ plain = "clarify" => m.conv.clarify < ClarifyMaxTurns
      BY <1>4, <1>6, FlowCases
    <3> HIDE DEF plain, action
    <3> QED BY <3>1, <3>2 DEF AdvisorActions, plain
  <2> QED BY <2>1, <2>2, <2>3
<1>8. Decided(action, m, u.urtect)
  BY <1>1
<1> HIDE DEF action
<1> QED BY <1>2, <1>5, <1>6, <1>7, <1>8, DecidedStep

\* A turn of product support leaves the advisor's side of the turn alone.
LEMMA SupportKeepsAdvisor ==
  ASSUME AdvisorInv, at \in {"gate", "evaluate", "reply"},
         UNCHANGED <<case, urtect, stage, told, promised>>,
         copy'.conv = copy.conv, copy'.requested = copy.requested, copy'.mode = copy.mode,
         at' \in {"evaluate", "reply"} \/ (at' = "record" /\ kind' \in SupportKinds)
  PROVE  RequestStands' /\ ModeIsSupport' /\ QuestionShrinks' /\ ReferenceKept' /\ SupportIsLeft'
<1>1. RequestStands'
  BY DEF AdvisorInv, RequestStands, SupportKinds
<1>2. ModeIsSupport'
  BY DEF AdvisorInv, ModeIsSupport
<1>3. QuestionShrinks'
  BY DEF AdvisorInv, QuestionShrinks
<1>4. ReferenceKept' /\ SupportIsLeft'
  BY DEF AdvisorInv, ReferenceKept, SupportIsLeft
<1> QED BY <1>1, <1>2, <1>3, <1>4

\* What SupportReplies leaves of the copy.
LEMMA SupportCopy ==
  ASSUME AdvisorTypeOK, NEW c \in CsCases, NEW k \in SupportKinds, SupportReplies(c, k)
  PROVE  /\ copy' \in AdvisorCase /\ copy'.link = c /\ kind' = k /\ at' = "record"
         /\ copy'.conv = copy.conv /\ copy'.requested = copy.requested /\ copy'.mode = copy.mode
BY DEF AdvisorTypeOK, AdvisorCase, SupportReplies

LEMMA NewConvType == NewConv \in Conv /\ NewConv # None
BY StartsWithinBounds, NoneAssumption

\* A case newly started is, to the customer, what it was before: a new one.
LEMMA FreshCase ==
  ASSUME AdvisorInv, NEW c \in CsCases, cs[c] = None, cs' = [cs EXCEPT ![c] = NewConv]
  PROVE  /\ cs' \in [CsCases -> Conv \cup {None}] /\ cs'[c] = NewConv
         /\ \A i \in CsCases : SupportConv(i)' = SupportConv(i)
         /\ \A i \in CsCases : i # c => cs'[i] = cs[i]
<1>1. cs \in [CsCases -> Conv \cup {None}]
  BY DEF AdvisorInv, AdvisorTypeOK
<1>2. /\ cs' \in [CsCases -> Conv \cup {None}] /\ cs'[c] = NewConv
      /\ \A i \in CsCases : i # c => cs'[i] = cs[i]
  BY <1>1, NewConvType
<1>3. \A i \in CsCases : SupportConv(i)' = SupportConv(i)
  BY <1>2, NewConvType DEF SupportConv
<1> QED BY <1>2, <1>3

LEMMA UnchangedBounds ==
  ASSUME AdvisorInv, UNCHANGED csHistory, \A i \in CsCases : SupportConv(i)' = SupportConv(i)
  PROVE  SupportBounds'
BY DEF AdvisorInv, SupportBounds, csHistory

\* What a turn without a reply does to the support cases: it may start new ones,
\* and the conversation keeps the one it has.
QuietSupport(id) ==
  /\ cs' \in [CsCases -> Conv \cup {None}]
  /\ \A i \in CsCases : cs[i] # None => cs'[i] # None
  /\ \A i \in CsCases : SupportConv(i)' = SupportConv(i)
  /\ case.link # None => cs'[case.link] = None \/ id = case.link

LEMMA FreshIsQuiet ==
  ASSUME AdvisorInv, at \in {"gate", "evaluate"}, ~Known,
         NEW c \in FreshIds, cs' = [cs EXCEPT ![c] = NewConv],
         NEW id \in {c, copy.link}
  PROVE  QuietSupport(id)
<1>1. c \in CsCases /\ cs[c] = None /\ c # copy.link /\ copy.link = case.link
  BY DEF FreshIds, AdvisorInv, LinkIsCurrent
<1>2. case.link \in CsCases \cup {None}
  BY DEF AdvisorInv, AdvisorTypeOK, AdvisorCase
<1>3. case.link # None => cs'[case.link] = None
  BY <1>1, <1>2, FreshCase DEF Known
<1> QED BY <1>1, <1>3, FreshCase, NewConvType DEF QuietSupport

LEMMA UnchangedIsQuiet ==
  ASSUME AdvisorInv, at \in {"gate", "evaluate"}, UNCHANGED cs,
         NEW id, case.link = None \/ cs[case.link] = None \/ id = case.link
  PROVE  QuietSupport(id)
BY DEF AdvisorInv, AdvisorTypeOK, QuietSupport, SupportConv

LEMMA SupportOutOfScopeStep ==
  ASSUME AdvisorInv, SupportOutOfScope
  PROVE  AdvisorInv'
<1>1. /\ at = "gate" /\ UNCHANGED <<case, urtect, stage, told, promised>> /\ UNCHANGED csHistory
      /\ copy.link = case.link /\ copy.link \in CsCases \cup {None}
  BY DEF SupportOutOfScope, AdvisorInv, AdvisorTypeOK, AdvisorCase, LinkIsCurrent, advisorHistory
<1>2. PICK id \in CsCases : SupportReplies(id, "support_out_of_scope") /\ QuietSupport(id)
  <2>1. CASE Known /\ SupportReplies(copy.link, "support_out_of_scope") /\ UNCHANGED cs
    BY <1>1, <2>1, UnchangedIsQuiet DEF Known
  <2>2. ASSUME ~Known, NEW c \in FreshIds, cs' = [cs EXCEPT ![c] = NewConv],
               SupportReplies(c, "support_out_of_scope")
        PROVE  \E id \in CsCases : SupportReplies(id, "support_out_of_scope") /\ QuietSupport(id)
    BY <1>1, <2>2, FreshIsQuiet DEF FreshIds
  <2>3. ASSUME ~Known, NEW id \in IF copy.link = None THEN FreshIds ELSE {copy.link},
               SupportReplies(id, "support_out_of_scope"),
               cs' \in {cs} \cup {[cs EXCEPT ![c] = NewConv] : c \in FreshIds \ {id}}
        PROVE  id \in CsCases /\ QuietSupport(id)
    <3>1. id \in CsCases
      BY <1>1, <2>3 DEF FreshIds
    <3>2. case.link = None \/ cs[case.link] = None
      BY <1>1, <2>3 DEF Known
    <3>3. ASSUME UNCHANGED cs PROVE QuietSupport(id)
      BY <1>1, <3>2, <3>3, UnchangedIsQuiet
    <3>4. ASSUME NEW c \in FreshIds, cs' = [cs EXCEPT ![c] = NewConv]
          PROVE  QuietSupport(id)
      <4>1. QuietSupport(copy.link)
        BY <1>1, <2>3, <3>4, FreshIsQuiet
      <4> QED BY <1>1, <2>3, <4>1 DEF QuietSupport
    <3>5. UNCHANGED cs \/ \E c \in FreshIds : cs' = [cs EXCEPT ![c] = NewConv]
      BY <2>3
    <3> QED BY <3>1, <3>3, <3>4, <3>5
  <2> QED BY <2>1, <2>2, <2>3, <1>1 DEF SupportOutOfScope, Known
<1>3. /\ copy' \in AdvisorCase /\ copy'.link = id /\ kind' = "support_out_of_scope"
      /\ at' = "record" /\ copy'.conv = copy.conv /\ copy'.requested = copy.requested
      /\ copy'.mode = copy.mode
  BY <1>2, SupportCopy DEF AdvisorInv, SupportKinds
<1>4. AdvisorTypeOK'
  BY <1>1, <1>2, <1>3 DEF AdvisorInv, AdvisorTypeOK, QuietSupport, csHistory
<1>5. LinkIsCurrent'
  BY <1>1, <1>2, <1>3 DEF AdvisorInv, AdvisorTypeOK, LinkIsCurrent, QuietSupport
<1>6. RequestStands' /\ ModeIsSupport' /\ QuestionShrinks' /\ ReferenceKept' /\ SupportIsLeft'
  BY <1>1, <1>3, SupportKeepsAdvisor DEF SupportKinds
<1>7. SupportBounds'
  BY <1>1, <1>2, UnchangedBounds DEF QuietSupport
<1> QED BY <1>4, <1>5, <1>6, <1>7 DEF AdvisorInv, SupportBounds

\* The evaluation keeps the case it knows and starts a new one otherwise.
LEMMA EvaluateStep ==
  ASSUME AdvisorInv, Evaluate
  PROVE  AdvisorInv'
<1>1. /\ at = "evaluate" /\ at' = "reply" /\ UNCHANGED <<case, kind, urtect, stage, told, promised>>
      /\ UNCHANGED csHistory /\ copy.link = case.link /\ copy \in AdvisorCase
  BY DEF Evaluate, AdvisorInv, AdvisorTypeOK, LinkIsCurrent, advisorHistory
<1>2. /\ copy'.conv = copy.conv /\ copy'.requested = copy.requested /\ copy'.mode = copy.mode
      /\ copy' \in AdvisorCase /\ QuietSupport(copy'.link)
      /\ copy'.link \in CsCases /\ cs'[copy'.link] # None
  <2>1. CASE Known /\ UNCHANGED <<cs, copy>>
    BY <1>1, <2>1, UnchangedIsQuiet DEF Known, AdvisorCase
  <2>2. ASSUME ~Known, NEW c \in FreshIds, cs' = [cs EXCEPT ![c] = NewConv],
               copy' = [copy EXCEPT !.link = c]
        PROVE  /\ copy'.conv = copy.conv /\ copy'.requested = copy.requested
               /\ copy'.mode = copy.mode /\ copy' \in AdvisorCase
               /\ QuietSupport(copy'.link)
               /\ copy'.link \in CsCases /\ cs'[copy'.link] # None
    <3>1. c \in CsCases /\ cs[c] = None
      BY DEF FreshIds
    <3>2. cs'[c] # None
      BY <2>2, <3>1, FreshCase, NewConvType
    <3>3. /\ copy'.conv = copy.conv /\ copy'.requested = copy.requested
          /\ copy'.mode = copy.mode /\ copy' \in AdvisorCase /\ copy'.link = c
      BY <1>1, <2>2, <3>1 DEF AdvisorCase
    <3>4. QuietSupport(c)
      BY <1>1, <2>2, FreshIsQuiet
    <3> QED BY <3>1, <3>2, <3>3, <3>4
  <2> QED BY <2>1, <2>2 DEF Evaluate
<1>3. AdvisorTypeOK'
  BY <1>1, <1>2 DEF AdvisorInv, AdvisorTypeOK, QuietSupport, csHistory
<1>4. LinkIsCurrent'
  BY <1>1, <1>2, NoneAssumption DEF AdvisorInv, AdvisorTypeOK, LinkIsCurrent, QuietSupport, Known
<1>5. RequestStands' /\ ModeIsSupport' /\ QuestionShrinks' /\ ReferenceKept' /\ SupportIsLeft'
  BY <1>1, <1>2, SupportKeepsAdvisor
<1>6. SupportBounds'
  BY <1>1, <1>2, UnchangedBounds DEF QuietSupport
<1> QED BY <1>3, <1>4, <1>5, <1>6 DEF AdvisorInv, SupportBounds

LEMMA QuietTurnStep ==
  ASSUME AdvisorInv, NoContactTime \/ Demote
  PROVE  AdvisorInv'
<1>1. /\ at \in {"gate", "reply"} /\ UNCHANGED <<case, cs, urtect, stage, told, promised>>
      /\ UNCHANGED csHistory /\ copy \in AdvisorCase
  BY DEF NoContactTime, Demote, AdvisorInv, AdvisorTypeOK, advisorHistory, turn
<1>2. /\ copy' \in AdvisorCase /\ copy'.link = copy.link /\ copy'.conv = copy.conv
      /\ copy'.requested = copy.requested /\ copy'.mode = copy.mode
      /\ \/ at = "gate" /\ at' = "evaluate"
         \/ at = "reply" /\ at' = "record" /\ kind' = "support_out_of_scope"
  <2>1. CASE NoContactTime
    BY <1>1, <2>1 DEF NoContactTime, turn
  <2>2. CASE Demote
    <3>1. copy.link \in CsCases /\ at = "reply"
      BY <1>1, <2>2 DEF AdvisorInv, LinkIsCurrent, Known, AdvisorCase, Demote
    <3> QED BY <2>2, <3>1, SupportCopy DEF Demote, AdvisorInv, SupportKinds
  <2> QED BY <2>1, <2>2
<1>3. AdvisorTypeOK'
  BY <1>1, <1>2 DEF AdvisorInv, AdvisorTypeOK, csHistory
<1>4. LinkIsCurrent'
  BY <1>1, <1>2 DEF AdvisorInv, LinkIsCurrent, Known
<1>5. RequestStands' /\ ModeIsSupport' /\ QuestionShrinks' /\ ReferenceKept' /\ SupportIsLeft'
  BY <1>1, <1>2, SupportKeepsAdvisor DEF SupportKinds
<1>6. SupportBounds'
  BY <1>1, UnchangedBounds DEF SupportConv
<1> QED BY <1>3, <1>4, <1>5, <1>6 DEF AdvisorInv, SupportBounds

\* One support case moves on, within its bounds; the others stay as they are.
LEMMA SupportUpdate ==
  ASSUME AdvisorInv, NEW id \in CsCases, NEW v, NEW asked, NEW sent, NEW tried,
         WithinBounds(v, asked, sent, tried), cs' = [cs EXCEPT ![id] = v],
         clarifiedOf' = [clarifiedOf EXCEPT ![id] = asked],
         blocksOf' = [blocksOf EXCEPT ![id] = sent],
         attemptsOf' = [attemptsOf EXCEPT ![id] = tried]
  PROVE  /\ SupportBounds'
         /\ cs' \in [CsCases -> Conv \cup {None}]
         /\ clarifiedOf' \in [CsCases -> Nat] /\ blocksOf' \in [CsCases -> Nat]
         /\ attemptsOf' \in [CsCases -> Nat]
         /\ cs'[id] # None /\ \A i \in CsCases : i # id => cs'[i] = cs[i]
<1>1. /\ cs \in [CsCases -> Conv \cup {None}] /\ clarifiedOf \in [CsCases -> Nat]
      /\ blocksOf \in [CsCases -> Nat] /\ attemptsOf \in [CsCases -> Nat]
  BY DEF AdvisorInv, AdvisorTypeOK
<1>2. v \in Conv /\ v # None /\ asked \in Nat /\ sent \in Nat /\ tried \in Nat
  BY BoundedConversation, NoneAssumption DEF WithinBounds
<1>3. /\ cs' \in [CsCases -> Conv \cup {None}] /\ clarifiedOf' \in [CsCases -> Nat]
      /\ blocksOf' \in [CsCases -> Nat] /\ attemptsOf' \in [CsCases -> Nat]
  BY <1>1, <1>2
<1>4. /\ cs'[id] = v /\ clarifiedOf'[id] = asked /\ blocksOf'[id] = sent
      /\ attemptsOf'[id] = tried
  BY <1>1
<1>5. \A i \in CsCases : i # id =>
        /\ cs'[i] = cs[i] /\ clarifiedOf'[i] = clarifiedOf[i]
        /\ blocksOf'[i] = blocksOf[i] /\ attemptsOf'[i] = attemptsOf[i]
  BY <1>1
<1>6. SupportConv(id)' = v /\ \A i \in CsCases : i # id => SupportConv(i)' = SupportConv(i)
  BY <1>2, <1>4, <1>5 DEF SupportConv
<1>7. SupportBounds'
  <2> SUFFICES ASSUME NEW i \in CsCases
               PROVE  WithinBounds(SupportConv(i), clarifiedOf[i], blocksOf[i], attemptsOf[i])'
    BY DEF SupportBounds
  <2>1. WithinBounds(SupportConv(i)', clarifiedOf'[i], blocksOf'[i], attemptsOf'[i])
    BY <1>4, <1>5, <1>6 DEF AdvisorInv
  <2> QED BY <2>1 DEF WithinBounds
<1> QED BY <1>2, <1>3, <1>4, <1>5, <1>7

\* The case the turn is on: known, in its type and within its bounds.
LEMMA KnownCase ==
  ASSUME AdvisorInv, Known
  PROVE  /\ copy.link \in CsCases /\ cs[copy.link] \in Conv
         /\ SupportConv(copy.link) = cs[copy.link]
         /\ WithinBounds(cs[copy.link], clarifiedOf[copy.link], blocksOf[copy.link],
                         attemptsOf[copy.link])
<1>1. copy.link \in CsCases /\ cs[copy.link] # None
  BY DEF AdvisorInv, AdvisorTypeOK, AdvisorCase, Known
<1>2. SupportConv(copy.link) = cs[copy.link]
  BY <1>1 DEF SupportConv
<1> QED BY <1>1, <1>2 DEF AdvisorInv, AdvisorTypeOK

\* A turn that moves the case of the conversation on, after which it is the
\* evaluation's turn or the reply is there.
LEMMA CaseMovesOn ==
  ASSUME AdvisorInv, at \in {"gate", "reply"}, Known,
         NEW v, NEW asked, NEW sent, NEW tried,
         WithinBounds(v, asked, sent, tried), cs' = [cs EXCEPT ![copy.link] = v],
         clarifiedOf' = [clarifiedOf EXCEPT ![copy.link] = asked],
         blocksOf' = [blocksOf EXCEPT ![copy.link] = sent],
         attemptsOf' = [attemptsOf EXCEPT ![copy.link] = tried],
         UNCHANGED <<case, urtect, stage, told, promised>>,
         \/ at = "gate" /\ at' = "evaluate" /\ UNCHANGED turn
         \/ \E k \in SupportKinds : SupportReplies(copy.link, k)
  PROVE  AdvisorInv'
<1>1. /\ copy.link \in CsCases
      /\ SupportBounds' /\ cs' \in [CsCases -> Conv \cup {None}]
      /\ clarifiedOf' \in [CsCases -> Nat] /\ blocksOf' \in [CsCases -> Nat]
      /\ attemptsOf' \in [CsCases -> Nat]
      /\ cs'[copy.link] # None /\ \A i \in CsCases : i # copy.link => cs'[i] = cs[i]
  BY KnownCase, SupportUpdate
<1>2. /\ copy' \in AdvisorCase /\ copy'.link = copy.link /\ copy'.conv = copy.conv
      /\ copy'.requested = copy.requested /\ copy'.mode = copy.mode
      /\ \/ at = "gate" /\ at' = "evaluate"
         \/ at' = "record" /\ kind' \in SupportKinds
  BY <1>1, SupportCopy DEF AdvisorInv, AdvisorTypeOK, turn
<1>3. AdvisorTypeOK'
  BY <1>1, <1>2 DEF AdvisorInv, AdvisorTypeOK
<1>4. LinkIsCurrent'
  BY <1>1, <1>2 DEF AdvisorInv, AdvisorTypeOK, AdvisorCase, LinkIsCurrent, Known
<1>5. RequestStands' /\ ModeIsSupport' /\ QuestionShrinks' /\ ReferenceKept' /\ SupportIsLeft'
  BY <1>2, SupportKeepsAdvisor
<1> QED BY <1>1, <1>3, <1>4, <1>5 DEF AdvisorInv, SupportBounds

\* What is left as it is can be written as an update that changes nothing.
LEMMA SameHistory ==
  ASSUME AdvisorInv, NEW id \in CsCases
  PROVE  /\ cs = [cs EXCEPT ![id] = cs[id]]
         /\ clarifiedOf = [clarifiedOf EXCEPT ![id] = clarifiedOf[id]]
         /\ blocksOf = [blocksOf EXCEPT ![id] = blocksOf[id]]
         /\ attemptsOf = [attemptsOf EXCEPT ![id] = attemptsOf[id]]
BY DEF AdvisorInv, AdvisorTypeOK

LEMMA ContactTimeStep ==
  ASSUME AdvisorInv,
         ContactTimePassed \/ \E where \in {"inside", "outside"} : ContactTimeGiven(where)
  PROVE  AdvisorInv'
<1> DEFINE id == copy.link
<1>1. /\ at = "gate" /\ Known /\ cs[id].awaiting
      /\ attemptsOf' = [attemptsOf EXCEPT ![id] = attemptsOf[id] + 1]
      /\ UNCHANGED <<case, urtect, clarifiedOf, blocksOf, stage, told, promised>>
  BY DEF ContactTimePassed, ContactTimeGiven, turn
<1>2. /\ clarifiedOf' = [clarifiedOf EXCEPT ![id] = clarifiedOf[id]]
      /\ blocksOf' = [blocksOf EXCEPT ![id] = blocksOf[id]]
  BY <1>1, KnownCase, SameHistory
<1>3. WithinBounds(cs[id], clarifiedOf[id], blocksOf[id], attemptsOf[id])
  BY <1>1, KnownCase
<1>4. CASE ContactTimePassed
  <2>1. PICK v \in {TimePrefMissed(cs[id]), TimePrefError(cs[id])} :
          cs' = [cs EXCEPT ![id] = v]
    BY <1>4 DEF ContactTimePassed
  <2>2. WithinBounds(v, clarifiedOf[id], blocksOf[id], attemptsOf[id] + 1)
    BY <1>1, <1>3, PassedWithinBounds
  <2>3. at' = "evaluate" /\ UNCHANGED turn
    BY <1>4 DEF ContactTimePassed
  <2> QED BY <1>1, <1>2, <2>1, <2>2, <2>3, CaseMovesOn
<1>5. ASSUME NEW where \in {"inside", "outside"}, ContactTimeGiven(where)
      PROVE  AdvisorInv'
  <2>1. /\ cs' = [cs EXCEPT ![id] = TimePrefGiven(cs[id], where)]
        /\ SupportReplies(id, "support_time_pref")
    BY <1>5 DEF ContactTimeGiven
  <2>2. WithinBounds(TimePrefGiven(cs[id], where), clarifiedOf[id], blocksOf[id],
                     attemptsOf[id] + 1)
    BY <1>1, <1>3, GivenWithinBounds
  <2>3. \E k \in SupportKinds : SupportReplies(id, k)
    BY <2>1 DEF SupportKinds
  <2> QED BY <1>1, <1>2, <2>1, <2>2, <2>3, CaseMovesOn
<1> QED BY <1>4, <1>5

\* What Reply does, with the counters it leaves alone written out.
LEMMA ReplyUpdate ==
  ASSUME AdvisorInv, NEW o \in Outcome, Reply(o)
  PROVE  LET id == copy.link
             action == ReplyAction(o, cs[id])
             blocked == action = "escalation" /\ ~IsAlreadyEscalated(cs[id])
         IN /\ at = "reply" /\ Known
            /\ cs' = [cs EXCEPT ![id] = AfterReply(action, cs[id])]
            /\ clarifiedOf' = [clarifiedOf EXCEPT ![id] =
                                 IF action = "clarify" THEN clarifiedOf[id] + 1 ELSE clarifiedOf[id]]
            /\ blocksOf' = [blocksOf EXCEPT ![id] =
                              IF blocked THEN blocksOf[id] + 1 ELSE blocksOf[id]]
            /\ attemptsOf' = [attemptsOf EXCEPT ![id] =
                                IF blocked THEN 0 ELSE attemptsOf[id]]
            /\ \E k \in SupportKinds : SupportReplies(id, k)
            /\ UNCHANGED <<case, urtect, stage, told, promised>>
<1> DEFINE id == copy.link
           action == ReplyAction(o, cs[id])
           blocked == action = "escalation" /\ ~IsAlreadyEscalated(cs[id])
<1>1. at = "reply" /\ Known /\ UNCHANGED <<case, urtect, stage, told, promised>>
  BY DEF Reply, AdvisorInv, LinkIsCurrent
<1>2. id \in CsCases
  BY <1>1, KnownCase
<1>3. /\ cs' = [cs EXCEPT ![id] = AfterReply(action, cs[id])]
      /\ clarifiedOf' = [clarifiedOf EXCEPT ![id] =
                           IF action = "clarify" THEN clarifiedOf[id] + 1 ELSE clarifiedOf[id]]
  BY DEF Reply, Saved
<1>4. IF blocked THEN /\ blocksOf' = [blocksOf EXCEPT ![id] = blocksOf[id] + 1]
                      /\ attemptsOf' = [attemptsOf EXCEPT ![id] = 0]
                 ELSE UNCHANGED <<blocksOf, attemptsOf>>
  BY DEF Reply
<1>5. \E k \in SupportKinds : SupportReplies(id, k)
  BY DEF Reply, SupportKinds
<1> HIDE DEF id, action, blocked
<1>6. /\ blocksOf' = [blocksOf EXCEPT ![id] = IF blocked THEN blocksOf[id] + 1 ELSE blocksOf[id]]
      /\ attemptsOf' = [attemptsOf EXCEPT ![id] = IF blocked THEN 0 ELSE attemptsOf[id]]
  BY <1>2, <1>4, SameHistory
<1> QED BY <1>1, <1>3, <1>5, <1>6 DEF id, action, blocked

LEMMA ReplyStep ==
  ASSUME AdvisorInv, NEW o \in Outcome, Reply(o)
  PROVE  AdvisorInv'
<1> DEFINE id == copy.link
           c == cs[id]
           action == ReplyAction(o, c)
           blocked == action = "escalation" /\ ~IsAlreadyEscalated(c)
           d == AfterReply(action, c)
           asked == IF action = "clarify" THEN clarifiedOf[id] + 1 ELSE clarifiedOf[id]
           sent == IF blocked THEN blocksOf[id] + 1 ELSE blocksOf[id]
           tried == IF blocked THEN 0 ELSE attemptsOf[id]
<1>1. /\ at = "reply" /\ Known
      /\ cs' = [cs EXCEPT ![id] = d]
      /\ clarifiedOf' = [clarifiedOf EXCEPT ![id] = asked]
      /\ blocksOf' = [blocksOf EXCEPT ![id] = sent]
      /\ attemptsOf' = [attemptsOf EXCEPT ![id] = tried]
      /\ \E k \in SupportKinds : SupportReplies(id, k)
      /\ UNCHANGED <<case, urtect, stage, told, promised>>
  BY ReplyUpdate
<1>2. WithinBounds(c, clarifiedOf[id], blocksOf[id], attemptsOf[id])
  BY <1>1, KnownCase
<1>3. /\ action = "clarify" => WithinBounds(d, clarifiedOf[id] + 1, blocksOf[id], attemptsOf[id])
      /\ blocked => WithinBounds(d, clarifiedOf[id], blocksOf[id] + 1, 0)
      /\ action = "escalation" /\ ~blocked => d = c
      /\ action = "answer" => d = c
  BY <1>2, ReplyWithinBounds
<1>4. action \in {"answer", "clarify", "escalation"} /\ (blocked => action = "escalation")
  BY ReplyCases
<1>5. WithinBounds(d, asked, sent, tried)
  <2> HIDE DEF action, blocked, d, c, id
  <2> QED BY <1>2, <1>3, <1>4
<1> HIDE DEF asked, sent, tried, d
<1> QED BY <1>1, <1>5, CaseMovesOn

\* No turn under way.
LEMMA IdleCopy == NewAdvisorCase \in AdvisorCase /\ ~NewAdvisorCase.requested
BY NewConvType DEF NewAdvisorCase, AdvisorCase

LEMMA RecordStep ==
  ASSUME AdvisorInv, Record
  PROVE  AdvisorInv'
<1>1. /\ at = "record" /\ case' = copy /\ UNCHANGED <<cs, told, promised>> /\ UNCHANGED csHistory
      /\ \/ at' = "idle" /\ copy' = NewAdvisorCase /\ urtect' = FALSE
         \/ at' = "turn" /\ copy' = copy /\ kind' = kind /\ urtect' = urtect
      /\ copy \in AdvisorCase
  BY DEF Record, NoTurn, turn, AdvisorInv, AdvisorTypeOK
<1>2. stage' = CASE kind \in SupportKinds -> "support"
                 [] kind \in {"time_pref", "fallback"} -> stage
                 [] OTHER -> "advisor"
  BY DEF Record
<1>3. /\ kind \in SupportKinds => stage' = "support"
      /\ kind \in {"time_pref", "fallback"} => stage' = stage
      /\ stage' \in {"advisor", "support"}
  BY <1>2 DEF SupportKinds, AdvisorInv, AdvisorTypeOK
<1>4. AdvisorTypeOK'
  BY <1>1, <1>3, IdleCopy DEF AdvisorInv, AdvisorTypeOK, csHistory
<1>5. LinkIsCurrent'
  BY <1>1 DEF AdvisorInv, LinkIsCurrent, Known
<1>6. RequestStands'
  BY <1>1, IdleCopy DEF AdvisorInv, RequestStands
<1>7. ModeIsSupport'
  BY <1>1, <1>3 DEF AdvisorInv, ModeIsSupport
<1>8. ReferenceKept'
  BY <1>1, NoneAssumption DEF AdvisorInv, AdvisorTypeOK, AdvisorCase, LinkIsCurrent, ReferenceKept
<1>9. QuestionShrinks' /\ SupportIsLeft'
  BY <1>1 DEF QuestionShrinks, SupportIsLeft
<1>10. SupportBounds'
  BY <1>1, UnchangedBounds DEF SupportConv
<1> QED BY <1>4, <1>5, <1>6, <1>7, <1>8, <1>9, <1>10 DEF AdvisorInv, SupportBounds

LEMMA AnswerStep ==
  ASSUME AdvisorInv, Answer
  PROVE  AdvisorInv'
<1>1. /\ at = "turn" /\ at' = "idle" /\ copy' = NewAdvisorCase /\ urtect' = FALSE
      /\ UNCHANGED <<cs, stage>> /\ UNCHANGED csHistory
      /\ copy = case /\ case \in AdvisorCase
      /\ told' = IF kind = "support_escalation" THEN told \cup {copy.link} ELSE told
      /\ promised' = (promised \/ kind = "lead_confirmed")
  BY DEF Answer, NoTurn, AdvisorInv, AdvisorTypeOK, LinkIsCurrent
<1>2. /\ case' \in AdvisorCase /\ case'.conv = case.conv /\ case'.link = case.link
      /\ case'.requested = case.requested /\ case'.mode = case.mode
  BY <1>1 DEF Answer, AdvisorCase
<1>3. kind = "support_escalation" => copy.link \in CsCases /\ cs[copy.link] # None
  BY <1>1 DEF AdvisorInv, LinkIsCurrent, Known, AdvisorCase
<1>4. AdvisorTypeOK'
  BY <1>1, <1>2, <1>3, IdleCopy DEF AdvisorInv, AdvisorTypeOK, csHistory
<1>5. LinkIsCurrent'
  BY <1>1, <1>2, <1>3 DEF AdvisorInv, LinkIsCurrent
<1>6. RequestStands'
  <2>1. promised' => case.requested
    BY <1>1 DEF AdvisorInv, RequestStands
  <2> QED BY <1>1, <1>2, <2>1, IdleCopy DEF AdvisorInv, RequestStands
<1>7. ModeIsSupport'
  BY <1>1, <1>2 DEF AdvisorInv, ModeIsSupport
<1>8. ReferenceKept'
  BY <1>1, <1>2 DEF AdvisorInv, ReferenceKept
<1>9. QuestionShrinks' /\ SupportIsLeft'
  BY <1>1 DEF QuestionShrinks, SupportIsLeft
<1>10. SupportBounds'
  BY <1>1, UnchangedBounds DEF SupportConv
<1> QED BY <1>4, <1>5, <1>6, <1>7, <1>8, <1>9, <1>10 DEF AdvisorInv, SupportBounds

LEMMA AbandonStep ==
  ASSUME AdvisorInv, Abandon
  PROVE  AdvisorInv'
<1>1. /\ at' = "idle" /\ copy' = NewAdvisorCase /\ urtect' = FALSE
      /\ UNCHANGED <<case, cs, stage, told, promised>> /\ UNCHANGED csHistory
  BY DEF Abandon, NoTurn, advisorHistory
<1>2. AdvisorTypeOK'
  BY <1>1, IdleCopy DEF AdvisorInv, AdvisorTypeOK, csHistory
<1>3. LinkIsCurrent' /\ ModeIsSupport'
  BY <1>1 DEF AdvisorInv, LinkIsCurrent, ModeIsSupport
<1>4. RequestStands'
  BY <1>1, IdleCopy DEF AdvisorInv, RequestStands
<1>5. QuestionShrinks' /\ SupportIsLeft' /\ ReferenceKept'
  BY <1>1 DEF AdvisorInv, QuestionShrinks, SupportIsLeft, ReferenceKept
<1>6. SupportBounds'
  BY <1>1, UnchangedBounds DEF SupportConv
<1> QED BY <1>2, <1>3, <1>4, <1>5, <1>6 DEF AdvisorInv, SupportBounds

\* The invariant of the advisor's conversation, over turns that fail anywhere.
THEOREM AdvisorInvHolds == AdvisorSpec => []AdvisorInv
<1>1. AdvisorInit => AdvisorInv
  <2> SUFFICES ASSUME AdvisorInit PROVE AdvisorInv
    OBVIOUS
  <2>1. AdvisorTypeOK
    <3>1. cs \in [CsCases -> Conv \cup {None}] /\ clarifiedOf \in [CsCases -> Nat]
      BY DEF AdvisorInit
    <3>2. blocksOf \in [CsCases -> Nat] /\ attemptsOf \in [CsCases -> Nat]
      BY DEF AdvisorInit
    <3>3. case \in AdvisorCase /\ copy \in AdvisorCase
      BY IdleCopy DEF AdvisorInit
    <3> QED BY <3>1, <3>2, <3>3 DEF AdvisorInit, AdvisorTypeOK
  <2>2. LinkIsCurrent /\ RequestStands /\ ModeIsSupport /\ QuestionShrinks
    BY DEF AdvisorInit, LinkIsCurrent, RequestStands, ModeIsSupport, QuestionShrinks,
           NewAdvisorCase
  <2>3. ReferenceKept /\ SupportIsLeft
    BY DEF AdvisorInit, ReferenceKept, SupportIsLeft
  <2>4. SupportBounds
    BY StartsWithinBounds DEF AdvisorInit, SupportBounds, SupportConv
  <2> QED BY <2>1, <2>2, <2>3, <2>4 DEF AdvisorInv, SupportBounds
<1>2. AdvisorInv /\ [AdvisorNext]_advisorVars => AdvisorInv'
  <2> SUFFICES ASSUME AdvisorInv, [AdvisorNext]_advisorVars PROVE AdvisorInv'
    OBVIOUS
  <2>1. CASE UNCHANGED advisorVars
    BY <2>1 DEF advisorVars, advisorHistory, csHistory, turn, AdvisorInv, AdvisorTypeOK,
                LinkIsCurrent, RequestStands, ModeIsSupport, QuestionShrinks,
                ReferenceKept, SupportIsLeft, SupportConv, Known
  <2> QED
    BY <2>1, StartStep, TurnStep, ContactTimeTurnStep, SupportOutOfScopeStep,
       ContactTimeStep, QuietTurnStep, EvaluateStep, ReplyStep, RecordStep, AnswerStep,
       AbandonStep DEF AdvisorNext
<1> QED BY <1>1, <1>2, PTL DEF AdvisorSpec

THEOREM AdvisorType == AdvisorSpec => []AdvisorTypeOK
<1>1. AdvisorInv => AdvisorTypeOK
  BY DEF AdvisorInv
<1> QED BY <1>1, AdvisorInvHolds, PTL

\* The reference number told to the customer stays that of the conversation.
THEOREM ReferenceKeptAlways == AdvisorSpec => []ReferenceKept
<1>1. AdvisorInv => ReferenceKept
  BY DEF AdvisorInv
<1> QED BY <1>1, AdvisorInvHolds, PTL

\* A contact promised to the customer is noted for the staff, with its time.
THEOREM PromiseKeptAlways == AdvisorSpec => []PromiseKept
<1>1. AdvisorInv => PromiseKept
  BY DEF AdvisorInv, RequestStands, PromiseKept
<1> QED BY <1>1, AdvisorInvHolds, PTL

\* Support gets a message that does not name the product only from support.
THEOREM SupportIsLeftAlways == AdvisorSpec => []SupportIsLeft
<1>1. AdvisorInv => SupportIsLeft
  BY DEF AdvisorInv
<1> QED BY <1>1, AdvisorInvHolds, PTL

\* The advisor's contact time question comes nearer to its end with every message.
THEOREM AdvisorQuestionEndsAlways == AdvisorSpec => []AdvisorQuestionEnds
<1>1. AdvisorInv => AdvisorQuestionEnds
  BY DEF AdvisorInv, QuestionShrinks, AdvisorQuestionEnds
<1> QED BY <1>1, AdvisorInvHolds, PTL

-----------------------------------------------------------------------------
(* A support case of the advisor's conversation, as ReplyFlow sees it.     *)

\* The operators of the conversation state, as SupportFlow has them.
LEMMA SupportFlowOperators ==
  ASSUME NEW c \in CsCases
  PROVE  /\ SupportFlow(c)!NewConv = NewConv
         /\ SupportFlow(c)!Outcome = Outcome
         /\ SupportFlow(c)!FalseLimit = FalseLimit /\ SupportFlow(c)!ErrorLimit = ErrorLimit
         /\ \A d : /\ \A where : SupportFlow(c)!TimePrefGiven(d, where) = TimePrefGiven(d, where)
                  /\ SupportFlow(c)!TimePrefMissed(d) = TimePrefMissed(d)
                  /\ SupportFlow(c)!TimePrefError(d) = TimePrefError(d)
                  /\ \A o : SupportFlow(c)!ReplyAction(o, d) = ReplyAction(o, d)
                  /\ \A action : SupportFlow(c)!AfterReply(action, d) = AfterReply(action, d)
BY DEF NewConv, Outcome, FalseLimit, ErrorLimit, TimePrefGiven, TimePrefMissed,
   TimePrefError, IsJevTurn, IsAlreadyEscalated, ReplyAction, Arm, AfterReply,
   SupportFlow!NewConv, SupportFlow!Outcome, SupportFlow!FalseLimit,
   SupportFlow!ErrorLimit, SupportFlow!TimePrefGiven, SupportFlow!TimePrefMissed,
   SupportFlow!TimePrefError, SupportFlow!IsJevTurn, SupportFlow!IsAlreadyEscalated,
   SupportFlow!ReplyAction, SupportFlow!Arm, SupportFlow!AfterReply

\* Each of these cases is asked back, escalated and asked for a contact time within
\* its bounds, although turns fail half way and other subjects come in between.
THEOREM SupportConversationIsBounded == AdvisorSpec => []ConversationBounded
<1>1. AdvisorInv => ConversationBounded
  <2> SUFFICES ASSUME AdvisorInv, NEW c \in CsCases
               PROVE  SupportFlow(c)!ConversationBounded
    BY DEF ConversationBounded
  <2>1. WithinBounds(SupportConv(c), clarifiedOf[c], blocksOf[c], attemptsOf[c])
    BY DEF AdvisorInv
  <2> QED
    BY <2>1, BoundedConversation, SupportFlowOperators
       DEF SupportFlow!ConversationBounded, SupportFlow!ClarifyBounded,
           SupportFlow!OneEscalationBlock, SupportFlow!SolicitationEnds
<1> QED BY <1>1, AdvisorInvHolds, PTL

\* The turn is on case c, past its contact time.
OnCase(c) == at \in {"evaluate", "reply"} /\ copy.link = c

FlowStep(c) == UNCHANGED SupportFlow(c)!vars \/ SupportFlow(c)!Next

SameCase(c) ==
  /\ SupportConv(c)' = SupportConv(c) /\ clarifiedOf'[c] = clarifiedOf[c]
  /\ blocksOf'[c] = blocksOf[c] /\ attemptsOf'[c] = attemptsOf[c]

\* Where the case does not change, the flow stutters, starts its evaluation or ends
\* its turn.
LEMMA SameCaseFlows ==
  ASSUME NEW c \in CsCases, SameCase(c),
         ~OnCase(c) /\ OnCase(c)' => ~SupportConv(c).awaiting
  PROVE  FlowStep(c)
<1>1. CASE OnCase(c)' <=> OnCase(c)
  BY <1>1 DEF FlowStep, OnCase, SameCase, SupportFlow!vars
<1>2. CASE ~OnCase(c) /\ OnCase(c)'
  BY <1>2 DEF FlowStep, OnCase, SameCase, SupportFlow!Next, SupportFlow!NoTimePref
<1>3. CASE OnCase(c) /\ ~OnCase(c)'
  BY <1>3 DEF FlowStep, OnCase, SameCase, SupportFlow!Next, SupportFlow!EndTurn
<1> QED BY <1>1, <1>2, <1>3

\* Steps of the advisor's side of the turn.
LEMMA AdvisorSideFlows ==
  ASSUME UNCHANGED cs, UNCHANGED csHistory, NEW c \in CsCases,
         OnCase(c)' => OnCase(c)
  PROVE  FlowStep(c)
BY SameCaseFlows DEF SameCase, SupportConv, csHistory

LEMMA QuietFlows ==
  ASSUME UNCHANGED csHistory, \A i \in CsCases : SupportConv(i)' = SupportConv(i),
         NEW c \in CsCases, ~OnCase(c) /\ OnCase(c)' => ~SupportConv(c).awaiting
  PROVE  FlowStep(c)
BY SameCaseFlows DEF SameCase, csHistory

LEMMA EvaluateFlows ==
  ASSUME AdvisorInv, Evaluate, NEW c \in CsCases
  PROVE  FlowStep(c)
<1>1. at = "evaluate" /\ at' = "reply" /\ UNCHANGED csHistory /\ copy \in AdvisorCase
  BY DEF Evaluate, AdvisorInv, AdvisorTypeOK, advisorHistory
<1>2. CASE Known /\ UNCHANGED <<cs, copy>>
  BY <1>1, <1>2, AdvisorSideFlows DEF OnCase
<1>3. ASSUME ~Known, NEW i \in FreshIds, cs' = [cs EXCEPT ![i] = NewConv],
             copy' = [copy EXCEPT !.link = i]
      PROVE  FlowStep(c)
  <2>1. i \in CsCases /\ cs[i] = None
    BY DEF FreshIds
  <2>2. \A j \in CsCases : SupportConv(j)' = SupportConv(j)
    BY <1>3, <2>1, FreshCase
  <2>3. SupportConv(i) = NewConv /\ ~NewConv.awaiting /\ copy'.link = i
    BY <1>1, <1>3, <2>1 DEF SupportConv, NewConv, AdvisorCase
  <2> QED BY <1>1, <2>2, <2>3, QuietFlows DEF OnCase
<1> QED BY <1>2, <1>3 DEF Evaluate

LEMMA QuietTurnFlows ==
  ASSUME AdvisorInv, NoContactTime \/ Demote \/ SupportOutOfScope, NEW c \in CsCases
  PROVE  FlowStep(c)
<1>1. CASE NoContactTime
  <2>1. at = "gate" /\ at' = "evaluate" /\ UNCHANGED <<cs, copy>> /\ UNCHANGED csHistory
    BY <1>1 DEF NoContactTime, turn, advisorHistory
  <2>2. c = copy.link => ~SupportConv(c).awaiting
    BY <1>1, NoneAssumption DEF NoContactTime, Known, SupportConv, NewConv
  <2>3. \A i \in CsCases : SupportConv(i)' = SupportConv(i)
    BY <2>1 DEF SupportConv
  <2> QED BY <2>1, <2>2, <2>3, QuietFlows DEF OnCase
<1>2. CASE Demote
  BY <1>2, AdvisorSideFlows DEF Demote, SupportReplies, advisorHistory, OnCase
<1>3. CASE SupportOutOfScope
  <2>1. at' = "record" /\ UNCHANGED csHistory
    BY <1>3 DEF SupportOutOfScope, SupportReplies, advisorHistory
  <2>2. \A i \in CsCases : SupportConv(i)' = SupportConv(i)
    <3>1. at = "gate"
      BY <1>3 DEF SupportOutOfScope
    <3>2. CASE UNCHANGED cs
      BY <3>2 DEF SupportConv
    <3>3. ASSUME NEW i \in FreshIds, cs' = [cs EXCEPT ![i] = NewConv]
          PROVE  \A j \in CsCases : SupportConv(j)' = SupportConv(j)
      BY <3>3, FreshCase DEF FreshIds
    <3> QED BY <1>3, <3>2, <3>3 DEF SupportOutOfScope
  <2> QED BY <2>1, <2>2, QuietFlows DEF OnCase
<1> QED BY <1>1, <1>2, <1>3

\* A step that moves the case of the conversation on is nothing to the others.
LEMMA OthersStay ==
  ASSUME AdvisorInv, Known, NEW c \in CsCases, c # copy.link,
         NEW v, cs' = [cs EXCEPT ![copy.link] = v],
         NEW asked, clarifiedOf' = [clarifiedOf EXCEPT ![copy.link] = asked],
         NEW sent, blocksOf' = [blocksOf EXCEPT ![copy.link] = sent],
         NEW tried, attemptsOf' = [attemptsOf EXCEPT ![copy.link] = tried]
  PROVE  SameCase(c)
BY KnownCase DEF SameCase, SupportConv, AdvisorInv, AdvisorTypeOK

LEMMA ContactTimeGivenFlows ==
  ASSUME AdvisorInv, NEW where \in {"inside", "outside"}, ContactTimeGiven(where),
         NEW c \in CsCases
  PROVE  FlowStep(c)
<1> DEFINE id == copy.link
<1>1. /\ at = "gate" /\ at' = "record" /\ Known /\ cs[id].awaiting
      /\ cs' = [cs EXCEPT ![id] = TimePrefGiven(cs[id], where)]
      /\ attemptsOf' = [attemptsOf EXCEPT ![id] = attemptsOf[id] + 1]
      /\ UNCHANGED <<clarifiedOf, blocksOf>>
  BY DEF ContactTimeGiven, SupportReplies
<1>2. /\ id \in CsCases /\ SupportConv(id) = cs[id] /\ cs[id] \in Conv
      /\ clarifiedOf' = [clarifiedOf EXCEPT ![id] = clarifiedOf[id]]
      /\ blocksOf' = [blocksOf EXCEPT ![id] = blocksOf[id]]
  BY <1>1, KnownCase, SameHistory
<1>3. CASE c # id
  <2>1. SameCase(c)
    BY <1>1, <1>2, <1>3, OthersStay
  <2> QED BY <1>1, <2>1, SameCaseFlows DEF OnCase
<1>4. CASE c = id
  <2>1. /\ SupportConv(c)' = TimePrefGiven(SupportConv(c), where)
        /\ attemptsOf'[c] = attemptsOf[c] + 1
    <3>1. TimePrefGiven(cs[id], where) # None
      BY <1>2, TimePrefType, NoneAssumption
    <3> QED BY <1>1, <1>2, <1>4, <3>1 DEF SupportConv, AdvisorInv, AdvisorTypeOK
  <2>2. SupportFlow(c)!TimePrefAnswered(where)
    <3>1. SupportConv(c)' = SupportFlow(c)!TimePrefGiven(SupportConv(c), where)
      BY <2>1, SupportFlowOperators
    <3>2. SupportConv(c).awaiting /\ clarifiedOf'[c] = clarifiedOf[c] /\ blocksOf'[c] = blocksOf[c]
      BY <1>1, <1>2, <1>4
    <3> QED BY <1>1, <2>1, <3>1, <3>2 DEF SupportFlow!TimePrefAnswered
  <2> QED BY <2>2 DEF FlowStep, SupportFlow!Next
<1> QED BY <1>3, <1>4

LEMMA ContactTimePassedFlows ==
  ASSUME AdvisorInv, ContactTimePassed, NEW c \in CsCases
  PROVE  FlowStep(c)
<1> DEFINE id == copy.link
<1>1. PICK v \in {TimePrefMissed(cs[id]), TimePrefError(cs[id])} : cs' = [cs EXCEPT ![id] = v]
  BY DEF ContactTimePassed
<1>2. /\ at = "gate" /\ at' = "evaluate" /\ Known /\ cs[id].awaiting /\ copy' = copy
      /\ attemptsOf' = [attemptsOf EXCEPT ![id] = attemptsOf[id] + 1]
      /\ UNCHANGED <<clarifiedOf, blocksOf>>
  BY DEF ContactTimePassed, turn
<1>3. /\ id \in CsCases /\ SupportConv(id) = cs[id] /\ cs[id] \in Conv
      /\ clarifiedOf' = [clarifiedOf EXCEPT ![id] = clarifiedOf[id]]
      /\ blocksOf' = [blocksOf EXCEPT ![id] = blocksOf[id]]
  BY <1>2, KnownCase, SameHistory
<1>4. CASE c # id
  <2>1. SameCase(c)
    BY <1>1, <1>2, <1>3, <1>4, OthersStay
  <2> QED BY <1>2, <1>4, <2>1, SameCaseFlows DEF OnCase
<1>5. CASE c = id
  <2>1. /\ SupportConv(c)' \in {TimePrefMissed(SupportConv(c)), TimePrefError(SupportConv(c))}
        /\ attemptsOf'[c] = attemptsOf[c] + 1
    <3>1. v # None
      BY <1>1, <1>3, TimePrefType, NoneAssumption
    <3> QED BY <1>1, <1>2, <1>3, <1>5, <3>1 DEF SupportConv, AdvisorInv, AdvisorTypeOK
  <2>2. SupportFlow(c)!TimePrefPassed
    BY <1>2, <1>3, <1>5, <2>1, SupportFlowOperators DEF SupportFlow!TimePrefPassed
  <2> QED BY <2>2 DEF FlowStep, SupportFlow!Next
<1> QED BY <1>4, <1>5

LEMMA ReplyFlows ==
  ASSUME AdvisorInv, NEW o \in Outcome, Reply(o), NEW c \in CsCases
  PROVE  FlowStep(c)
<1> DEFINE id == copy.link
           action == ReplyAction(o, cs[id])
           blocked == action = "escalation" /\ ~IsAlreadyEscalated(cs[id])
           d == AfterReply(action, cs[id])
           asked == IF action = "clarify" THEN clarifiedOf[id] + 1 ELSE clarifiedOf[id]
           sent == IF blocked THEN blocksOf[id] + 1 ELSE blocksOf[id]
           tried == IF blocked THEN 0 ELSE attemptsOf[id]
<1>1. /\ at = "reply" /\ Known
      /\ cs' = [cs EXCEPT ![id] = d]
      /\ clarifiedOf' = [clarifiedOf EXCEPT ![id] = asked]
      /\ blocksOf' = [blocksOf EXCEPT ![id] = sent]
      /\ attemptsOf' = [attemptsOf EXCEPT ![id] = tried]
  BY ReplyUpdate
<1>2. at' = "record"
  BY DEF Reply, SupportReplies
<1>3. /\ id \in CsCases /\ SupportConv(id) = cs[id] /\ cs[id] \in Conv
      /\ WithinBounds(cs[id], clarifiedOf[id], blocksOf[id], attemptsOf[id])
  BY <1>1, KnownCase
<1>4. CASE c # id
  <2>1. SameCase(c)
    <3> HIDE DEF d, asked, sent, tried
    <3> QED BY <1>1, <1>4, OthersStay
  <2> QED BY <1>2, <1>4, <2>1, SameCaseFlows DEF OnCase
<1>5. CASE c = id
  <2>1. d # None
    BY <1>3, AfterReplyType, NoneAssumption
  <2>2. /\ SupportConv(c)' = d /\ clarifiedOf'[c] = asked /\ blocksOf'[c] = sent
        /\ attemptsOf'[c] = tried
    <3> HIDE DEF d, asked, sent, tried
    <3> QED BY <1>1, <1>3, <1>5, <2>1 DEF SupportConv, AdvisorInv, AdvisorTypeOK
  <2>3. blocked <=> action = "escalation" /\ d # cs[id]
    BY <1>3, ReplyWithinBounds
  <2>4. SupportFlow(c)!Reply(o)
    <3>1. /\ action = SupportFlow(c)!ReplyAction(o, SupportConv(c))
          /\ d = SupportFlow(c)!AfterReply(action, SupportConv(c))
      BY <1>3, <1>5, SupportFlowOperators
    <3>2. IF action = "escalation" /\ SupportConv(c)' # SupportConv(c)
          THEN blocksOf'[c] = blocksOf[c] + 1 /\ attemptsOf'[c] = 0
          ELSE blocksOf'[c] = blocksOf[c] /\ attemptsOf'[c] = attemptsOf[c]
      <4> HIDE DEF d, action, blocked, id
      <4> QED BY <1>3, <1>5, <2>2, <2>3
    <3>3. clarifiedOf'[c] = IF action = "clarify" THEN clarifiedOf[c] + 1 ELSE clarifiedOf[c]
      BY <1>5, <2>2
    <3> HIDE DEF action, d
    <3> QED BY <1>1, <1>2, <1>5, <2>2, <3>1, <3>2, <3>3 DEF SupportFlow!Reply
  <2> QED BY <2>4, SupportFlowOperators DEF FlowStep, SupportFlow!Next
<1> QED BY <1>4, <1>5

\* What the customer of a support case sees is what ReplyFlow promises, although
\* the advisor's case decides which support case a turn works on, and when.
THEOREM SupportImplementsReplyFlowAlways == AdvisorSpec => SupportImplementsReplyFlow
<1>1. AdvisorInit => \A c \in CsCases : SupportFlow(c)!Init
  BY SupportFlowOperators DEF AdvisorInit, SupportFlow!Init, SupportConv
<1>2. AdvisorInv /\ [AdvisorNext]_advisorVars => [\A c \in CsCases : FlowStep(c)]_advisorVars
  <2> SUFFICES ASSUME AdvisorInv, AdvisorNext, NEW c \in CsCases PROVE FlowStep(c)
    OBVIOUS
  <2>1. CASE \/ Emergency \/ NotUnderstood \/ Record \/ Answer \/ Abandon
             \/ \E u \in Understanding : Turn(u) \/ \E x \in Extractions : ContactTimeTurn(u, x)
    <3>1. UNCHANGED cs /\ UNCHANGED csHistory /\ ~OnCase(c)'
      BY <2>1 DEF Emergency, NotUnderstood, Record, Answer, Abandon, Turn, ContactTimeTurn,
                  Decided, NoTurn, advisorHistory, OnCase
    <3> QED BY <3>1, AdvisorSideFlows
  <2> QED
    BY <2>1, QuietTurnFlows, EvaluateFlows, ContactTimeGivenFlows, ContactTimePassedFlows,
       ReplyFlows DEF AdvisorNext
<1>3. QED
  BY <1>1, <1>2, AdvisorInvHolds, PTL DEF AdvisorSpec, SupportImplementsReplyFlow, FlowStep
=============================================================================

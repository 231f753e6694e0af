----------------------------- MODULE CaseRecord -----------------------------
(***************************************************************************)
(* One support_case node and the turns of /api/reply that read and write   *)
(* it.  The graph store replaces all the attributes of a node with every   *)
(* write, so each of the six writers of a case reads the record, changes   *)
(* its own attributes and sends the whole record back.                     *)
(*                                                                         *)
(* Turns of one case do not overlap: the LINE adapter serialises them      *)
(* (module SessionStore).  Spec is the case where a request given up       *)
(* leaves nothing behind; SpecLate adds what ok_reply_response says of its *)
(* deadline, that the write it stops waiting for may be committed later.   *)
(***************************************************************************)
EXTENDS ConversationState, Sequences, FiniteSets

CONSTANT
  MaxTurns,  \* bound: messages that reach this case
  NoCase     \* the record before it is created

\* The attributes this module tells apart.
Case == [conv : Conv, count : Nat,
         verdict : {"none", "decided", "out_of_scope"}, linked : BOOLEAN]

ASSUME MaxTurnsAssumption == MaxTurns \in Nat
ASSUME NoCaseAssumption == NoCase \notin Case

VARIABLES
  store,    \* the support_case node, or NoCase
  nodes,    \* seq of the ConversationTurn nodes, in the order they were written
  session,  \* the session of the LINE user has the id of this case
  pc,       \* where the handler of the current message is
  job,      \* the writer it is in
  snap,     \* the record that writer has read
  own,      \* the conversation state the turn wants saved
  reply,    \* what the customer is going to read
  late,     \* records in writes given up and not yet committed
  turns,    \* messages received
  clarified, blocks, attempts,  \* history, as in ReplyFlow: what has been saved
  heard     \* history: the questions and escalation blocks that were answered

vars == <<store, nodes, session, pc, job, snap, own, reply, late, turns,
          clarified, blocks, attempts, heard>>
turnVars == <<job, snap, own, reply>>
history == <<clarified, blocks, attempts>>

-----------------------------------------------------------------------------
NewCase == [conv |-> NewConv, count |-> 0, verdict |-> "none", linked |-> FALSE]

LegacyCase == {[NewCase EXCEPT !.conv = c, !.verdict = "decided"] : c \in LegacyConv}

\* conv_state_from_attrs, with no attributes for a case that is not there.
ConvOf(rec) == IF rec = NoCase THEN NewConv ELSE rec.conv

\* Mutant: turn_count is sent without the other attributes.
MergeCountOnly(j, rec, c) ==
  CASE j \in {"given", "passed", "clarify", "escalation"} -> [rec EXCEPT !.conv = c]
    [] j = "demote" -> [rec EXCEPT !.verdict = "out_of_scope"]
    [] j = "link" -> [rec EXCEPT !.linked = TRUE]
    [] OTHER -> [NewCase EXCEPT !.count = rec.count + 1]

\* The merge_* functions: the attributes of the writer, the rest as read.
Merge(j, rec, c) ==
  CASE j \in {"given", "passed", "clarify", "escalation"} -> [rec EXCEPT !.conv = c]
    [] j = "demote" -> [rec EXCEPT !.verdict = "out_of_scope"]
    [] j = "link" -> [rec EXCEPT !.linked = TRUE]
    [] OTHER -> [rec EXCEPT !.count = rec.count + 1]

\* Where the handler goes on after a writer, and after one that failed.
AfterJob(j) ==
  CASE j = "passed" -> "evaluate"
    [] j = "link" -> "reply"
    [] j = "count" -> "node"
    [] OTHER -> "record"

\* Mutant: an error of save_conv_state is logged and the reply goes out.
AfterErrorRepliesAnyway(j) ==
  CASE j \in {"given", "clarify", "escalation", "demote"} -> "record"
    [] j = "passed" -> "evaluate"
    [] j = "link" -> "reply"
    [] OTHER -> "respond"

AfterError(j) ==
  CASE j \in {"given", "passed", "clarify", "escalation"} -> "failed"
    [] j = "demote" -> "record"
    [] j = "link" -> "reply"
    [] OTHER -> "respond"

Init ==
  /\ \/ store = NoCase /\ session = FALSE
     \/ store \in LegacyCase /\ session = TRUE
  /\ nodes = <<>> /\ late = {} /\ turns = 0
  /\ pc = "idle" /\ job = "none" /\ snap = NoCase /\ own = NewConv /\ reply = "none"
  /\ clarified = 0 /\ blocks = 0 /\ attempts = 0
  /\ heard = [asked |-> 0, told |-> 0]

-----------------------------------------------------------------------------
(* The message arrives (reply_handler up to the evaluation).               *)

\* A message of the session's case, or the first of a case.
Receive ==
  /\ pc = "idle" /\ turns < MaxTurns
  /\ session \/ store = NoCase
  /\ turns' = turns + 1
  /\ pc' = IF session THEN "timepref" ELSE "evaluate"
  /\ UNCHANGED <<store, nodes, session, late, history, heard>> /\ UNCHANGED turnVars

\* It names a product out of scope: no evaluation.  record_out_of_scope_case
\* creates a case if there is none; its errors are logged only.
ReceiveOutOfScope ==
  /\ pc = "idle" /\ turns < MaxTurns
  /\ session \/ store = NoCase
  /\ turns' = turns + 1
  /\ store' \in {store, IF store = NoCase THEN NewCase ELSE store}
  /\ pc' = "record" /\ reply' = "out_of_scope"
  /\ UNCHANGED <<nodes, session, job, snap, own, late, history, heard>>

\* The state is loaded; if the contact time is awaited, the message is read as
\* an answer to that question and the outcome is to be saved.
TimePref ==
  /\ pc = "timepref"
  /\ \/ /\ ~ConvOf(store).awaiting
        /\ pc' = "evaluate"
        /\ UNCHANGED turnVars
     \/ /\ ConvOf(store).awaiting
        /\ pc' = "load"
        /\ \/ /\ \E where \in {"inside", "outside"} : own' = TimePrefGiven(store.conv, where)
              /\ job' = "given" /\ reply' = "time_pref"
           \/ /\ own' \in {TimePrefMissed(store.conv), TimePrefError(store.conv)}
              /\ job' = "passed" /\ UNCHANGED reply
        /\ UNCHANGED snap
  /\ UNCHANGED <<store, nodes, session, late, turns, history, heard>>

-----------------------------------------------------------------------------
(* Harness::evaluate, and the decision taken from its outcome.             *)

\* The record is read at the start; a case that is not there is created, with an
\* id the session does not know yet.
EvaluateLoad ==
  /\ pc = "evaluate" /\ store # NoCase
  /\ snap' = store /\ job' = "evaluate"
  /\ pc' = "write"
  /\ UNCHANGED <<store, nodes, session, own, reply, late, turns, history, heard>>

EvaluateCreate ==
  /\ pc = "evaluate" /\ store = NoCase
  /\ store' = NewCase /\ snap' = NewCase /\ job' = "create"
  /\ session' = FALSE
  /\ pc' = "write"
  /\ UNCHANGED <<nodes, own, reply, late, turns, history, heard>>

\* The store has it, but the handler gets an error: the customer is never told
\* its id, and it stays behind.
EvaluateCreateErrs ==
  /\ pc = "evaluate" /\ store = NoCase
  /\ store' = NewCase
  /\ session' = FALSE
  /\ pc' = "failed"
  /\ UNCHANGED <<nodes, late, turns, history, heard>> /\ UNCHANGED turnVars

\* Mutant: the attributes of the decision only.
EvaluateWriteFresh ==
  /\ pc = "write"
  /\ store' = [NewCase EXCEPT !.conv = snap.conv, !.verdict = "decided"]
  /\ \/ pc' = "reply" /\ UNCHANGED job
     \/ pc' = "load" /\ job = "create" /\ job' = "link"
     \/ pc' = "failed" /\ UNCHANGED job
  /\ UNCHANGED <<nodes, session, snap, own, reply, late, turns, history, heard>>

\* After the searches and the decision, the record read at the start is sent
\* with the new verdict.  A case created for another product is then linked to
\* the one before.  The write, or the audit event after it, may report an error.
EvaluateWrite ==
  /\ pc = "write"
  /\ store' = [snap EXCEPT !.verdict = "decided"]
  /\ \/ pc' = "reply" /\ UNCHANGED job
     \/ pc' = "load" /\ job = "create" /\ job' = "link"
     \/ pc' = "failed" /\ UNCHANGED job
  /\ UNCHANGED <<nodes, session, snap, own, reply, late, turns, history, heard>>

\* second_stage_short_circuit.
OutOfScope ==
  /\ pc = "reply"
  /\ job' = "demote" /\ reply' = "out_of_scope"
  /\ pc' = "load"
  /\ UNCHANGED <<store, nodes, session, snap, own, late, turns, history, heard>>

\* The state is loaded again, the reply chosen, and a change of the state saved
\* before the reply is sent.
Decide(o) ==
  LET action == ReplyAction(o, ConvOf(store)) IN
  /\ pc = "reply"
  /\ own' = AfterReply(action, ConvOf(store))
  /\ IF own' = ConvOf(store)
     THEN pc' = "record" /\ reply' = "plain" /\ UNCHANGED job
     ELSE pc' = "load" /\ reply' = action /\ job' = action
  /\ UNCHANGED <<store, nodes, session, snap, late, turns, history, heard>>

-----------------------------------------------------------------------------
(* A writer: load_case, merge, record.                                     *)

Load ==
  /\ pc = "load" /\ store # NoCase
  /\ snap' = store
  /\ pc' = "save"
  /\ UNCHANGED <<store, nodes, session, job, own, reply, late, turns, history, heard>>

\* The write is carried out, and answered or not.
Save ==
  /\ pc = "save"
  /\ store' = Merge(job, snap, own)
  /\ pc' \in {AfterJob(job), AfterError(job)}
  /\ clarified' = IF job = "clarify" THEN clarified + 1 ELSE clarified
  /\ blocks' = IF job = "escalation" THEN blocks + 1 ELSE blocks
  /\ attempts' = CASE job = "escalation" -> 0
                   [] job \in {"given", "passed"} -> attempts + 1
                   [] OTHER -> attempts
  /\ UNCHANGED <<nodes, session, job, snap, own, reply, late, turns, heard>>

\* record_conversation_turn is another writer, with a node of its own to write
\* after turn_count.
RecordTurn ==
  /\ pc = "record"
  /\ job' = "count" /\ pc' = "load"
  /\ UNCHANGED <<store, nodes, session, snap, own, reply, late, turns, history, heard>>

WriteNode ==
  /\ pc = "node"
  /\ nodes' = Append(nodes, snap.count + 1)
  /\ pc' = "respond"
  /\ UNCHANGED <<store, session, late, turns, history, heard>> /\ UNCHANGED turnVars

\* Mutant: the node is written although advancing turn_count has failed.
FailsThenWritesNode ==
  /\ \/ pc \in {"timepref", "evaluate", "write", "reply"} /\ pc' = "failed"
     \/ pc = "load" /\ pc' = AfterError(job)
     \/ pc = "save" /\ pc' = IF job = "count" THEN "node" ELSE AfterError(job)
     \/ pc = "node" /\ pc' = "respond"
  /\ UNCHANGED <<store, nodes, session, late, turns, history, heard>> /\ UNCHANGED turnVars

\* An RPC (or what evaluate does between its two) fails without an effect, the
\* case to be read is not there, or the deadline of the record passes.
Fails ==
  /\ \/ pc \in {"timepref", "evaluate", "write", "reply"} /\ pc' = "failed"
     \/ pc \in {"load", "save"} /\ pc' = AfterError(job)
     \/ pc = "node" /\ pc' = "respond"
  /\ UNCHANGED <<store, nodes, session, late, turns, history, heard>> /\ UNCHANGED turnVars

-----------------------------------------------------------------------------
(* The end of the turn, and what happens around it.                        *)

\* The answer reaches the adapter, which notes the id of the case; an error
\* leaves the session as it was.
Respond ==
  /\ pc \in {"respond", "failed"}
  /\ pc' = "idle"
  /\ session' = IF pc = "respond" THEN TRUE ELSE session
  /\ heard' = IF pc = "failed" THEN heard
              ELSE [asked |-> heard.asked + (IF reply = "clarify" THEN 1 ELSE 0),
                    told |-> heard.told + (IF reply = "escalation" THEN 1 ELSE 0)]
  /\ job' = "none" /\ snap' = NoCase /\ own' = NewConv /\ reply' = "none"
  /\ UNCHANGED <<store, nodes, late, turns, history>>

\* The adapter's 50 seconds pass, and the handler is dropped with the
\* connection, at whichever await it has reached.
GiveUp ==
  /\ pc # "idle"
  /\ pc' = "idle"
  /\ job' = "none" /\ snap' = NoCase /\ own' = NewConv /\ reply' = "none"
  /\ UNCHANGED <<store, nodes, session, late, turns, history, heard>>

\* Reset button, TTL, eviction, restart of the adapter, switch to another case.
Forget ==
  /\ pc = "idle" /\ session
  /\ session' = FALSE
  /\ UNCHANGED <<store, nodes, pc, late, turns, history, heard>> /\ UNCHANGED turnVars

\* CONVERSATION_TURN_WRITE_TIMEOUT passes with the write of turn_count on its way.
RecordTimesOut ==
  /\ pc = "save" /\ job = "count"
  /\ late' = late \cup {Merge(job, snap, own)}
  /\ pc' = "respond"
  /\ UNCHANGED <<store, nodes, session, turns, history, heard>> /\ UNCHANGED turnVars

CommitLate ==
  \E r \in late :
    /\ store' = r
    /\ late' = late \ {r}
    /\ UNCHANGED <<nodes, session, pc, turns, history, heard>> /\ UNCHANGED turnVars

Next ==
  \/ Receive \/ ReceiveOutOfScope
  \/ TimePref
  \/ EvaluateLoad \/ EvaluateCreate \/ EvaluateCreateErrs \/ EvaluateWrite
  \/ OutOfScope
  \/ \E o \in Outcome : Decide(o)
  \/ Load \/ Save \/ RecordTurn \/ WriteNode \/ Fails
  \/ Respond \/ GiveUp \/ Forget

Spec == Init /\ [][Next]_vars

SpecLate == Init /\ [][Next \/ RecordTimesOut \/ CommitLate]_vars

-----------------------------------------------------------------------------
TypeOK ==
  /\ store \in Case \cup {NoCase} /\ snap \in Case \cup {NoCase}
  /\ nodes \in Seq(Nat) /\ turns \in 0..MaxTurns
  /\ session \in BOOLEAN /\ own \in Conv /\ late \subseteq Case
  /\ pc \in {"idle", "timepref", "evaluate", "write", "reply", "load", "save",
             "record", "node", "respond", "failed"}
  /\ job \in {"none", "evaluate", "create", "given", "passed", "clarify",
              "escalation", "demote", "link", "count"}
  /\ reply \in {"none", "plain", "clarify", "escalation", "out_of_scope", "time_pref"}
  /\ clarified \in Nat /\ blocks \in Nat /\ attempts \in Nat
  /\ heard \in [asked : Nat, told : Nat]

\* The turns of a case have distinct numbers in the order they took place, and
\* turn_count never falls behind them: a failed write leaves a gap, never a
\* number used twice.
TurnNumbersAreUnique ==
  /\ \A i, j \in DOMAIN nodes : i < j => nodes[i] < nodes[j]
  /\ nodes # <<>> => store # NoCase /\ nodes[Len(nodes)] <= store.count

\* No question and no escalation block reaches the customer that the record
\* does not know of, so the bounds ReplyFlow puts on the record are bounds on
\* what the customer sees.
SavedBeforeSent == heard.asked <= clarified /\ heard.told <= blocks

\* No writer loses what another has written: turns are not uncounted, a link to
\* the previous case stays, and an out-of-scope verdict gives way to a later
\* decision only.
NothingLost ==
  [][store # NoCase =>
       /\ store' # NoCase
       /\ store'.count >= store.count
       /\ store.linked => store'.linked
       /\ store.verdict = "out_of_scope" /\ pc # "write" => store'.verdict = "out_of_scope"
    ]_vars

\* What has been saved as an escalation stays confirmed in the record,
\* independently of everything else (the doc of is_already_escalated).
EscalationStaysConfirmed == blocks > 0 => store.conv.confirmed

\* Seen through its conversation state, the record goes the way of ReplyFlow.
InEvaluation ==
  \/ pc \in {"evaluate", "write", "reply"}
  \/ pc \in {"load", "save"} /\ job \in {"link", "clarify", "escalation"}

Flow == INSTANCE ReplyFlow WITH
  conv <- ConvOf(store),
  phase <- IF InEvaluation THEN "evaluate" ELSE "idle"

ImplementsReplyFlow == Flow!Spec

-----------------------------------------------------------------------------
(* What turns that do not overlap can rely on, and the inductive invariant. *)

\* Between the read of a record and its write nothing else writes it.
CopyIsCurrent ==
  /\ pc \in {"write", "save"} => snap = store /\ store # NoCase
  /\ pc = "node" =>
       /\ snap # NoCase /\ store # NoCase /\ store.count = snap.count + 1
       /\ nodes # <<>> => nodes[Len(nodes)] < store.count

\* A writer of the conversation state has in hand what the turn makes of the
\* state that is stored.
OwnIsDue ==
  LET c == ConvOf(store) IN
  pc \in {"load", "save"} =>
    \/ job \in {"demote", "link", "count"}
    \/ /\ job = "given" /\ c.awaiting
       /\ \E where \in {"inside", "outside"} : own = TimePrefGiven(c, where)
    \/ /\ job = "passed" /\ c.awaiting
       /\ own \in {TimePrefMissed(c), TimePrefError(c)}
    \/ /\ job \in {"clarify", "escalation"} /\ own # c
       /\ \E o \in Outcome : ReplyAction(o, c) = job /\ own = AfterReply(job, c)

\* A question or a block on its way to the customer is being saved, is given up,
\* or is in the record already.
NotYetHeard ==
  /\ reply = "clarify" =>
       pc = "failed" \/ (pc \in {"load", "save"} /\ job = reply) \/ heard.asked < clarified
  /\ reply = "escalation" =>
       pc = "failed" \/ (pc \in {"load", "save"} /\ job = reply) \/ heard.told < blocks

IndInv ==
  /\ TypeOK /\ WithinBounds(ConvOf(store), clarified, blocks, attempts)
  /\ CopyIsCurrent /\ OwnIsDue /\ NotYetHeard
  /\ TurnNumbersAreUnique /\ SavedBeforeSent
=============================================================================

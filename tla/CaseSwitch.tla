----------------------------- MODULE CaseSwitch ------------------------------
(***************************************************************************)
(* The switch to a new case when a customer turns to another product: what *)
(* reply_handler (api.rs) finds out before the evaluation and what the     *)
(* evaluation stores (harness/case_switch.rs, harness/mod.rs), together    *)
(* with the session of the LINE adapter (bin/line_adapter.rs), which sends *)
(* a case and a history along with each message and is told by case_reset  *)
(* to drop that history.                                                   *)
(*                                                                         *)
(* The messages of the customer are handled one at a time (module          *)
(* SessionStore).  What the language models make of a message is an        *)
(* argument; an entry of a history is represented by the case whose turn   *)
(* it belongs to.  The link back to the old case is in CaseRecord.         *)
(***************************************************************************)
EXTENDS Integers, Sequences, Functions

CONSTANTS
  Products,
  Cases,            \* bound: the ids that cases get
  MaxHistoryTurns,  \* MAX_HISTORY_TURNS
  None

ASSUME MaxHistoryTurnsAssumption == MaxHistoryTurns \in Nat \ {0}
ASSUME NoneAssumption ==
  None \notin Cases \cup [models : SUBSET Products, awaiting : BOOLEAN]

VARIABLES
  cases,    \* by id: [models, awaiting], product_models and awaiting_time_pref, or None
  stocked,  \* the allowlist a request gets at this moment
  session,  \* Session: case_id and history
  pc,       \* where the handler of the current message is
  turn      \* what it holds

vars == <<cases, stocked, session, pc, turn>>

-----------------------------------------------------------------------------
FreshSession == [case |-> None, history |-> <<>>]

NewCase == [models |-> {}, awaiting |-> FALSE]

NoTurn ==
  [case |-> None, history |-> <<>>,  \* of the request
   allow |-> {},                     \* the allowlist of reply_handler
   supplied |-> FALSE, refs |-> {},  \* supplied_extraction: the Matched references
   old |-> None,                     \* previous_case_id of the switch found, if any
   used |-> <<>>,                    \* the history given to the evaluation
   again |-> {}, found |-> {},       \* its own allowlist, and what it resolves with it
   at |-> None]                      \* the case of the answer

Allowlists == SUBSET Products \ {{}}

Known(c) == c # None /\ cases[c] # None

\* A new uuid.
FreshIds ==
  {c \in Cases : /\ cases[c] = None
                 /\ c \notin {session.case, turn.case} \cup Range(session.history)}

Init ==
  /\ cases = [c \in Cases |-> None]
  /\ stocked \in Allowlists
  /\ session = FreshSession
  /\ pc = "idle" /\ turn = NoTurn

-----------------------------------------------------------------------------
(* reply_handler up to the evaluation.                                     *)

Request == [NoTurn EXCEPT !.case = session.case, !.history = session.history,
                          !.allow = stocked]

Receive ==
  /\ pc = "idle"
  /\ turn' = Request
  /\ pc' = IF session.case = None THEN "evaluate" ELSE "detect"
  /\ UNCHANGED <<cases, stocked, session>>

\* The message names a product out of scope.  record_out_of_scope_case: a case
\* that is not there is created; when that fails, whether it was carried out or
\* not, the answer has the id of the request, or one of no case.
ReceiveOutOfScope ==
  /\ pc = "idle"
  /\ \/ /\ Known(session.case)
        /\ turn' = [Request EXCEPT !.at = session.case] /\ UNCHANGED cases
     \/ /\ ~Known(session.case)
        /\ \E c \in FreshIds : /\ turn' = [Request EXCEPT !.at = c]
                               /\ cases' = [cases EXCEPT ![c] = NewCase]
     \/ /\ ~Known(session.case)
        /\ \E id \in IF session.case = None THEN FreshIds ELSE {session.case} :
             /\ turn' = [Request EXCEPT !.at = id]
             /\ cases' \in {cases} \cup
                  {[cases EXCEPT ![c] = NewCase] : c \in FreshIds \ {id}}
  /\ pc' = "respond"
  /\ UNCHANGED <<stocked, session>>

\* Mutant: one new product is enough, whatever else the message names.
IsProductSwitchAny(models, matched) == models # {} /\ matched \ models # {}

IsProductSwitch(models, matched) ==
  models # {} /\ matched # {} /\ matched \cap models = {}

\* detect_product_switch.  Nothing is compared, nor extracted, when the case is
\* unknown, has no products yet, or cannot be read.
Detect ==
  /\ pc = "detect"
  /\ \/ UNCHANGED turn
     \/ /\ Known(turn.case) /\ cases[turn.case].models # {}
        /\ \E refs \in SUBSET Products :
             turn' = [turn EXCEPT !.supplied = TRUE, !.refs = refs, !.old =
               IF IsProductSwitch(cases[turn.case].models, refs \cap turn.allow)
               THEN turn.case ELSE None]
  /\ pc' = "time_pref"
  /\ UNCHANGED <<cases, stocked, session>>

\* Mutant: a contact time is awaited from every message.
TimePrefCaseAlways(t) == t.case

\* time_pref_case_id_for_turn.
TimePrefCase(t) == IF t.old # None THEN None ELSE t.case

NotAwaited ==
  /\ pc = "time_pref" /\ ~(Known(TimePrefCase(turn)) /\ cases[TimePrefCase(turn)].awaiting)
  /\ pc' = "evaluate"
  /\ UNCHANGED <<cases, stocked, session, turn>>

\* The message is the answer to the question for a contact time.
TimePrefReply ==
  LET id == TimePrefCase(turn) IN
  /\ pc = "time_pref" /\ Known(id) /\ cases[id].awaiting
  /\ cases' = [cases EXCEPT ![id].awaiting = FALSE]
  /\ turn' = [turn EXCEPT !.at = id]
  /\ pc' = "respond"
  /\ UNCHANGED <<stocked, session>>

\* It is not, or cannot be read: a miss or an error is counted, which may end
\* the waiting (module ConversationState).
TimePrefPassed ==
  LET id == TimePrefCase(turn) IN
  /\ pc = "time_pref" /\ Known(id) /\ cases[id].awaiting
  /\ \E awaiting \in BOOLEAN : cases' = [cases EXCEPT ![id].awaiting = awaiting]
  /\ pc' = "evaluate"
  /\ UNCHANGED <<stocked, session, turn>>

-----------------------------------------------------------------------------
(* Harness::evaluate, and the reply.                                       *)

EvaluatedCase(t) == IF t.old # None THEN None ELSE t.case

\* Mutant: the new case begins with the history of the old one.
EvaluatedHistoryAlways(t) == t.history

EvaluatedHistory(t) == IF t.old # None THEN <<>> ELSE t.history

\* The allowlist is fetched again; what was extracted is used again.  A case
\* that is not given or not there is created (UnknownCaseIdPolicy::StartNew).
Evaluate ==
  LET id == EvaluatedCase(turn)
      Begin(c, refs) ==
        turn' = [turn EXCEPT !.at = c, !.used = EvaluatedHistory(turn),
                             !.again = stocked, !.found = refs \cap stocked]
  IN /\ pc = "evaluate"
     /\ \E refs \in IF turn.supplied THEN {turn.refs} ELSE SUBSET Products :
          \/ Known(id) /\ Begin(id, refs) /\ UNCHANGED cases
          \/ /\ ~Known(id)
             /\ \E c \in FreshIds : /\ Begin(c, refs)
                                    /\ cases' = [cases EXCEPT ![c] = NewCase]
     /\ pc' = "record"
     /\ UNCHANGED <<stocked, session>>

\* merge_product_models, with the verdict.
Record ==
  /\ pc = "record"
  /\ cases' = [cases EXCEPT ![turn.at].models = @ \cup turn.found]
  /\ pc' = "reply"
  /\ UNCHANGED <<stocked, session, turn>>

\* The second stage of the gate, an answer, a question back; an escalation asks
\* for a contact time.
Reply ==
  /\ pc = "reply"
  /\ \E awaiting \in {cases[turn.at].awaiting, TRUE} :
       cases' = [cases EXCEPT ![turn.at].awaiting = awaiting]
  /\ pc' = "respond"
  /\ UNCHANGED <<stocked, session, turn>>

-----------------------------------------------------------------------------
(* handle_event of the adapter.                                            *)

Window(h) == IF Len(h) <= MaxHistoryTurns THEN h
             ELSE SubSeq(h, Len(h) - MaxHistoryTurns + 1, Len(h))

\* Mutant: case_reset replaces the case only.
KeptHistoryAlways == session.history

\* case_reset is sent with the answer of a turn that has switched.
KeptHistory == IF turn.old # None THEN <<>> ELSE session.history

\* The answer arrives: case and message are noted; LINE takes the reply or not.
Answered ==
  /\ pc = "respond"
  /\ \E said \in {<<turn.at>>, <<turn.at, turn.at>>} :
       session' = [case |-> turn.at, history |-> Window(KeptHistory \o said)]
  /\ pc' = "idle" /\ turn' = NoTurn
  /\ UNCHANGED <<cases, stocked>>

\* An error of a read or a write, carried out or not, the adapter's timeout, the
\* server stopped: the session stays as it was, and so does what is stored.
NotAnswered ==
  /\ pc # "idle"
  /\ pc' = "idle" /\ turn' = NoTurn
  /\ UNCHANGED <<cases, stocked, session>>

\* The reset button, the TTL, eviction, a restart of the adapter.
Forget ==
  /\ pc = "idle" /\ session # FreshSession
  /\ session' = FreshSession
  /\ UNCHANGED <<cases, stocked, pc, turn>>

\* The products change, and the cache of the allowlist is filled anew.
Restock ==
  /\ stocked' \in Allowlists \ {stocked}
  /\ UNCHANGED <<cases, session, pc, turn>>

Next ==
  \/ Receive \/ ReceiveOutOfScope \/ Detect
  \/ NotAwaited \/ TimePrefReply \/ TimePrefPassed
  \/ Evaluate \/ Record \/ Reply
  \/ Answered \/ NotAnswered \/ Forget \/ Restock

Spec == Init /\ [][Next]_vars

-----------------------------------------------------------------------------
Histories == {h \in Seq(Cases) : Len(h) <= MaxHistoryTurns}

Records == [models : SUBSET Products, awaiting : BOOLEAN]

CaseOrNone == Cases \cup {None}

TypeOK ==
  /\ cases \in [Cases -> Records \cup {None}]
  /\ stocked \in Allowlists
  /\ session \in [case : CaseOrNone, history : Histories]
  /\ pc \in {"idle", "detect", "time_pref", "evaluate", "record", "reply", "respond"}
  /\ turn \in [case : CaseOrNone, history : Histories, allow : SUBSET Products,
               supplied : BOOLEAN, refs : SUBSET Products, old : CaseOrNone,
               used : Histories, again : SUBSET Products, found : SUBSET Products,
               at : CaseOrNone]

OfCase(h, c) == \A i \in DOMAIN h : h[i] = c \/ cases[h[i]] = None

\* No talk about one product is read as the history of another: the history the
\* adapter keeps, and the one a turn is evaluated with, are of the case they go
\* with (or of an out-of-scope answer that could not be recorded), although
\* answers and replies get lost around a switch and sessions end.
HistoryOfTheCase ==
  /\ OfCase(session.history, session.case)
  /\ pc \in {"record", "reply"} => OfCase(turn.used, turn.at)

\* Subjects stay in cases of their own.  A turn that switches leaves the old case
\* alone in every respect, also when it fails.  A case that has products gets
\* another one only in a message that names it together with one of them, apart
\* from two cases: its products could not be read for the comparison, or the
\* allowlist has changed between the comparison and the evaluation.  And who
\* names a product of his case is not sent off to another.
SubjectsStayApart ==
  [][/\ \A c \in Cases : Known(c) /\ cases'[c] # cases[c] =>
          /\ c # turn.old
          /\ cases[c].models \notin {{}, cases'[c].models} =>
               \/ ~turn.supplied \/ turn.again # turn.allow
               \/ turn.refs \cap cases[c].models # {}
     /\ Known(session.case) /\ session'.case \notin {session.case, None} =>
          turn.refs \cap turn.allow \cap cases[session.case].models = {}]_vars

\* case_switch.rs: what is compared and what is stored are the same resolution of
\* the references of the turn.
ResolvedOnce ==
  pc = "record" /\ turn.supplied => turn.found = turn.refs \cap turn.allow

-----------------------------------------------------------------------------
(* Why: what a turn in progress knows of its session and of the comparison. *)
(* Nothing it rests on is changed before the answer.                       *)

TurnOfTheSession ==
  pc # "idle" => turn.case = session.case /\ turn.history = session.history

AnswerHasItsCase ==
  /\ pc \in {"record", "reply"} => Known(turn.at)
  /\ pc \in {"record", "reply", "respond"} =>
       turn.at \in Cases /\ (turn.old = None => OfCase(session.history, turn.at))

Switches == IsProductSwitch(cases[turn.case].models, turn.refs \cap turn.allow)

ComparisonStands ==
  /\ pc \in {"idle", "detect"} => ~turn.supplied /\ turn.at = None
  /\ turn.supplied => Known(turn.case)
  /\ ~turn.supplied => turn.refs = {} /\ turn.old = None
  /\ turn.old # None => turn.old = turn.case /\ turn.at # turn.old /\ Switches
  /\ turn.supplied /\ turn.old = None =>
       /\ pc \in {"time_pref", "evaluate", "record"} => ~Switches
       /\ pc \in {"record", "reply", "respond"} => turn.at = turn.case
  /\ pc = "record" => /\ turn.supplied => turn.found = turn.refs \cap turn.again
                      /\ turn.old # None => cases[turn.at].models = {}

IndInv ==
  /\ TypeOK
  /\ HistoryOfTheCase
  /\ TurnOfTheSession
  /\ AnswerHasItsCase
  /\ ComparisonStands
=============================================================================

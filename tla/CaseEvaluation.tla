--------------------------- MODULE CaseEvaluation ---------------------------
(***************************************************************************)
(* Harness::evaluate over the turns of one case: the signals that          *)
(* accumulate, those excluded again with a turn that turns out to be about  *)
(* a product out of scope, the decision taken from them, and the answer    *)
(* attempts an operator records on the strength of a decision.             *)
(*                                                                         *)
(* The customer's turns (/api/reply) and the operators' evaluations and    *)
(* attempts (MCP tools) read and rewrite the same support_case node, whose *)
(* attributes are replaced as a whole.  Spec has them one after the other, *)
(* the callers' contract of the design note; SpecConcurrent does not.      *)
(* The other attributes, the turns and the creation of the case are in     *)
(* CaseRecord; here only the confirmed escalation matters.  An extraction  *)
(* is by model and lexicon, or fell back to the lexicon; servers without a *)
(* model are left out.  Evidence keys stand as the evaluation they are of. *)
(***************************************************************************)
EXTENDS AnswerDecision, Sequences

CONSTANTS
  Customer, Operators,
  MaxEvaluations,  \* bound: evaluations of the case
  MaxAttempts      \* bound: answer attempts recorded

ASSUME ActorsAssumption == Customer \notin Operators
ASSUME BoundsAssumption == MaxEvaluations \in Nat /\ MaxAttempts \in Nat

Actors == {Customer} \cup Operators

VARIABLES
  edges,        \* the HAS_SIGNAL edges of the case
  rec,          \* its attributes
  pc, work,     \* per actor: where it is, and its local state
  evaluations,  \* evaluations begun: the number of the latest request id
  attempts,     \* the answer_attempt nodes, in the order they were written
  decided,      \* history, by request id: the decision
  counted,      \* history: signals of turns answered in scope
  asked,        \* history: ... of the customer's turns
  kept          \* history: signals of all turns but those withdrawn as out of scope

history == <<decided, counted, asked, kept>>
vars == <<edges, rec, pc, work, evaluations, attempts, history>>

-----------------------------------------------------------------------------
Requests == 0..MaxEvaluations  \* 0: none
NoVerdict == [req |-> 0, kind |-> "none", kr |-> NoResolution, evidence |-> 0]
NewCase == [excluded |-> {}, last |-> NoVerdict, confirmed |-> FALSE]

NoWork == [req |-> 0, observed |-> {}, mode |-> "hybrid", turnOnly |-> FALSE,
           edges |-> {}, attrs |-> NewCase, prior |-> {}, decision |-> Allowed(NoResolution)]

Accumulated == edges \ rec.excluded

NoDecision == [kind |-> "none", kr |-> NoResolution]

Init ==
  /\ edges = {} /\ rec = NewCase
  /\ pc = [p \in Actors |-> "idle"] /\ work = [p \in Actors |-> NoWork]
  /\ evaluations = 0 /\ attempts = <<>>
  /\ decided = [r \in 1..MaxEvaluations |-> NoDecision]
  /\ counted = {} /\ asked = {} /\ kept = {}

Goto(p, where) == pc' = [pc EXCEPT ![p] = where]

-----------------------------------------------------------------------------
(* evaluate.                                                               *)

\* The turn begins: whether the case has escalated is read (for /api/reply
\* only), then the snapshot with the HAS_SIGNAL edges; the signals are extracted.
Begin(p) ==
  /\ pc[p] = "idle" /\ evaluations < MaxEvaluations
  /\ evaluations' = evaluations + 1
  /\ \E observed \in SUBSET Signals, mode \in {"hybrid", "lexicon_fallback"} :
       work' = [work EXCEPT ![p] =
                  [NoWork EXCEPT !.req = evaluations + 1, !.observed = observed,
                                 !.mode = mode, !.edges = edges,
                                 !.turnOnly = p = Customer /\ rec.confirmed]]
  /\ Goto(p, "load")
  /\ UNCHANGED <<edges, rec, attempts, history>>

\* Mutant: an exclusion is for good.
NotPruned(excluded, observed) == excluded

\* prune_excluded_signals.
Pruned(excluded, observed) == excluded \ observed

\* load_case, and what evaluate derives from it.
LoadCase(p) ==
  /\ pc[p] = "load"
  /\ work' = [work EXCEPT
       ![p].attrs = [rec EXCEPT !.excluded = Pruned(rec.excluded, work[p].observed)],
       ![p].prior = work[p].edges \ rec.excluded]
  /\ Goto(p, "append")
  /\ UNCHANGED <<edges, rec, evaluations, attempts, history>>

NewSignals(w) == w.observed \ w.prior

\* append_case_signals; the write may be carried out and reported as failed.
AppendSignals(p) ==
  /\ pc[p] = "append"
  /\ edges' = edges \cup NewSignals(work[p])
  /\ \/ Goto(p, "decide")
     \/ Goto(p, "failed")
  /\ UNCHANGED <<rec, work, evaluations, attempts, history>>

Verdict(r, d) ==
  [req |-> r, kind |-> d.kind,
   kr |-> IF d.kind = "allowed" THEN d.kr ELSE NoResolution,
   evidence |-> IF d.kind = "allowed" THEN r ELSE 0]

\* The decision, from the turn alone once the case has escalated, and its record:
\* the attributes as they were read, with the verdict laid over them.
DecideAndRecord(p) ==
  LET w == work[p]
      accumulated == w.prior \cup w.observed
      basis == IF w.turnOnly THEN w.observed ELSE accumulated
  IN /\ pc[p] = "decide"
     /\ \E in \in Inputs, k \in Selectable(basis, accumulated, w.mode) :
          \E d \in Decisions(in, basis, accumulated, k) :
            /\ rec' = [w.attrs EXCEPT !.last = Verdict(w.req, d)]
            /\ work' = [work EXCEPT ![p].decision = d]
            /\ decided' = [decided EXCEPT ![w.req] = [kind |-> d.kind, kr |-> rec'.last.kr]]
     /\ \/ Goto(p, IF p = Customer THEN "reply" ELSE "answered")
        \/ Goto(p, "failed")
     /\ UNCHANGED <<edges, evaluations, attempts, counted, asked, kept>>

-----------------------------------------------------------------------------
(* The rest of a turn of the customer.                                     *)

\* second_stage_short_circuit: a product reference, adopted in hybrid mode only,
\* is confirmed to be foreign.
Discard(p) ==
  /\ pc[p] = "reply" /\ work[p].mode = "hybrid"
  /\ Goto(p, "demote")
  /\ UNCHANGED <<edges, rec, work, evaluations, attempts, history>>

\* Where a writer is once it has loaded the case.
Writing == [demote |-> "demote_write", ask |-> "ask_write", confirm |-> "confirm_write"]

\* Mutant: the signals of the discarded turn stay.
DemotedKeepingSignals(attrs, discarded) ==
  [attrs EXCEPT !.last = [NoVerdict EXCEPT !.kind = "out_of_scope", !.req = attrs.last.req]]

\* merge_out_of_scope_demotion_attributes.
Demoted(attrs, discarded) ==
  [attrs EXCEPT !.last = [NoVerdict EXCEPT !.kind = "out_of_scope", !.req = attrs.last.req],
                !.excluded = attrs.excluded \cup discarded]

\* The demotion, a question back and the confirmation of an escalation load the case ...
Load(p) ==
  /\ \E from \in DOMAIN Writing :
       /\ pc[p] = from
       /\ Goto(p, Writing[from])
  /\ work' = [work EXCEPT ![p].attrs = rec]
  /\ UNCHANGED <<edges, rec, evaluations, attempts, history>>

\* ... and write it back.  A demotion that fails is logged only.
WriteDemotion(p) ==
  /\ pc[p] = "demote_write"
  /\ rec' = Demoted(work[p].attrs, NewSignals(work[p]))
  /\ Goto(p, "withdrawn")
  /\ UNCHANGED <<edges, work, evaluations, attempts, history>>

DemotionFails(p) ==
  /\ pc[p] \in {"demote", "demote_write"}
  /\ Goto(p, "not_withdrawn")
  /\ UNCHANGED <<edges, rec, work, evaluations, attempts, history>>

\* An answer; or, once the case has escalated, word that it has.
ReplyAtOnce(p) ==
  /\ pc[p] = "reply"
  /\ \/ work[p].decision.kind = "allowed" /\ work[p].mode = "hybrid"
     \/ rec.confirmed
  /\ Goto(p, "answered")
  /\ UNCHANGED <<edges, rec, work, evaluations, attempts, history>>

\* A question back, where one may be asked; it is counted before it is sent.
ReplyAsking(p) ==
  /\ pc[p] = "reply" /\ ~rec.confirmed /\ work[p].mode = "hybrid"
  /\ Clarifiable(work[p].decision) \/ work[p].decision.hearing
  /\ Goto(p, "ask")
  /\ UNCHANGED <<edges, rec, work, evaluations, attempts, history>>

\* The escalation block; it is saved before it is sent.
ReplyEscalating(p) ==
  /\ pc[p] = "reply" /\ ~rec.confirmed
  /\ Goto(p, "confirm")
  /\ UNCHANGED <<edges, rec, work, evaluations, attempts, history>>

SaveState(p) ==
  /\ pc[p] \in {"ask_write", "confirm_write"}
  /\ rec' = IF pc[p] = "confirm_write" THEN [work[p].attrs EXCEPT !.confirmed = TRUE]
            ELSE work[p].attrs
  /\ \/ Goto(p, "answered")
     \/ Goto(p, "failed")
  /\ UNCHANGED <<edges, work, evaluations, attempts, history>>

\* A read or a write fails without effect.
Fail(p) ==
  /\ pc[p] \in {"load", "append", "decide", "reply", "ask", "ask_write",
               "confirm", "confirm_write"}
  /\ Goto(p, "failed")
  /\ UNCHANGED <<edges, rec, work, evaluations, attempts, history>>

\* The caller gets the answer, or an error.
Finish(p) ==
  LET o == work[p].observed IN
  /\ pc[p] \in {"answered", "failed", "withdrawn", "not_withdrawn"}
  /\ counted' = IF pc[p] = "answered" THEN counted \cup o ELSE counted
  /\ asked' = IF pc[p] = "answered" /\ p = Customer THEN asked \cup o ELSE asked
  /\ kept' = IF pc[p] = "withdrawn" THEN kept ELSE kept \cup o
  /\ Goto(p, "idle")
  /\ work' = [work EXCEPT ![p] = NoWork]
  /\ UNCHANGED <<edges, rec, evaluations, attempts, decided>>

-----------------------------------------------------------------------------
(* record_answer_attempt.                                                  *)

\* Mutant: any evaluation of the case will do.
LineageOfAnyRequest(r) == rec.last.kind = "allowed"

Lineage(r) == rec.last.req = r /\ rec.last.kind = "allowed"

\* verify_answer_lineage: the case's latest evaluation is the one the operator
\* names, and it allowed an answer.
VerifyLineage(p) ==
  /\ p \in Operators /\ pc[p] = "idle" /\ Len(attempts) < MaxAttempts
  /\ \E r \in 1..evaluations :
       /\ Lineage(r)
       /\ work' = [work EXCEPT ![p] = [NoWork EXCEPT !.req = r, !.attrs = rec]]
  /\ Goto(p, "attempt")
  /\ UNCHANGED <<edges, rec, evaluations, attempts, history>>

\* The node is written with the known resolution of the verdict that was read.
RecordAttempt(p) ==
  /\ pc[p] = "attempt" /\ Len(attempts) < MaxAttempts
  /\ attempts' = Append(attempts, [req |-> work[p].req, kr |-> work[p].attrs.last.kr,
                                   by |-> p, evidence |-> 0])
  /\ Goto(p, "evidence")
  /\ UNCHANGED <<edges, rec, work, evaluations, history>>

\* The case is loaded again, and its evidence keys become those of the attempt.
AppendEvidence(p) ==
  /\ pc[p] = "evidence"
  /\ \E i \in DOMAIN attempts :
       /\ attempts[i].by = p
       /\ \A j \in DOMAIN attempts : attempts[j].by = p => j <= i
       /\ attempts' = [attempts EXCEPT ![i].evidence = rec.last.evidence]
  /\ Goto(p, "idle")
  /\ work' = [work EXCEPT ![p] = NoWork]
  /\ UNCHANGED <<edges, rec, evaluations, history>>

AttemptFails(p) ==
  /\ pc[p] \in {"attempt", "evidence"}
  /\ Goto(p, "idle")
  /\ work' = [work EXCEPT ![p] = NoWork]
  /\ UNCHANGED <<edges, rec, evaluations, attempts, history>>

-----------------------------------------------------------------------------
Step(p) ==
  \/ LoadCase(p) \/ AppendSignals(p) \/ DecideAndRecord(p)
  \/ Discard(p) \/ Load(p) \/ WriteDemotion(p) \/ DemotionFails(p)
  \/ ReplyAtOnce(p) \/ ReplyAsking(p) \/ ReplyEscalating(p) \/ SaveState(p)
  \/ Fail(p) \/ Finish(p)
  \/ RecordAttempt(p) \/ AppendEvidence(p) \/ AttemptFails(p)

\* The callers' contract: one of them at a time.
Alone == \A p \in Actors : pc[p] = "idle"

Next == \E p \in Actors : Step(p) \/ (Alone /\ (Begin(p) \/ VerifyLineage(p)))

Spec == Init /\ [][Next]_vars

SpecConcurrent == Init /\ [][\E p \in Actors : Step(p) \/ Begin(p) \/ VerifyLineage(p)]_vars

-----------------------------------------------------------------------------
\* Only a verdict that allows an answer names one, and what it rests on.
Verdicts ==
  {v \in [req : Requests, kind : {"none", "allowed", "escalate", "out_of_scope"},
          kr : Resolutions \cup {NoResolution}, evidence : Requests] :
     v.kind # "allowed" => v.kr = NoResolution /\ v.evidence = 0}
Attrs == [excluded : SUBSET Signals, last : Verdicts, confirmed : BOOLEAN]
Work == [req : Requests, observed : SUBSET Signals, mode : {"hybrid", "lexicon_fallback"},
         turnOnly : BOOLEAN, edges : SUBSET Signals, attrs : Attrs,
         prior : SUBSET Signals, decision : Decision]
Places == {"idle", "load", "append", "decide", "reply", "demote", "demote_write",
           "ask", "ask_write", "confirm", "confirm_write", "withdrawn", "not_withdrawn", "answered",
           "failed", "attempt", "evidence"}

TypeOK ==
  /\ edges \subseteq Signals /\ rec \in Attrs
  /\ pc \in [Actors -> Places] /\ work \in [Actors -> Work]
  /\ evaluations \in Requests
  /\ decided \in [1..MaxEvaluations -> [kind : {"none", "allowed", "escalate"},
                                        kr : Resolutions \cup {NoResolution}]]
  /\ attempts \in Seq([req : Requests, kr : Resolutions \cup {NoResolution},
                       by : Operators, evidence : Requests])
  /\ Len(attempts) <= MaxAttempts
  /\ counted \subseteq Signals /\ asked \subseteq Signals /\ kept \subseteq Signals

\* A signal seen in a turn that was answered in scope counts from then on, also
\* when it was excluded with an earlier turn and when turns fail or are withdrawn
\* afterwards (the reason for prune_excluded_signals).
InScopeSignalsCount == counted \subseteq Accumulated

\* The signals of a withdrawn turn leave no trace: what counts was seen in some
\* other turn, or in one still under way.
WithdrawnSignalsDoNot == Alone => Accumulated \subseteq kept

\* A customer whose messages, taken together, call for a human, by a mandatory
\* rule or a prohibited domain, has been handed over, in whatever order and
\* however many turns the signals came.
StopSignalsEscalate == Alone /\ Stops(asked) => rec.confirmed

\* No prepared answer is given in a case with a hazard, not even once it has
\* escalated and the other decisions look at the turn alone.
HazardBlocksKnownResolution ==
  \A p \in Actors :
    pc[p] \in {"reply", "answered"} /\ work[p].decision.kr # NoResolution
      => counted \cap Hazards = {}

\* An attempt rests on an evaluation that allowed it, and bears that evaluation's
\* known resolution and evidence.
AttemptsFollowTheirEvaluation ==
  \A i \in DOMAIN attempts :
    LET a == attempts[i] IN
    /\ decided[a.req] = [kind |-> "allowed", kr |-> a.kr]
    /\ a.evidence \in {0, a.req}

-----------------------------------------------------------------------------
(* What one caller at a time can rely on, and the inductive invariant.     *)

OneAtATime == \A p, q \in Actors : pc[p] # "idle" /\ pc[q] # "idle" => p = q

\* Where the verdict of a turn is recorded, and the turn not yet withdrawn.
Decided == {"reply", "demote", "demote_write", "ask", "ask_write",
            "confirm", "confirm_write", "not_withdrawn", "answered"}

\* The case is as the caller has read it.
CopiesAreCurrent ==
  \A p \in Actors :
    /\ pc[p] = "load" => work[p].edges = edges
    /\ pc[p] \in {"append", "decide"} =>
         work[p].attrs = [rec EXCEPT !.excluded = Pruned(rec.excluded, work[p].observed)]
    /\ pc[p] \in {"demote_write", "ask_write", "confirm_write", "attempt", "evidence"} =>
         work[p].attrs = rec

\* What counted before the turn stays apart from what the turn adds, so that the
\* turn can be withdrawn again.
TurnsStayApart ==
  \A p \in Actors :
    LET prior == work[p].prior
        observed == work[p].observed
    IN /\ pc[p] \in {"append", "decide", "withdrawn"} \cup Decided =>
            /\ counted \subseteq prior /\ prior \subseteq kept
            /\ prior \subseteq Accumulated
       /\ pc[p] \in {"load", "attempt", "evidence"} => Accumulated \subseteq kept
       /\ pc[p] \in {"append", "withdrawn"} => Accumulated \subseteq prior
       /\ pc[p] = "decide" \/ pc[p] \in Decided => observed \subseteq edges
       /\ pc[p] \in Decided => observed \cap rec.excluded = {}
       /\ pc[p] = "decide" \/ pc[p] \in Decided => Accumulated \subseteq prior \cup observed
       /\ pc[p] = "failed" => Accumulated \subseteq kept \cup observed

\* A turn that calls for a human can only be answered by handing over.
StopsAreHeeded ==
  LET w == work[Customer]
      where == pc[Customer]
  IN /\ asked \subseteq counted
     /\ Stops(asked) => rec.confirmed
     /\ w.turnOnly => rec.confirmed
     /\ Stops(asked \cup w.observed) /\ ~rec.confirmed =>
          /\ where = "reply" => w.decision.kind = "escalate" /\ ~Clarifiable(w.decision)
                                /\ ~w.decision.hearing
          /\ where \notin {"ask", "ask_write", "answered"}

HazardsBlock ==
  \A p \in Actors :
    pc[p] \in Decided /\ work[p].decision.kr # NoResolution =>
      (work[p].prior \cup work[p].observed) \cap Hazards = {}

\* The recorded verdict is that of a finished evaluation, and of the one an
\* attempt is being made on.
VerdictStands ==
  /\ rec.last.req <= evaluations
  /\ rec.last.kind = "allowed" =>
       /\ rec.last.req > 0 /\ rec.last.evidence = rec.last.req
       /\ decided[rec.last.req] = [kind |-> "allowed", kr |-> rec.last.kr]
  /\ \A i \in DOMAIN attempts : attempts[i].req \in 1..evaluations
  /\ \A p \in Actors :
       /\ pc[p] \in {"load", "append", "decide"} =>
            /\ work[p].req = evaluations /\ rec.last.req < evaluations
            /\ \A i \in DOMAIN attempts : attempts[i].req < evaluations
       /\ pc[p] \in {"attempt", "evidence"} =>
            p \in Operators /\ rec.last.kind = "allowed" /\ rec.last.req = work[p].req
       /\ pc[p] = "evidence" =>
            /\ attempts # <<>>
            /\ attempts[Len(attempts)].by = p /\ attempts[Len(attempts)].req = work[p].req

IndInv ==
  /\ TypeOK /\ OneAtATime /\ CopiesAreCurrent /\ TurnsStayApart
  /\ InScopeSignalsCount /\ WithdrawnSignalsDoNot /\ StopsAreHeeded /\ HazardsBlock
  /\ VerdictStands /\ AttemptsFollowTheirEvaluation
=============================================================================

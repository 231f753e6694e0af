------------------------ MODULE CaseEvaluationProofs ------------------------
(***************************************************************************)
(* What CaseEvaluation promises of the signals, the decisions and the      *)
(* attempts of a case, for any signals, rules, domains, known resolutions, *)
(* thresholds and operators, while its callers come one at a time.         *)
(***************************************************************************)
EXTENDS CaseEvaluation, TLAPS

(* The operators of AnswerDecision.                                        *)

\* select_known_resolution chooses nothing while there is a hazard in the case.
LEMMA SelectableType ==
  ASSUME NEW S, NEW accumulated, NEW mode, NEW k \in Selectable(S, accumulated, mode)
  PROVE  /\ k \in Resolutions \cup {NoResolution}
         /\ accumulated \cap Hazards # {} => k = NoResolution
BY DEF Selectable, Candidates

LEMMA ByRuleType ==
  ASSUME NEW r \in Rules, NEW missing \in BOOLEAN, NEW k \in Resolutions \cup {NoResolution}
  PROVE  /\ ByRule(r, missing, k) \in Decision
         /\ ByRule(r, missing, k).kr = k
         /\ ByRule(r, missing, k).kind = "escalate"
         /\ ByRule(r, missing, k).layer = 1
         /\ ByRule(r, missing, k).missing = missing
         /\ r.mandatory => ByRule(r, missing, k).hearing = FALSE
<1>1. r.hearing \in BOOLEAN /\ r.mandatory \in BOOLEAN
  BY SignalsAssumption
<1>2. PICK h \in BOOLEAN : h = (r.hearing /\ ~r.mandatory)
  BY <1>1
<1>3. ByRule(r, missing, k) = [Escalate(1, "rule", missing) EXCEPT !.hearing = h, !.kr = k]
  BY <1>2, Zenon DEF ByRule
<1>4. ByRule(r, missing, k) =
        [kind |-> "escalate", layer |-> 1, reason |-> "rule", missing |-> missing,
         hearing |-> h, kr |-> k]
  BY <1>3 DEF Escalate
<1>5. r.mandatory => h = FALSE
  BY <1>2
<1> QED BY <1>4, <1>5 DEF Decision, Reasons

LEMMA EscalateType ==
  ASSUME NEW layer \in 0..3, NEW reason \in Reasons, NEW missing \in BOOLEAN
  PROVE  /\ Escalate(layer, reason, missing) \in Decision
         /\ Escalate(layer, reason, missing).kr = NoResolution
         /\ Escalate(layer, reason, missing).kind = "escalate"
         /\ Escalate(layer, reason, missing).layer = layer
         /\ Escalate(layer, reason, missing).hearing = FALSE
         /\ Escalate(layer, reason, missing).missing = missing
BY DEF Escalate, Decision

LEMMA AllowedType ==
  ASSUME NEW k \in Resolutions \cup {NoResolution}
  PROVE  Allowed(k) \in Decision /\ Allowed(k).kr = k /\ Allowed(k).kind = "allowed"
BY DEF Allowed, Decision

\* A decision is made with the known resolution that was chosen, or with none.
LEMMA DecisionsType ==
  ASSUME NEW in, NEW S, NEW accumulated,
         NEW k \in Resolutions \cup {NoResolution},
         NEW d \in Decisions(in, S, accumulated, k)
  PROVE  d \in Decision /\ d.kr \in {k, NoResolution}
<1> DEFINE insufficient == in.score < Threshold(in, accumulated)
<1>1. CASE Mandatory(S) # {}
  <2>1. PICK r \in Mandatory(S) : d = ByRule(r, FALSE, NoResolution)
    BY <1>1 DEF Decisions
  <2>2. r \in Rules
    BY DEF Mandatory, Matching
  <2> QED BY <2>1, <2>2, ByRuleType
<1>2. CASE Mandatory(S) = {} /\ Near(Domains, S, in.text)
  <2>1. d = Escalate(2, "domain", FALSE)
    BY <1>2 DEF Decisions
  <2> QED BY <2>1 DEF Escalate, Decision, Reasons
<1>3. CASE Mandatory(S) = {} /\ ~Near(Domains, S, in.text) /\ Advisory(S) # {}
  <2>1. PICK r \in Advisory(S) : d = ByRule(r, insufficient, k)
    BY <1>3 DEF Decisions
  <2>2. r \in Rules /\ insufficient \in BOOLEAN
    BY DEF Advisory, Matching
  <2> HIDE DEF insufficient
  <2> QED BY <2>1, <2>2, ByRuleType
<1>4. CASE Mandatory(S) = {} /\ ~Near(Domains, S, in.text) /\ Advisory(S) = {}
  <2>1. \/ d = Escalate(3, "product_unidentified", FALSE)
        \/ d = Allowed(k) \/ d = Allowed(NoResolution)
        \/ d = Escalate(3, "added_signal", TRUE) \/ d = Escalate(3, "indirect", TRUE)
    BY <1>4 DEF Decisions
  <2>2. ASSUME NEW reason \in Reasons, NEW missing \in BOOLEAN, d = Escalate(3, reason, missing)
        PROVE  d \in Decision /\ d.kr = NoResolution
    BY <2>2 DEF Escalate, Decision
  <2>3. ASSUME NEW j \in {k, NoResolution}, d = Allowed(j)
        PROVE  d \in Decision /\ d.kr = j
    BY <2>3, AllowedType
  <2> QED BY <2>1, <2>2, <2>3 DEF Reasons
<1> QED BY <1>1, <1>2, <1>3, <1>4

\* Signals that call for a human leave the decision no other way: no answer, no
\* question back and no hearing.
LEMMA StopsDecide ==
  ASSUME NEW in, NEW S, NEW T \in SUBSET S, NEW accumulated,
         NEW k \in Resolutions \cup {NoResolution},
         NEW d \in Decisions(in, S, accumulated, k),
         Stops(T)
  PROVE  d.kind = "escalate" /\ ~Clarifiable(d) /\ ~d.hearing
<1>1. CASE Mandatory(S) # {}
  <2>1. PICK r \in Mandatory(S) : d = ByRule(r, FALSE, NoResolution)
    BY <1>1 DEF Decisions
  <2>2. r \in Rules /\ r.mandatory
    BY DEF Mandatory, Matching
  <2>3. d.kind = "escalate" /\ d.layer = 1 /\ d.missing = FALSE /\ d.hearing = FALSE
    <3>1. FALSE \in BOOLEAN /\ NoResolution \in Resolutions \cup {NoResolution}
      OBVIOUS
    <3> QED BY <2>1, <2>2, <3>1, ByRuleType, Zenon
  <2> QED BY <2>3 DEF Clarifiable
<1>2. CASE Mandatory(S) = {}
  <2>1. Mandatory(T) = {}
    BY <1>2 DEF Mandatory, Matching
  <2>2. Near(Domains, S, in.text)
    BY <2>1 DEF Stops, Near
  <2>3. d = Escalate(2, "domain", FALSE)
    BY <1>2, <2>2 DEF Decisions
  <2>4. d.kind = "escalate" /\ d.layer = 2 /\ d.hearing = FALSE
    BY <2>3 DEF Escalate
  <2> QED BY <2>4 DEF Clarifiable
<1> QED BY <1>1, <1>2

-----------------------------------------------------------------------------
(* Everybody but the caller under way is idle, and the invariant says of    *)
(* them nothing but the types of what they hold.                            *)

\* While p is under way the others are idle, before and after its step.
LEMMA OthersAreIdle ==
  ASSUME IndInv, NEW p \in Actors, pc[p] # "idle",
         NEW where, pc' = [pc EXCEPT ![p] = where]
  PROVE  /\ pc'[p] = where
         /\ \A q \in Actors : q # p => pc[q] = "idle" /\ pc'[q] = "idle"
         /\ OneAtATime'
         /\ where # "idle" => ~Alone'
BY DEF IndInv, TypeOK, OneAtATime, Alone

\* The caller only goes on: to a failure, to the next writer of its turn, or to
\* its answer, where the decision and the record allow it.
LEMMA GoesOnIndInv ==
  ASSUME IndInv, NEW p \in Actors, NEW where, Goto(p, where),
         UNCHANGED <<edges, rec, work, evaluations, attempts, history>>,
         \/ where = "failed" /\ pc[p] \in {"load", "append", "decide"} \cup Decided
         \/ where = "demote" /\ pc[p] = "reply"
         \/ where = "not_withdrawn" /\ pc[p] \in {"demote", "demote_write"}
         \/ where = "confirm" /\ pc[p] = "reply"
         \/ where = "ask" /\ pc[p] = "reply" /\ (Clarifiable(work[p].decision) \/ work[p].decision.hearing)
                          /\ ~rec.confirmed
         \/ where = "answered" /\ pc[p] = "reply"
                               /\ (work[p].decision.kind = "allowed" \/ rec.confirmed)
  PROVE  IndInv'
<1>1. pc[p] # "idle" /\ where # "idle" /\ where \in Places /\ pc' = [pc EXCEPT ![p] = where]
  BY DEF Goto, Decided, Places
<1>2. /\ pc'[p] = where /\ OneAtATime' /\ ~Alone'
      /\ \A q \in Actors : q # p => pc[q] = "idle" /\ pc'[q] = "idle"
  BY <1>1, OthersAreIdle
<1>3. TypeOK'
  BY <1>1 DEF IndInv, TypeOK, history
<1>4. CopiesAreCurrent'
  BY <1>2 DEF IndInv, CopiesAreCurrent, history, Decided
<1>5. TurnsStayApart'
  BY <1>2 DEF IndInv, TurnsStayApart, history, Decided, Accumulated
<1>6. StopsAreHeeded'
  BY <1>2 DEF IndInv, StopsAreHeeded, history, Actors
<1>7. HazardsBlock'
  BY <1>2 DEF IndInv, HazardsBlock, history, Decided
<1>8. VerdictStands'
  BY <1>2 DEF IndInv, VerdictStands, history, Decided
<1>9. InScopeSignalsCount' /\ WithdrawnSignalsDoNot' /\ AttemptsFollowTheirEvaluation'
  BY <1>2 DEF IndInv, InScopeSignalsCount, WithdrawnSignalsDoNot, AttemptsFollowTheirEvaluation,
              history, Accumulated
<1> QED BY <1>2, <1>3, <1>4, <1>5, <1>6, <1>7, <1>8, <1>9 DEF IndInv

\* What a caller starts with.
LEMMA NoWorkType ==
  /\ NoWork \in Work /\ NoWork.observed = {} /\ NoWork.turnOnly = FALSE
  /\ NewCase \in Attrs /\ NewCase.excluded = {} /\ NewCase.last = NoVerdict
  /\ NewCase.confirmed = FALSE
<1>1. NoVerdict \in Verdicts
  BY BoundsAssumption DEF NoVerdict, Verdicts, Requests
<1>2. NewCase \in Attrs
  BY <1>1 DEF NewCase, Attrs
<1>3. Allowed(NoResolution) \in Decision
  BY AllowedType
<1>4. NoWork \in Work
  BY <1>2, <1>3, BoundsAssumption DEF NoWork, Work, Requests
<1> QED BY <1>2, <1>4 DEF NoWork, NewCase

LEMMA InitIndInv == Init => IndInv
<1> SUFFICES ASSUME Init PROVE IndInv
  OBVIOUS
<1> USE DEF Init
<1>1. TypeOK
  <2>1. decided \in [1..MaxEvaluations -> [kind : {"none", "allowed", "escalate"},
                                          kr : Resolutions \cup {NoResolution}]]
    BY DEF NoDecision
  <2> QED BY NoWorkType, <2>1, BoundsAssumption DEF TypeOK, Places, Requests
<1>2. ~Stops({})
  BY DEF Stops, Mandatory, Matching, Near
<1>3. OneAtATime /\ CopiesAreCurrent /\ TurnsStayApart /\ HazardsBlock
  BY DEF OneAtATime, CopiesAreCurrent, TurnsStayApart, HazardsBlock, Decided
<1>4. InScopeSignalsCount /\ WithdrawnSignalsDoNot /\ AttemptsFollowTheirEvaluation
  BY DEF InScopeSignalsCount, WithdrawnSignalsDoNot, AttemptsFollowTheirEvaluation, Accumulated
<1>5. StopsAreHeeded
  BY NoWorkType, <1>2 DEF StopsAreHeeded, Actors
<1>6. VerdictStands
  BY NoWorkType DEF VerdictStands, NoVerdict
<1> QED BY <1>1, <1>3, <1>4, <1>5, <1>6 DEF IndInv

LEMMA BeginIndInv ==
  ASSUME IndInv, NEW p \in Actors, Alone, Begin(p)
  PROVE  IndInv'
<1>1. PICK observed \in SUBSET Signals, mode \in {"hybrid", "lexicon_fallback"} :
        work' = [work EXCEPT ![p] =
                  [NoWork EXCEPT !.req = evaluations + 1, !.observed = observed,
                                 !.mode = mode, !.edges = edges,
                                 !.turnOnly = p = Customer /\ rec.confirmed]]
  BY DEF Begin
<1>2. /\ pc' = [pc EXCEPT ![p] = "load"] /\ evaluations' = evaluations + 1
      /\ evaluations < MaxEvaluations /\ evaluations \in Nat
      /\ UNCHANGED <<edges, rec, attempts, history>>
  BY BoundsAssumption DEF Begin, Goto, IndInv, TypeOK, Requests
<1> DEFINE w == [NoWork EXCEPT !.req = evaluations + 1, !.observed = observed,
                               !.mode = mode, !.edges = edges,
                               !.turnOnly = p = Customer /\ rec.confirmed]
<1>3. PICK turnOnly \in BOOLEAN : turnOnly = (p = Customer /\ rec.confirmed)
  OBVIOUS
<1>4. w = [NoWork EXCEPT !.req = evaluations + 1, !.observed = observed,
                         !.mode = mode, !.edges = edges, !.turnOnly = turnOnly]
  BY <1>3, Zenon
<1> HIDE DEF w
<1>5. /\ w \in Work /\ w.req = evaluations + 1 /\ w.observed = observed /\ w.edges = edges
      /\ w.turnOnly = turnOnly
  <2>1. PICK req \in Requests : req = evaluations + 1
    BY <1>2, BoundsAssumption DEF Requests
  <2>2. edges \in SUBSET Signals
    BY DEF IndInv, TypeOK
  <2>3. w = [NoWork EXCEPT !.req = req, !.observed = observed, !.mode = mode, !.edges = edges,
                           !.turnOnly = turnOnly]
    BY <1>4, <2>1, Zenon
  <2>4. mode \in {"hybrid", "lexicon_fallback"} /\ turnOnly \in BOOLEAN
         /\ observed \in SUBSET Signals
    OBVIOUS
  <2>5. /\ w \in Work
        /\ w.req = req /\ w.observed = observed /\ w.edges = edges /\ w.turnOnly = turnOnly
    <3>1. w \in Work
      BY <2>1, <2>2, <2>3, <2>4, NoWorkType DEF Work
    <3>2. w.req = req /\ w.observed = observed /\ w.edges = edges
      BY <2>3, NoWorkType DEF Work
    <3>3. w.turnOnly = turnOnly
      BY <2>3, <2>4, NoWorkType DEF Work
    <3> QED BY <3>1, <3>2, <3>3, Zenon
  <2> QED BY <2>1, <2>5, Zenon
<1>6. /\ work'[p] = w /\ pc'[p] = "load"
      /\ \A q \in Actors : q # p => work'[q] = work[q] /\ pc'[q] = "idle"
  BY <1>1, <1>2 DEF w, Alone, IndInv, TypeOK
<1>7. TypeOK'
  <2>1. work' \in [Actors -> Work]
    BY <1>1, <1>5 DEF w, IndInv, TypeOK
  <2>2. evaluations' \in Requests
    BY <1>2, BoundsAssumption DEF Requests
  <2>3. pc' \in [Actors -> Places]
    BY <1>2 DEF IndInv, TypeOK, Places
  <2> QED BY <1>2, <2>1, <2>2, <2>3 DEF IndInv, TypeOK, history
<1>8. OneAtATime' /\ CopiesAreCurrent'
  BY <1>2, <1>5, <1>6 DEF OneAtATime, CopiesAreCurrent
<1>9. TurnsStayApart' /\ HazardsBlock'
  BY <1>2, <1>6 DEF IndInv, TurnsStayApart, HazardsBlock, Decided, WithdrawnSignalsDoNot,
                    Accumulated, history
<1>10. StopsAreHeeded'
  <2>1. work'[Customer].turnOnly => rec.confirmed
    <3>1. CASE p = Customer
      <4>1. work'[Customer].turnOnly = turnOnly
        BY <1>5, <1>6, <3>1
      <4> QED BY <1>3, <3>1, <4>1, Zenon
    <3>2. CASE p # Customer
      BY <1>6, <3>2 DEF IndInv, StopsAreHeeded, Actors
    <3> QED BY <3>1, <3>2
  <2>2. pc'[Customer] \in {"idle", "load"}
    BY <1>6 DEF Actors
  <2> QED BY <1>2, <2>1, <2>2 DEF IndInv, StopsAreHeeded, history
<1>11. VerdictStands'
  <2>1. \A i \in DOMAIN attempts : attempts[i].req \in 1..evaluations
    BY DEF IndInv, VerdictStands
  <2> QED BY <1>2, <1>5, <1>6, <2>1 DEF IndInv, VerdictStands, TypeOK, Attrs, Verdicts, Requests, history
<1>12. InScopeSignalsCount' /\ WithdrawnSignalsDoNot' /\ AttemptsFollowTheirEvaluation'
  BY <1>2, <1>6 DEF IndInv, InScopeSignalsCount, WithdrawnSignalsDoNot, Accumulated,
                    AttemptsFollowTheirEvaluation, Alone, history
<1> QED BY <1>7, <1>8, <1>9, <1>10, <1>11, <1>12 DEF IndInv

LEMMA LoadCaseIndInv ==
  ASSUME IndInv, NEW p \in Actors, LoadCase(p)
  PROVE  IndInv'
<1> DEFINE attrs == [rec EXCEPT !.excluded = Pruned(rec.excluded, work[p].observed)]
<1>1. /\ pc[p] = "load" /\ pc' = [pc EXCEPT ![p] = "append"]
      /\ work' = [work EXCEPT ![p].attrs = attrs, ![p].prior = work[p].edges \ rec.excluded]
      /\ UNCHANGED <<edges, rec, evaluations, attempts, history>>
  BY DEF LoadCase, Goto
<1>2. /\ pc'[p] = "append" /\ OneAtATime' /\ ~Alone'
      /\ \A q \in Actors : q # p => pc[q] = "idle" /\ pc'[q] = "idle"
  BY <1>1, OthersAreIdle
<1>3. work[p] \in Work /\ work[p].edges = edges
  BY <1>1 DEF IndInv, TypeOK, CopiesAreCurrent
<1>4. attrs \in Attrs
  BY <1>3 DEF IndInv, TypeOK, Attrs, Work, Pruned
<1> HIDE DEF attrs
<1>5. /\ work'[p] \in Work /\ work'[p].attrs = attrs /\ work'[p].prior = Accumulated
      /\ work'[p].observed = work[p].observed /\ work'[p].req = work[p].req
      /\ work' \in [Actors -> Work] /\ \A q \in Actors : q # p => work'[q] = work[q]
  BY <1>1, <1>3, <1>4 DEF IndInv, TypeOK, Work, Accumulated
<1>6. TypeOK'
  <2>1. pc' \in [Actors -> Places]
    BY <1>1 DEF IndInv, TypeOK, Places
  <2> QED BY <1>1, <1>5, <2>1 DEF IndInv, TypeOK, history
<1>7. CopiesAreCurrent'
  BY <1>1, <1>2, <1>5 DEF CopiesAreCurrent, attrs
<1>8. TurnsStayApart'
  BY <1>1, <1>2, <1>5 DEF IndInv, TurnsStayApart, InScopeSignalsCount, Decided, Accumulated, history
<1>9. StopsAreHeeded'
  <2>1. work'[Customer].turnOnly = work[Customer].turnOnly
    BY <1>1, <1>3, <1>5 DEF Work, IndInv, TypeOK, Actors
  <2>2. work'[Customer].turnOnly => rec.confirmed
    BY <2>1, Zenon DEF IndInv, StopsAreHeeded
  <2>3. pc'[Customer] \in {"append", "idle"}
    BY <1>2 DEF Actors
  <2> QED BY <1>1, <2>2, <2>3 DEF IndInv, StopsAreHeeded, history
<1>10. HazardsBlock'
  BY <1>2 DEF HazardsBlock, Decided
<1>11. VerdictStands'
  BY <1>1, <1>2, <1>5 DEF IndInv, VerdictStands, history
<1>12. InScopeSignalsCount' /\ WithdrawnSignalsDoNot' /\ AttemptsFollowTheirEvaluation'
  BY <1>1, <1>2 DEF IndInv, InScopeSignalsCount, WithdrawnSignalsDoNot, Accumulated,
                    AttemptsFollowTheirEvaluation, history
<1> QED BY <1>2, <1>6, <1>7, <1>8, <1>9, <1>10, <1>11, <1>12 DEF IndInv

LEMMA AppendSignalsIndInv ==
  ASSUME IndInv, NEW p \in Actors, AppendSignals(p)
  PROVE  IndInv'
<1>1. PICK where \in {"decide", "failed"} : pc' = [pc EXCEPT ![p] = where]
  BY DEF AppendSignals, Goto
<1>2. /\ pc[p] = "append" /\ edges' = edges \cup (work[p].observed \ work[p].prior)
      /\ UNCHANGED <<rec, work, evaluations, attempts, history>>
  BY DEF AppendSignals, NewSignals
<1>3. /\ pc'[p] = where /\ OneAtATime' /\ ~Alone'
      /\ \A q \in Actors : q # p => pc[q] = "idle" /\ pc'[q] = "idle"
  BY <1>1, <1>2, OthersAreIdle
<1>4. work[p] \in Work
  BY DEF IndInv, TypeOK
<1>5. TypeOK'
  <2>1. pc' \in [Actors -> Places]
    BY <1>1 DEF IndInv, TypeOK, Places
  <2>2. edges' \subseteq Signals
    BY <1>2, <1>4 DEF IndInv, TypeOK, Work
  <2> QED BY <1>2, <2>1, <2>2 DEF IndInv, TypeOK, history
<1>6. CopiesAreCurrent'
  BY <1>2, <1>3 DEF IndInv, CopiesAreCurrent
<1>7. TurnsStayApart'
  BY <1>2, <1>3 DEF IndInv, TurnsStayApart, Decided, Accumulated, history
<1>8. StopsAreHeeded'
  BY <1>2, <1>3 DEF IndInv, StopsAreHeeded, history, Actors
<1>9. HazardsBlock'
  BY <1>3 DEF HazardsBlock, Decided
<1>10. VerdictStands'
  BY <1>2, <1>3 DEF IndInv, VerdictStands, history
<1>11. InScopeSignalsCount' /\ WithdrawnSignalsDoNot' /\ AttemptsFollowTheirEvaluation'
  BY <1>2, <1>3 DEF IndInv, InScopeSignalsCount, WithdrawnSignalsDoNot, Accumulated,
                    AttemptsFollowTheirEvaluation, history
<1> QED BY <1>3, <1>5, <1>6, <1>7, <1>8, <1>9, <1>10, <1>11 DEF IndInv

\* The verdict of a decision, and that it is one.
LEMMA VerdictType ==
  ASSUME NEW r \in Requests, NEW d \in Decision
  PROVE  /\ Verdict(r, d) \in Verdicts /\ Verdict(r, d).req = r /\ Verdict(r, d).kind = d.kind
         /\ Verdict(r, d).kind = "allowed" => Verdict(r, d).kr = d.kr /\ Verdict(r, d).evidence = r
BY BoundsAssumption DEF Verdict, Verdicts, Decision, Requests

LEMMA DecideAndRecordIndInv ==
  ASSUME IndInv, NEW p \in Actors, DecideAndRecord(p)
  PROVE  IndInv'
<1> DEFINE w == work[p]
           accumulated == w.prior \cup w.observed
           basis == IF w.turnOnly THEN w.observed ELSE accumulated
<1>1. PICK in \in Inputs, k \in Selectable(basis, accumulated, w.mode) :
        \E d \in Decisions(in, basis, accumulated, k) :
            /\ rec' = [w.attrs EXCEPT !.last = Verdict(w.req, d)]
            /\ work' = [work EXCEPT ![p].decision = d]
            /\ decided' = [decided EXCEPT ![w.req] = [kind |-> d.kind, kr |-> rec'.last.kr]]
  BY DEF DecideAndRecord
<1>2. PICK d \in Decisions(in, basis, accumulated, k) :
            /\ rec' = [w.attrs EXCEPT !.last = Verdict(w.req, d)]
            /\ work' = [work EXCEPT ![p].decision = d]
            /\ decided' = [decided EXCEPT ![w.req] = [kind |-> d.kind, kr |-> rec'.last.kr]]
  BY <1>1
<1>3. PICK where \in {"reply", "answered", "failed"} :
        pc' = [pc EXCEPT ![p] = where] /\ (p = Customer => where # "answered")
  BY DEF DecideAndRecord, Goto
<1>4. pc[p] = "decide" /\ UNCHANGED <<edges, evaluations, attempts, counted, asked, kept>>
  BY DEF DecideAndRecord
<1>5. /\ pc'[p] = where /\ OneAtATime' /\ ~Alone'
      /\ \A q \in Actors : q # p => pc[q] = "idle" /\ pc'[q] = "idle"
  BY <1>3, <1>4, OthersAreIdle
<1>6. /\ w \in Work /\ rec \in Attrs /\ w.req = evaluations /\ rec.last.req < evaluations
      /\ evaluations \in 1..MaxEvaluations
      /\ w.attrs = [rec EXCEPT !.excluded = rec.excluded \ w.observed]
  <2>1. rec.last.req \in Nat
    BY BoundsAssumption DEF IndInv, TypeOK, Attrs, Verdicts, Requests
  <2> QED BY <1>4, <2>1, BoundsAssumption
          DEF IndInv, TypeOK, CopiesAreCurrent, VerdictStands, Pruned, Requests
<1>7. /\ k \in Resolutions \cup {NoResolution}
      /\ accumulated \cap Hazards # {} => k = NoResolution
  BY SelectableType
<1>8. d \in Decision /\ d.kr \in {k, NoResolution}
  BY <1>7, DecisionsType
<1>9. /\ rec' \in Attrs /\ rec'.last = Verdict(w.req, d)
      /\ rec'.excluded = rec.excluded \ w.observed /\ rec'.confirmed = rec.confirmed
  <2>1. Verdict(w.req, d) \in Verdicts
    BY <1>6, <1>8, VerdictType DEF Requests
  <2> QED BY <1>2, <1>6, <2>1 DEF Attrs, Work
<1>10. /\ work' \in [Actors -> Work] /\ work'[p].decision = d
       /\ work'[p].prior = w.prior /\ work'[p].observed = w.observed /\ work'[p].req = w.req
       /\ \A q \in Actors : q # p => work'[q] = work[q]
  BY <1>2, <1>8 DEF IndInv, TypeOK, Work
<1>11. /\ rec'.last.req = evaluations /\ rec'.last.kind = d.kind
       /\ rec'.last.kind = "allowed" => rec'.last.kr = d.kr /\ rec'.last.evidence = evaluations
       /\ rec'.last.kr \in Resolutions \cup {NoResolution}
  BY <1>6, <1>8, <1>9, VerdictType DEF Requests, Attrs, Verdicts
<1>12. /\ decided'[evaluations] = [kind |-> d.kind, kr |-> rec'.last.kr]
       /\ \A r \in 1..MaxEvaluations : r # evaluations => decided'[r] = decided[r]
       /\ decided' \in [1..MaxEvaluations -> [kind : {"none", "allowed", "escalate"},
                                              kr : Resolutions \cup {NoResolution}]]
  <2>1. [kind |-> d.kind, kr |-> rec'.last.kr] \in
          [kind : {"none", "allowed", "escalate"}, kr : Resolutions \cup {NoResolution}]
    BY <1>8, <1>11 DEF Decision
  <2> QED BY <1>2, <1>6, <2>1 DEF IndInv, TypeOK
<1> HIDE DEF w, basis, accumulated
<1>13. TypeOK'
  <2>1. pc' \in [Actors -> Places]
    BY <1>3 DEF IndInv, TypeOK, Places
  <2> QED BY <1>4, <1>9, <1>10, <1>12, <2>1 DEF IndInv, TypeOK
<1>14. CopiesAreCurrent'
  BY <1>5 DEF CopiesAreCurrent
<1>15. /\ counted \subseteq w.prior /\ w.prior \subseteq kept /\ w.prior \subseteq edges
       /\ w.observed \subseteq edges /\ Accumulated \subseteq w.prior \cup w.observed
       /\ w.prior \subseteq Accumulated'
       /\ Accumulated' \subseteq w.prior \cup w.observed
  BY <1>4, <1>9 DEF IndInv, TurnsStayApart, Accumulated, w
<1>16. TurnsStayApart'
  BY <1>4, <1>5, <1>9, <1>10, <1>15 DEF TurnsStayApart, Decided
<1>17. StopsAreHeeded'
  <2>1. asked \subseteq counted /\ (Stops(asked) => rec.confirmed)
    BY DEF IndInv, StopsAreHeeded
  <2>2. work'[Customer].turnOnly => rec.confirmed
    <3>1. work'[Customer].turnOnly = work[Customer].turnOnly
      BY <1>2, <1>10 DEF IndInv, TypeOK, Work, Actors
    <3> QED BY <3>1, Zenon DEF IndInv, StopsAreHeeded
  <2>3. ASSUME Stops(asked \cup work'[Customer].observed), ~rec.confirmed, pc'[Customer] = "reply"
        PROVE  d.kind = "escalate" /\ ~Clarifiable(d) /\ ~d.hearing /\ p = Customer
    <3>1. p = Customer
      BY <1>5, <2>3 DEF Actors
    <3>2. ~w.turnOnly
      BY <2>3, <3>1 DEF IndInv, StopsAreHeeded, w
    <3>3. basis = accumulated
      BY <3>2 DEF basis
    <3>4. asked \cup w.observed \subseteq basis
      BY <1>15, <2>1, <3>3 DEF accumulated
    <3>5. Stops(asked \cup w.observed)
      BY <1>10, <2>3, <3>1
    <3>6. d.kind = "escalate" /\ ~Clarifiable(d) /\ ~d.hearing
      BY <1>7, <3>4, <3>5, StopsDecide
    <3> QED BY <3>1, <3>6
  <2>4. pc'[Customer] \notin {"ask", "ask_write", "answered"}
    BY <1>3, <1>5 DEF Actors
  <2>5. work'[p].decision = d /\ rec'.confirmed = rec.confirmed
    BY <1>9, <1>10
  <2> QED BY <1>4, <2>1, <2>2, <2>3, <2>4, <2>5, Zenon DEF StopsAreHeeded
<1>18. HazardsBlock'
  <2>1. d.kr # NoResolution => (w.prior \cup w.observed) \cap Hazards = {}
    BY <1>7, <1>8 DEF accumulated
  <2> QED BY <1>5, <1>10, <2>1 DEF HazardsBlock, Decided
<1>19. VerdictStands'
  <2>1. \A i \in DOMAIN attempts : attempts[i].req \in 1..evaluations
    BY DEF IndInv, VerdictStands
  <2>2. rec'.last.kind = "allowed" =>
          /\ rec'.last.req > 0 /\ rec'.last.evidence = rec'.last.req
          /\ decided'[rec'.last.req] = [kind |-> "allowed", kr |-> rec'.last.kr]
    BY <1>6, <1>11, <1>12
  <2>3. rec'.last.req <= evaluations
    BY <1>6, <1>11
  <2> QED BY <1>4, <1>5, <2>1, <2>2, <2>3 DEF VerdictStands
<1>20. InScopeSignalsCount' /\ WithdrawnSignalsDoNot'
  BY <1>4, <1>5, <1>15 DEF InScopeSignalsCount, WithdrawnSignalsDoNot
<1>21. AttemptsFollowTheirEvaluation'
  <2>1. \A i \in DOMAIN attempts : attempts[i].req < evaluations /\ attempts[i].req \in 1..evaluations
    BY <1>4 DEF IndInv, VerdictStands
  <2>2. \A i \in DOMAIN attempts : decided'[attempts[i].req] = decided[attempts[i].req]
    <3>1. ASSUME NEW i \in DOMAIN attempts PROVE decided'[attempts[i].req] = decided[attempts[i].req]
      <4>1. attempts[i].req \in 1..MaxEvaluations /\ attempts[i].req # evaluations
        BY <1>6, <2>1, BoundsAssumption
      <4> QED BY <1>12, <4>1
    <3> QED BY <3>1
  <2> QED BY <1>4, <2>2 DEF IndInv, AttemptsFollowTheirEvaluation
<1> QED BY <1>5, <1>13, <1>14, <1>16, <1>17, <1>18, <1>19, <1>20, <1>21 DEF IndInv

LEMMA LoadIndInv ==
  ASSUME IndInv, NEW p \in Actors, Load(p)
  PROVE  IndInv'
<1>1. PICK from \in DOMAIN Writing : pc[p] = from /\ pc' = [pc EXCEPT ![p] = Writing[from]]
  BY DEF Load, Goto
<1>2. \/ pc[p] = "demote" /\ Writing[from] = "demote_write"
      \/ pc[p] = "ask" /\ Writing[from] = "ask_write"
      \/ pc[p] = "confirm" /\ Writing[from] = "confirm_write"
  BY <1>1 DEF Writing
<1>3. PICK where : where = Writing[from]
  OBVIOUS
<1>4. /\ work' = [work EXCEPT ![p].attrs = rec] /\ pc' = [pc EXCEPT ![p] = where]
      /\ UNCHANGED <<edges, rec, evaluations, attempts, history>>
  BY <1>1, <1>3 DEF Load
<1>5. /\ pc'[p] = where /\ OneAtATime' /\ ~Alone'
      /\ \A q \in Actors : q # p => pc[q] = "idle" /\ pc'[q] = "idle"
  BY <1>2, <1>3, <1>4, OthersAreIdle
<1>6. /\ work' \in [Actors -> Work] /\ work'[p].attrs = rec
      /\ work'[p].prior = work[p].prior /\ work'[p].observed = work[p].observed
      /\ work'[p].decision = work[p].decision /\ work'[p].turnOnly = work[p].turnOnly
      /\ \A q \in Actors : q # p => work'[q] = work[q]
  BY <1>4 DEF IndInv, TypeOK, Work
<1>7. TypeOK'
  <2>1. pc' \in [Actors -> Places]
    BY <1>2, <1>3, <1>4 DEF IndInv, TypeOK, Places
  <2> QED BY <1>4, <1>6, <2>1 DEF IndInv, TypeOK, history
<1>8. CopiesAreCurrent'
  BY <1>2, <1>3, <1>4, <1>5, <1>6 DEF CopiesAreCurrent
<1>9. TurnsStayApart'
  BY <1>2, <1>3, <1>4, <1>5, <1>6 DEF IndInv, TurnsStayApart, Decided, Accumulated, history
<1>10. StopsAreHeeded'
  <2>1. /\ work'[Customer].observed = work[Customer].observed
        /\ work'[Customer].decision = work[Customer].decision
    BY <1>6 DEF Actors
  <2>2. work'[Customer].turnOnly => rec.confirmed
    <3>1. work'[Customer].turnOnly = work[Customer].turnOnly
      BY <1>6 DEF Actors
    <3> QED BY <3>1, Zenon DEF IndInv, StopsAreHeeded
  <2>3. pc'[Customer] # "reply" /\ pc'[Customer] # "answered"
    BY <1>2, <1>3, <1>5 DEF Actors
  <2>4. pc'[Customer] \in {"ask", "ask_write"} => pc[Customer] = "ask"
    BY <1>2, <1>3, <1>5 DEF Actors
  <2> QED BY <1>4, <2>1, <2>2, <2>3, <2>4 DEF IndInv, StopsAreHeeded, history
<1>11. HazardsBlock'
  BY <1>2, <1>3, <1>5, <1>6 DEF IndInv, HazardsBlock, Decided
<1>12. VerdictStands'
  BY <1>2, <1>3, <1>4, <1>5 DEF IndInv, VerdictStands, history
<1>13. InScopeSignalsCount' /\ WithdrawnSignalsDoNot' /\ AttemptsFollowTheirEvaluation'
  BY <1>4, <1>5 DEF IndInv, InScopeSignalsCount, WithdrawnSignalsDoNot, Accumulated,
                    AttemptsFollowTheirEvaluation, history
<1> QED BY <1>5, <1>7, <1>8, <1>9, <1>10, <1>11, <1>12, <1>13 DEF IndInv

LEMMA WriteDemotionIndInv ==
  ASSUME IndInv, NEW p \in Actors, WriteDemotion(p)
  PROVE  IndInv'
<1> DEFINE discarded == work[p].observed \ work[p].prior
<1>1. /\ pc[p] = "demote_write" /\ rec' = Demoted(work[p].attrs, discarded)
      /\ pc' = [pc EXCEPT ![p] = "withdrawn"]
      /\ UNCHANGED <<edges, work, evaluations, attempts, history>>
  BY DEF WriteDemotion, Goto, NewSignals
<1>2. /\ pc'[p] = "withdrawn" /\ OneAtATime' /\ ~Alone'
      /\ \A q \in Actors : q # p => pc[q] = "idle" /\ pc'[q] = "idle"
  BY <1>1, OthersAreIdle
<1>3. rec \in Attrs /\ work[p] \in Work /\ work[p].attrs = rec
  BY <1>1 DEF IndInv, TypeOK, CopiesAreCurrent
<1> DEFINE verdict == [NoVerdict EXCEPT !.kind = "out_of_scope", !.req = rec.last.req]
<1>4. verdict \in Verdicts /\ verdict.kind = "out_of_scope" /\ verdict.req = rec.last.req
  <2>1. rec.last.req \in Requests
    BY <1>3 DEF Attrs, Verdicts
  <2>2. /\ verdict.kind = "out_of_scope" /\ verdict.req = rec.last.req
        /\ verdict.kr = NoResolution /\ verdict.evidence = 0
    BY DEF NoVerdict
  <2>3. verdict \in [req : Requests, kind : {"none", "allowed", "escalate", "out_of_scope"},
                     kr : Resolutions \cup {NoResolution}, evidence : Requests]
    <3>1. NoVerdict \in [req : Requests, kind : {"none", "allowed", "escalate", "out_of_scope"},
                        kr : Resolutions \cup {NoResolution}, evidence : Requests]
      BY BoundsAssumption DEF NoVerdict, Requests
    <3> QED BY <2>1, <3>1
  <2> HIDE DEF verdict
  <2> QED BY <2>2, <2>3 DEF Verdicts
<1>5. rec' = [rec EXCEPT !.last = verdict, !.excluded = rec.excluded \cup discarded]
  BY <1>1, <1>3 DEF Demoted
<1> HIDE DEF verdict
<1>6. /\ rec' \in Attrs /\ rec'.last = verdict
      /\ rec'.excluded = rec.excluded \cup discarded /\ rec'.confirmed = rec.confirmed
  BY <1>3, <1>4, <1>5 DEF Attrs, Work
<1>7. TypeOK'
  <2>1. pc' \in [Actors -> Places]
    BY <1>1 DEF IndInv, TypeOK, Places
  <2> QED BY <1>1, <1>6, <2>1 DEF IndInv, TypeOK, history
<1>8. CopiesAreCurrent'
  BY <1>2 DEF CopiesAreCurrent
<1>9. TurnsStayApart'
  BY <1>1, <1>2, <1>6 DEF IndInv, TurnsStayApart, Decided, Accumulated, history
<1>10. StopsAreHeeded'
  <2>1. pc'[Customer] \in {"withdrawn", "idle"}
    BY <1>2 DEF Actors
  <2> QED BY <1>1, <1>6, <2>1, Zenon DEF IndInv, StopsAreHeeded, history
<1>11. HazardsBlock'
  BY <1>2 DEF HazardsBlock, Decided
<1>12. VerdictStands'
  BY <1>1, <1>2, <1>4, <1>6 DEF IndInv, VerdictStands, history
<1>13. InScopeSignalsCount'
  BY <1>1, <1>6 DEF IndInv, InScopeSignalsCount, TurnsStayApart, Decided, Accumulated, history
<1>14. WithdrawnSignalsDoNot' /\ AttemptsFollowTheirEvaluation'
  BY <1>1, <1>2 DEF IndInv, WithdrawnSignalsDoNot, AttemptsFollowTheirEvaluation, history
<1> QED BY <1>2, <1>7, <1>8, <1>9, <1>10, <1>11, <1>12, <1>13, <1>14 DEF IndInv

LEMMA SaveStateIndInv ==
  ASSUME IndInv, NEW p \in Actors, SaveState(p)
  PROVE  IndInv'
<1>1. PICK where \in {"answered", "failed"} : pc' = [pc EXCEPT ![p] = where]
  BY DEF SaveState, Goto
<1>2. /\ pc[p] \in {"ask_write", "confirm_write"}
      /\ rec' = IF pc[p] = "confirm_write" THEN [work[p].attrs EXCEPT !.confirmed = TRUE]
                ELSE work[p].attrs
      /\ UNCHANGED <<edges, work, evaluations, attempts, history>>
  BY DEF SaveState
<1>3. /\ pc'[p] = where /\ OneAtATime' /\ ~Alone'
      /\ \A q \in Actors : q # p => pc[q] = "idle" /\ pc'[q] = "idle"
  BY <1>1, <1>2, OthersAreIdle
<1>4. rec \in Attrs /\ work[p].attrs = rec
  BY <1>2 DEF IndInv, TypeOK, CopiesAreCurrent
<1>5. /\ rec' \in Attrs /\ rec'.last = rec.last /\ rec'.excluded = rec.excluded
      /\ rec.confirmed => rec'.confirmed
      /\ pc[p] = "confirm_write" => rec'.confirmed
  BY <1>2, <1>4 DEF Attrs
<1>6. TypeOK'
  <2>1. pc' \in [Actors -> Places]
    BY <1>1 DEF IndInv, TypeOK, Places
  <2> QED BY <1>2, <1>5, <2>1 DEF IndInv, TypeOK, history
<1>7. CopiesAreCurrent'
  BY <1>3 DEF CopiesAreCurrent
<1>8. TurnsStayApart'
  BY <1>2, <1>3, <1>5 DEF IndInv, TurnsStayApart, Decided, Accumulated, history
<1>9. StopsAreHeeded'
  <2>1. pc'[Customer] \in {"answered", "failed", "idle"}
    BY <1>3 DEF Actors
  <2>2. pc'[Customer] = "answered" => pc[Customer] \in {"ask_write", "confirm_write"}
    BY <1>2, <1>3 DEF Actors
  <2>3. pc[Customer] = "confirm_write" => rec'.confirmed
    BY <1>2, <1>3, <1>5 DEF Actors
  <2> QED BY <1>2, <1>5, <2>1, <2>2, <2>3 DEF IndInv, StopsAreHeeded, history
<1>10. HazardsBlock'
  BY <1>2, <1>3 DEF IndInv, HazardsBlock, Decided
<1>11. VerdictStands'
  BY <1>2, <1>3, <1>5 DEF IndInv, VerdictStands, history
<1>12. InScopeSignalsCount' /\ WithdrawnSignalsDoNot' /\ AttemptsFollowTheirEvaluation'
  BY <1>2, <1>3, <1>5 DEF IndInv, InScopeSignalsCount, WithdrawnSignalsDoNot, Accumulated,
                          AttemptsFollowTheirEvaluation, history
<1> QED BY <1>3, <1>6, <1>7, <1>8, <1>9, <1>10, <1>11, <1>12 DEF IndInv

LEMMA FinishIndInv ==
  ASSUME IndInv, NEW p \in Actors, Finish(p)
  PROVE  IndInv'
<1> DEFINE o == work[p].observed
<1>1. /\ pc[p] \in {"answered", "failed", "withdrawn", "not_withdrawn"}
      /\ pc' = [pc EXCEPT ![p] = "idle"] /\ work' = [work EXCEPT ![p] = NoWork]
      /\ UNCHANGED <<edges, rec, evaluations, attempts, decided>>
  BY DEF Finish, Goto
<1>2. /\ counted' = IF pc[p] = "answered" THEN counted \cup o ELSE counted
      /\ asked' = IF pc[p] = "answered" /\ p = Customer THEN asked \cup o ELSE asked
      /\ kept' = IF pc[p] = "withdrawn" THEN kept ELSE kept \cup o
  BY DEF Finish
<1>3. /\ pc'[p] = "idle" /\ OneAtATime'
      /\ \A q \in Actors : q # p => pc[q] = "idle" /\ pc'[q] = "idle"
  BY <1>1, OthersAreIdle
<1>4. \A q \in Actors : pc'[q] = "idle"
  BY <1>3
<1>5. work' \in [Actors -> Work] /\ work'[p] = NoWork
      /\ \A q \in Actors : q # p => work'[q] = work[q]
  BY <1>1, NoWorkType DEF IndInv, TypeOK
<1>6. o \subseteq Signals
  BY DEF IndInv, TypeOK, Work
<1> HIDE DEF o
<1>7. TypeOK'
  <2>1. pc' \in [Actors -> Places]
    BY <1>1 DEF IndInv, TypeOK, Places
  <2>2. counted' \subseteq Signals /\ asked' \subseteq Signals /\ kept' \subseteq Signals
    BY <1>2, <1>6 DEF IndInv, TypeOK
  <2> QED BY <1>1, <1>5, <2>1, <2>2 DEF IndInv, TypeOK
<1>8. CopiesAreCurrent' /\ TurnsStayApart' /\ HazardsBlock'
  BY <1>4 DEF CopiesAreCurrent, TurnsStayApart, HazardsBlock, Decided
<1>9. /\ pc[p] = "answered" => o \subseteq edges /\ o \cap rec.excluded = {}
      /\ pc[p] # "withdrawn" => Accumulated \subseteq kept \cup o
      /\ pc[p] = "withdrawn" => Accumulated \subseteq kept
  BY <1>1 DEF IndInv, TurnsStayApart, Decided, o
<1>10. InScopeSignalsCount'
  BY <1>1, <1>2, <1>9 DEF IndInv, InScopeSignalsCount, Accumulated
<1>11. WithdrawnSignalsDoNot'
  BY <1>1, <1>2, <1>9 DEF WithdrawnSignalsDoNot, Accumulated
<1>12. StopsAreHeeded'
  <2>1. asked' \subseteq counted'
    BY <1>2 DEF IndInv, StopsAreHeeded
  <2>2. Stops(asked') => rec.confirmed
    <3>1. CASE pc[p] = "answered" /\ p = Customer
      BY <1>2, <3>1 DEF IndInv, StopsAreHeeded, o
    <3>2. CASE ~(pc[p] = "answered" /\ p = Customer)
      BY <1>2, <3>2 DEF IndInv, StopsAreHeeded
    <3> QED BY <3>1, <3>2
  <2>3. work'[Customer].turnOnly => rec.confirmed
    BY <1>5, NoWorkType DEF IndInv, StopsAreHeeded, Actors
  <2>4. pc'[Customer] = "idle"
    BY <1>4 DEF Actors
  <2> QED BY <1>1, <2>1, <2>2, <2>3, <2>4 DEF StopsAreHeeded
<1>13. VerdictStands'
  BY <1>1, <1>4 DEF IndInv, VerdictStands
<1>14. AttemptsFollowTheirEvaluation'
  BY <1>1 DEF IndInv, AttemptsFollowTheirEvaluation
<1> QED BY <1>3, <1>7, <1>8, <1>10, <1>11, <1>12, <1>13, <1>14 DEF IndInv

LEMMA VerifyLineageIndInv ==
  ASSUME IndInv, NEW p \in Actors, Alone, VerifyLineage(p)
  PROVE  IndInv'
<1>1. PICK r \in 1..evaluations :
        Lineage(r) /\ work' = [work EXCEPT ![p] = [NoWork EXCEPT !.req = r, !.attrs = rec]]
  BY DEF VerifyLineage
<1>2. /\ p \in Operators /\ pc' = [pc EXCEPT ![p] = "attempt"]
      /\ UNCHANGED <<edges, rec, evaluations, attempts, history>>
  BY DEF VerifyLineage, Goto
<1>3. r \in Requests
  BY BoundsAssumption DEF IndInv, TypeOK, Requests
<1> DEFINE w == [NoWork EXCEPT !.req = r, !.attrs = rec]
<1>4. w \in Work /\ w.req = r /\ w.attrs = rec
  BY <1>3, NoWorkType DEF IndInv, TypeOK, Work
<1> HIDE DEF w
<1>5. /\ work' \in [Actors -> Work] /\ work'[p] = w
      /\ \A q \in Actors : q # p => work'[q] = work[q]
      /\ pc'[p] = "attempt"
      /\ \A q \in Actors : q # p => pc'[q] = "idle"
  BY <1>1, <1>2, <1>4 DEF w, Alone, IndInv, TypeOK
<1>6. TypeOK'
  <2>1. pc' \in [Actors -> Places]
    BY <1>2 DEF IndInv, TypeOK, Places
  <2> QED BY <1>2, <1>5, <2>1 DEF IndInv, TypeOK, history
<1>7. OneAtATime' /\ CopiesAreCurrent'
  BY <1>2, <1>4, <1>5 DEF OneAtATime, CopiesAreCurrent
<1>8. TurnsStayApart' /\ HazardsBlock'
  BY <1>2, <1>5 DEF IndInv, TurnsStayApart, HazardsBlock, Decided, WithdrawnSignalsDoNot,
                    Accumulated, history
<1>9. StopsAreHeeded'
  <2>1. p # Customer
    BY <1>2, ActorsAssumption
  <2>2. work'[Customer] = work[Customer] /\ pc'[Customer] = "idle"
    BY <1>5, <2>1 DEF Actors
  <2> QED BY <1>2, <2>2 DEF IndInv, StopsAreHeeded, history
<1>10. VerdictStands'
  <2>1. rec.last.kind = "allowed" /\ rec.last.req = r
    BY <1>1 DEF Lineage
  <2> QED BY <1>2, <1>4, <1>5, <2>1 DEF IndInv, VerdictStands, history
<1>11. InScopeSignalsCount' /\ WithdrawnSignalsDoNot' /\ AttemptsFollowTheirEvaluation'
  BY <1>2, <1>5 DEF IndInv, InScopeSignalsCount, WithdrawnSignalsDoNot, Accumulated,
                    AttemptsFollowTheirEvaluation, Alone, history
<1> QED BY <1>6, <1>7, <1>8, <1>9, <1>10, <1>11 DEF IndInv

LEMMA RecordAttemptIndInv ==
  ASSUME IndInv, NEW p \in Operators, RecordAttempt(p)
  PROVE  IndInv'
<1> DEFINE a == [req |-> work[p].req, kr |-> work[p].attrs.last.kr, by |-> p, evidence |-> 0]
           Attempt == [req : Requests, kr : Resolutions \cup {NoResolution},
                       by : Operators, evidence : Requests]
<1>1. /\ pc[p] = "attempt" /\ Len(attempts) < MaxAttempts /\ attempts' = Append(attempts, a)
      /\ pc' = [pc EXCEPT ![p] = "evidence"]
      /\ UNCHANGED <<edges, rec, work, evaluations, history>>
  BY DEF RecordAttempt, Goto
<1>2. p \in Actors
  BY DEF Actors
<1>3. /\ pc'[p] = "evidence" /\ OneAtATime' /\ ~Alone'
      /\ \A q \in Actors : q # p => pc[q] = "idle" /\ pc'[q] = "idle"
  BY <1>1, <1>2, OthersAreIdle
<1>4. /\ rec \in Attrs /\ work[p] \in Work /\ work[p].attrs = rec
      /\ rec.last.kind = "allowed" /\ rec.last.req = work[p].req
      /\ rec.last.req > 0 /\ rec.last.req <= evaluations
      /\ decided[rec.last.req] = [kind |-> "allowed", kr |-> rec.last.kr]
  BY <1>1, <1>2 DEF IndInv, TypeOK, CopiesAreCurrent, VerdictStands
<1>5. a \in Attempt /\ a.req \in 1..evaluations /\ a.by = p /\ a.evidence = 0
      /\ a.req = rec.last.req /\ a.kr = rec.last.kr
  <2>1. work[p].req \in Requests /\ rec.last.kr \in Resolutions \cup {NoResolution}
    BY <1>4 DEF Attrs, Verdicts, Work
  <2> QED BY <1>4, <2>1, BoundsAssumption DEF Requests
<1> HIDE DEF a
<1>6. /\ attempts \in Seq(Attempt) /\ attempts' \in Seq(Attempt)
      /\ Len(attempts') = Len(attempts) + 1 /\ attempts'[Len(attempts')] = a
      /\ DOMAIN attempts' = DOMAIN attempts \cup {Len(attempts')}
      /\ \A i \in DOMAIN attempts : attempts'[i] = attempts[i]
      /\ Len(attempts') <= MaxAttempts
  <2>1. attempts \in Seq(Attempt)
    BY DEF IndInv, TypeOK
  <2> HIDE DEF Attempt
  <2> QED BY <1>1, <1>5, <2>1, BoundsAssumption
<1>7. TypeOK'
  <2>1. pc' \in [Actors -> Places]
    BY <1>1 DEF IndInv, TypeOK, Places
  <2> QED BY <1>1, <1>6, <2>1 DEF IndInv, TypeOK, history
<1>8. CopiesAreCurrent'
  BY <1>1, <1>2, <1>3 DEF IndInv, CopiesAreCurrent
<1>9. TurnsStayApart' /\ HazardsBlock'
  BY <1>1, <1>2, <1>3 DEF IndInv, TurnsStayApart, HazardsBlock, Decided, Accumulated, history
<1>10. StopsAreHeeded'
  <2>1. pc'[Customer] = "idle"
    BY <1>3, ActorsAssumption DEF Actors
  <2> QED BY <1>1, <2>1 DEF IndInv, StopsAreHeeded, history
<1>11. VerdictStands'
  <2>1. \A i \in DOMAIN attempts' : attempts'[i].req \in 1..evaluations
    BY <1>5, <1>6 DEF IndInv, VerdictStands
  <2>2. attempts' # <<>> /\ attempts'[Len(attempts')].by = p
        /\ attempts'[Len(attempts')].req = work[p].req
    BY <1>4, <1>5, <1>6
  <2> QED BY <1>1, <1>3, <1>4, <2>1, <2>2 DEF IndInv, VerdictStands, history
<1>12. InScopeSignalsCount' /\ WithdrawnSignalsDoNot'
  BY <1>1, <1>3 DEF IndInv, InScopeSignalsCount, WithdrawnSignalsDoNot, Accumulated, history
<1>13. AttemptsFollowTheirEvaluation'
  <2>1. decided' = decided
    BY <1>1 DEF history
  <2>2. decided[a.req] = [kind |-> "allowed", kr |-> a.kr]
    BY <1>4, <1>5
  <2> QED BY <1>5, <1>6, <2>1, <2>2 DEF IndInv, AttemptsFollowTheirEvaluation
<1> QED BY <1>3, <1>7, <1>8, <1>9, <1>10, <1>11, <1>12, <1>13 DEF IndInv

\* An operator's attempt ends, with the list as it is or with evidence added to
\* the attempt it wrote.
LEMMA AttemptEndsIndInv ==
  ASSUME IndInv, NEW p \in Operators, pc[p] \in {"attempt", "evidence"}, Goto(p, "idle"),
         work' = [work EXCEPT ![p] = NoWork],
         UNCHANGED <<edges, rec, evaluations, history>>,
         attempts' \in Seq([req : Requests, kr : Resolutions \cup {NoResolution},
                            by : Operators, evidence : Requests]),
         Len(attempts') = Len(attempts),
         \A i \in DOMAIN attempts' :
           /\ i \in DOMAIN attempts
           /\ attempts'[i].req = attempts[i].req /\ attempts'[i].kr = attempts[i].kr
           /\ attempts'[i].evidence \in {attempts[i].evidence, attempts[i].req}
  PROVE  IndInv'
<1>1. p \in Actors /\ pc' = [pc EXCEPT ![p] = "idle"]
  BY DEF Actors, Goto
<1>2. /\ OneAtATime' /\ pc'[p] = "idle"
      /\ \A q \in Actors : q # p => pc[q] = "idle" /\ pc'[q] = "idle"
  BY <1>1, OthersAreIdle
<1>3. \A q \in Actors : pc'[q] = "idle"
  BY <1>2
<1>4. TypeOK'
  <2>1. work' \in [Actors -> Work]
    BY NoWorkType DEF IndInv, TypeOK
  <2>2. pc' \in [Actors -> Places]
    BY <1>1 DEF IndInv, TypeOK, Places
  <2> QED BY <2>1, <2>2 DEF IndInv, TypeOK, history
<1>5. CopiesAreCurrent' /\ TurnsStayApart' /\ HazardsBlock'
  BY <1>3 DEF CopiesAreCurrent, TurnsStayApart, HazardsBlock, Decided
<1>6. StopsAreHeeded'
  <2>1. work'[Customer] = work[Customer] /\ pc'[Customer] = "idle"
    BY <1>3, ActorsAssumption DEF IndInv, TypeOK, Actors
  <2> QED BY <2>1 DEF IndInv, StopsAreHeeded, history
<1>7. InScopeSignalsCount' /\ WithdrawnSignalsDoNot'
  BY <1>1 DEF IndInv, InScopeSignalsCount, WithdrawnSignalsDoNot, TurnsStayApart, Accumulated, history
<1>8. VerdictStands'
  BY <1>3 DEF IndInv, VerdictStands, history
<1>9. AttemptsFollowTheirEvaluation'
  <2>1. decided' = decided
    BY DEF history
  <2> QED BY <2>1 DEF IndInv, AttemptsFollowTheirEvaluation
<1> QED BY <1>2, <1>4, <1>5, <1>6, <1>7, <1>8, <1>9 DEF IndInv

LEMMA AttemptFailsIndInv ==
  ASSUME IndInv, NEW p \in Operators, AttemptFails(p)
  PROVE  IndInv'
<1>1. attempts' = attempts
  BY DEF AttemptFails
<1> QED BY <1>1, AttemptEndsIndInv DEF AttemptFails, IndInv, TypeOK

LEMMA AppendEvidenceIndInv ==
  ASSUME IndInv, NEW p \in Operators, AppendEvidence(p)
  PROVE  IndInv'
<1> DEFINE Attempt == [req : Requests, kr : Resolutions \cup {NoResolution},
                       by : Operators, evidence : Requests]
<1>1. PICK i \in DOMAIN attempts :
         /\ \A j \in DOMAIN attempts : attempts[j].by = p => j <= i
         /\ attempts' = [attempts EXCEPT ![i].evidence = rec.last.evidence]
  BY DEF AppendEvidence
<1>2. /\ pc[p] = "evidence" /\ Goto(p, "idle") /\ work' = [work EXCEPT ![p] = NoWork]
      /\ UNCHANGED <<edges, rec, evaluations, history>>
  BY DEF AppendEvidence
<1>3. /\ attempts \in Seq(Attempt) /\ Len(attempts) \in Nat
      /\ DOMAIN attempts = 1..Len(attempts)
  BY DEF IndInv, TypeOK
<1>4. i = Len(attempts) /\ attempts[i].req = work[p].req
  <2>1. /\ attempts # <<>> /\ attempts[Len(attempts)].by = p
        /\ attempts[Len(attempts)].req = work[p].req
    BY <1>2 DEF IndInv, VerdictStands, Actors
  <2>2. Len(attempts) \in DOMAIN attempts
    BY <1>3, <2>1
  <2> QED BY <1>1, <1>3, <2>1, <2>2
<1>5. rec.last.evidence = attempts[i].req /\ rec.last.evidence \in Requests
  BY <1>2, <1>4 DEF IndInv, VerdictStands, Actors, TypeOK, Attrs, Verdicts
<1>6. attempts[i] \in Attempt
  <2> HIDE DEF Attempt
  <2> QED BY <1>1, <1>3
<1> DEFINE a == [attempts[i] EXCEPT !.evidence = rec.last.evidence]
<1>7. a \in Attempt /\ a.req = attempts[i].req /\ a.kr = attempts[i].kr
      /\ a.evidence = attempts[i].req
  BY <1>5, <1>6
<1>8. attempts' = [attempts EXCEPT ![i] = a]
  BY <1>1
<1> HIDE DEF a
<1>9. /\ attempts' \in Seq(Attempt) /\ Len(attempts') = Len(attempts)
      /\ DOMAIN attempts' = DOMAIN attempts /\ attempts'[i] = a
      /\ \A j \in DOMAIN attempts : j # i => attempts'[j] = attempts[j]
  <2> HIDE DEF Attempt
  <2> QED BY <1>1, <1>3, <1>7, <1>8
<1> QED BY <1>2, <1>7, <1>9, AttemptEndsIndInv

-----------------------------------------------------------------------------
(* The theorems.                                                           *)

LEMMA StepIndInv ==
  ASSUME IndInv, NEW p \in Actors, Step(p)
  PROVE  IndInv'
<1>1. CASE LoadCase(p) \/ AppendSignals(p) \/ DecideAndRecord(p)
  BY <1>1, LoadCaseIndInv, AppendSignalsIndInv, DecideAndRecordIndInv
<1>2. CASE Load(p) \/ WriteDemotion(p) \/ SaveState(p) \/ Finish(p)
  BY <1>2, LoadIndInv, WriteDemotionIndInv, SaveStateIndInv, FinishIndInv
<1>3. CASE Discard(p)
  BY <1>3, GoesOnIndInv DEF Discard
<1>4. CASE DemotionFails(p)
  BY <1>4, GoesOnIndInv DEF DemotionFails
<1>5. CASE ReplyAtOnce(p)
  BY <1>5, GoesOnIndInv DEF ReplyAtOnce
<1>6. CASE ReplyAsking(p)
  BY <1>6, GoesOnIndInv DEF ReplyAsking
<1>7. CASE ReplyEscalating(p)
  BY <1>7, GoesOnIndInv DEF ReplyEscalating
<1>8. CASE Fail(p)
  <2>1. pc[p] \in {"load", "append", "decide"} \cup Decided
    BY <1>8 DEF Fail, Decided
  <2> QED BY <1>8, <2>1, GoesOnIndInv DEF Fail
<1>9. CASE RecordAttempt(p) \/ AppendEvidence(p) \/ AttemptFails(p)
  <2>1. p \in Operators
    BY <1>9 DEF RecordAttempt, AppendEvidence, AttemptFails, IndInv, VerdictStands
  <2> QED BY <1>9, <2>1, RecordAttemptIndInv, AppendEvidenceIndInv, AttemptFailsIndInv
<1> QED BY <1>1, <1>2, <1>3, <1>4, <1>5, <1>6, <1>7, <1>8, <1>9 DEF Step

LEMMA StutterIndInv == IndInv /\ UNCHANGED vars => IndInv'
<1> SUFFICES ASSUME IndInv, UNCHANGED vars PROVE IndInv'
  OBVIOUS
<1> USE DEF IndInv, vars, history
<1>1. TypeOK' /\ OneAtATime' /\ CopiesAreCurrent' /\ TurnsStayApart'
  BY DEF TypeOK, OneAtATime, CopiesAreCurrent, TurnsStayApart, Accumulated
<1>2. InScopeSignalsCount' /\ WithdrawnSignalsDoNot' /\ StopsAreHeeded' /\ HazardsBlock'
  BY DEF InScopeSignalsCount, WithdrawnSignalsDoNot, StopsAreHeeded, HazardsBlock, Accumulated,
         Alone
<1>3. VerdictStands' /\ AttemptsFollowTheirEvaluation'
  BY DEF VerdictStands, AttemptsFollowTheirEvaluation
<1> QED BY <1>1, <1>2, <1>3

\* With one caller at a time, what is recorded of the case stays what its turns
\* and evaluations made it: the part of harness::evaluate, the case's clients and
\* record_answer_attempt that all the theorems below rest on.
THEOREM IndInvHolds == Spec => []IndInv
<1>1. IndInv /\ [Next]_vars => IndInv'
  BY StepIndInv, BeginIndInv, VerifyLineageIndInv, StutterIndInv DEF Next
<1> QED BY <1>1, InitIndInv, PTL DEF Spec

\* The type of the case's edges, attributes, attempts and of what callers hold.
THEOREM CaseEvaluationType == Spec => []TypeOK
<1>1. IndInv => TypeOK
  BY DEF IndInv
<1> QED BY <1>1, IndInvHolds, PTL

\* A signal of a turn answered in scope counts from then on
\* (prune_excluded_signals in harness::evaluate).
THEOREM InScopeSignalsCountHolds == Spec => []InScopeSignalsCount
<1>1. IndInv => InScopeSignalsCount
  BY DEF IndInv
<1> QED BY <1>1, IndInvHolds, PTL

\* The signals of a turn withdrawn as out of scope leave no trace
\* (merge_out_of_scope_demotion_attributes).
THEOREM WithdrawnSignalsDoNotHolds == Spec => []WithdrawnSignalsDoNot
<1>1. IndInv => WithdrawnSignalsDoNot
  BY DEF IndInv
<1> QED BY <1>1, IndInvHolds, PTL

\* A customer whose messages together call for a human has been handed over
\* between turns (decide, and the reply's escalation block).
THEOREM StopSignalsEscalateHolds == Spec => []StopSignalsEscalate
<1>1. IndInv => StopSignalsEscalate
  BY DEF IndInv, StopsAreHeeded, StopSignalsEscalate
<1> QED BY <1>1, IndInvHolds, PTL

\* No prepared answer is given in a case with a hazard (select_known_resolution).
THEOREM HazardBlocksKnownResolutionHolds == Spec => []HazardBlocksKnownResolution
<1>1. IndInv => HazardBlocksKnownResolution
  <2> SUFFICES ASSUME IndInv, NEW p \in Actors, pc[p] \in {"reply", "answered"},
                      work[p].decision.kr # NoResolution
               PROVE  counted \cap Hazards = {}
    BY DEF HazardBlocksKnownResolution
  <2>1. counted \subseteq work[p].prior
    BY DEF IndInv, TurnsStayApart, Decided
  <2>2. (work[p].prior \cup work[p].observed) \cap Hazards = {}
    BY DEF IndInv, HazardsBlock, Decided
  <2> QED BY <2>1, <2>2
<1> QED BY <1>1, IndInvHolds, PTL

\* An attempt rests on an evaluation that allowed it and bears its known resolution
\* and evidence (verify_answer_lineage, record_answer_attempt).
THEOREM AttemptsFollowTheirEvaluationHolds == Spec => []AttemptsFollowTheirEvaluation
<1>1. IndInv => AttemptsFollowTheirEvaluation
  BY DEF IndInv
<1> QED BY <1>1, IndInvHolds, PTL

=============================================================================

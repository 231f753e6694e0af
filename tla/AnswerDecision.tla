--------------------------- MODULE AnswerDecision ---------------------------
(***************************************************************************)
(* The three layers of harness/decision.rs and what they rest on           *)
(* (rules.rs, kr_selection.rs), as operators on the signals of a turn.     *)
(*                                                                         *)
(* Rules, domains and known resolutions come from the store in whatever    *)
(* order it returns them: "the first that matches" is any that matches, and *)
(* a decision is a member of the set of decisions the code may come to.    *)
(* Scores and thresholds are naturals with the order of the f32 they stand *)
(* for.                                                                    *)
(***************************************************************************)
EXTENDS Integers, FiniteSets

CONSTANTS
  Signals,
  Hazards,      \* signals of class hazard
  Rules,        \* [condition, mandatory, hearing]: the escalation rules
  Domains,      \* [signals, mandatory]: the prohibited domains
  Resolutions,  \* [signals, rank]: the known resolutions that are not excluded by
                \* configuration; rank is their place by age and id, 1 the newest
  Scores,       \* scores of the best manual section, 0 for none
  Low, Mid, High,  \* thresholds
  CandidateLimit,  \* KR_CANDIDATE_LIMIT
  NoResolution

ASSUME SignalsAssumption ==
  /\ Hazards \subseteq Signals
  /\ Rules \subseteq [condition : SUBSET Signals, mandatory : BOOLEAN, hearing : BOOLEAN]
  /\ Domains \subseteq [signals : SUBSET Signals, mandatory : BOOLEAN]
  /\ Resolutions \subseteq [signals : SUBSET Signals, rank : Nat]
  /\ NoResolution \notin Resolutions
ASSUME ScoresAssumption ==
  /\ Scores \subseteq Nat /\ Low \in Nat /\ Mid \in Nat /\ High \in Nat
  /\ CandidateLimit \in Nat

-----------------------------------------------------------------------------
\* rule_matches: an empty condition matches nothing.
Matching(S) == {r \in Rules : r.condition # {} /\ r.condition \subseteq S}

Mandatory(S) == {r \in Matching(S) : r.mandatory}
Advisory(S) == {r \in Matching(S) : ~r.mandatory}

\* What the turn gives the decision besides its signals.
Inputs == [text : SUBSET Domains,   \* domains with a pattern in the message
           ng : BOOLEAN,            \* a word of the NG dictionary is near it
           unidentified : BOOLEAN,  \* depends on the product, and none is identified
           score : Scores]

\* match_layer2 over some of the domains.
Near(domains, S, text) == \E d \in domains : d.signals \cap S # {} \/ d \in text

\* stakes_input_for_turn and classify_stakes, on everything accumulated.
Threshold(in, accumulated) ==
  IF in.ng \/ Near({d \in Domains : d.mandatory}, accumulated, in.text) THEN High
  ELSE IF accumulated \cap Hazards # {} THEN Mid
  ELSE Low

-----------------------------------------------------------------------------
(* Known resolutions.                                                      *)

Before(a, b) ==
  \/ Cardinality(a.signals) > Cardinality(b.signals)
  \/ Cardinality(a.signals) = Cardinality(b.signals) /\ a.rank < b.rank

\* known_resolution_candidates.
Candidates(S) ==
  LET covered == {k \in Resolutions : k.signals # {} /\ k.signals \subseteq S}
  IN {k \in covered : Cardinality({j \in covered : Before(j, k)}) < CandidateLimit}

\* Mutant: hazards among the signals the decision is taken from.
SelectableByTurn(S, accumulated, mode) ==
  IF S \cap Hazards # {} \/ mode = "lexicon_fallback"
  THEN {NoResolution} ELSE Candidates(S) \cup {NoResolution}

\* select_known_resolution: the judge may find any candidate applicable, or none,
\* and it may fail.  No judge is asked with a hazard anywhere in the case.
Selectable(S, accumulated, mode) ==
  IF accumulated \cap Hazards # {} \/ mode = "lexicon_fallback"
  THEN {NoResolution} ELSE Candidates(S) \cup {NoResolution}

\* match_known_resolution: something fits but for an additional signal.
BlockedByAddedSignal(S) ==
  /\ \E k \in Resolutions : k.signals # {} /\ k.signals \subseteq S
  /\ \A k \in Resolutions : k.signals # {} => k.signals # S

-----------------------------------------------------------------------------
(* decide.                                                                 *)

Reasons == {"rule", "domain", "product_unidentified", "added_signal", "indirect"}

Decision == [kind : {"allowed", "escalate"},
             layer : 0..3,
             reason : Reasons \cup {"none"},
             missing : BOOLEAN,  \* what is missing is said
             hearing : BOOLEAN,  \* the rule declares a hearing contract
             kr : Resolutions \cup {NoResolution}]

Allowed(k) == [kind |-> "allowed", layer |-> 0, reason |-> "none",
               missing |-> FALSE, hearing |-> FALSE, kr |-> k]

Escalate(layer, reason, missing) ==
  [kind |-> "escalate", layer |-> layer, reason |-> reason,
   missing |-> missing, hearing |-> FALSE, kr |-> NoResolution]

\* hearing_contract is None for a mandatory rule.
ByRule(r, missing, k) ==
  [Escalate(1, "rule", missing) EXCEPT !.hearing = r.hearing /\ ~r.mandatory, !.kr = k]

\* Mutant: the first rule that matches, whatever its binding.
DecisionsInRuleOrder(in, S, accumulated, k) ==
  LET insufficient == in.score < Threshold(in, accumulated) IN
  IF Matching(S) # {} THEN {ByRule(r, insufficient /\ ~r.mandatory, k) : r \in Matching(S)}
  ELSE IF Near(Domains, S, in.text) THEN {Escalate(2, "domain", FALSE)}
  ELSE IF in.unidentified THEN {Escalate(3, "product_unidentified", FALSE)}
  ELSE IF k # NoResolution THEN {Allowed(k)}
  ELSE IF ~insufficient THEN {Allowed(NoResolution)}
  ELSE {Escalate(3, IF BlockedByAddedSignal(S) THEN "added_signal" ELSE "indirect", TRUE)}

Decisions(in, S, accumulated, k) ==
  LET insufficient == in.score < Threshold(in, accumulated) IN
  IF Mandatory(S) # {} THEN {ByRule(r, FALSE, NoResolution) : r \in Mandatory(S)}
  ELSE IF Near(Domains, S, in.text) THEN {Escalate(2, "domain", FALSE)}
  ELSE IF Advisory(S) # {} THEN {ByRule(r, insufficient, k) : r \in Advisory(S)}
  ELSE IF in.unidentified THEN {Escalate(3, "product_unidentified", FALSE)}
  ELSE IF k # NoResolution THEN {Allowed(k)}
  ELSE IF ~insufficient THEN {Allowed(NoResolution)}
  ELSE {Escalate(3, IF BlockedByAddedSignal(S) THEN "added_signal" ELSE "indirect", TRUE)}

\* clarification_allowed.
Clarifiable(d) ==
  /\ d.kind = "escalate"
  /\ \/ d.layer = 1 /\ d.missing
     \/ d.layer = 3

\* Signals that must end with a human: a mandatory rule or a prohibited domain.
Stops(S) == Mandatory(S) # {} \/ Near(Domains, S, {})
=============================================================================

------------------------------ MODULE Grading ------------------------------
(***************************************************************************)
(* The grade of one known resolution, driven by the outcomes operators     *)
(* record for the answers that were given from it (record_answer_outcome). *)
(*                                                                         *)
(* Every call reads and rewrites two records of the knowledge store, the   *)
(* answer attempt and the known resolution, each replaced as a whole.  The *)
(* calls are serialised by grade_lock; any read or write may fail, a write *)
(* that is reported failed may have been carried out, and the process may  *)
(* stop between any two steps.                                             *)
(***************************************************************************)
EXTENDS Integers, FiniteSets

CONSTANTS
  Attempts,           \* the answer attempts
  Linked,             \* those given from this known resolution (known_resolution_id)
  Actors,             \* the operators
  Legacy,             \* ids of the form "google:...": the same person may have another id
  Calls,              \* record_answer_outcome requests in progress at a time
  PromoteApprovals, PromoteApprovers, DemoteRejections,
  RateNum, RateDen,   \* promote_max_rejection_rate = RateNum / RateDen
  AttemptQueryLimit,  \* the most attempts load_attempts_for_kr returns
  None                \* no call, no operator, no request, no grade

ASSUME SetsAssumption ==
  /\ IsFiniteSet(Attempts) /\ Linked \subseteq Attempts
  /\ IsFiniteSet(Actors) /\ Legacy \subseteq Actors
  /\ None \notin Calls \cup Actors
ASSUME ThresholdsAssumption ==
  /\ PromoteApprovals \in Nat /\ PromoteApprovers \in Nat /\ DemoteRejections \in Nat
  /\ RateNum \in Nat /\ RateDen \in Nat \ {0}
  /\ AttemptQueryLimit \in Nat \ {0}

VARIABLES
  outcome,  \* the attempts in the store: their outcome, "" until one is recorded
  by,       \* ... and the operator who recorded it
  kr,       \* the known resolution in the store: the counts, the approvers, the grade
  lock,     \* the call that holds grade_lock
  pc, req,  \* per call: where it is, and what it was asked to record
  seen,     \* per call: the grade it read
  counts,   \* per call: what it derived from the attempts it read
  acked     \* history: the attempts whose outcome a call answered as recorded

vars == <<outcome, by, kr, lock, pc, req, seen, counts, acked>>

Outcomes == {"resolved", "unresolved", "re_inquiry", "wrong_answer"}
Grades == {"approval_required", "auto_answer_audited", "demoted"}
Requests == [attempt : Attempts, outcome : Outcomes, actor : Actors]
Counts == [approved : Nat, rejected : Nat, approvers : SUBSET Actors]

Resolved(S) == {a \in S : outcome[a] = "resolved"}
Wrong(S) == {a \in S : outcome[a] = "wrong_answer"}
Approvers(S) == {by[a] : a \in Resolved(S)}

\* derive_outcome_counts: counted anew from the attempts, never incremented.
DeriveCounts(S) == [approved  |-> Cardinality(Resolved(S)),
                    rejected  |-> Cardinality(Wrong(S)),
                    approvers |-> Approvers(S)]

\* Mutant: both ids of one person count.
DiverseWithLegacy(n) == Cardinality(n.approvers)

\* The approvers that make for diversity: an id of the old form may be a
\* second id of a person already counted.
Diverse(n) == Cardinality(n.approvers \ Legacy)

LowRejectionRate(n) ==
  \/ n.approved + n.rejected = 0
  \/ n.rejected * RateDen <= RateNum * (n.approved + n.rejected)

Promotes(n) ==
  /\ n.approved >= PromoteApprovals
  /\ Diverse(n) >= PromoteApprovers
  /\ LowRejectionRate(n)

Regrade(g, n) ==
  IF g = "auto_answer_audited" /\ n.rejected >= DemoteRejections THEN "demoted"
  ELSE IF g # "demoted" /\ Promotes(n) THEN "auto_answer_audited"
  ELSE g

\* What the query may return: everything, or an arbitrary full page.
Pages == IF Cardinality(Linked) <= AttemptQueryLimit
         THEN {Linked}
         ELSE {S \in SUBSET Linked : Cardinality(S) = AttemptQueryLimit}

-----------------------------------------------------------------------------
NoCounts == [approved |-> 0, rejected |-> 0, approvers |-> {}]

Init ==
  /\ outcome = [a \in Attempts |-> ""]
  /\ by = [a \in Attempts |-> None]
  /\ kr = [approved |-> 0, rejected |-> 0, approvers |-> {}, grade |-> "approval_required"]
  /\ lock = None
  /\ pc = [c \in Calls |-> "idle"]
  /\ req = [c \in Calls |-> None]
  /\ seen = [c \in Calls |-> None]
  /\ counts = [c \in Calls |-> NoCounts]
  /\ acked = {}

\* The call ends, with or without success: its lock is released, its locals go.
Release(c) ==
  /\ lock' = None
  /\ pc' = [pc EXCEPT ![c] = "idle"]
  /\ req' = [req EXCEPT ![c] = None]
  /\ seen' = [seen EXCEPT ![c] = None]
  /\ counts' = [counts EXCEPT ![c] = NoCounts]

Goto(c, where) ==
  /\ pc' = [pc EXCEPT ![c] = where]
  /\ UNCHANGED <<lock, req>>

\* Once it has the lock (waiting for it changes nothing) the call reads the
\* attempt; the outcome already recorded is accepted again, another is refused.
AfterLoad(r) ==
  IF outcome[r.attempt] = "" THEN "record"
  ELSE IF outcome[r.attempt] = r.outcome THEN "recorded"
  ELSE "refused"

LoadAttemptWithoutLock(c) ==
  /\ pc[c] = "idle"
  /\ lock' = c
  /\ \E r \in Requests : /\ req' = [req EXCEPT ![c] = r]
                         /\ pc' = [pc EXCEPT ![c] = AfterLoad(r)]
  /\ UNCHANGED <<outcome, by, kr, seen, counts, acked>>
LoadAttempt(c) ==
  /\ pc[c] = "idle" /\ lock = None
  /\ lock' = c
  /\ \E r \in Requests : /\ req' = [req EXCEPT ![c] = r]
                         /\ pc' = [pc EXCEPT ![c] = AfterLoad(r)]
  /\ UNCHANGED <<outcome, by, kr, seen, counts, acked>>

\* The attempt as it was read, with the outcome laid over it, replaces the
\* record; the answer to the write may be an error all the same.
RecordOutcome(c) ==
  /\ pc[c] = "record"
  /\ outcome' = [outcome EXCEPT ![req[c].attempt] = req[c].outcome]
  /\ by' = [by EXCEPT ![req[c].attempt] = req[c].actor]
  /\ \/ Goto(c, "recorded") /\ UNCHANGED <<seen, counts>>
     \/ Release(c)
  /\ UNCHANGED <<kr, acked>>

\* The attempt was not given from the known resolution: there is nothing to grade.
NothingToGrade(c) ==
  /\ pc[c] = "recorded" /\ req[c].attempt \notin Linked
  /\ acked' = acked \cup {req[c].attempt}
  /\ Release(c)
  /\ UNCHANGED <<outcome, by, kr>>

LoadGrade(c) ==
  /\ pc[c] = "recorded" /\ req[c].attempt \in Linked
  /\ seen' = [seen EXCEPT ![c] = kr.grade]
  /\ Goto(c, "graded")
  /\ UNCHANGED <<outcome, by, kr, counts, acked>>

CountOutcomes(c) ==
  /\ pc[c] = "graded"
  /\ \E S \in Pages : counts' = [counts EXCEPT ![c] = DeriveCounts(S)]
  /\ Goto(c, "counted")
  /\ UNCHANGED <<outcome, by, kr, seen, acked>>

\* update_known_resolution_grade: the counts, every approver and the grade
\* replace what the known resolution had.
GradedIfChanged(c) ==
  IF Regrade(seen[c], counts[c]) = kr.grade THEN kr ELSE
  [approved  |-> counts[c].approved,
   rejected  |-> counts[c].rejected,
   approvers |-> counts[c].approvers,
   grade     |-> Regrade(seen[c], counts[c])]
Graded(c) ==
  [approved  |-> counts[c].approved,
   rejected  |-> counts[c].rejected,
   approvers |-> counts[c].approvers,
   grade     |-> Regrade(seen[c], counts[c])]

WriteGrade(c) ==
  /\ pc[c] = "counted"
  /\ kr' = Graded(c)
  /\ acked' \in {acked \cup {req[c].attempt}, acked}
  /\ Release(c)
  /\ UNCHANGED <<outcome, by>>

\* A read or a write fails without effect, or the outcome is refused.
Fail(c) ==
  /\ pc[c] # "idle"
  /\ Release(c)
  /\ UNCHANGED <<outcome, by, kr, acked>>

\* The process stops and starts again: calls and lock are gone, the store stays.
Restart ==
  /\ lock' = None
  /\ pc' = [c \in Calls |-> "idle"]
  /\ req' = [c \in Calls |-> None]
  /\ seen' = [c \in Calls |-> None]
  /\ counts' = [c \in Calls |-> NoCounts]
  /\ UNCHANGED <<outcome, by, kr, acked>>

Next ==
  \/ \E c \in Calls :
       \/ LoadAttempt(c) \/ RecordOutcome(c) \/ NothingToGrade(c)
       \/ LoadGrade(c) \/ CountOutcomes(c) \/ WriteGrade(c) \/ Fail(c)
  \/ Restart

Spec == Init /\ [][Next]_vars

-----------------------------------------------------------------------------
\* The variables have their types, and the call inside the critical section is
\* the one that holds grade_lock.
TypeOK ==
  /\ outcome \in [Attempts -> Outcomes \cup {""}]
  /\ by \in [Attempts -> Actors \cup {None}]
  /\ kr \in [approved : Nat, rejected : Nat, approvers : SUBSET Actors, grade : Grades]
  /\ lock \in Calls \cup {None}
  /\ pc \in [Calls -> {"idle", "record", "recorded", "refused", "graded", "counted"}]
  /\ req \in [Calls -> Requests \cup {None}]
  /\ seen \in [Calls -> Grades \cup {None}]
  /\ counts \in [Calls -> Counts]
  /\ acked \subseteq Attempts
  /\ \A c \in Calls : /\ pc[c] # "idle" <=> lock = c
                      /\ pc[c] # "idle" => req[c] \in Requests

\* Outcomes are write-once, whoever else is recording one for the same attempt:
\* the outcome and the operator it is attributed to are never replaced.
OutcomeWriteOnce ==
  [][\A a \in Attempts : outcome[a] # "" => outcome'[a] = outcome[a] /\ by'[a] = by[a]]_vars

\* What the known resolution says is between what was acknowledged and what was
\* recorded: a failed call may leave an outcome uncounted until the next one,
\* but no acknowledged outcome is left out and none is counted twice.
AcknowledgedAreCounted ==
  LET acknowledged == acked \cap Linked IN
  /\ Cardinality(Resolved(acknowledged)) <= kr.approved
  /\ kr.approved <= Cardinality(Resolved(Linked))
  /\ Cardinality(Wrong(acknowledged)) <= kr.rejected
  /\ kr.rejected <= Cardinality(Wrong(Linked))
  /\ Approvers(acknowledged) \subseteq kr.approvers
  /\ kr.approvers \subseteq Approvers(Linked)

\* A known resolution answers by itself only after enough approvals by enough
\* different people, ids of the old form not counting as different.
AutoAnswerIsEarned ==
  kr.grade = "auto_answer_audited" =>
    /\ Cardinality(Resolved(Linked)) >= PromoteApprovals
    /\ Cardinality(Approvers(Linked) \ Legacy) >= PromoteApprovers

\* A demoted known resolution is never promoted again by recording outcomes.
DemotedForGood == [][kr.grade = "demoted" => kr'.grade = "demoted"]_vars

\* "Derived, not incremented: the same result however often it is called": the
\* grade changes only together with the counts it is derived from.
RegradeIsIdempotent ==
  [][<<kr'.approved, kr'.rejected, kr'.approvers>> = <<kr.approved, kr.rejected, kr.approvers>>
       => kr'.grade = kr.grade]_vars

-----------------------------------------------------------------------------
(* What the other calls cannot disturb while one holds the lock.           *)
ReadsAreCurrent ==
  \A c \in Calls :
    /\ pc[c] = "record" => outcome[req[c].attempt] = ""
    /\ pc[c] \in {"recorded", "graded", "counted"} => outcome[req[c].attempt] = req[c].outcome
    /\ pc[c] \in {"graded", "counted"} => seen[c] = kr.grade /\ req[c].attempt \in Linked
    /\ pc[c] = "counted" => \E S \in Pages : counts[c] = DeriveCounts(S)

RecordedByAnOperator == \A a \in Attempts : outcome[a] # "" => by[a] \in Actors
AcknowledgedAreRecorded == \A a \in acked : outcome[a] # ""

IndInv ==
  /\ TypeOK
  /\ ReadsAreCurrent
  /\ RecordedByAnOperator
  /\ AcknowledgedAreRecorded
  /\ AutoAnswerIsEarned
=============================================================================

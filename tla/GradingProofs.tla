--------------------------- MODULE GradingProofs ---------------------------
(***************************************************************************)
(* What record_answer_outcome keeps true of a known resolution, for any    *)
(* number of attempts, operators and concurrent calls, and any thresholds. *)
(*                                                                         *)
(* The inductive invariant says that what the call inside grade_lock has   *)
(* read is still what the store holds; every theorem follows from it.      *)
(***************************************************************************)
EXTENDS Grading, FiniteSetTheorems, TLAPS

LEMMA SubsetCount ==
  ASSUME NEW S, NEW T \in SUBSET S, IsFiniteSet(S)
  PROVE  Cardinality(T) \in Nat /\ Cardinality(S) \in Nat /\ Cardinality(T) <= Cardinality(S)
BY FS_Subset, FS_CardinalityType

LEMMA FiniteAttempts == ASSUME NEW S \in SUBSET Attempts PROVE IsFiniteSet(S)
BY SetsAssumption, FS_Subset

LEMMA FiniteActors == ASSUME NEW S \in SUBSET Actors PROVE IsFiniteSet(S)
BY SetsAssumption, FS_Subset

LEMMA PagesAreLinked == ASSUME NEW S \in Pages PROVE S \subseteq Linked
BY DEF Pages

LEMMA ApproversAreActors ==
  ASSUME RecordedByAnOperator, NEW S \in SUBSET Attempts
  PROVE  Approvers(S) \subseteq Actors
BY DEF RecordedByAnOperator, Approvers, Resolved

LEMMA DerivedCountsType ==
  ASSUME RecordedByAnOperator, NEW S \in SUBSET Attempts
  PROVE  DeriveCounts(S) \in Counts
<1>1. Resolved(S) \in SUBSET Attempts /\ Wrong(S) \in SUBSET Attempts
  BY DEF Resolved, Wrong
<1>2. Cardinality(Resolved(S)) \in Nat /\ Cardinality(Wrong(S)) \in Nat
  BY <1>1, FiniteAttempts, FS_CardinalityType
<1> QED BY <1>2, ApproversAreActors DEF DeriveCounts, Counts

\* Counting part of the attempts gives no more than counting all of them.
LEMMA CountsAreMonotone ==
  ASSUME RecordedByAnOperator, NEW T \in SUBSET Attempts, NEW S \in SUBSET T
  PROVE  /\ Cardinality(Resolved(S)) <= Cardinality(Resolved(T))
         /\ Cardinality(Wrong(S)) <= Cardinality(Wrong(T))
         /\ Approvers(S) \subseteq Approvers(T)
         /\ Cardinality(Approvers(S) \ Legacy) <= Cardinality(Approvers(T) \ Legacy)
         /\ Cardinality(Resolved(S)) \in Nat /\ Cardinality(Resolved(T)) \in Nat
         /\ Cardinality(Wrong(S)) \in Nat /\ Cardinality(Wrong(T)) \in Nat
         /\ Cardinality(Approvers(S) \ Legacy) \in Nat
         /\ Cardinality(Approvers(T) \ Legacy) \in Nat
<1>1. /\ Resolved(S) \in SUBSET Resolved(T) /\ Resolved(T) \in SUBSET Attempts
      /\ Wrong(S) \in SUBSET Wrong(T) /\ Wrong(T) \in SUBSET Attempts
  BY DEF Resolved, Wrong
<1>2. Approvers(S) \subseteq Approvers(T)
  BY <1>1 DEF Approvers
<1>3. Approvers(S) \ Legacy \in SUBSET (Approvers(T) \ Legacy)
  BY <1>2
<1>4. Approvers(T) \ Legacy \in SUBSET Actors
  BY ApproversAreActors
<1>5. IsFiniteSet(Resolved(T)) /\ IsFiniteSet(Wrong(T))
  BY <1>1, FiniteAttempts
<1>6. IsFiniteSet(Approvers(T) \ Legacy)
  BY <1>4, FiniteActors
<1>7. /\ Cardinality(Resolved(S)) <= Cardinality(Resolved(T))
      /\ Cardinality(Resolved(S)) \in Nat /\ Cardinality(Resolved(T)) \in Nat
  BY <1>1, <1>5, SubsetCount
<1>8. /\ Cardinality(Wrong(S)) <= Cardinality(Wrong(T))
      /\ Cardinality(Wrong(S)) \in Nat /\ Cardinality(Wrong(T)) \in Nat
  BY <1>1, <1>5, SubsetCount
<1>9. /\ Cardinality(Approvers(S) \ Legacy) <= Cardinality(Approvers(T) \ Legacy)
      /\ Cardinality(Approvers(S) \ Legacy) \in Nat
      /\ Cardinality(Approvers(T) \ Legacy) \in Nat
  BY <1>3, <1>6, SubsetCount
<1> QED BY <1>2, <1>7, <1>8, <1>9

-----------------------------------------------------------------------------
(* Steps of the call that holds the lock.                                  *)

LEMMA OthersAreIdle ==
  ASSUME TypeOK, NEW c \in Calls, pc[c] # "idle"
  PROVE  lock = c /\ \A d \in Calls \ {c} : pc[d] = "idle"
BY DEF TypeOK

\* After a call has released the lock no call is under way.
LEMMA Released ==
  ASSUME TypeOK, NEW c \in Calls, pc[c] # "idle", Release(c)
  PROVE  /\ lock' = None
         /\ pc' \in [Calls -> {"idle", "record", "recorded", "refused", "graded", "counted"}]
         /\ req' \in [Calls -> Requests \cup {None}]
         /\ seen' \in [Calls -> Grades \cup {None}]
         /\ counts' \in [Calls -> Counts]
         /\ \A d \in Calls : pc'[d] = "idle"
<1>1. NoCounts \in Counts
  BY DEF NoCounts, Counts
<1> QED BY <1>1, OthersAreIdle DEF TypeOK, Release

LEMMA ReleasedReads ==
  ASSUME \A d \in Calls : pc'[d] = "idle"
  PROVE  ReadsAreCurrent'
BY DEF ReadsAreCurrent

LEMMA LoadAttemptKeeps ==
  ASSUME IndInv, NEW c \in Calls, LoadAttempt(c)
  PROVE  IndInv'
<1> USE DEF IndInv
<1>1. PICK r \in Requests : /\ req' = [req EXCEPT ![c] = r]
                            /\ pc' = [pc EXCEPT ![c] = AfterLoad(r)]
  BY DEF LoadAttempt
<1>2. /\ pc[c] = "idle" /\ lock = None /\ lock' = c
      /\ UNCHANGED <<outcome, by, kr, seen, counts, acked>>
  BY DEF LoadAttempt
<1>3. \A d \in Calls : pc[d] = "idle"
  BY <1>2, SetsAssumption DEF TypeOK
<1>4. AfterLoad(r) \in {"record", "recorded", "refused"}
  BY DEF AfterLoad
<1>5. TypeOK'
  <2>1. /\ pc' \in [Calls -> {"idle", "record", "recorded", "refused", "graded", "counted"}]
        /\ req' \in [Calls -> Requests \cup {None}]
        /\ lock' \in Calls \cup {None}
    BY <1>1, <1>2, <1>4 DEF TypeOK
  <2>2. \A d \in Calls : /\ pc'[d] # "idle" <=> lock' = d
                         /\ pc'[d] # "idle" => req'[d] \in Requests
    BY <1>1, <1>2, <1>3, <1>4 DEF TypeOK
  <2> QED BY <1>2, <2>1, <2>2 DEF TypeOK
<1>6. ReadsAreCurrent'
  <2> SUFFICES ASSUME NEW d \in Calls
               PROVE  /\ pc'[d] = "record" => outcome'[req'[d].attempt] = ""
                      /\ pc'[d] \in {"recorded", "graded", "counted"}
                           => outcome'[req'[d].attempt] = req'[d].outcome
                      /\ pc'[d] \notin {"graded", "counted"}
    BY DEF ReadsAreCurrent
  <2>1. CASE d = c
    BY <1>1, <1>2, <2>1 DEF AfterLoad, TypeOK
  <2>2. CASE d # c
    BY <1>1, <1>2, <1>3, <2>2 DEF TypeOK
  <2> QED BY <2>1, <2>2
<1>7. RecordedByAnOperator' /\ AcknowledgedAreRecorded' /\ AutoAnswerIsEarned'
  BY <1>2 DEF RecordedByAnOperator, AcknowledgedAreRecorded, AutoAnswerIsEarned,
              Resolved, Approvers
<1> QED BY <1>5, <1>6, <1>7

\* Recording an outcome adds to what is counted and changes nothing recorded.
LEMMA OutcomesGrow ==
  ASSUME IndInv, NEW c \in Calls, RecordOutcome(c)
  PROVE  /\ req[c] \in Requests
         /\ outcome' \in [Attempts -> Outcomes \cup {""}]
         /\ by' \in [Attempts -> Actors \cup {None}]
         /\ \A a \in Attempts : outcome[a] # "" => outcome'[a] = outcome[a] /\ by'[a] = by[a]
         /\ RecordedByAnOperator'
         /\ AcknowledgedAreRecorded'
<1> USE DEF IndInv
<1>1. /\ pc[c] = "record"
      /\ outcome' = [outcome EXCEPT ![req[c].attempt] = req[c].outcome]
      /\ by' = [by EXCEPT ![req[c].attempt] = req[c].actor]
      /\ acked' = acked
  BY DEF RecordOutcome
<1>2. req[c] \in Requests
  BY <1>1 DEF TypeOK
<1>3. req[c].attempt \in Attempts /\ req[c].outcome \in Outcomes /\ req[c].actor \in Actors
  BY <1>2 DEF Requests
<1>4. outcome[req[c].attempt] = ""
  BY <1>1 DEF ReadsAreCurrent
<1>5. /\ outcome' \in [Attempts -> Outcomes \cup {""}]
      /\ by' \in [Attempts -> Actors \cup {None}]
  BY <1>1, <1>3 DEF TypeOK
<1>6. \A a \in Attempts : outcome[a] # "" => outcome'[a] = outcome[a] /\ by'[a] = by[a]
  BY <1>1, <1>3, <1>4 DEF TypeOK
<1>7. RecordedByAnOperator'
  BY <1>1, <1>3 DEF RecordedByAnOperator, TypeOK
<1>8. AcknowledgedAreRecorded'
  <2> SUFFICES ASSUME NEW a \in acked' PROVE outcome'[a] # ""
    BY DEF AcknowledgedAreRecorded
  <2>1. a \in Attempts /\ outcome[a] # ""
    BY <1>1 DEF AcknowledgedAreRecorded, TypeOK
  <2> QED BY <1>6, <2>1
<1> QED BY <1>2, <1>5, <1>6, <1>7, <1>8

LEMMA RecordedCountsGrow ==
  ASSUME IndInv, NEW c \in Calls, RecordOutcome(c), NEW S \in SUBSET Attempts
  PROVE  /\ Cardinality(Resolved(S)) <= Cardinality(Resolved(S)')
         /\ Cardinality(Wrong(S)) <= Cardinality(Wrong(S)')
         /\ Approvers(S) \subseteq Approvers(S)'
         /\ Cardinality(Approvers(S) \ Legacy) <= Cardinality(Approvers(S)' \ Legacy)
         /\ Cardinality(Resolved(S)) \in Nat /\ Cardinality(Resolved(S)') \in Nat
         /\ Cardinality(Wrong(S)) \in Nat /\ Cardinality(Wrong(S)') \in Nat
         /\ Cardinality(Approvers(S) \ Legacy) \in Nat
         /\ Cardinality(Approvers(S)' \ Legacy) \in Nat
<1>1. \A a \in S : outcome[a] # "" => outcome'[a] = outcome[a] /\ by'[a] = by[a]
  BY OutcomesGrow
<1>2. /\ Resolved(S) \in SUBSET (Resolved(S)') /\ Resolved(S)' \in SUBSET Attempts
      /\ Wrong(S) \in SUBSET (Wrong(S)') /\ Wrong(S)' \in SUBSET Attempts
  BY <1>1 DEF Resolved, Wrong
<1>3. Approvers(S) \subseteq Approvers(S)'
  BY <1>1, <1>2 DEF Approvers, Resolved
<1>4. Approvers(S)' \subseteq Actors
  <2>1. RecordedByAnOperator'
    BY OutcomesGrow
  <2> QED BY <2>1 DEF RecordedByAnOperator, Approvers, Resolved
<1>5. IsFiniteSet(Resolved(S)') /\ IsFiniteSet(Wrong(S)')
  BY <1>2, FiniteAttempts
<1>6. IsFiniteSet(Approvers(S)' \ Legacy)
  BY <1>4, FiniteActors
<1>7. /\ Cardinality(Resolved(S)) <= Cardinality(Resolved(S)')
      /\ Cardinality(Resolved(S)) \in Nat /\ Cardinality(Resolved(S)') \in Nat
  BY <1>2, <1>5, SubsetCount
<1>8. /\ Cardinality(Wrong(S)) <= Cardinality(Wrong(S)')
      /\ Cardinality(Wrong(S)) \in Nat /\ Cardinality(Wrong(S)') \in Nat
  BY <1>2, <1>5, SubsetCount
<1>9. /\ Cardinality(Approvers(S) \ Legacy) <= Cardinality(Approvers(S)' \ Legacy)
      /\ Cardinality(Approvers(S) \ Legacy) \in Nat
      /\ Cardinality(Approvers(S)' \ Legacy) \in Nat
  BY <1>3, <1>6, SubsetCount
<1> QED BY <1>3, <1>7, <1>8, <1>9

LEMMA RecordOutcomeKeeps ==
  ASSUME IndInv, NEW c \in Calls, RecordOutcome(c)
  PROVE  IndInv'
<1>1. /\ pc[c] = "record" /\ UNCHANGED <<kr, acked>>
      /\ outcome' = [outcome EXCEPT ![req[c].attempt] = req[c].outcome]
  BY DEF RecordOutcome
<1>2. TypeOK /\ lock = c /\ \A d \in Calls \ {c} : pc[d] = "idle"
  BY <1>1, OthersAreIdle DEF IndInv
<1>3. /\ req[c] \in Requests
      /\ outcome' \in [Attempts -> Outcomes \cup {""}]
      /\ by' \in [Attempts -> Actors \cup {None}]
      /\ RecordedByAnOperator' /\ AcknowledgedAreRecorded'
  BY OutcomesGrow
<1>4. AutoAnswerIsEarned'
  <2>1. Linked \in SUBSET Attempts
    BY SetsAssumption
  <2>2. /\ Cardinality(Resolved(Linked)) <= Cardinality(Resolved(Linked)')
        /\ Cardinality(Approvers(Linked) \ Legacy) <= Cardinality(Approvers(Linked)' \ Legacy)
        /\ Cardinality(Resolved(Linked)) \in Nat /\ Cardinality(Resolved(Linked)') \in Nat
        /\ Cardinality(Approvers(Linked) \ Legacy) \in Nat
        /\ Cardinality(Approvers(Linked)' \ Legacy) \in Nat
    BY <2>1, RecordedCountsGrow
  <2>3. AutoAnswerIsEarned
    BY DEF IndInv
  <2> QED BY <1>1, <2>2, <2>3, ThresholdsAssumption DEF AutoAnswerIsEarned
<1>5. CASE Release(c)
  <2>1. /\ lock' = None
        /\ pc' \in [Calls -> {"idle", "record", "recorded", "refused", "graded", "counted"}]
        /\ req' \in [Calls -> Requests \cup {None}]
        /\ seen' \in [Calls -> Grades \cup {None}]
        /\ counts' \in [Calls -> Counts]
        /\ \A d \in Calls : pc'[d] = "idle"
    BY <1>1, <1>2, <1>5, Released
  <2>2. TypeOK'
    BY <1>1, <1>2, <1>3, <2>1, SetsAssumption DEF TypeOK
  <2> QED BY <1>3, <1>4, <2>1, <2>2, ReleasedReads DEF IndInv
<1>6. CASE Goto(c, "recorded") /\ UNCHANGED <<seen, counts>>
  <2>1. pc' = [pc EXCEPT ![c] = "recorded"] /\ UNCHANGED <<lock, req, seen, counts>>
    BY <1>6 DEF Goto
  <2>2. \A d \in Calls : pc'[d] = IF d = c THEN "recorded" ELSE "idle"
    BY <1>2, <2>1 DEF TypeOK
  <2>3. TypeOK'
    <3>1. pc' \in [Calls -> {"idle", "record", "recorded", "refused", "graded", "counted"}]
      BY <1>2, <2>1 DEF TypeOK
    <3>2. \A d \in Calls : /\ pc'[d] # "idle" <=> lock' = d
                           /\ pc'[d] # "idle" => req'[d] \in Requests
      <4> SUFFICES ASSUME NEW d \in Calls
                   PROVE  /\ pc'[d] # "idle" <=> lock' = d
                          /\ pc'[d] # "idle" => req'[d] \in Requests
        OBVIOUS
      <4>1. CASE d = c
        <5>1. pc'[d] = "recorded"
          BY <2>2, <4>1
        <5>2. lock' = d /\ req'[d] \in Requests
          BY <1>2, <1>3, <2>1, <4>1
        <5> QED BY <5>1, <5>2
      <4>2. CASE d # c
        BY <1>2, <2>1, <2>2, <4>2
      <4> QED BY <4>1, <4>2
    <3> QED BY <1>1, <1>2, <1>3, <2>1, <3>1, <3>2 DEF TypeOK
  <2>4. outcome'[req[c].attempt] = req[c].outcome
    BY <1>1, <1>2, <1>3 DEF TypeOK, Requests
  <2>5. ReadsAreCurrent'
    <3> SUFFICES ASSUME NEW d \in Calls
                 PROVE  /\ pc'[d] \notin {"record", "graded", "counted"}
                        /\ pc'[d] = "recorded" => outcome'[req'[d].attempt] = req'[d].outcome
      BY DEF ReadsAreCurrent
    <3>1. CASE d = c
      BY <2>1, <2>2, <2>4, <3>1
    <3>2. CASE d # c
      BY <2>2, <3>2
    <3> QED BY <3>1, <3>2
  <2> QED BY <1>3, <1>4, <2>3, <2>5 DEF IndInv
<1> QED BY <1>5, <1>6 DEF RecordOutcome

LEMMA NothingToGradeKeeps ==
  ASSUME IndInv, NEW c \in Calls, NothingToGrade(c)
  PROVE  IndInv'
<1> USE DEF IndInv
<1>1. /\ pc[c] = "recorded" /\ Release(c) /\ UNCHANGED <<outcome, by, kr>>
      /\ acked' = acked \cup {req[c].attempt}
  BY DEF NothingToGrade
<1>2. /\ lock' = None
      /\ pc' \in [Calls -> {"idle", "record", "recorded", "refused", "graded", "counted"}]
      /\ req' \in [Calls -> Requests \cup {None}]
      /\ seen' \in [Calls -> Grades \cup {None}]
      /\ counts' \in [Calls -> Counts]
      /\ \A d \in Calls : pc'[d] = "idle"
  BY <1>1, Released
<1>3. req[c] \in Requests
  BY <1>1 DEF TypeOK
<1>4. req[c].attempt \in Attempts /\ req[c].outcome \in Outcomes
  BY <1>3 DEF Requests
<1>5. outcome[req[c].attempt] # ""
  BY <1>1, <1>4 DEF ReadsAreCurrent, Outcomes
<1>6. TypeOK'
  BY <1>1, <1>2, <1>4, SetsAssumption DEF TypeOK
<1>7. RecordedByAnOperator' /\ AcknowledgedAreRecorded' /\ AutoAnswerIsEarned'
  BY <1>1, <1>5 DEF RecordedByAnOperator, AcknowledgedAreRecorded, AutoAnswerIsEarned,
                    Resolved, Approvers
<1> QED BY <1>2, <1>6, <1>7, ReleasedReads

LEMMA LoadGradeKeeps ==
  ASSUME IndInv, NEW c \in Calls, LoadGrade(c)
  PROVE  IndInv'
<1> USE DEF IndInv
<1>1. /\ pc[c] = "recorded" /\ req[c].attempt \in Linked
      /\ seen' = [seen EXCEPT ![c] = kr.grade]
      /\ pc' = [pc EXCEPT ![c] = "graded"]
      /\ UNCHANGED <<outcome, by, kr, counts, acked, lock, req>>
  BY DEF LoadGrade, Goto
<1>2. lock = c /\ \A d \in Calls \ {c} : pc[d] = "idle"
  BY <1>1, OthersAreIdle
<1>3. \A d \in Calls : pc'[d] = IF d = c THEN "graded" ELSE "idle"
  BY <1>1, <1>2 DEF TypeOK
<1>4. TypeOK'
  <2>1. kr.grade \in Grades
    BY DEF TypeOK
  <2>2. /\ pc' \in [Calls -> {"idle", "record", "recorded", "refused", "graded", "counted"}]
        /\ seen' \in [Calls -> Grades \cup {None}]
    BY <1>1, <2>1 DEF TypeOK
  <2>3. \A d \in Calls : /\ pc'[d] # "idle" <=> lock' = d
                         /\ pc'[d] # "idle" => req'[d] \in Requests
    BY <1>1, <1>2, <1>3 DEF TypeOK
  <2> QED BY <1>1, <2>2, <2>3 DEF TypeOK
<1>5. ReadsAreCurrent'
  <2>1. seen'[c] = kr'.grade
    BY <1>1 DEF TypeOK
  <2>2. outcome'[req'[c].attempt] = req'[c].outcome
    BY <1>1 DEF ReadsAreCurrent
  <2> SUFFICES ASSUME NEW d \in Calls
               PROVE  /\ pc'[d] \notin {"record", "recorded", "counted"}
                      /\ pc'[d] = "graded" =>
                           /\ outcome'[req'[d].attempt] = req'[d].outcome
                           /\ seen'[d] = kr'.grade /\ req'[d].attempt \in Linked
    BY DEF ReadsAreCurrent
  <2>3. CASE d = c
    BY <1>1, <1>3, <2>1, <2>2, <2>3
  <2>4. CASE d # c
    BY <1>3, <2>4
  <2> QED BY <2>3, <2>4
<1>6. RecordedByAnOperator' /\ AcknowledgedAreRecorded' /\ AutoAnswerIsEarned'
  BY <1>1 DEF RecordedByAnOperator, AcknowledgedAreRecorded, AutoAnswerIsEarned,
              Resolved, Approvers
<1> QED BY <1>4, <1>5, <1>6

LEMMA CountOutcomesKeeps ==
  ASSUME IndInv, NEW c \in Calls, CountOutcomes(c)
  PROVE  IndInv'
<1> USE DEF IndInv
<1>1. /\ pc[c] = "graded"
      /\ pc' = [pc EXCEPT ![c] = "counted"]
      /\ UNCHANGED <<outcome, by, kr, seen, acked, lock, req>>
  BY DEF CountOutcomes, Goto
<1>2. PICK S \in Pages : counts' = [counts EXCEPT ![c] = DeriveCounts(S)]
  BY DEF CountOutcomes
<1>3. lock = c /\ \A d \in Calls \ {c} : pc[d] = "idle"
  BY <1>1, OthersAreIdle
<1>4. \A d \in Calls : pc'[d] = IF d = c THEN "counted" ELSE "idle"
  BY <1>1, <1>3 DEF TypeOK
<1>5. TypeOK'
  <2>1. DeriveCounts(S) \in Counts
    BY PagesAreLinked, SetsAssumption, DerivedCountsType
  <2>2. /\ pc' \in [Calls -> {"idle", "record", "recorded", "refused", "graded", "counted"}]
        /\ counts' \in [Calls -> Counts]
    BY <1>1, <1>2, <2>1 DEF TypeOK
  <2>3. \A d \in Calls : /\ pc'[d] # "idle" <=> lock' = d
                         /\ pc'[d] # "idle" => req'[d] \in Requests
    BY <1>1, <1>3, <1>4 DEF TypeOK
  <2> QED BY <1>1, <2>2, <2>3 DEF TypeOK
<1>6. ReadsAreCurrent'
  <2>1. DeriveCounts(S)' = DeriveCounts(S)
    BY <1>1 DEF DeriveCounts, Resolved, Wrong, Approvers
  <2>2. counts'[c] = DeriveCounts(S)'
    BY <1>2, <2>1 DEF TypeOK
  <2>3. /\ outcome'[req'[c].attempt] = req'[c].outcome
        /\ seen'[c] = kr'.grade /\ req'[c].attempt \in Linked
    BY <1>1 DEF ReadsAreCurrent
  <2> QED BY <1>4, <2>2, <2>3 DEF ReadsAreCurrent
<1>7. RecordedByAnOperator' /\ AcknowledgedAreRecorded' /\ AutoAnswerIsEarned'
  BY <1>1 DEF RecordedByAnOperator, AcknowledgedAreRecorded, AutoAnswerIsEarned,
              Resolved, Approvers
<1> QED BY <1>5, <1>6, <1>7

\* What WriteGrade makes of the known resolution.
LEMMA WrittenGrade ==
  ASSUME IndInv, NEW c \in Calls, WriteGrade(c)
  PROVE  /\ kr' \in [approved : Nat, rejected : Nat, approvers : SUBSET Actors, grade : Grades]
         /\ kr.grade = "demoted" => kr'.grade = "demoted"
         /\ AutoAnswerIsEarned'
<1> USE DEF IndInv
<1>1. /\ pc[c] = "counted" /\ kr' = Graded(c)
      /\ UNCHANGED <<outcome, by>>
  BY DEF WriteGrade
<1>2. /\ kr'.approved = counts[c].approved
      /\ kr'.rejected = counts[c].rejected
      /\ kr'.approvers = counts[c].approvers
      /\ kr'.grade = Regrade(kr.grade, counts[c])
  BY <1>1 DEF Graded, ReadsAreCurrent
<1>3. PICK S \in Pages : counts[c] = DeriveCounts(S)
  BY <1>1 DEF ReadsAreCurrent
<1>4. S \in SUBSET Linked /\ Linked \in SUBSET Attempts
  BY PagesAreLinked, SetsAssumption
<1>5. kr' \in [approved : Nat, rejected : Nat, approvers : SUBSET Actors, grade : Grades]
  <2>1. counts[c].approved \in Nat /\ counts[c].rejected \in Nat /\ counts[c].approvers \subseteq Actors
    BY DEF TypeOK, Counts
  <2>2. Regrade(seen[c], counts[c]) \in Grades
    <3>1. seen[c] \in Grades
      BY <1>1 DEF ReadsAreCurrent, TypeOK
    <3> QED BY <3>1 DEF Regrade, Grades
  <2> QED BY <1>1, <2>1, <2>2 DEF Graded
<1>6. kr.grade = "demoted" => kr'.grade = "demoted"
  BY <1>2 DEF Regrade
<1>7. AutoAnswerIsEarned'
  <2> SUFFICES ASSUME kr'.grade = "auto_answer_audited"
               PROVE  /\ Cardinality(Resolved(Linked)) >= PromoteApprovals
                      /\ Cardinality(Approvers(Linked) \ Legacy) >= PromoteApprovers
    BY <1>1 DEF AutoAnswerIsEarned, Resolved, Approvers
  <2>1. CASE kr.grade = "auto_answer_audited"
    BY <2>1 DEF AutoAnswerIsEarned
  <2>2. CASE Promotes(counts[c])
    <3>1. /\ Cardinality(Resolved(S)) >= PromoteApprovals
          /\ Cardinality(Approvers(S) \ Legacy) >= PromoteApprovers
      BY <1>3, <2>2 DEF Promotes, Diverse, DeriveCounts
    <3>2. /\ Cardinality(Resolved(S)) <= Cardinality(Resolved(Linked))
          /\ Cardinality(Approvers(S) \ Legacy) <= Cardinality(Approvers(Linked) \ Legacy)
          /\ Cardinality(Resolved(S)) \in Nat /\ Cardinality(Resolved(Linked)) \in Nat
          /\ Cardinality(Approvers(S) \ Legacy) \in Nat
          /\ Cardinality(Approvers(Linked) \ Legacy) \in Nat
      BY <1>4, CountsAreMonotone
    <3> QED BY <3>1, <3>2, ThresholdsAssumption
  <2> QED BY <1>2, <2>1, <2>2 DEF Regrade
<1> QED BY <1>5, <1>6, <1>7

LEMMA WriteGradeKeeps ==
  ASSUME IndInv, NEW c \in Calls, WriteGrade(c)
  PROVE  IndInv'
<1> USE DEF IndInv
<1>1. /\ pc[c] = "counted" /\ Release(c) /\ UNCHANGED <<outcome, by>>
      /\ acked' \in {acked \cup {req[c].attempt}, acked}
  BY DEF WriteGrade
<1>2. /\ lock' = None
      /\ pc' \in [Calls -> {"idle", "record", "recorded", "refused", "graded", "counted"}]
      /\ req' \in [Calls -> Requests \cup {None}]
      /\ seen' \in [Calls -> Grades \cup {None}]
      /\ counts' \in [Calls -> Counts]
      /\ \A d \in Calls : pc'[d] = "idle"
  BY <1>1, Released
<1>3. /\ kr' \in [approved : Nat, rejected : Nat, approvers : SUBSET Actors, grade : Grades]
      /\ AutoAnswerIsEarned'
  BY WrittenGrade
<1>4. req[c] \in Requests
  BY <1>1 DEF TypeOK
<1>5. req[c].attempt \in Attempts /\ req[c].outcome \in Outcomes
  BY <1>4 DEF Requests
<1>6. outcome[req[c].attempt] # ""
  BY <1>1, <1>5 DEF ReadsAreCurrent, Outcomes
<1>7. TypeOK'
  <2>1. acked' \subseteq Attempts
    BY <1>1, <1>5 DEF TypeOK
  <2> QED BY <1>1, <1>2, <1>3, <2>1, SetsAssumption DEF TypeOK
<1>8. RecordedByAnOperator' /\ AcknowledgedAreRecorded'
  BY <1>1, <1>6 DEF RecordedByAnOperator, AcknowledgedAreRecorded
<1> QED BY <1>2, <1>3, <1>7, <1>8, ReleasedReads

LEMMA FailKeeps ==
  ASSUME IndInv, NEW c \in Calls, Fail(c)
  PROVE  IndInv'
<1> USE DEF IndInv
<1>1. pc[c] # "idle" /\ Release(c) /\ UNCHANGED <<outcome, by, kr, acked>>
  BY DEF Fail
<1>2. /\ lock' = None
      /\ pc' \in [Calls -> {"idle", "record", "recorded", "refused", "graded", "counted"}]
      /\ req' \in [Calls -> Requests \cup {None}]
      /\ seen' \in [Calls -> Grades \cup {None}]
      /\ counts' \in [Calls -> Counts]
      /\ \A d \in Calls : pc'[d] = "idle"
  BY <1>1, Released
<1>3. TypeOK'
  BY <1>1, <1>2, SetsAssumption DEF TypeOK
<1>4. RecordedByAnOperator' /\ AcknowledgedAreRecorded' /\ AutoAnswerIsEarned'
  BY <1>1 DEF RecordedByAnOperator, AcknowledgedAreRecorded, AutoAnswerIsEarned,
              Resolved, Approvers
<1> QED BY <1>2, <1>3, <1>4, ReleasedReads

LEMMA RestartKeeps == ASSUME IndInv, Restart PROVE IndInv'
<1> USE DEF IndInv
<1>1. NoCounts \in Counts
  BY DEF NoCounts, Counts
<1>2. TypeOK'
  BY <1>1, SetsAssumption DEF TypeOK, Restart
<1>3. \A d \in Calls : pc'[d] = "idle"
  BY DEF Restart
<1>4. RecordedByAnOperator' /\ AcknowledgedAreRecorded' /\ AutoAnswerIsEarned'
  BY DEF Restart, RecordedByAnOperator, AcknowledgedAreRecorded, AutoAnswerIsEarned,
         Resolved, Approvers
<1> QED BY <1>2, <1>3, <1>4, ReleasedReads

LEMMA InitIndInv == Init => IndInv
<1> SUFFICES ASSUME Init PROVE IndInv
  OBVIOUS
<1>1. NoCounts \in Counts
  BY DEF NoCounts, Counts
<1>2. TypeOK
  BY <1>1, SetsAssumption DEF Init, TypeOK, Grades
<1>3. ReadsAreCurrent /\ RecordedByAnOperator /\ AcknowledgedAreRecorded /\ AutoAnswerIsEarned
  BY DEF Init, ReadsAreCurrent, RecordedByAnOperator, AcknowledgedAreRecorded, AutoAnswerIsEarned
<1> QED BY <1>2, <1>3 DEF IndInv

LEMMA StutterKeeps == ASSUME IndInv, UNCHANGED vars PROVE IndInv'
<1> USE DEF IndInv, vars
<1>1. TypeOK'
  BY DEF TypeOK
<1>2. \A S \in Pages : DeriveCounts(S)' = DeriveCounts(S)
  BY DEF DeriveCounts, Resolved, Wrong, Approvers
<1>3. ReadsAreCurrent'
  BY <1>2 DEF ReadsAreCurrent
<1>4. RecordedByAnOperator' /\ AcknowledgedAreRecorded' /\ AutoAnswerIsEarned'
  BY DEF RecordedByAnOperator, AcknowledgedAreRecorded, AutoAnswerIsEarned, Resolved, Approvers
<1> QED BY <1>1, <1>3, <1>4

LEMMA NextKeeps == IndInv /\ [Next]_vars => IndInv'
<1> SUFFICES ASSUME IndInv, [Next]_vars PROVE IndInv'
  OBVIOUS
<1>1. ASSUME NEW c \in Calls,
             \/ LoadAttempt(c) \/ RecordOutcome(c) \/ NothingToGrade(c)
             \/ LoadGrade(c) \/ CountOutcomes(c) \/ WriteGrade(c) \/ Fail(c)
      PROVE  IndInv'
  BY <1>1, LoadAttemptKeeps, RecordOutcomeKeeps, NothingToGradeKeeps, LoadGradeKeeps,
     CountOutcomesKeeps, WriteGradeKeeps, FailKeeps
<1>2. CASE Restart
  BY <1>2, RestartKeeps
<1>3. CASE UNCHANGED vars
  BY <1>3, StutterKeeps
<1> QED BY <1>1, <1>2, <1>3 DEF Next

-----------------------------------------------------------------------------
\* A known resolution answers by itself only after enough approvals by enough
\* people (regrade), and one call at a time is inside grade_lock.
THEOREM AutoAnswerNeedsApprovals == Spec => []TypeOK /\ []AutoAnswerIsEarned
<1>1. IndInv => TypeOK /\ AutoAnswerIsEarned
  BY DEF IndInv
<1> QED BY <1>1, InitIndInv, NextKeeps, PTL DEF Spec

\* Demotion is not undone by recording outcomes, whatever fails or is retried.
THEOREM DemotionIsFinal == Spec => DemotedForGood
<1>1. IndInv /\ [Next]_vars => [kr.grade = "demoted" => kr'.grade = "demoted"]_vars
  <2> SUFFICES ASSUME IndInv, Next, kr.grade = "demoted" PROVE kr'.grade = "demoted"
    OBVIOUS
  <2>1. ASSUME NEW c \in Calls, WriteGrade(c) PROVE kr'.grade = "demoted"
    BY <2>1, WrittenGrade
  <2>2. ASSUME UNCHANGED kr PROVE kr'.grade = "demoted"
    BY <2>2
  <2> QED BY <2>1, <2>2 DEF Next, LoadAttempt, RecordOutcome, NothingToGrade, LoadGrade,
                           CountOutcomes, Fail, Restart
<1> QED BY <1>1, InitIndInv, NextKeeps, PTL DEF Spec, DemotedForGood

\* The outcome of an attempt and its operator are recorded once.
THEOREM OutcomeIsFinal == Spec => OutcomeWriteOnce
<1> DEFINE Kept == \A a \in Attempts : outcome[a] # "" => outcome'[a] = outcome[a] /\ by'[a] = by[a]
<1>1. IndInv /\ [Next]_vars => [Kept]_vars
  <2> SUFFICES ASSUME IndInv, Next PROVE Kept
    OBVIOUS
  <2>1. ASSUME NEW c \in Calls, RecordOutcome(c) PROVE Kept
    BY <2>1, OutcomesGrow
  <2>2. ASSUME UNCHANGED <<outcome, by>> PROVE Kept
    BY <2>2
  <2> HIDE DEF Kept
  <2> QED BY <2>1, <2>2 DEF Next, LoadAttempt, WriteGrade, NothingToGrade, LoadGrade,
                           CountOutcomes, Fail, Restart
<1> QED BY <1>1, InitIndInv, NextKeeps, PTL DEF Spec, OutcomeWriteOnce

-----------------------------------------------------------------------------
(* The counts, as long as one page of the query holds every attempt.       *)

LEMMA InitCounted == Init => AcknowledgedAreCounted
<1> SUFFICES ASSUME Init PROVE AcknowledgedAreCounted
  OBVIOUS
<1>1. ASSUME NEW S \in SUBSET Attempts
      PROVE  Resolved(S) = {} /\ Wrong(S) = {} /\ Approvers(S) = {}
  BY DEF Init, Resolved, Wrong, Approvers
<1>2. /\ Resolved(Linked) = {} /\ Wrong(Linked) = {} /\ Approvers(Linked) = {}
  BY <1>1, SetsAssumption
<1>3. /\ Resolved(acked \cap Linked) = {} /\ Wrong(acked \cap Linked) = {}
      /\ Approvers(acked \cap Linked) = {}
  BY <1>1, SetsAssumption
<1>4. Cardinality({}) = 0
  BY FS_EmptySet
<1>5. kr.approved = 0 /\ kr.rejected = 0 /\ kr.approvers = {}
  BY DEF Init
<1> QED BY <1>2, <1>3, <1>4, <1>5 DEF AcknowledgedAreCounted

\* Nothing acknowledged is touched, and what is recorded only grows.
LEMMA RecordOutcomeCounted ==
  ASSUME IndInv, AcknowledgedAreCounted, NEW c \in Calls, RecordOutcome(c)
  PROVE  AcknowledgedAreCounted'
<1> DEFINE A == acked \cap Linked
<1>1. UNCHANGED <<kr, acked>>
  BY DEF RecordOutcome
<1>2. Linked \in SUBSET Attempts /\ A \in SUBSET Attempts
  BY SetsAssumption
<1>3. \A a \in A : outcome'[a] = outcome[a] /\ by'[a] = by[a]
  <2>1. \A a \in A : outcome[a] # ""
    BY DEF IndInv, AcknowledgedAreRecorded
  <2> QED BY <1>2, <2>1, OutcomesGrow
<1>4. Resolved(A)' = Resolved(A) /\ Wrong(A)' = Wrong(A)
  BY <1>1, <1>3 DEF Resolved, Wrong
<1>5. Approvers(A)' = Approvers(A)
  BY <1>1, <1>3, <1>4 DEF Approvers, Resolved
<1>6. /\ Cardinality(Resolved(Linked)) <= Cardinality(Resolved(Linked)')
      /\ Cardinality(Wrong(Linked)) <= Cardinality(Wrong(Linked)')
      /\ Approvers(Linked) \subseteq Approvers(Linked)'
      /\ Cardinality(Resolved(Linked)) \in Nat /\ Cardinality(Resolved(Linked)') \in Nat
      /\ Cardinality(Wrong(Linked)) \in Nat /\ Cardinality(Wrong(Linked)') \in Nat
  BY <1>2, RecordedCountsGrow
<1>7. kr.approved \in Nat /\ kr.rejected \in Nat
  BY DEF IndInv, TypeOK
<1>8. /\ Cardinality(Resolved(A)) <= kr.approved /\ kr.approved <= Cardinality(Resolved(Linked))
      /\ Cardinality(Wrong(A)) <= kr.rejected /\ kr.rejected <= Cardinality(Wrong(Linked))
      /\ Approvers(A) \subseteq kr.approvers /\ kr.approvers \subseteq Approvers(Linked)
  BY DEF AcknowledgedAreCounted
<1>9. /\ Cardinality(Resolved(A)') <= kr.approved
      /\ Cardinality(Wrong(A)') <= kr.rejected
      /\ Approvers(A)' \subseteq kr.approvers
  BY <1>4, <1>5, <1>8
<1>10. /\ kr.approved <= Cardinality(Resolved(Linked)')
       /\ kr.rejected <= Cardinality(Wrong(Linked)')
       /\ kr.approvers \subseteq Approvers(Linked)'
  BY <1>6, <1>7, <1>8
<1> QED BY <1>1, <1>9, <1>10 DEF AcknowledgedAreCounted

LEMMA WriteGradeCounted ==
  ASSUME Cardinality(Linked) <= AttemptQueryLimit,
         IndInv, NEW c \in Calls, WriteGrade(c)
  PROVE  AcknowledgedAreCounted'
<1> DEFINE A == acked' \cap Linked
<1>1. /\ pc[c] = "counted" /\ kr' = Graded(c) /\ UNCHANGED <<outcome, by>>
  BY DEF WriteGrade
<1>2. counts[c] = DeriveCounts(Linked)
  BY <1>1 DEF IndInv, ReadsAreCurrent, Pages
<1>3. /\ kr'.approved = Cardinality(Resolved(Linked))
      /\ kr'.rejected = Cardinality(Wrong(Linked))
      /\ kr'.approvers = Approvers(Linked)
  BY <1>1, <1>2 DEF Graded, DeriveCounts
<1>4. Linked \in SUBSET Attempts /\ A \in SUBSET Linked
  BY SetsAssumption
<1>5. /\ Cardinality(Resolved(A)) <= Cardinality(Resolved(Linked))
      /\ Cardinality(Wrong(A)) <= Cardinality(Wrong(Linked))
      /\ Approvers(A) \subseteq Approvers(Linked)
      /\ Cardinality(Resolved(Linked)) \in Nat /\ Cardinality(Wrong(Linked)) \in Nat
  BY <1>4, CountsAreMonotone DEF IndInv
<1>6. \A S \in {A, Linked} : {a \in S : outcome'[a] = "resolved"} = Resolved(S)
  BY <1>1 DEF Resolved
<1>7. \A S \in {A, Linked} : {a \in S : outcome'[a] = "wrong_answer"} = Wrong(S)
  BY <1>1 DEF Wrong
<1>8. \A S \in {A, Linked} : {by'[a] : a \in Resolved(S)} = Approvers(S)
  BY <1>1 DEF Approvers
<1>9. /\ Cardinality(Resolved(A)) <= kr'.approved
      /\ kr'.approved <= Cardinality(Resolved(Linked))
      /\ Cardinality(Wrong(A)) <= kr'.rejected
      /\ kr'.rejected <= Cardinality(Wrong(Linked))
      /\ Approvers(A) \subseteq kr'.approvers
      /\ kr'.approvers \subseteq Approvers(Linked)
  BY <1>3, <1>5
<1> QED BY <1>1, <1>9 DEF AcknowledgedAreCounted, Approvers, Resolved, Wrong

LEMMA OthersCounted ==
  ASSUME AcknowledgedAreCounted, UNCHANGED <<outcome, by, kr>>,
         acked' \cap Linked = acked \cap Linked
  PROVE  AcknowledgedAreCounted'
BY DEF AcknowledgedAreCounted, Approvers, Resolved, Wrong

\* No acknowledged outcome is left out of the counts and none is counted twice,
\* whatever fails, is retried or restarted: update_known_resolution_grade writes
\* what derive_outcome_counts finds, never an increment.
THEOREM AcknowledgedOutcomesCount ==
  ASSUME Cardinality(Linked) <= AttemptQueryLimit
  PROVE  Spec => []AcknowledgedAreCounted
<1>1. IndInv /\ AcknowledgedAreCounted /\ [Next]_vars => AcknowledgedAreCounted'
  <2> SUFFICES ASSUME IndInv, AcknowledgedAreCounted, [Next]_vars
               PROVE  AcknowledgedAreCounted'
    OBVIOUS
  <2>1. ASSUME NEW c \in Calls, RecordOutcome(c) PROVE AcknowledgedAreCounted'
    BY <2>1, RecordOutcomeCounted
  <2>2. ASSUME NEW c \in Calls, WriteGrade(c) PROVE AcknowledgedAreCounted'
    BY <2>2, WriteGradeCounted
  <2>3. ASSUME NEW c \in Calls, NothingToGrade(c) PROVE AcknowledgedAreCounted'
    <3>1. UNCHANGED <<outcome, by, kr>> /\ acked' \cap Linked = acked \cap Linked
      BY <2>3 DEF NothingToGrade
    <3> QED BY <3>1, OthersCounted
  <2>4. ASSUME NEW c \in Calls,
               LoadAttempt(c) \/ LoadGrade(c) \/ CountOutcomes(c) \/ Fail(c)
        PROVE  AcknowledgedAreCounted'
    <3>1. UNCHANGED <<outcome, by, kr, acked>>
      BY <2>4 DEF LoadAttempt, LoadGrade, CountOutcomes, Fail
    <3> QED BY <3>1, OthersCounted
  <2>5. CASE Restart
    <3>1. UNCHANGED <<outcome, by, kr, acked>>
      BY <2>5 DEF Restart
    <3> QED BY <3>1, OthersCounted
  <2>6. CASE UNCHANGED vars
    <3>1. UNCHANGED <<outcome, by, kr, acked>>
      BY <2>6 DEF vars
    <3> QED BY <3>1, OthersCounted
  <2> QED BY <2>1, <2>2, <2>3, <2>4, <2>5, <2>6 DEF Next
<1> QED BY <1>1, InitIndInv, InitCounted, NextKeeps, PTL DEF Spec
=============================================================================

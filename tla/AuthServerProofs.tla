-------------------------- MODULE AuthServerProofs --------------------------
(* What AuthServer promises, for any number of logins and requests, any       *)
(* lifetimes and any size of the map.                                         *)
EXTENDS AuthServer, FiniteSetTheorems, TLAPS

LEMMA InitIndInv == Init => IndInv
<1> SUFFICES ASSUME Init PROVE IndInv
  OBVIOUS
<1>1. DOMAIN entries = {} /\ entries \in [DOMAIN entries -> Nat]
  BY DEF Init
<1>2. TypeOK
  BY <1>1, LimitAssumption DEF Init, TypeOK, Ids
<1>3. lastPrune = None /\ now = 0 /\ None # 0
  BY NameAssumption DEF Init
<1>4. BlobsAreKnown /\ UsedAreKept /\ KeptCodesWereGiven /\ PrunedThisSecond
  BY <1>1, <1>3
     DEF Init, BlobsAreKnown, UsedAreKept, KeptCodesWereGiven, PrunedThisSecond, Ids
<1>5. \A r \in Requests : took[r] = None /\ answer[r] = None
  BY DEF Init
<1>6. SingleUseUntilExpiry /\ CodeIsNotBurnt /\ SignedOutForCause
  BY <1>5, NameAssumption
     DEF Init, SingleUseUntilExpiry, Took, CodeIsNotBurnt, SignedOutForCause, Answers
<1>7. LoginsAreOfTheKey
  BY NameAssumption DEF Init, LoginsAreOfTheKey, Ids
<1> QED BY <1>2, <1>4, <1>6, <1>7 DEF IndInv

-----------------------------------------------------------------------------
(* The map of used ids.                                                    *)

LEMMA ThresholdStaysInRange ==
  ASSUME TypeOK PROVE Clamp(2 * Cardinality(Live)) \in PruneThreshold..MaxUsedJtis
<1>1. IsFiniteSet(Ids)
  BY NameAssumption, FS_Union DEF Ids
<1>2. IsFiniteSet(Live)
  BY <1>1, FS_Subset DEF Live, TypeOK
<1>3. Cardinality(Live) \in Nat
  BY <1>2, FS_CardinalityType
<1> QED BY <1>3, LimitAssumption DEF Clamp

\* What a pruning keeps is in the map, and all that has not expired.
LEMMA KeptEntries ==
  /\ Kept \subseteq DOMAIN entries /\ Live \subseteq Kept
  /\ PruneDue => Kept = Live
  /\ ~PruneDue => Kept = DOMAIN entries
BY DEF Kept, Live

LEMMA PruneKeepsTypes ==
  ASSUME TypeOK, Prune
  PROVE  /\ pruneAt' \in PruneThreshold..MaxUsedJtis /\ lastPrune' \in Nat \cup {None}
         /\ PruneDue => lastPrune' = now
         /\ ~PruneDue => lastPrune' = lastPrune
BY ThresholdStaysInRange DEF TypeOK, Prune

-----------------------------------------------------------------------------
LEMMA AuthorizeIndInv ==
  ASSUME IndInv, NEW l \in Logins, Authorize(l) PROVE IndInv'
<1> USE DEF IndInv, Authorize, key, used, requests, sessions
<1>1. /\ exp[l] = None /\ l \in Ids /\ l \notin Requests
      /\ \A i \in Ids : i # l => exp'[i] = exp[i]
  BY NameAssumption DEF TypeOK, Ids
<1>2. TypeOK'
  BY TtlAssumption DEF TypeOK, Ids
<1>3. \A r \in Requests :
        pc[r] \in {"consuming", "exchanging"} \/ took[r] # None => exp'[id[r]] = exp[id[r]]
  BY <1>1, NameAssumption DEF BlobsAreKnown
<1>4. BlobsAreKnown'
  BY <1>1, <1>3 DEF BlobsAreKnown, Ids
<1>5. UsedAreKept' /\ KeptCodesWereGiven' /\ PrunedThisSecond'
  BY <1>3 DEF UsedAreKept, IsUsed, KeptCodesWereGiven, PrunedThisSecond
<1>6. SingleUseUntilExpiry'
  BY <1>3 DEF SingleUseUntilExpiry, Took
<1>7. CodeIsNotBurnt' /\ SignedOutForCause'
  BY DEF CodeIsNotBurnt, SignedOutForCause, RegistrationExpired
<1>8. LoginsAreOfTheKey'
  BY <1>1, TtlAssumption, NameAssumption DEF LoginsAreOfTheKey, TypeOK, Ids
<1> QED BY <1>2, <1>4, <1>5, <1>6, <1>7, <1>8

LEMMA SessionIndInv ==
  ASSUME IndInv, NEW l \in Logins, Refresh(l) \/ Revoke(l) PROVE IndInv'
<1> USE DEF IndInv, Refresh, Revoke, blobs, key, used, requests
<1>1. TypeOK'
  BY DEF TypeOK
<1>2. /\ now' = now /\ exp' = exp /\ code' = code /\ entries' = entries /\ pruneAt' = pruneAt
      /\ lastPrune' = lastPrune /\ pc' = pc /\ id' = id /\ good' = good /\ took' = took
      /\ answer' = answer /\ foreign' = foreign /\ keyed' = keyed
  OBVIOUS
<1>3. BlobsAreKnown' /\ UsedAreKept' /\ KeptCodesWereGiven' /\ PrunedThisSecond'
      /\ SingleUseUntilExpiry' /\ CodeIsNotBurnt'
  BY <1>2 DEF BlobsAreKnown, UsedAreKept, IsUsed, KeptCodesWereGiven, PrunedThisSecond,
              SingleUseUntilExpiry, Took, CodeIsNotBurnt
<1>4. SignedOutForCause'
  <2>1. CASE Refresh(l)
    <3>1. /\ l \in revoked \/ RegistrationExpired \/ l \in foreign \/ l \in improper'
          /\ improper \subseteq improper' /\ revoked' = revoked
      BY <2>1 DEF Rejected, RefusedHere
    <3> QED BY <2>1, <3>1 DEF SignedOutForCause, RegistrationExpired, TypeOK
  <2>2. CASE Revoke(l)
    BY <2>2 DEF SignedOutForCause, RegistrationExpired
  <2> QED BY <2>1, <2>2
<1>5. LoginsAreOfTheKey'
  BY <1>2 DEF LoginsAreOfTheKey, TypeOK
<1> QED BY <1>1, <1>3, <1>4, <1>5

LEMMA PresentIndInv ==
  ASSUME IndInv, NEW r \in Requests, NEW i \in Ids, NEW g \in BOOLEAN, Present(r, i, g)
  PROVE  IndInv'
<1> USE DEF IndInv
<1>1. /\ now' = now /\ exp' = exp /\ code' = code /\ entries' = entries /\ pruneAt' = pruneAt
      /\ lastPrune' = lastPrune /\ took' = took /\ session' = session /\ revoked' = revoked
      /\ foreign' = foreign /\ keyed' = keyed /\ improper' = improper
  BY DEF Present, blobs, key, used, sessions
<1>2. /\ pc[r] = "new" /\ exp[i] # None /\ exp[i] \in Nat /\ exp[r] = None /\ answer[r] = None
      /\ took[r] = None
  BY DEF Present, TypeOK, BlobsAreKnown
<1>3. \/ /\ pc' = [pc EXCEPT ![r] = "done"] /\ answer' = [answer EXCEPT ![r] = "rejected"]
         /\ id' = id /\ good' = good
      \/ /\ pc' = [pc EXCEPT ![r] = "consuming"] /\ answer' = answer
         /\ id' = [id EXCEPT ![r] = i] /\ good' = [good EXCEPT ![r] = g]
         /\ i \in Requests => g
         /\ i \notin foreign
  BY DEF Present, Valid, Goto, Answer
<1>4. TypeOK'
  <2>1. answer' \in [Requests -> Answers \cup {None}]
    BY <1>3 DEF TypeOK, Answers
  <2> QED BY <1>1, <1>3, <2>1 DEF TypeOK
<1>5. \A s \in Requests : s # r => pc'[s] = pc[s] /\ id'[s] = id[s] /\ good'[s] = good[s]
                                   /\ answer'[s] = answer[s]
  BY <1>3 DEF TypeOK
<1>6. \/ pc'[r] = "done" /\ answer'[r] = "rejected" /\ id'[r] = id[r]
      \/ pc'[r] = "consuming" /\ answer'[r] = None /\ id'[r] = i /\ (i \in Requests => good'[r])
         /\ i \notin foreign
  BY <1>2, <1>3 DEF TypeOK
<1>7. BlobsAreKnown'
  BY <1>1, <1>2, <1>5, <1>6 DEF BlobsAreKnown
<1>8. UsedAreKept' /\ SingleUseUntilExpiry' /\ SignedOutForCause'
  BY <1>1, <1>2, <1>5
     DEF UsedAreKept, IsUsed, SingleUseUntilExpiry, Took, SignedOutForCause, RegistrationExpired
<1>9. \A s \in Requests : answer[s] = "tokens" => answer'[s] = "tokens" /\ id'[s] = id[s]
  BY <1>2, <1>5, NameAssumption DEF Answers
<1>10. KeptCodesWereGiven'
  BY <1>1, <1>9 DEF KeptCodesWereGiven
<1>11. PrunedThisSecond'
  <2>1. \A s \in Requests : took[s] = now => took'[s] = now' /\ id'[s] = id[s]
    BY <1>1, <1>2, <1>5, NameAssumption DEF TypeOK
  <2> QED BY <1>1, <2>1 DEF PrunedThisSecond
<1>12. CodeIsNotBurnt'
  BY <1>5, <1>6, <1>9, NameAssumption DEF CodeIsNotBurnt, Answers
<1>13. LoginsAreOfTheKey'
  BY <1>1, <1>5, <1>6 DEF LoginsAreOfTheKey
<1> QED BY <1>4, <1>7, <1>8, <1>10, <1>11, <1>12, <1>13

\* A refusal takes nothing out of the map but what has expired.
LEMMA ConsumeRefusedIndInv ==
  ASSUME IndInv, NEW r \in Requests, ConsumeRefused(r) PROVE IndInv'
<1> USE DEF IndInv
<1>1. /\ now' = now /\ exp' = exp /\ code' = code /\ id' = id /\ good' = good
      /\ took' = took /\ session' = session /\ revoked' = revoked
      /\ foreign' = foreign /\ keyed' = keyed /\ improper' = improper
      /\ pc[r] = "consuming" /\ pc' = [pc EXCEPT ![r] = "done"]
  BY DEF ConsumeRefused, blobs, key, sessions, Goto
<1>2. /\ answer[r] = None /\ took[r] = None /\ id[r] \in Ids
      /\ pc'[r] = "done" /\ \A s \in Requests : s # r => pc'[s] = pc[s]
  BY <1>1 DEF BlobsAreKnown, TypeOK
<1>3. \/ /\ IsUsed(id[r]) /\ answer' = [answer EXCEPT ![r] = "used"]
         /\ entries' = entries /\ pruneAt' = pruneAt /\ lastPrune' = lastPrune
      \/ /\ answer' = [answer EXCEPT ![r] = "full"]
         /\ Prune /\ entries' = Restrict(entries, Kept)
  BY DEF ConsumeRefused, Answer, used
<1>4. /\ \A s \in Requests : s # r => answer'[s] = answer[s]
      /\ answer'[r] \in {"used", "full"} /\ (answer'[r] = "used" => IsUsed(id[r]))
  BY <1>3 DEF TypeOK
<1>5. /\ DOMAIN entries' \subseteq DOMAIN entries /\ Live \subseteq DOMAIN entries'
      /\ entries' \in [DOMAIN entries' -> Nat]
      /\ \A j \in DOMAIN entries' : entries'[j] = entries[j]
  <2>1. CASE entries' = entries
    BY <2>1 DEF Live, TypeOK
  <2>2. CASE entries' = Restrict(entries, Kept)
    BY <2>2, KeptEntries DEF Restrict, TypeOK
  <2> QED BY <1>3, <2>1, <2>2
<1>6. /\ pruneAt' \in PruneThreshold..MaxUsedJtis /\ lastPrune' \in Nat \cup {None}
      /\ \/ lastPrune' = lastPrune
         \/ lastPrune' = now /\ DOMAIN entries' = Live
  <2>1. CASE UNCHANGED used
    BY <2>1 DEF used, TypeOK
  <2>2. CASE Prune /\ entries' = Restrict(entries, Kept)
    BY <2>2, PruneKeepsTypes, KeptEntries DEF Restrict
  <2> QED BY <1>3, <2>1, <2>2 DEF used
<1>7. TypeOK'
  <2>1. answer' \in [Requests -> Answers \cup {None}]
    BY <1>3 DEF TypeOK, Answers
  <2> QED BY <1>1, <1>5, <1>6, <2>1 DEF TypeOK
<1>8. BlobsAreKnown'
  BY <1>1, <1>2, <1>4 DEF BlobsAreKnown
<1>9. UsedAreKept'
  BY <1>1, <1>5 DEF UsedAreKept, IsUsed, Live
<1>10. \A s \in Requests : answer[s] = "tokens" => answer'[s] = "tokens"
  BY <1>2, <1>4, NameAssumption DEF Answers
<1>11. KeptCodesWereGiven' /\ CodeIsNotBurnt'
  BY <1>1, <1>4, <1>5, <1>10 DEF KeptCodesWereGiven, CodeIsNotBurnt, IsUsed
<1>12. PrunedThisSecond'
  <2>1. CASE lastPrune' = lastPrune
    BY <1>1, <1>5, <2>1 DEF PrunedThisSecond
  <2>2. CASE lastPrune' = now /\ DOMAIN entries' = Live
    BY <1>1, <1>5, <2>2 DEF PrunedThisSecond, Live, TypeOK
  <2> QED BY <1>6, <2>1, <2>2
<1>13. SingleUseUntilExpiry' /\ SignedOutForCause'
  BY <1>1 DEF SingleUseUntilExpiry, Took, SignedOutForCause, RegistrationExpired
<1>14. LoginsAreOfTheKey'
  BY <1>1, <1>2 DEF LoginsAreOfTheKey
<1> QED BY <1>7, <1>8, <1>9, <1>11, <1>12, <1>13, <1>14

\* What consuming a blob does to the map, and with it to the history: the part
\* that states and codes have in common.
LEMMA ConsumeIsSafe ==
  ASSUME IndInv, NEW r \in Requests, Consume(r), now' = now, exp' = exp, id' = id
  PROVE  /\ pc[r] = "consuming" /\ id[r] \in Ids /\ took[r] = None /\ answer[r] = None
         /\ DOMAIN entries' \subseteq Ids /\ entries' \in [DOMAIN entries' -> Nat]
         /\ DOMAIN entries' \subseteq DOMAIN entries \cup {id[r]}
         /\ pruneAt' \in PruneThreshold..MaxUsedJtis /\ lastPrune' \in Nat \cup {None}
         /\ took' \in [Requests -> Nat \cup {None}] /\ took'[r] = now
         /\ \A s \in Requests : s # r => took'[s] = took[s]
         /\ UsedAreKept' /\ PrunedThisSecond' /\ SingleUseUntilExpiry'
<1> USE DEF IndInv
<1>1. /\ pc[r] = "consuming" /\ ~IsUsed(id[r]) /\ Prune /\ entries' = Insert(id[r])
      /\ took' = [took EXCEPT ![r] = now]
  BY DEF Consume
<1>2. id[r] \in Ids /\ exp[id[r]] \in Nat /\ took[r] = None /\ answer[r] = None /\ now \in Nat
  BY <1>1 DEF BlobsAreKnown, TypeOK
<1>3. /\ took' \in [Requests -> Nat \cup {None}] /\ took'[r] = now
      /\ \A s \in Requests : s # r => took'[s] = took[s]
  BY <1>1, <1>2 DEF TypeOK
<1>4. /\ DOMAIN entries' = Kept \cup {id[r]} /\ entries'[id[r]] = exp[id[r]]
      /\ \A j \in Kept : j # id[r] => entries'[j] = entries[j]
      /\ entries' = [j \in DOMAIN entries' |-> entries'[j]]
  BY <1>1 DEF Insert
<1>5. /\ DOMAIN entries' \subseteq Ids /\ entries' \in [DOMAIN entries' -> Nat]
      /\ DOMAIN entries' \subseteq DOMAIN entries \cup {id[r]}
  BY <1>2, <1>4, KeptEntries DEF TypeOK
<1>6. /\ pruneAt' \in PruneThreshold..MaxUsedJtis /\ lastPrune' \in Nat \cup {None}
      /\ PruneDue => lastPrune' = now
      /\ ~PruneDue => lastPrune' = lastPrune
  BY <1>1, PruneKeepsTypes
<1>7. UsedAreKept'
  <2> SUFFICES ASSUME NEW s \in Requests, took'[s] # None, exp[id[s]] > now
               PROVE  id[s] \in DOMAIN entries' /\ entries'[id[s]] = exp[id[s]]
    BY DEF UsedAreKept, IsUsed
  <2>1. CASE id[s] = id[r]
    BY <1>4, <2>1
  <2>2. CASE id[s] # id[r]
    <3>1. id[s] \in Live /\ entries[id[s]] = exp[id[s]]
      BY <1>3, <2>2 DEF UsedAreKept, IsUsed, Live
    <3> QED BY <1>4, <2>2, <3>1, KeptEntries
  <2> QED BY <2>1, <2>2
<1>8. PrunedThisSecond'
  <2>1. lastPrune' # None => lastPrune' <= now
    BY <1>2, <1>6 DEF PrunedThisSecond
  <2>2. ASSUME lastPrune' = now, NEW j \in DOMAIN entries'
        PROVE  entries'[j] > now \/ \E s \in Requests : took'[s] = now /\ id[s] = j
    <3>1. CASE j = id[r]
      BY <1>3, <3>1
    <3>2. CASE j # id[r] /\ PruneDue
      BY <1>4, <3>2, KeptEntries DEF Live
    <3>3. CASE j # id[r] /\ ~PruneDue
      <4>1. j \in DOMAIN entries /\ entries'[j] = entries[j] /\ lastPrune = now
        BY <1>4, <1>6, <2>2, <3>3, KeptEntries
      <4>2. entries[j] > now \/ \E s \in Requests : took[s] = now /\ id[s] = j
        BY <4>1 DEF PrunedThisSecond
      <4>3. \A s \in Requests : took[s] = now => took'[s] = now
        BY <1>3
      <4> QED BY <4>1, <4>2, <4>3
    <3> QED BY <3>1, <3>2, <3>3
  <2> QED BY <2>1, <2>2 DEF PrunedThisSecond
<1>9. SingleUseUntilExpiry'
  <2>1. \A s \in Requests : took[s] # None /\ id[s] = id[r] => exp[id[r]] <= now
    BY <1>1, <1>2 DEF UsedAreKept
  <2> QED BY <1>2, <1>3, <2>1 DEF SingleUseUntilExpiry, Took
<1> QED BY <1>1, <1>2, <1>3, <1>5, <1>6, <1>7, <1>8, <1>9

LEMMA ConsumeStateIndInv ==
  ASSUME IndInv, NEW r \in Requests, ConsumeState(r) PROVE IndInv'
<1> USE DEF IndInv
<1>1. /\ now' = now /\ exp' = exp /\ code' = code /\ id' = id /\ good' = good
      /\ session' = session /\ revoked' = revoked
      /\ foreign' = foreign /\ keyed' = keyed /\ improper' = improper
      /\ id[r] \in Logins /\ Consume(r)
      /\ \/ pc' = [pc EXCEPT ![r] = "exchanging"] /\ answer' = answer
         \/ pc' = [pc EXCEPT ![r] = "done"] /\ answer' = [answer EXCEPT ![r] = "failed"]
  BY DEF ConsumeState, blobs, key, sessions, Goto, Answer
<1>2. /\ pc[r] = "consuming" /\ id[r] \in Ids /\ took[r] = None /\ answer[r] = None
      /\ DOMAIN entries' \subseteq Ids /\ entries' \in [DOMAIN entries' -> Nat]
      /\ DOMAIN entries' \subseteq DOMAIN entries \cup {id[r]}
      /\ pruneAt' \in PruneThreshold..MaxUsedJtis /\ lastPrune' \in Nat \cup {None}
      /\ took' \in [Requests -> Nat \cup {None}] /\ took'[r] = now
      /\ \A s \in Requests : s # r => took'[s] = took[s]
      /\ UsedAreKept' /\ PrunedThisSecond' /\ SingleUseUntilExpiry'
  BY <1>1, ConsumeIsSafe
<1>3. /\ pc'[r] \in {"exchanging", "done"} /\ answer'[r] \in {None, "failed"}
      /\ pc'[r] = "exchanging" => answer'[r] = None
      /\ \A s \in Requests : s # r => pc'[s] = pc[s] /\ answer'[s] = answer[s]
  BY <1>1, <1>2 DEF TypeOK
<1>4. TypeOK'
  <2>1. answer' \in [Requests -> Answers \cup {None}]
    BY <1>1 DEF TypeOK, Answers
  <2> QED BY <1>1, <1>2, <2>1 DEF TypeOK
<1>5. BlobsAreKnown'
  BY <1>1, <1>2, <1>3 DEF BlobsAreKnown, TypeOK
<1>6. \A s \in Requests : answer[s] = "tokens" => answer'[s] = "tokens"
  BY <1>2, <1>3, NameAssumption DEF Answers
<1>7. KeptCodesWereGiven'
  BY <1>1, <1>2, <1>6, NameAssumption DEF KeptCodesWereGiven
<1>8. CodeIsNotBurnt'
  BY <1>1, <1>3, <1>6, NameAssumption DEF CodeIsNotBurnt, Answers
<1>9. SignedOutForCause'
  BY <1>1 DEF SignedOutForCause, RegistrationExpired
<1>10. LoginsAreOfTheKey'
  BY <1>1, <1>2, <1>3 DEF LoginsAreOfTheKey
<1> QED BY <1>2, <1>4, <1>5, <1>7, <1>8, <1>9, <1>10

LEMMA ConsumeCodeIndInv ==
  ASSUME IndInv, NEW r \in Requests, ConsumeCode(r) PROVE IndInv'
<1> USE DEF IndInv
<1>1. /\ now' = now /\ exp' = exp /\ code' = code /\ id' = id /\ good' = good
      /\ revoked' = revoked
      /\ foreign' = foreign /\ keyed' = keyed /\ improper' = improper
      /\ id[r] \in Requests /\ Consume(r)
      /\ pc' = [pc EXCEPT ![r] = "done"]
      /\ answer' = [answer EXCEPT ![r] = IF good[r] THEN "tokens" ELSE "rejected"]
      /\ \/ session' = session
         \/ session' = [session EXCEPT ![code[id[r]]] = "open"]
  BY DEF ConsumeCode, blobs, key, Goto, Answer
<1>2. /\ pc[r] = "consuming" /\ id[r] \in Ids /\ took[r] = None /\ answer[r] = None
      /\ DOMAIN entries' \subseteq Ids /\ entries' \in [DOMAIN entries' -> Nat]
      /\ DOMAIN entries' \subseteq DOMAIN entries \cup {id[r]}
      /\ pruneAt' \in PruneThreshold..MaxUsedJtis /\ lastPrune' \in Nat \cup {None}
      /\ took' \in [Requests -> Nat \cup {None}] /\ took'[r] = now
      /\ \A s \in Requests : s # r => took'[s] = took[s]
      /\ UsedAreKept' /\ PrunedThisSecond' /\ SingleUseUntilExpiry'
  BY <1>1, ConsumeIsSafe
<1>3. /\ pc'[r] = "done" /\ answer'[r] = "tokens"
      /\ \A s \in Requests : s # r => pc'[s] = pc[s] /\ answer'[s] = answer[s]
  BY <1>1, <1>2 DEF TypeOK, BlobsAreKnown
<1>4. TypeOK'
  <2>1. answer' \in [Requests -> Answers \cup {None}]
    BY <1>1 DEF TypeOK, Answers
  <2> QED BY <1>1, <1>2, <2>1 DEF TypeOK
<1>5. BlobsAreKnown'
  BY <1>1, <1>2, <1>3 DEF BlobsAreKnown, TypeOK
<1>6. \A s \in Requests : answer[s] = "tokens" => answer'[s] = "tokens"
  BY <1>3
<1>7. KeptCodesWereGiven'
  BY <1>1, <1>2, <1>3, <1>6 DEF KeptCodesWereGiven
<1>8. CodeIsNotBurnt'
  BY <1>1, <1>3, <1>6 DEF CodeIsNotBurnt
<1>9. SignedOutForCause'
  BY <1>1 DEF SignedOutForCause, RegistrationExpired, TypeOK
<1>10. code[id[r]] \in Logins /\ exp[code[id[r]]] # None
  BY <1>1, <1>2, NameAssumption DEF LoginsAreOfTheKey, BlobsAreKnown
<1>11. LoginsAreOfTheKey'
  BY <1>1, <1>2, <1>3, <1>10 DEF LoginsAreOfTheKey, TypeOK
<1> QED BY <1>2, <1>4, <1>5, <1>7, <1>8, <1>9, <1>11

LEMMA IssueCodeIndInv ==
  ASSUME IndInv, NEW r \in Requests, IssueCode(r) PROVE IndInv'
<1> USE DEF IndInv
<1>1. /\ now' = now /\ entries' = entries /\ pruneAt' = pruneAt /\ lastPrune' = lastPrune
      /\ id' = id /\ good' = good /\ took' = took /\ session' = session /\ revoked' = revoked
      /\ foreign' = foreign /\ keyed' = keyed /\ improper' = improper
      /\ pc[r] = "exchanging" /\ pc' = [pc EXCEPT ![r] = "done"]
      /\ \/ /\ answer' = [answer EXCEPT ![r] = "code"]
            /\ exp' = [exp EXCEPT ![r] = now + CodeTtl] /\ code' = [code EXCEPT ![r] = id[r]]
         \/ answer' = [answer EXCEPT ![r] = "failed"] /\ exp' = exp /\ code' = code
  BY DEF IssueCode, key, used, sessions, Goto, Answer
<1>2. /\ r \in Ids /\ exp[r] = None /\ answer[r] = None /\ id[r] \in Logins
      /\ now + CodeTtl \in Nat
  BY <1>1, TtlAssumption DEF BlobsAreKnown, TypeOK, Ids
<1>3. /\ pc'[r] = "done" /\ answer'[r] \in {"code", "failed"}
      /\ \A s \in Requests : s # r => pc'[s] = pc[s] /\ answer'[s] = answer[s]
      /\ \A i \in Ids : i # r => exp'[i] = exp[i]
  BY <1>1 DEF TypeOK
<1>4. TypeOK'
  <2>1. answer' \in [Requests -> Answers \cup {None}]
    BY <1>1 DEF TypeOK, Answers
  <2> QED BY <1>1, <1>2, <2>1 DEF TypeOK
<1>5. \A s \in Requests :
        pc[s] \in {"consuming", "exchanging"} \/ took[s] # None => exp'[id[s]] = exp[id[s]]
  BY <1>2, <1>3, NameAssumption DEF BlobsAreKnown
<1>6. BlobsAreKnown'
  BY <1>1, <1>2, <1>3, <1>5 DEF BlobsAreKnown, Ids
<1>7. UsedAreKept' /\ PrunedThisSecond'
  BY <1>1, <1>5 DEF UsedAreKept, IsUsed, PrunedThisSecond
<1>8. \A s \in Requests : answer[s] = "tokens" => answer'[s] = "tokens"
  BY <1>2, <1>3, NameAssumption DEF Answers
<1>9. KeptCodesWereGiven' /\ CodeIsNotBurnt'
  BY <1>1, <1>3, <1>8 DEF KeptCodesWereGiven, CodeIsNotBurnt
<1>10. SingleUseUntilExpiry' /\ SignedOutForCause'
  BY <1>1, <1>5
     DEF SingleUseUntilExpiry, Took, SignedOutForCause, RegistrationExpired
<1>11. LoginsAreOfTheKey'
  <2>1. exp[id[r]] # None /\ id[r] \notin foreign /\ id[r] # r
    BY <1>1, <1>2, NameAssumption DEF LoginsAreOfTheKey, BlobsAreKnown, TypeOK
  <2>2. \A l \in Logins : exp'[l] = exp[l]
    BY <1>3, NameAssumption DEF Ids
  <2>3. \A s \in Requests : s # r => exp'[s] = exp[s] /\ code'[s] = code[s]
    BY <1>1, <1>3 DEF TypeOK, Ids
  <2>4. exp'[r] # None => code'[r] = id[r]
    BY <1>1, <1>2 DEF TypeOK
  <2> QED BY <1>1, <1>2, <1>3, <2>1, <2>2, <2>3, <2>4 DEF LoginsAreOfTheKey
<1> QED BY <1>4, <1>6, <1>7, <1>9, <1>10, <1>11

LEMMA TickIndInv == IndInv /\ Tick => IndInv'
<1> SUFFICES ASSUME IndInv, Tick PROVE IndInv'
  OBVIOUS
<1> USE DEF IndInv
<1>1. /\ now \in Nat /\ now' = now + 1 /\ exp' = exp /\ code' = code /\ entries' = entries
      /\ pruneAt' = pruneAt /\ lastPrune' = lastPrune /\ pc' = pc /\ id' = id /\ good' = good
      /\ took' = took /\ answer' = answer /\ session' = session /\ revoked' = revoked
      /\ foreign' = foreign /\ keyed' = keyed /\ improper' = improper /\ keyed \in Nat
  BY DEF Tick, TypeOK, blobs, key, used, requests, sessions
<1>2. TypeOK'
  BY <1>1 DEF TypeOK
<1>3. BlobsAreKnown'
  BY <1>1, NameAssumption DEF BlobsAreKnown, TypeOK
<1>4. UsedAreKept'
  BY <1>1 DEF UsedAreKept, IsUsed, BlobsAreKnown
<1>5. PrunedThisSecond'
  BY <1>1, NameAssumption DEF PrunedThisSecond, TypeOK
<1>6. SignedOutForCause'
  BY <1>1, TtlAssumption DEF SignedOutForCause, RegistrationExpired
<1>7. LoginsAreOfTheKey' /\ KeptCodesWereGiven' /\ SingleUseUntilExpiry' /\ CodeIsNotBurnt'
  BY <1>1 DEF LoginsAreOfTheKey, KeptCodesWereGiven, SingleUseUntilExpiry, Took, CodeIsNotBurnt
<1> QED BY <1>2, <1>3, <1>4, <1>5, <1>6, <1>7

LEMMA RestartIndInv == IndInv /\ Restart => IndInv'
<1> SUFFICES ASSUME IndInv, Restart PROVE IndInv'
  OBVIOUS
<1> USE DEF IndInv
<1>1. /\ now' = now /\ exp' = exp /\ code' = code /\ id' = id /\ good' = good
      /\ session' = session /\ revoked' = revoked /\ improper' = improper /\ lastPrune' = None
      /\ pruneAt' = PruneThreshold /\ DOMAIN entries' = {}
      /\ entries' \in [DOMAIN entries' -> Nat]
      /\ took' = [r \in Requests |-> None] /\ answer' = [r \in Requests |-> None]
      /\ \A r \in Requests : (pc'[r] = "new" /\ pc[r] = "new") \/ pc'[r] = "done"
      /\ pc' = [r \in Requests |-> pc'[r]]
      /\ \/ foreign' = foreign /\ keyed' = keyed
         \/ foreign' = {i \in Ids : exp[i] # None} /\ keyed' = now
  BY DEF Restart, NewKey, key, sessions
<1>2. TypeOK'
  BY <1>1, LimitAssumption DEF TypeOK
<1>3. BlobsAreKnown'
  BY <1>1 DEF BlobsAreKnown
<1>4. lastPrune' # now'
  BY <1>1, NameAssumption DEF TypeOK
<1>5. UsedAreKept' /\ KeptCodesWereGiven' /\ PrunedThisSecond' /\ SingleUseUntilExpiry'
  BY <1>1, <1>4
     DEF UsedAreKept, KeptCodesWereGiven, PrunedThisSecond, SingleUseUntilExpiry, Took
<1>6. CodeIsNotBurnt'
  BY <1>1, NameAssumption DEF CodeIsNotBurnt, Answers
<1>7. SignedOutForCause'
  <2>1. CASE foreign' = foreign /\ keyed' = keyed
    BY <1>1, <2>1 DEF SignedOutForCause, RegistrationExpired
  <2>2. CASE foreign' = {i \in Ids : exp[i] # None}
    BY <1>1, <2>2 DEF SignedOutForCause, LoginsAreOfTheKey, Ids
  <2> QED BY <1>1, <2>1, <2>2
<1>8. LoginsAreOfTheKey'
  BY <1>1 DEF LoginsAreOfTheKey, Ids
<1> QED BY <1>2, <1>3, <1>5, <1>6, <1>7, <1>8

LEMMA StepIndInv == IndInv /\ [Next]_vars => IndInv'
<1> SUFFICES ASSUME IndInv, [Next]_vars PROVE IndInv'
  OBVIOUS
<1>1. ASSUME NEW l \in Logins, Authorize(l) \/ Refresh(l) \/ Revoke(l) PROVE IndInv'
  BY <1>1, AuthorizeIndInv, SessionIndInv
<1>2. ASSUME NEW r \in Requests, NEW i \in Ids, NEW g \in BOOLEAN, Present(r, i, g)
      PROVE  IndInv'
  BY <1>2, PresentIndInv
<1>3. ASSUME NEW r \in Requests, Handle(r) PROVE IndInv'
  BY <1>3, ConsumeRefusedIndInv, ConsumeStateIndInv, ConsumeCodeIndInv, IssueCodeIndInv DEF Handle
<1>4. CASE Tick \/ Restart
  BY <1>4, TickIndInv, RestartIndInv
<1>5. CASE UNCHANGED vars
  BY <1>5 DEF vars, blobs, key, used, requests, sessions, IndInv, TypeOK, BlobsAreKnown,
              LoginsAreOfTheKey, UsedAreKept, IsUsed, KeptCodesWereGiven, PrunedThisSecond, SingleUseUntilExpiry, Took,
              CodeIsNotBurnt, SignedOutForCause, RegistrationExpired
<1> QED BY <1>1, <1>2, <1>3, <1>4, <1>5 DEF Next

LEMMA IndInvHolds == Spec => []IndInv
BY InitIndInv, StepIndInv, PTL DEF Spec

-----------------------------------------------------------------------------
\* Until it expires, a state or a code is accepted at most once by a process,
\* for any size of the map and any pruning of it.
THEOREM UsedOnceUntilExpiry == Spec => []TypeOK /\ []SingleUseUntilExpiry
<1>1. IndInv => TypeOK /\ SingleUseUntilExpiry
  BY DEF IndInv
<1> QED BY <1>1, IndInvHolds, PTL

\* Who presents a code that is not his, or with the wrong verifier, does not cost
\* the right client its login.
THEOREM CodesAreNotBurnt == Spec => []CodeIsNotBurnt
<1>1. IndInv => CodeIsNotBurnt
  BY DEF IndInv
<1> QED BY <1>1, IndInvHolds, PTL

\* What SessionsAreForCause says of the logins in a step.
OfTheKey == \A l \in Logins : session[l] # "open" /\ session'[l] = "open" => l \notin foreign

\* A client is signed in only by a login of the key in use, and out only for a
\* withdrawn grant, a registration that is too old or of an earlier key, or an
\* improper request: for any number of logins, changes of the key and restarts.
THEOREM ClientsStaySignedIn == Spec => SessionsAreForCause
<1>1. IndInv' => SignedOutForCause'
  BY DEF IndInv
<1>2. IndInv /\ [Next]_vars => [OfTheKey]_vars
  <2> SUFFICES ASSUME IndInv, Next PROVE OfTheKey
    OBVIOUS
  <2>1. CASE session' = session
    BY <2>1 DEF OfTheKey
  <2>2. ASSUME NEW r \in Requests, ConsumeCode(r) PROVE OfTheKey
    <3>1. /\ pc[r] = "consuming" /\ id[r] \in Requests
          /\ session' = session \/ session' = [session EXCEPT ![code[id[r]]] = "open"]
      BY <2>2 DEF ConsumeCode, Consume
    <3>2. exp[id[r]] # None /\ id[r] \notin foreign
      BY <3>1, NameAssumption DEF IndInv, BlobsAreKnown, LoginsAreOfTheKey
    <3>3. code[id[r]] \notin foreign
      BY <3>1, <3>2 DEF IndInv, LoginsAreOfTheKey
    <3> QED BY <3>1, <3>3 DEF OfTheKey, IndInv, TypeOK
  <2>3. ASSUME NEW l \in Logins, Refresh(l) PROVE OfTheKey
    BY <2>3 DEF Refresh, OfTheKey, IndInv, TypeOK
  <2>4. ASSUME NEW l \in Logins, Authorize(l) \/ Revoke(l) PROVE session' = session
    BY <2>4 DEF Authorize, Revoke, sessions
  <2>5. ASSUME NEW r \in Requests, NEW i \in Ids, NEW g \in BOOLEAN, Present(r, i, g)
        PROVE  session' = session
    BY <2>5 DEF Present, sessions
  <2>6. ASSUME NEW r \in Requests, ConsumeRefused(r) \/ ConsumeState(r) \/ IssueCode(r)
        PROVE  session' = session
    BY <2>6 DEF ConsumeRefused, ConsumeState, IssueCode, sessions
  <2>7. Tick \/ Restart => session' = session
    BY DEF Tick, Restart, sessions
  <2> QED BY <2>1, <2>2, <2>3, <2>4, <2>5, <2>6, <2>7 DEF Next, Handle
<1>3. IndInv' /\ [OfTheKey]_vars =>
        [/\ \A l \in Logins : session[l] # "open" /\ session'[l] = "open" => l \notin foreign
         /\ SignedOutForCause']_vars
  BY <1>1 DEF OfTheKey
<1> QED BY <1>2, <1>3, IndInvHolds, PTL DEF Spec, SessionsAreForCause

\* What ClosedOnlyByLive says of a step.
FullOfLive ==
  \A r \in Requests : answer'[r] = "full" /\ answer[r] # "full" =>
    \A j \in DOMAIN entries' :
      entries'[j] > now \/ \E s \in Requests : took[s] = now /\ id[s] = j

LEMMA RefusalIsFullOfLive ==
  ASSUME IndInv, NEW r \in Requests, ConsumeRefused(r) PROVE FullOfLive
<1>1. CASE answer' = [answer EXCEPT ![r] = "used"]
  BY <1>1 DEF FullOfLive, IndInv, TypeOK
<1>2. CASE Full /\ Prune /\ entries' = Restrict(entries, Kept)
  <2>1. \A j \in DOMAIN entries' : j \in Kept /\ j \in DOMAIN entries /\ entries'[j] = entries[j]
    BY <1>2, KeptEntries DEF Restrict
  <2>2. CASE PruneDue
    BY <2>1, <2>2, KeptEntries DEF FullOfLive, Live
  <2>3. CASE ~PruneDue
    <3>1. Kept = DOMAIN entries /\ Cardinality(DOMAIN entries) >= MaxUsedJtis
      BY <1>2, <2>3, KeptEntries DEF Full
    <3>2. Cardinality(DOMAIN entries) \in Nat
      BY NameAssumption, FS_Union, FS_Subset, FS_CardinalityType DEF IndInv, TypeOK, Ids
    <3>3. lastPrune = now
      BY <2>3, <3>1, <3>2, LimitAssumption DEF PruneDue, IndInv, TypeOK
    <3> QED BY <2>1, <3>3 DEF FullOfLive, IndInv, PrunedThisSecond
  <2> QED BY <2>2, <2>3
<1> QED BY <1>1, <1>2 DEF ConsumeRefused, Answer

\* The map never turns a login away because of entries that have expired, other
\* than those of the same second, for any size of the map.
THEOREM ClosedOnlyByLiveEntries == Spec => ClosedOnlyByLive
<1>1. IndInv /\ [Next]_vars => [FullOfLive]_vars
  <2> SUFFICES ASSUME IndInv, Next PROVE FullOfLive
    OBVIOUS
  <2>1. ASSUME NEW r \in Requests, ConsumeRefused(r) PROVE FullOfLive
    BY <2>1, RefusalIsFullOfLive
  <2>2. ASSUME NEW r \in Requests, NEW a \in {"rejected", "failed", "tokens", "code"},
               answer' = [answer EXCEPT ![r] = a]
        PROVE  FullOfLive
    BY <2>2 DEF FullOfLive, IndInv, TypeOK
  <2>3. CASE answer' = answer
    BY <2>3 DEF FullOfLive
  <2>4. ASSUME NEW l \in Logins, Authorize(l) \/ Refresh(l) \/ Revoke(l) PROVE FullOfLive
    BY <2>3, <2>4 DEF Authorize, Refresh, Revoke
  <2>5. ASSUME NEW r \in Requests, NEW i \in Ids, NEW g \in BOOLEAN, Present(r, i, g)
        PROVE  FullOfLive
    BY <2>2, <2>3, <2>5 DEF Present, Answer
  <2>6. ASSUME NEW r \in Requests, ConsumeState(r) \/ ConsumeCode(r) \/ IssueCode(r)
        PROVE  FullOfLive
    BY <2>2, <2>3, <2>6 DEF ConsumeState, ConsumeCode, IssueCode, Answer
  <2>7. CASE Tick \/ Restart
    BY <2>3, <2>7, NameAssumption DEF Tick, Restart, FullOfLive, Answers
  <2> QED BY <2>1, <2>4, <2>5, <2>6, <2>7 DEF Next, Handle
<1>2. [FullOfLive]_vars <=>
        [\A r \in Requests : answer'[r] = "full" /\ answer[r] # "full" =>
           \A j \in DOMAIN entries' :
             entries'[j] > now \/ \E s \in Requests : took[s] = now /\ id[s] = j]_vars
  BY DEF FullOfLive
<1> QED BY <1>1, <1>2, IndInvHolds, PTL DEF Spec, ClosedOnlyByLive
=============================================================================

----------------------------- MODULE CacheProofs -----------------------------
(***************************************************************************)
(* What two processes keep in memory for a time, for any number of what    *)
(* goes by at once: the sessions of the LINE adapter with their locks      *)
(* (SessionStore), and the answers the server caches (TtlCaches).          *)
(***************************************************************************)
EXTENDS SessionStore, TtlCaches, TLAPS

(***************************************************************************)
(* SessionStore.  The step of IndInv is one lemma per action; what IndInv  *)
(* says of the map, the handlers, the locks and the cases is each a step   *)
(* of its own.                                                             *)
(***************************************************************************)

\* The outcome of an action is given conjunct by conjunct.
LEMMA ArriveKeepsIndInv ==
  ASSUME IndInv, NEW e \in Events, NEW u \in Users, Arrive(e, u) PROVE IndInv'
<1>a. CASE u \in DOMAIN users
  <2>1. /\ pc[e] = "new"
        /\ pc' = [pc EXCEPT ![e] = "cloned"]
        /\ user' = [user EXCEPT ![e] = u]
        /\ arc' = [arc EXCEPT ![e] = users[u]]
        /\ users' = users /\ known' = known /\ case' = case /\ queue' = queue
    BY <1>a DEF Arrive, sessionVars
  <2>2. \A f \in Events : f # e => pc'[f] = pc[f] /\ user'[f] = user[f] /\ arc'[f] = arc[f]
    BY <2>1 DEF IndInv
  <2>3. pc'[e] = "cloned" /\ user'[e] = u /\ arc'[e] = users[u]
    BY <2>1 DEF IndInv
  <2>4. \A f \in Active' : user'[f] \in DOMAIN users' /\ arc'[f] = users'[user'[f]]
    BY <1>a, <2>1, <2>2, <2>3 DEF IndInv, Active
  <2>5. \A v \in DOMAIN users' :
          /\ v \in Users /\ users'[v] \in Events /\ pc'[users'[v]] # "new"
          /\ \A w \in DOMAIN users' : users'[v] = users'[w] => v = w
    BY <2>1, <2>2, <2>3 DEF IndInv
  <2>6. \A f \in Events : Handling(f)' => queue'[arc'[f]] # <<>> /\ Head(queue'[arc'[f]]) = f
    BY <2>1, <2>2, <2>3 DEF IndInv, Handling
  <2>7. \A f \in Events : pc'[f] = "new" => case'[f] = None
    BY <2>1, <2>2, <2>3 DEF IndInv
  <2>8. /\ CaseIsKept'
        /\ queue' \in [Events -> Seq(Events)]
        /\ case' \in [Events -> Events \cup {None}] /\ known' \in [Users -> Events \cup {None}]
    BY <2>1 DEF IndInv, CaseIsKept
  <2>9. arc' \in [Events -> Events \cup {None}] /\ user' \in [Events -> Users \cup {None}]
    BY <1>a, <2>1 DEF IndInv
  <2> QED
    BY <2>1, <2>4, <2>5, <2>6, <2>7, <2>8, <2>9 DEF IndInv
<1>b. CASE u \notin DOMAIN users
  <2> DEFINE victims == IF Cardinality(DOMAIN users) >= MaxEntries THEN LruKeys ELSE {}
             kept == DOMAIN users \ victims
  <2>1. \A v \in victims : v \in DOMAIN users /\ ~InUse(users[v])
    BY DEF LruKeys, Evictable
  <2>2. /\ pc[e] = "new"
        /\ pc' = [pc EXCEPT ![e] = "cloned"]
        /\ user' = [user EXCEPT ![e] = u]
        /\ arc' = [arc EXCEPT ![e] = e]
        /\ users' = [v \in kept \cup {u} |-> IF v = u THEN e ELSE users[v]]
        /\ known' = Dropped(victims)
        /\ case' = case /\ queue' = queue
    BY <1>b DEF Arrive, sessionVars
  <2> HIDE DEF victims
  <2>3. \A f \in Active : user[f] \in kept /\ arc[f] = users[user[f]] /\ f # e
    BY <2>1, <2>2 DEF IndInv, InUse, Active
  <2>4. \A v \in kept : users[v] # e
    BY <2>2 DEF IndInv
  <2>5. DOMAIN users' = kept \cup {u} /\ users'[u] = e /\ \A v \in kept : users'[v] = users[v]
    BY <1>b, <2>2
  <2>6. \A f \in Events : f # e => pc'[f] = pc[f] /\ user'[f] = user[f] /\ arc'[f] = arc[f]
    BY <2>2 DEF IndInv
  <2>7. pc'[e] = "cloned" /\ user'[e] = u /\ arc'[e] = e
    BY <2>2 DEF IndInv
  <2>8. Active' = Active \cup {e}
    BY <2>6, <2>7 DEF Active
  <2>9. \A f \in Active' : user'[f] \in DOMAIN users' /\ arc'[f] = users'[user'[f]]
    BY <1>b, <2>3, <2>5, <2>6, <2>7, <2>8 DEF Active
  <2>10. CaseIsKept'
    <3> SUFFICES ASSUME NEW w \in Users
                 PROVE known'[w] = IF w \in DOMAIN users' THEN case[users'[w]] ELSE None
      BY <2>2 DEF CaseIsKept
    <3>1. known[w] = IF w \in DOMAIN users THEN case[users[w]] ELSE None
      BY DEF IndInv, CaseIsKept
    <3>2. known'[w] = IF w \in victims THEN None ELSE known[w]
      BY <2>2 DEF Dropped
    <3>3. case[e] = None
      BY <2>2 DEF IndInv
    <3> QED
      BY <1>b, <2>1, <2>5, <3>1, <3>2, <3>3
  <2>11. \A v \in DOMAIN users' :
           /\ v \in Users /\ users'[v] \in Events /\ pc'[users'[v]] # "new"
           /\ \A w \in DOMAIN users' : users'[v] = users'[w] => v = w
    BY <1>b, <2>4, <2>5, <2>6, <2>7 DEF IndInv
  <2>12. known' \in [Users -> Events \cup {None}]
    BY <2>2 DEF IndInv, Dropped
  <2>13. \A f \in Events : Handling(f)' => queue'[arc'[f]] # <<>> /\ Head(queue'[arc'[f]]) = f
    BY <2>2, <2>6, <2>7 DEF IndInv, Handling
  <2>14. \A f \in Events : pc'[f] = "new" => case'[f] = None
    BY <2>2, <2>6, <2>7 DEF IndInv
  <2> QED
    BY <2>2, <2>9, <2>10, <2>11, <2>12, <2>13, <2>14 DEF IndInv
<1> QED
  BY <1>a, <1>b

\* One who joins a queue does not become its first.
LEMMA AppendKeepsHead ==
  ASSUME NEW S, NEW s \in Seq(S), NEW x \in S, s # <<>>
  PROVE Append(s, x) # <<>> /\ Head(Append(s, x)) = Head(s)
OBVIOUS

LEMMA EnqueueKeepsIndInv ==
  ASSUME IndInv, NEW e \in Events, Enqueue(e) PROVE IndInv'
<1>1. e \in Active /\ arc[e] \in Events
  BY DEF Enqueue, IndInv, Active
<1>2. ASSUME NEW a \in Events, queue[a] # <<>>
      PROVE queue'[a] # <<>> /\ Head(queue'[a]) = Head(queue[a])
  <2>1. queue'[a] = IF a = arc[e] THEN Append(queue[a], e) ELSE queue[a]
    BY <1>1 DEF Enqueue, IndInv
  <2>2. queue[a] \in Seq(Events)
    BY DEF IndInv
  <2>3. Append(queue[a], e) # <<>> /\ Head(Append(queue[a], e)) = Head(queue[a])
    BY <1>2, <2>2, AppendKeepsHead
  <2> QED
    BY <1>2, <2>1, <2>3
<1>3. queue' \in [Events -> Seq(Events)]
  BY <1>1 DEF Enqueue, IndInv
<1>4. \A f \in Events : Handling(f)' => Handling(f)
  BY DEF Enqueue, IndInv, Handling
<1>5. \A f \in Events : Handling(f) => arc[f] \in Events
  BY NoneAssumption DEF IndInv, Handling, Active
<1>6. \A f \in Events : Handling(f)' => queue'[arc'[f]] # <<>> /\ Head(queue'[arc'[f]]) = f
  BY <1>2, <1>4, <1>5 DEF Enqueue, IndInv
<1>7. Active' = Active
  BY DEF Enqueue, IndInv, Active
<1>8. CaseIsKept'
  BY DEF Enqueue, IndInv, sessionVars, CaseIsKept
<1>9. \A f \in Events : pc'[f] = "new" <=> pc[f] = "new"
  BY DEF Enqueue, IndInv
<1> QED
  BY <1>3, <1>6, <1>7, <1>8, <1>9 DEF Enqueue, IndInv, sessionVars

\* What the actions of a locked session do to case and known.
LEMMA SetsCase ==
  ASSUME IndInv, NEW e \in Active, NEW c \in Events \cup {None},
         case' = [case EXCEPT ![arc[e]] = c], known' = [known EXCEPT ![user[e]] = c],
         users' = users
  PROVE  /\ case' \in [Events -> Events \cup {None}]
         /\ known' \in [Users -> Events \cup {None}]
         /\ CaseIsKept'
         /\ \A f \in Events : pc[f] = "new" => case'[f] = None
<1>1. e \in Events /\ user[e] \in DOMAIN users /\ user[e] \in Users /\ arc[e] = users[user[e]] /\ arc[e] \in Events
  BY DEF IndInv, Active
<1>2. \A v \in DOMAIN users : v # user[e] => users[v] # arc[e]
  BY <1>1 DEF IndInv
<1>3. pc[arc[e]] # "new"
  BY <1>1 DEF IndInv
<1>4. ASSUME NEW w \in Users
      PROVE known'[w] = IF w \in DOMAIN users' THEN case'[users'[w]] ELSE None
  <2>1. known[w] = IF w \in DOMAIN users THEN case[users[w]] ELSE None
    BY DEF IndInv, CaseIsKept
  <2>2. w \in DOMAIN users => users[w] \in Events
    BY DEF IndInv
  <2> QED
    BY <1>1, <1>2, <2>1, <2>2 DEF IndInv
<1> QED
  BY <1>1, <1>3, <1>4 DEF IndInv, CaseIsKept

LEMMA LockKeepsIndInv ==
  ASSUME IndInv, NEW e \in Events, Lock(e) PROVE IndInv'
<1>1. e \in Active
  BY DEF Lock, Active
<1>2. /\ case' \in [Events -> Events \cup {None}]
      /\ known' \in [Users -> Events \cup {None}]
      /\ CaseIsKept'
      /\ \A f \in Events : pc[f] = "new" => case'[f] = None
  <2>1. CASE arc[e] \in expired
    BY <1>1, <2>1, SetsCase DEF Lock, Forget
  <2>2. CASE arc[e] \notin expired
    BY <2>2 DEF Lock, IndInv, CaseIsKept
  <2> QED
    BY <2>1, <2>2
<1>3. \A f \in Events : Handling(f)' => queue[arc[f]] # <<>> /\ Head(queue[arc[f]]) = f
  BY DEF Lock, IndInv, Handling
<1>4. Active' = Active
  BY DEF Lock, IndInv, Active
<1> QED
  BY <1>2, <1>3, <1>4 DEF Lock, IndInv

LEMMA AnsweredKeepsIndInv ==
  ASSUME IndInv, NEW e \in Events, Answered(e) PROVE IndInv'
<1>1. e \in Active
  BY DEF Answered, Active
<1>2. PICK c \in {case[arc[e]], e} \ {None} :
        case' = [case EXCEPT ![arc[e]] = c] /\ known' = [known EXCEPT ![user[e]] = c]
  BY DEF Answered
<1>3. c \in Events \cup {None}
  BY <1>1 DEF IndInv, Active
<1>4. /\ case' \in [Events -> Events \cup {None}]
      /\ known' \in [Users -> Events \cup {None}]
      /\ CaseIsKept'
      /\ \A f \in Events : pc[f] = "new" => case'[f] = None
  BY <1>1, <1>2, <1>3, SetsCase DEF Answered
<1>5. \A f \in Events : Handling(f)' => Handling(f)
  BY DEF Answered, IndInv, Handling
<1>6. Active' = Active
  BY DEF Answered, IndInv, Active
<1> QED
  BY <1>4, <1>5, <1>6 DEF Answered, IndInv

LEMMA NotAnsweredKeepsIndInv ==
  ASSUME IndInv, NEW e \in Events, NotAnswered(e) PROVE IndInv'
<1>1. \A f \in Events : Handling(f)' => Handling(f)
  BY DEF NotAnswered, IndInv, Handling
<1>2. Active' = Active
  BY DEF NotAnswered, IndInv, Active
<1> QED
  BY <1>1, <1>2 DEF NotAnswered, IndInv, sessionVars, CaseIsKept

LEMMA ResetKeepsIndInv ==
  ASSUME IndInv, NEW e \in Events, Reset(e) PROVE IndInv'
<1>1. e \in Active
  BY DEF Reset, Active
<1>2. /\ case' \in [Events -> Events \cup {None}]
      /\ known' \in [Users -> Events \cup {None}]
      /\ CaseIsKept'
      /\ \A f \in Events : pc[f] = "new" => case'[f] = None
  BY <1>1, SetsCase DEF Reset, Forget
<1>3. \A f \in Events : Handling(f)' => Handling(f)
  BY DEF Reset, IndInv, Handling
<1>4. Active' = Active
  BY DEF Reset, IndInv, Active
<1> QED
  BY <1>2, <1>3, <1>4 DEF Reset, IndInv

LEMMA ReplyKeepsIndInv ==
  ASSUME IndInv, NEW e \in Events, Reply(e) PROVE IndInv'
<1>1. e \in Active /\ Handling(e) /\ arc[e] \in Events
  BY DEF Reply, Active, Handling, IndInv
<1>2. queue[arc[e]] # <<>> /\ Head(queue[arc[e]]) = e
  BY <1>1 DEF IndInv
<1>3. \A f \in Events : Handling(f)' => Handling(f) /\ f # e
  BY DEF Reply, IndInv, Handling
<1>4. \A f \in Events : Handling(f)' => arc[f] # arc[e]
  BY <1>2, <1>3 DEF IndInv
<1>5. \A a \in Events : a # arc[e] => queue'[a] = queue[a]
  BY <1>1 DEF Reply, IndInv
<1>6. queue' \in [Events -> Seq(Events)]
  BY <1>1, <1>2 DEF Reply, IndInv
<1>7. \A f \in Events : Handling(f) => arc[f] \in Events
  BY DEF IndInv, Handling, Active
<1>8. \A f \in Events : Handling(f)' => queue'[arc'[f]] # <<>> /\ Head(queue'[arc'[f]]) = f
  BY <1>3, <1>4, <1>5, <1>7 DEF Reply, IndInv
<1>9. Active' \subseteq Active
  BY DEF Reply, IndInv, Active
<1> QED
  BY <1>6, <1>8, <1>9 DEF Reply, IndInv, CaseIsKept

LEMMA SweepKeepsIndInv ==
  ASSUME IndInv, Sweep PROVE IndInv'
<1> DEFINE gone == {u \in Evictable : users[u] \in expired}
<1>1. \A u \in gone : u \in DOMAIN users /\ ~InUse(users[u])
  BY DEF Evictable
<1>2. /\ users' = [u \in DOMAIN users \cap (DOMAIN users \ gone) |-> users[u]]
      /\ known' = Dropped(gone)
      /\ UNCHANGED <<case, queue, pc, user, arc>>
  BY DEF Sweep, Restrict
<1> HIDE DEF gone
<1>3. DOMAIN users' = DOMAIN users \ gone /\ \A u \in DOMAIN users' : users'[u] = users[u]
  BY <1>2
<1>4. \A f \in Active : user[f] \notin gone
  BY <1>1 DEF IndInv, InUse
<1>5. \A f \in Active' : user'[f] \in DOMAIN users' /\ arc'[f] = users'[user'[f]]
  BY <1>2, <1>3, <1>4 DEF IndInv, Active
<1>6. CaseIsKept'
  BY <1>1, <1>2, <1>3 DEF IndInv, CaseIsKept, Dropped
<1>7. known' \in [Users -> Events \cup {None}]
  BY <1>2 DEF IndInv, Dropped
<1> QED
  BY <1>2, <1>3, <1>5, <1>6, <1>7 DEF IndInv, Handling

LEMMA RestartKeepsIndInv ==
  ASSUME IndInv, Restart PROVE IndInv'
<1>1. DOMAIN users' = {}
  BY DEF Restart
<1>2. Active' = {} /\ \A f \in Events : ~Handling(f)'
  BY DEF Restart, Active, Handling
<1>3. /\ pc' \in [Events -> {"new", "cloned", "queued", "calling", "replying",
                            "falling_back", "done"}]
      /\ queue' \in [Events -> Seq(Events)]
      /\ known' \in [Users -> Events \cup {None}]
      /\ \A f \in Events : pc'[f] = "new" => pc[f] = "new"
  BY DEF Restart, IndInv
<1>4. CaseIsKept'
  BY <1>1 DEF Restart, CaseIsKept
<1> QED
  BY <1>1, <1>2, <1>3, <1>4 DEF Restart, IndInv

LEMMA InitIndInv == Init => IndInv
<1> SUFFICES ASSUME Init PROVE IndInv
  OBVIOUS
<1>1. DOMAIN users = {}
  BY DEF Init
<1>2. Active = {} /\ \A f \in Events : ~Handling(f)
  BY DEF Init, Active, Handling
<1> QED
  BY <1>1, <1>2 DEF Init, IndInv, CaseIsKept

LEMMA NextKeepsIndInv == IndInv /\ [Next]_vars => IndInv'
<1> SUFFICES ASSUME IndInv, [Next]_vars PROVE IndInv'
  OBVIOUS
<1>1. ASSUME NEW e \in Events, NEW u \in Users, Arrive(e, u) PROVE IndInv'
  BY <1>1, ArriveKeepsIndInv
<1>2. ASSUME NEW e \in Events, Handle(e) PROVE IndInv'
  BY <1>2, EnqueueKeepsIndInv, LockKeepsIndInv, AnsweredKeepsIndInv,
     NotAnsweredKeepsIndInv, ResetKeepsIndInv, ReplyKeepsIndInv DEF Handle
<1>3. CASE Sweep
  BY <1>3, SweepKeepsIndInv
<1>4. CASE Expire
  BY <1>4 DEF Expire, IndInv, Active, Handling, CaseIsKept
<1>5. CASE Restart
  BY <1>5, RestartKeepsIndInv
<1>6. CASE UNCHANGED vars
  BY <1>6 DEF vars, IndInv, Active, Handling, CaseIsKept
<1> QED
  BY <1>1, <1>2, <1>3, <1>4, <1>5, <1>6 DEF Next

\* The inductive invariant holds.
THEOREM SessionsAreConsistent == Spec => []IndInv
<1> QED
  BY InitIndInv, NextKeepsIndInv, PTL DEF Spec

\* The messages of one user are handled one at a time: the entry a handler has
\* taken out of the map is neither evicted nor swept while it has it, so a later
\* message of the user meets the same lock.
THEOREM OneHandlerPerUser == Spec => []SerialPerUser
<1>1. IndInv => SerialPerUser
  <2> SUFFICES ASSUME IndInv, NEW e \in Events, NEW f \in Events, Handling(e), Handling(f),
                      user[e] = user[f]
               PROVE e = f
    BY DEF SerialPerUser
  <2>1. e \in Active /\ f \in Active
    BY DEF Handling, Active
  <2>2. arc[e] = arc[f]
    BY <2>1 DEF IndInv
  <2> QED
    BY <2>2 DEF IndInv
<1> QED
  BY <1>1, SessionsAreConsistent, PTL

\* A conversation continues in the case of its last answer, as long as its
\* session lives.
THEOREM ConversationContinues == Spec => []CaseIsKept
<1>1. IndInv => CaseIsKept
  BY DEF IndInv
<1> QED
  BY <1>1, SessionsAreConsistent, PTL

(***************************************************************************)
(* TtlCaches: the ages it promises, for any keys, TTLs and lifetimes.      *)
(***************************************************************************)

LEMMA CachesInitInv == CachesInit => CachesInv
<1> SUFFICES ASSUME CachesInit PROVE CachesInv
  OBVIOUS
<1>1. DOMAIN cache = {}
  BY DEF CachesInit
<1>2. CachesTypeOK
  <2>1. cache \in [DOMAIN cache -> Entry]
    BY <1>1 DEF CachesInit
  <2> QED BY <1>1, <2>1, TtlAssumption DEF CachesInit, CachesTypeOK
<1> QED BY <1>1, <1>2
        DEF CachesInit, CachesInv, EntriesAreRecent, FetchesAreShort, AnswersAreThere, AnswersAreRecent

\* An answer that is as recent as it should be leaves the invariant as it is.
LEMMA RespondIndInv ==
  ASSUME CachesInv, NEW r \in Requests, NEW k \in Keys, NEW value \in Nat, NEW failed \in BOOLEAN,
         Respond(r, value, failed), key' = [key EXCEPT ![r] = k], now' = now,
         DOMAIN cache' \subseteq Keys, cache' \in [DOMAIN cache' -> Entry], EntriesAreRecent',
         got' = [got EXCEPT ![r] = Nothing], began' = [began EXCEPT ![r] = Nothing]
             \/ (at[r] # "fetching" /\ began' = began),
         now - value <= Ttl[k] + MaxRead \/ (k \in Fallback /\ failed),
         k \in Tokens => now < Lifetime[k] + MaxRead
  PROVE  CachesInv'
<1> USE DEF CachesInv
<1>1. /\ at' = [at EXCEPT ![r] = "answered"]
      /\ answer' = [answer EXCEPT ![r] = [value |-> value, failed |-> failed]]
  BY DEF Respond
<1>2. CachesTypeOK'
  BY <1>1 DEF CachesTypeOK
<1>3. /\ at'[r] = "answered" /\ key'[r] = k /\ got'[r] = Nothing
      /\ answer'[r] = [value |-> value, failed |-> failed]
      /\ \A s \in Requests : s # r =>
           /\ at'[s] = at[s] /\ key'[s] = key[s] /\ got'[s] = got[s]
           /\ began'[s] = began[s] /\ answer'[s] = answer[s]
  BY <1>1 DEF CachesTypeOK
<1>4. FetchesAreShort' /\ AnswersAreThere'
  BY <1>3, NothingAssumption DEF FetchesAreShort, AnswersAreThere
<1>5. AnswersAreRecent'
  BY <1>3 DEF AnswersAreRecent, Age
<1> QED BY <1>2, <1>4, <1>5

LEMMA HitIndInv ==
  ASSUME CachesInv, NEW r \in Requests, NEW k \in Keys, Hit(r, k) PROVE CachesInv'
<1> USE DEF CachesInv
<1>1. /\ k \in DOMAIN cache /\ now < cache[k].until /\ at[r] = "idle"
      /\ cache' = cache /\ now' = now /\ began' = began /\ got' = got
      /\ key' = [key EXCEPT ![r] = k] /\ Respond(r, cache[k].value, FALSE)
  BY DEF Hit, IsFresh
<1>2. /\ cache[k].value \in Nat /\ cache[k].until \in Nat /\ now \in Nat /\ MaxRead \in Nat
      /\ Ttl[k] \in Nat /\ (k \in Tokens => Lifetime[k] \in Nat)
  BY <1>1, TtlAssumption DEF CachesTypeOK, Entry
<1>3. /\ now - cache[k].value <= Ttl[k] + MaxRead
      /\ k \in Tokens => now < Lifetime[k] + MaxRead
  BY <1>1, <1>2 DEF EntriesAreRecent
<1>4. got' = [got EXCEPT ![r] = Nothing]
  BY <1>1 DEF FetchesAreShort, CachesTypeOK
<1>5. DOMAIN cache' \subseteq Keys /\ cache' \in [DOMAIN cache' -> Entry] /\ EntriesAreRecent'
  BY <1>1 DEF CachesTypeOK, EntriesAreRecent
<1> QED BY <1>1, <1>2, <1>3, <1>4, <1>5, RespondIndInv

\* What is known of a fetch whose source has answered.
LEMMA FetchIsKnown ==
  ASSUME CachesInv, NEW r \in Requests, at[r] = "fetching", got[r] # Nothing
  PROVE  LET value == got[r].value k == key[r] IN
         /\ k \in Keys /\ value \in Nat /\ got[r].left \in Nat /\ now \in Nat /\ MaxRead \in Nat
         /\ Ttl[k] \in Nat /\ value <= now /\ now - value <= MaxRead
         /\ k \in Tokens => /\ Lifetime[k] \in Nat /\ value < Lifetime[k]
                            /\ got[r].left = Lifetime[k] - value
                            /\ now < Lifetime[k] + MaxRead
<1>1. /\ key[r] \in Keys /\ began[r] \in Nat /\ now <= began[r] + MaxRead
      /\ began[r] <= got[r].value /\ got[r].value <= now
      /\ key[r] \in Tokens => /\ got[r].value < Lifetime[key[r]]
                              /\ got[r].left = Lifetime[key[r]] - got[r].value
  BY DEF CachesInv, FetchesAreShort
<1>2. got[r] \in [value : Nat, left : Nat] /\ now \in Nat
  BY DEF CachesInv, CachesTypeOK
<1> QED BY <1>1, <1>2, TtlAssumption

LEMMA StoreIndInv == ASSUME CachesInv, NEW r \in Requests, Store(r) PROVE CachesInv'
<1> DEFINE k == key[r]
           value == got[r].value
           until == now + EntryTtl(k, got[r].left)
<1>1. /\ at[r] = "fetching" /\ got[r] # Nothing /\ now' = now /\ key' = key
      /\ cache' = Cached(k, [value |-> value, until |-> until])
      /\ Respond(r, value, FALSE)
      /\ got' = [got EXCEPT ![r] = Nothing] /\ began' = [began EXCEPT ![r] = Nothing]
  BY DEF Store
<1>2. /\ k \in Keys /\ value \in Nat /\ got[r].left \in Nat /\ now \in Nat /\ MaxRead \in Nat
      /\ Ttl[k] \in Nat /\ value <= now /\ now - value <= MaxRead
      /\ k \in Tokens => /\ Lifetime[k] \in Nat /\ value < Lifetime[k]
                         /\ got[r].left = Lifetime[k] - value
                         /\ now < Lifetime[k] + MaxRead
  BY <1>1, FetchIsKnown
<1>3. /\ EntryTtl(k, got[r].left) \in Nat /\ EntryTtl(k, got[r].left) <= Ttl[k]
      /\ k \in Tokens => EntryTtl(k, got[r].left) <= got[r].left
  BY <1>2 DEF EntryTtl, Least
<1>4. /\ until \in Nat /\ until <= value + Ttl[k] + MaxRead
      /\ k \in Tokens => until <= Lifetime[k] + MaxRead
  BY <1>2, <1>3
<1> HIDE DEF k, value, until
<1>5. /\ DOMAIN cache' = DOMAIN cache \cup {k}
      /\ cache'[k] = [value |-> value, until |-> until]
      /\ \A j \in DOMAIN cache : j # k => cache'[j] = cache[j]
      /\ cache' = [j \in DOMAIN cache' |-> cache'[j]]
  BY <1>1 DEF Cached
<1>6. DOMAIN cache' \subseteq Keys /\ cache' \in [DOMAIN cache' -> Entry]
  BY <1>2, <1>4, <1>5 DEF CachesInv, CachesTypeOK, Entry
<1>7. EntriesAreRecent'
  BY <1>1, <1>2, <1>4, <1>5 DEF CachesInv, EntriesAreRecent
<1>8. key' = [key EXCEPT ![r] = k]
  BY <1>1 DEF CachesInv, CachesTypeOK, k
<1>9. now - value <= Ttl[k] + MaxRead
  BY <1>2
<1> QED BY <1>1, <1>2, <1>6, <1>7, <1>8, <1>9, RespondIndInv

LEMMA AnswerUncachedIndInv ==
  ASSUME CachesInv, NEW r \in Requests, AnswerUncached(r) PROVE CachesInv'
<1>1. /\ at[r] = "fetching" /\ got[r] # Nothing /\ now' = now /\ key' = key /\ cache' = cache
      /\ Respond(r, got[r].value, FALSE)
      /\ got' = [got EXCEPT ![r] = Nothing] /\ began' = [began EXCEPT ![r] = Nothing]
  BY DEF AnswerUncached
<1>2. /\ key[r] \in Keys /\ got[r].value \in Nat
      /\ now - got[r].value <= Ttl[key[r]] + MaxRead
      /\ key[r] \in Tokens => now < Lifetime[key[r]] + MaxRead
  BY <1>1, FetchIsKnown
<1>3. DOMAIN cache' \subseteq Keys /\ cache' \in [DOMAIN cache' -> Entry] /\ EntriesAreRecent'
  BY <1>1 DEF CachesInv, CachesTypeOK, EntriesAreRecent
<1>4. key' = [key EXCEPT ![r] = key[r]]
  BY <1>1 DEF CachesInv, CachesTypeOK
<1> QED BY <1>1, <1>2, <1>3, <1>4, RespondIndInv

\* A request that goes back to idle leaves the invariant as it is.
LEMMA BackToIdle ==
  ASSUME CachesInv, NEW r \in Requests, at' = [at EXCEPT ![r] = "idle"],
         now' = now, cache' = cache, key' = key,
         got' = [got EXCEPT ![r] = Nothing],
         began' = [began EXCEPT ![r] = Nothing] \/ (at[r] # "fetching" /\ began' = began),
         answer' = answer \/ answer' = [answer EXCEPT ![r] = Nothing]
  PROVE  CachesInv'
<1> USE DEF CachesInv
<1>1. CachesTypeOK'
  BY DEF CachesTypeOK
<1>2. /\ at'[r] = "idle" /\ got'[r] = Nothing
      /\ \A s \in Requests : s # r =>
           /\ at'[s] = at[s] /\ got'[s] = got[s]
           /\ began'[s] = began[s] /\ answer'[s] = answer[s]
  BY DEF CachesTypeOK
<1>3. EntriesAreRecent' /\ FetchesAreShort' /\ AnswersAreThere' /\ AnswersAreRecent'
  BY <1>2 DEF EntriesAreRecent, FetchesAreShort, AnswersAreThere, AnswersAreRecent, Age
<1> QED BY <1>1, <1>3

LEMMA FetchFailsIndInv == ASSUME CachesInv, NEW r \in Requests, FetchFails(r) PROVE CachesInv'
<1> USE DEF CachesInv
<1>1. /\ at[r] = "fetching" /\ now' = now /\ key' = key /\ cache' = cache
      /\ got' = [got EXCEPT ![r] = Nothing] /\ began' = [began EXCEPT ![r] = Nothing]
  BY DEF FetchFails
<1>2. CASE key[r] \in Fallback \cap DOMAIN cache
  <2>1. Respond(r, cache[key[r]].value, TRUE) /\ cache[key[r]].value \in Nat
    BY <1>2 DEF FetchFails, CachesTypeOK, Entry
  <2>2. key[r] \in Keys /\ key[r] \notin Tokens /\ key' = [key EXCEPT ![r] = key[r]]
    BY <1>1, <1>2, KeyAssumption DEF CachesTypeOK
  <2>3. DOMAIN cache' \subseteq Keys /\ cache' \in [DOMAIN cache' -> Entry] /\ EntriesAreRecent'
    BY <1>1 DEF CachesTypeOK, EntriesAreRecent
  <2> QED BY <1>1, <1>2, <2>1, <2>2, <2>3, RespondIndInv
<1>3. CASE key[r] \notin Fallback \cap DOMAIN cache
  <2>1. at' = [at EXCEPT ![r] = "idle"] /\ answer' = answer
    BY <1>3 DEF FetchFails
  <2> QED BY <1>1, <2>1, BackToIdle
<1> QED BY <1>2, <1>3

LEMMA DoneIndInv == ASSUME CachesInv, NEW r \in Requests, Done(r) PROVE CachesInv'
<1>1. got' = [got EXCEPT ![r] = Nothing]
  BY DEF Done, CachesInv, FetchesAreShort, CachesTypeOK
<1> QED BY <1>1, BackToIdle DEF Done

LEMMA MissIndInv ==
  ASSUME CachesInv, NEW r \in Requests, NEW k \in Keys, Miss(r, k) PROVE CachesInv'
<1> USE DEF CachesInv
<1>1. /\ at[r] = "idle" /\ now' = now /\ cache' = cache /\ got' = got /\ answer' = answer
      /\ at'[r] = "fetching" /\ key'[r] = k /\ began'[r] = now /\ got'[r] = Nothing
      /\ \A s \in Requests : s # r =>
           at'[s] = at[s] /\ key'[s] = key[s] /\ began'[s] = began[s]
  BY DEF Miss, CachesTypeOK, FetchesAreShort
<1>2. now \in Nat /\ MaxRead \in Nat
  BY TtlAssumption DEF CachesTypeOK
<1>3. CachesTypeOK'
  BY <1>2 DEF Miss, CachesTypeOK
<1>4. EntriesAreRecent' /\ FetchesAreShort' /\ AnswersAreThere' /\ AnswersAreRecent'
  BY <1>1, <1>2 DEF EntriesAreRecent, FetchesAreShort, AnswersAreThere, AnswersAreRecent, Age
<1> QED BY <1>3, <1>4

LEMMA ReadIndInv == ASSUME CachesInv, NEW r \in Requests, Read(r) PROVE CachesInv'
<1> USE DEF CachesInv
<1>1. /\ at[r] = "fetching" /\ key[r] \in Keys /\ now \in Nat
      /\ began[r] \in Nat /\ began[r] <= now
      /\ key[r] \in Tokens => Lifetime[key[r]] \in Nat /\ now < Lifetime[key[r]]
  BY TtlAssumption DEF Read, CachesTypeOK, FetchesAreShort
<1> DEFINE left == IF key[r] \in Tokens THEN Lifetime[key[r]] - now ELSE 0
<1>2. /\ now' = now /\ cache' = cache /\ at' = at /\ key' = key /\ began' = began
      /\ answer' = answer /\ got' = [got EXCEPT ![r] = [value |-> now, left |-> left]]
      /\ left \in Nat /\ (key[r] \in Tokens => left = Lifetime[key[r]] - now)
  BY <1>1 DEF Read
<1> HIDE DEF left
<1>3. CachesTypeOK'
  BY <1>1, <1>2 DEF CachesTypeOK
<1>4. /\ got'[r] = [value |-> now, left |-> left]
      /\ \A s \in Requests : s # r => got'[s] = got[s]
  BY <1>2 DEF CachesTypeOK
<1>5. FetchesAreShort'
  BY <1>1, <1>2, <1>4 DEF FetchesAreShort
<1>6. EntriesAreRecent' /\ AnswersAreThere' /\ AnswersAreRecent'
  BY <1>2 DEF EntriesAreRecent, AnswersAreThere, AnswersAreRecent, Age
<1> QED BY <1>3, <1>5, <1>6

LEMMA TickIndInv == CachesInv /\ Tick => CachesInv'
<1> SUFFICES ASSUME CachesInv, Tick PROVE CachesInv'
  OBVIOUS
<1> USE DEF CachesInv
<1>1. /\ now \in Nat /\ now' = now + 1 /\ EndOfTime \in Nat /\ MaxRead \in Nat /\ now < EndOfTime
      /\ \A r \in Requests : /\ at[r] # "answered"
                             /\ at[r] = "fetching" => now - began[r] < MaxRead
      /\ cache' = cache /\ at' = at /\ key' = key /\ began' = began /\ got' = got
      /\ answer' = answer
  BY TtlAssumption DEF Tick, CachesTypeOK
<1>2. CachesTypeOK'
  BY <1>1 DEF CachesTypeOK
<1>3. EntriesAreRecent'
  BY <1>1 DEF EntriesAreRecent, CachesTypeOK, Entry
<1>4. FetchesAreShort'
  BY <1>1 DEF FetchesAreShort, CachesTypeOK
<1>5. AnswersAreThere' /\ AnswersAreRecent'
  BY <1>1 DEF AnswersAreThere, AnswersAreRecent
<1> QED BY <1>2, <1>3, <1>4, <1>5

LEMMA EmptyIndInv == CachesInv /\ Empty => CachesInv'
<1> SUFFICES ASSUME CachesInv, Empty PROVE CachesInv'
  OBVIOUS
<1> USE DEF CachesInv, Empty
<1>1. DOMAIN cache' = {} /\ cache' \in [DOMAIN cache' -> Entry]
  OBVIOUS
<1>2. CachesTypeOK' /\ EntriesAreRecent'
  BY <1>1 DEF CachesTypeOK, EntriesAreRecent
<1> QED BY <1>2 DEF FetchesAreShort, AnswersAreThere, AnswersAreRecent, Age

LEMMA CachesStep == CachesInv /\ [CachesNext]_cachesVars => CachesInv'
<1> SUFFICES ASSUME CachesInv, [CachesNext]_cachesVars PROVE CachesInv'
  OBVIOUS
<1>1. ASSUME NEW r \in Requests, NEW k \in Keys, Hit(r, k) \/ Miss(r, k) PROVE CachesInv'
  BY <1>1, HitIndInv, MissIndInv
<1>2. ASSUME NEW r \in Requests,
             Read(r) \/ Store(r) \/ AnswerUncached(r) \/ FetchFails(r) \/ Done(r)
      PROVE  CachesInv'
  BY <1>2, ReadIndInv, StoreIndInv, AnswerUncachedIndInv, FetchFailsIndInv, DoneIndInv
<1>3. CASE Tick \/ Empty
  BY <1>3, TickIndInv, EmptyIndInv
<1>4. CASE UNCHANGED cachesVars
  BY <1>4 DEF cachesVars, CachesInv, CachesTypeOK, EntriesAreRecent, FetchesAreShort, AnswersAreThere,
              AnswersAreRecent, Age
<1> QED BY <1>1, <1>2, <1>3, <1>4 DEF CachesNext

LEMMA CachesInvHolds == CachesSpec => []CachesInv
BY CachesInitInv, CachesStep, PTL DEF CachesSpec

\* An answer is at most a TTL and a fetch old, but for the old allowlist after a
\* failed fetch, and a token is accepted at most a fetch after its expiry, for any
\* TTLs, lifetimes and overlap of requests.
THEOREM AnswersAreRecentAlways == CachesSpec => []CachesTypeOK /\ []AnswersAreRecent
<1>1. CachesInv => CachesTypeOK /\ AnswersAreRecent
  BY DEF CachesInv
<1> QED BY <1>1, CachesInvHolds, PTL
==============================================================================

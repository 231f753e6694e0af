----------------------------- MODULE AuthServer -----------------------------
(***************************************************************************)
(* The OAuth authorization server in front of Google (oauth/authserver.rs). *)
(*                                                                         *)
(* It keeps no register: a registration, the state of a login and the      *)
(* authorization code are blobs signed or sealed with the server's key, so *)
(* they outlive a restart, but not a change of the key.  The one thing it  *)
(* remembers is which states and codes have been used, in a bounded map in *)
(* memory (UsedJtis) that is pruned now and then.  Requests are handled    *)
(* concurrently; each reads the clock once to check the expiry of its blob *)
(* and once more when it consumes it.                                      *)
(*                                                                         *)
(* A state is named after its login, a code after the callback that issued *)
(* it (the jti of either is a fresh uuid).                                 *)
(***************************************************************************)
EXTENDS Integers, FiniteSets, Functions

CONSTANTS
  Logins,
  Requests,     \* bound: requests of /oauth/callback and /oauth/token handled
  StateTtl,     \* STATE_TTL_SECS
  CodeTtl,      \* CODE_TTL_SECS
  MaxAge,       \* CLIENT_MAX_AGE_SECS
  MaxUsedJtis, PruneThreshold,
  EndOfTime,    \* bound on the clock
  None

ASSUME TtlAssumption == StateTtl \in Nat \ {0} /\ CodeTtl \in Nat \ {0} /\ MaxAge \in Nat
ASSUME LimitAssumption ==
  /\ MaxUsedJtis \in Nat \ {0} /\ PruneThreshold \in Nat \ {0}
  /\ PruneThreshold <= MaxUsedJtis
\* What a request of /oauth/callback or /oauth/token is answered.
Answers == {"rejected", "used", "full", "failed", "tokens", "code"}

ASSUME NameAssumption ==
  /\ IsFiniteSet(Logins) /\ IsFiniteSet(Requests) /\ Logins \cap Requests = {}
  /\ None \notin Nat \cup Logins \cup Requests \cup Answers
ASSUME EndAssumption == EndOfTime \in Nat

Ids == Logins \cup Requests

VARIABLES
  now,        \* the clock, in seconds
  exp,        \* by state or code: its expiry, None before it is issued
  code,       \* by code: the login it is for
  foreign,    \* the states and codes of an earlier key; with a state, the
              \* registration of its client
  keyed,      \* when the key came into use, and the clients registered with it
  entries, pruneAt, lastPrune,   \* UsedJtis
  pc, id,     \* by request: where its handler is, which blob it presents
  good,       \* by request: client, redirect and verifier are the blob's own
  took,       \* history, by request: when it consumed its blob, in this process
  answer,     \* history, by request: what it was answered, in this process
  session,    \* by login: whether the client holds a refresh token
  revoked,    \* Google: the logins whose grant has been withdrawn
  improper    \* history: the logins whose client has sent an improper refresh

used == <<entries, pruneAt, lastPrune>>
key == <<foreign, keyed>>
blobs == <<exp, code, key>>
requests == <<pc, id, good>>
sessions == <<session, revoked, improper>>
vars == <<now, blobs, used, requests, took, answer, sessions>>

-----------------------------------------------------------------------------
(* UsedJtis.                                                               *)

Clamp(n) == IF n < PruneThreshold THEN PruneThreshold
            ELSE IF n > MaxUsedJtis THEN MaxUsedJtis ELSE n

IsUsed(j) == j \in DOMAIN entries /\ entries[j] > now

Live == {j \in DOMAIN entries : entries[j] > now}

\* Mutant: the map is pruned once.
PruneOnce == Cardinality(DOMAIN entries) >= pruneAt /\ lastPrune = None

\* At most one pruning per second.
PruneDue == Cardinality(DOMAIN entries) >= pruneAt /\ lastPrune # now

Kept == IF PruneDue THEN Live ELSE DOMAIN entries

\* Mutant: an entry lasts as long as a code, counted from its use.
InsertFixed(j) == [i \in Kept \cup {j} |-> IF i = j THEN now + CodeTtl ELSE entries[i]]

Insert(j) == [i \in Kept \cup {j} |-> IF i = j THEN exp[j] ELSE entries[i]]

Full == Cardinality(Kept) >= MaxUsedJtis

Prune ==
  /\ pruneAt' = IF PruneDue THEN Clamp(2 * Cardinality(Live)) ELSE pruneAt
  /\ lastPrune' = IF PruneDue THEN now ELSE lastPrune

-----------------------------------------------------------------------------
Init ==
  /\ now = 0
  /\ exp = [i \in Ids |-> None] /\ code = [r \in Requests |-> None]
  /\ foreign = {} /\ keyed = 0
  /\ entries = <<>> /\ pruneAt = PruneThreshold /\ lastPrune = None
  /\ pc = [r \in Requests |-> "new"] /\ id = [r \in Requests |-> None]
  /\ good = [r \in Requests |-> FALSE]
  /\ took = [r \in Requests |-> None] /\ answer = [r \in Requests |-> None]
  /\ session = [l \in Logins |-> "none"] /\ revoked = {} /\ improper = {}

Answer(r, a) == answer' = [answer EXCEPT ![r] = a]
Goto(r, label) == pc' = [pc EXCEPT ![r] = label]

\* The client id is the registration, signed with the key (register keeps nothing).
RegistrationExpired == now - keyed > MaxAge

Authorize(l) ==
  /\ exp[l] = None /\ ~RegistrationExpired
  /\ exp' = [exp EXCEPT ![l] = now + StateTtl]
  /\ UNCHANGED <<now, code, key, used, requests, took, answer, sessions>>

\* A blob of another key cannot be verified or opened.
Valid(i) == i \notin foreign /\ exp[i] > now

\* Mutant: the code is consumed before the request is compared with it.
PresentUnchecked(r, i, g) ==
  /\ pc[r] = "new" /\ exp[i] # None
  /\ Valid(i)
  /\ Goto(r, "consuming")
  /\ id' = [id EXCEPT ![r] = i] /\ good' = [good EXCEPT ![r] = g]
  /\ UNCHANGED answer
  /\ UNCHANGED <<now, blobs, used, took, sessions>>

\* callback and token_from_code up to the expiry; of a code also client,
\* redirect_uri and PKCE.
Present(r, i, g) ==
  /\ pc[r] = "new" /\ exp[i] # None
  /\ \/ /\ ~Valid(i) \/ (i \in Requests /\ ~g)
        /\ Goto(r, "done") /\ Answer(r, "rejected") /\ UNCHANGED <<id, good>>
     \/ /\ Valid(i) /\ (i \in Requests => g)
        /\ Goto(r, "consuming")
        /\ id' = [id EXCEPT ![r] = i] /\ good' = [good EXCEPT ![r] = g]
        /\ UNCHANGED answer
  /\ UNCHANGED <<now, blobs, used, took, sessions>>

\* consume_jti says no: used already, or no room to remember it.
ConsumeRefused(r) ==
  /\ pc[r] = "consuming"
  /\ \/ IsUsed(id[r]) /\ Answer(r, "used") /\ UNCHANGED used
     \/ /\ ~IsUsed(id[r]) /\ Full
        /\ Answer(r, "full")
        /\ Prune /\ entries' = Restrict(entries, Kept)
  /\ Goto(r, "done")
  /\ UNCHANGED <<now, blobs, id, good, took, sessions>>

Consume(r) ==
  /\ pc[r] = "consuming" /\ ~IsUsed(id[r]) /\ ~Full
  /\ Prune /\ entries' = Insert(id[r])
  /\ took' = [took EXCEPT ![r] = now]

\* A state: the callback goes on to Google, unless Google reported an error or
\* sent no code.
ConsumeState(r) ==
  /\ id[r] \in Logins
  /\ Consume(r)
  /\ \/ Goto(r, "exchanging") /\ UNCHANGED answer
     \/ Goto(r, "done") /\ Answer(r, "failed")
  /\ UNCHANGED <<now, blobs, id, good, sessions>>

\* A code: the client gets Google's tokens, a refresh token if there is one.
ConsumeCode(r) ==
  /\ id[r] \in Requests
  /\ Consume(r)
  /\ Goto(r, "done") /\ Answer(r, IF good[r] THEN "tokens" ELSE "rejected")
  /\ \/ UNCHANGED session
     \/ good[r] /\ session' = [session EXCEPT ![code[id[r]]] = "open"]
  /\ UNCHANGED <<now, blobs, id, good, revoked, improper>>

\* The exchange with Google and the verification of the identity, then the code.
IssueCode(r) ==
  /\ pc[r] = "exchanging"
  /\ Goto(r, "done")
  /\ \/ /\ Answer(r, "code")
        /\ exp' = [exp EXCEPT ![r] = now + CodeTtl]
        /\ code' = [code EXCEPT ![r] = id[r]]
     \/ Answer(r, "failed") /\ UNCHANGED <<exp, code>>
  /\ UNCHANGED <<now, key, used, id, good, took, sessions>>

-----------------------------------------------------------------------------
(* token_from_refresh.                                                     *)

\* Google's answers to a refresh, by status and error code.  It says
\* invalid_grant only of a grant that has been withdrawn.
Statuses == {"200", "400", "401", "4xx", "429", "5xx", "unreachable"}
Errors == {"invalid_grant", "invalid_client", "none"}

\* Mutant: what is not a failure of Google's own is a withdrawn grant.
RejectedByStatus(status, error) == status \in {"400", "401", "4xx", "429"}

\* classify_upstream_failure.
Rejected(status, error) == status \in {"400", "401"} /\ error = "invalid_grant"

\* What is answered invalid_grant without asking Google: a request that lacks its
\* token or client id or names a resource that is not served (any more), and a
\* registration that cannot be verified or is too old.
RefusedHere(l, proper) == ~proper \/ l \in foreign \/ RegistrationExpired

\* The client gives its refresh token up when the answer is invalid_grant.
Refresh(l) ==
  /\ session[l] = "open"
  /\ \E proper \in BOOLEAN, status \in Statuses \ {"200"}, error \in Errors :
       /\ error = "invalid_grant" => l \in revoked
       /\ RefusedHere(l, proper) \/ Rejected(status, error)
       /\ improper' = IF proper THEN improper ELSE improper \cup {l}
  /\ session' = [session EXCEPT ![l] = "lost"]
  /\ UNCHANGED <<now, blobs, used, requests, took, answer, revoked>>

Revoke(l) ==
  /\ session[l] = "open" /\ l \notin revoked
  /\ revoked' = revoked \cup {l}
  /\ UNCHANGED <<now, blobs, used, requests, took, answer, session, improper>>

-----------------------------------------------------------------------------
Tick ==
  /\ now < EndOfTime
  /\ now' = now + 1
  /\ UNCHANGED <<blobs, used, requests, took, answer, sessions>>

\* The key is changed to sign everybody out, or because it is not configured and
\* made up at every start.
NewKey ==
  /\ foreign' = {i \in Ids : exp[i] # None} /\ foreign' # foreign
  /\ keyed' = now

\* The process stops and starts again, with the same key or another.
Restart ==
  /\ (entries # <<>> /\ UNCHANGED key) \/ NewKey
  /\ entries' = <<>> /\ pruneAt' = PruneThreshold /\ lastPrune' = None
  /\ pc' = [r \in Requests |-> IF pc[r] = "new" THEN "new" ELSE "done"]
  /\ took' = [r \in Requests |-> None] /\ answer' = [r \in Requests |-> None]
  /\ UNCHANGED <<now, exp, code, id, good, sessions>>

Handle(r) == ConsumeRefused(r) \/ ConsumeState(r) \/ ConsumeCode(r) \/ IssueCode(r)

Next ==
  \/ \E l \in Logins : Authorize(l) \/ Refresh(l) \/ Revoke(l)
  \/ \E r \in Requests, i \in Ids, g \in BOOLEAN : Present(r, i, g)
  \/ \E r \in Requests : Handle(r)
  \/ Tick \/ Restart

Spec == Init /\ [][Next]_vars

-----------------------------------------------------------------------------
TypeOK ==
  /\ now \in Nat
  /\ exp \in [Ids -> Nat \cup {None}]
  /\ code \in [Requests -> Logins \cup {None}]
  /\ foreign \subseteq Ids /\ keyed \in 0..now
  /\ DOMAIN entries \subseteq Ids /\ entries \in [DOMAIN entries -> Nat]
  /\ pruneAt \in PruneThreshold..MaxUsedJtis /\ lastPrune \in Nat \cup {None}
  /\ pc \in [Requests -> {"new", "consuming", "exchanging", "done"}]
  /\ id \in [Requests -> Ids \cup {None}] /\ good \in [Requests -> BOOLEAN]
  /\ took \in [Requests -> Nat \cup {None}]
  /\ answer \in [Requests -> Answers \cup {None}]
  /\ session \in [Logins -> {"none", "open", "lost"}]
  /\ revoked \subseteq Logins /\ improper \subseteq Logins

Took(r, i) == took[r] # None /\ id[r] = i

\* A state or a code is used once while the process lives: consume_jti says
\* that a reuse is certainly refused then.
SingleUse == \A i \in Ids, r, s \in Requests : Took(r, i) /\ Took(s, i) => r = s

\* What the code does keep: until it expires, a state or a code is accepted at
\* most once, however the map is pruned, filled and refilled meanwhile.
SingleUseUntilExpiry ==
  \A i \in Ids, r, s \in Requests :
    Took(r, i) /\ Took(s, i) /\ took[r] < exp[i] /\ took[s] < exp[i] => r = s

\* A login is turned away for want of room only when the map holds nothing but
\* states and codes that are still live or were recorded in this second: it
\* never stays closed over entries that have expired.
ClosedOnlyByLive ==
  [][\A r \in Requests : answer'[r] = "full" /\ answer[r] # "full" =>
       \A j \in DOMAIN entries' :
         entries'[j] > now \/ \E s \in Requests : took[s] = now /\ id[s] = j]_vars

\* Only an exchange that succeeded uses a code up: a request with the wrong
\* verifier, client or redirect does not cost the right client its login.
CodeIsNotBurnt ==
  \A r \in Requests : answer[r] = "used" /\ id[r] \in Requests =>
    \E s \in Requests : id[s] = id[r] /\ answer[s] = "tokens"

\* A client loses its session only for a reason that stands: the grant is withdrawn,
\* the registration too old or of an earlier key, or the request was improper.
\* Never for a temporary failure at Google, for wrong credentials of the server, or
\* for a restart with the same key.
SignedOutForCause ==
  \A l \in Logins : session[l] = "lost" =>
    l \in revoked \/ RegistrationExpired \/ l \in foreign \/ l \in improper

\* A client is signed in only by a login of the key in use, and out only for a
\* reason that stands. A change of the key ends the logins under way: no tokens are
\* handed out on one that began with an earlier key, however far it has come.
SessionsAreForCause ==
  [][/\ \A l \in Logins : session[l] # "open" /\ session'[l] = "open" => l \notin foreign
     /\ SignedOutForCause']_vars

-----------------------------------------------------------------------------
(* Why: what is kept in the map, and what a request knows of its blob.      *)

BlobsAreKnown ==
  \A r \in Requests :
    /\ pc[r] \in {"consuming", "exchanging"} \/ took[r] # None =>
         id[r] \in Ids /\ exp[id[r]] \in Nat
    /\ took[r] # None => took[r] <= now /\ pc[r] \in {"exchanging", "done"}
    /\ pc[r] = "exchanging" => id[r] \in Logins
    /\ pc[r] = "consuming" /\ id[r] \in Requests => good[r]
    /\ pc[r] # "done" => exp[r] = None /\ answer[r] = None

\* A login begins with its state; what is under way is of the key in use, and so is
\* the login of a code of that key.
LoginsAreOfTheKey ==
  /\ \A l \in Logins : session[l] # "none" => exp[l] # None
  /\ \A r \in Requests :
       /\ exp[r] # None => code[r] \in Logins /\ exp[code[r]] # None
       /\ exp[r] # None /\ code[r] \in foreign => r \in foreign
       /\ pc[r] \in {"consuming", "exchanging"} => id[r] \notin foreign

\* What was consumed in this process and has not expired is in the map.
UsedAreKept ==
  \A r \in Requests : took[r] # None /\ exp[id[r]] > now =>
    IsUsed(id[r]) /\ entries[id[r]] = exp[id[r]]

\* A code in the map was exchanged for tokens.
KeptCodesWereGiven ==
  \A j \in DOMAIN entries \cap Requests : \E s \in Requests : id[s] = j /\ answer[s] = "tokens"

\* In the second of a pruning the map holds nothing that has expired, but for
\* what was consumed in that second.
PrunedThisSecond ==
  /\ lastPrune # None => lastPrune <= now
  /\ lastPrune = now => \A j \in DOMAIN entries :
       entries[j] > now \/ \E s \in Requests : took[s] = now /\ id[s] = j

IndInv ==
  /\ TypeOK
  /\ BlobsAreKnown
  /\ LoginsAreOfTheKey
  /\ UsedAreKept
  /\ KeptCodesWereGiven
  /\ PrunedThisSecond
  /\ SingleUseUntilExpiry
  /\ CodeIsNotBurnt
  /\ SignedOutForCause
=============================================================================

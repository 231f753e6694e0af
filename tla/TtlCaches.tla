----------------------------- MODULE TtlCaches ------------------------------
(***************************************************************************)
(* The caches the server answers from: the product allowlist (ProductGate  *)
(* in harness/product_gate.rs), the manual corpus (CorpusLoader in         *)
(* corpus.rs) and the verified bearer tokens (GoogleTokenVerifier in       *)
(* oauth/verifier.rs).                                                     *)
(*                                                                         *)
(* The three are built alike: look for a fresh entry under a mutex, let go *)
(* of the mutex, read the source, store what was read with the time of the *)
(* storing.  Nothing stops two requests from reading at once and storing   *)
(* in the other order.  What is read is represented by the moment at which *)
(* the source was like that, so the age of an answer is the clock minus    *)
(* its value.                                                              *)
(***************************************************************************)
EXTENDS Integers, Functions

CONSTANTS
  Keys,       \* schemas of the two corpora, bearer tokens
  Fallback,   \* the keys of the allowlist: an old entry beats an error
  Tokens,     \* the keys of the token cache
  Ttl,        \* by key: PRODUCT_ALLOWLIST_TTL, DEFAULT_TTL, MAX_CACHE_TTL
  Lifetime,   \* by token: when it expires
  MaxRead,    \* bound on the time the reads of one fetch take (their timeouts)
  Requests,   \* bound: requests under way at once
  EndOfTime,  \* bound on the clock
  Nothing

ASSUME KeyAssumption == Fallback \subseteq Keys /\ Tokens \subseteq Keys \ Fallback
ASSUME TtlAssumption ==
  /\ Ttl \in [Keys -> Nat] /\ Lifetime \in [Tokens -> Nat]
  /\ MaxRead \in Nat /\ EndOfTime \in Nat
ASSUME NothingAssumption ==
  Nothing \notin Nat \cup Keys \cup [value : Nat, failed : BOOLEAN]

VARIABLES
  now,     \* the clock
  cache,   \* by key: an entry [value, until], until is when it stops being fresh
  at, key, \* by request: where it is, what it asks for
  began,   \* by request: when its fetch began
  got,     \* by request: what the source answered, [value, left]
  answer   \* history, by request: [value, failed], the value it goes on with and
           \* whether its own fetch failed

cachesVars == <<now, cache, at, key, began, got, answer>>

-----------------------------------------------------------------------------
Least(a, b) == IF a < b THEN a ELSE b

Entry == [value : Nat, until : Nat]

Cached(k, entry) == [j \in DOMAIN cache \cup {k} |-> IF j = k THEN entry ELSE cache[j]]

IsFresh(k) == k \in DOMAIN cache /\ now < cache[k].until

CachesInit ==
  /\ now = 0 /\ cache = <<>>
  /\ at = [r \in Requests |-> "idle"] /\ key = [r \in Requests |-> Nothing]
  /\ began = [r \in Requests |-> Nothing] /\ got = [r \in Requests |-> Nothing]
  /\ answer = [r \in Requests |-> Nothing]

Respond(r, value, failed) ==
  /\ answer' = [answer EXCEPT ![r] = [value |-> value, failed |-> failed]]
  /\ at' = [at EXCEPT ![r] = "answered"]

\* allowlist, manual_corpus, verify: a fresh entry is the answer.
Hit(r, k) ==
  /\ at[r] = "idle" /\ IsFresh(k)
  /\ Respond(r, cache[k].value, FALSE)
  /\ key' = [key EXCEPT ![r] = k]
  /\ UNCHANGED <<now, cache, began, got>>

Miss(r, k) ==
  /\ at[r] = "idle" /\ ~IsFresh(k)
  /\ at' = [at EXCEPT ![r] = "fetching"] /\ key' = [key EXCEPT ![r] = k]
  /\ began' = [began EXCEPT ![r] = now]
  /\ UNCHANGED <<now, cache, got, answer>>

\* The source answers: what was read first is as old as this moment.  Google
\* knows of a token how long it still lives, and rejects one that does not.
Read(r) ==
  /\ at[r] = "fetching" /\ got[r] = Nothing
  /\ key[r] \in Tokens => now < Lifetime[key[r]]
  /\ got' = [got EXCEPT ![r] =
       [value |-> now, left |-> IF key[r] \in Tokens THEN Lifetime[key[r]] - now ELSE 0]]
  /\ UNCHANGED <<now, cache, at, key, began, answer>>

\* Mutant: an answer without a usable lifetime is kept for the longest time.
LongestTtl(k, left) == Ttl[k]

\* The TTL of an entry; cache_ttl for a token.
EntryTtl(k, left) == IF k \in Tokens THEN Least(left, Ttl[k]) ELSE Ttl[k]

\* The last page or the rest of the body is there: store, and answer.
Store(r) ==
  /\ at[r] = "fetching" /\ got[r] # Nothing
  /\ cache' = Cached(key[r], [value |-> got[r].value,
                              until |-> now + EntryTtl(key[r], got[r].left)])
  /\ Respond(r, got[r].value, FALSE)
  /\ got' = [got EXCEPT ![r] = Nothing] /\ began' = [began EXCEPT ![r] = Nothing]
  /\ UNCHANGED <<now, key>>

\* Google's answer has no usable expires_in: valid, but not kept.
AnswerUncached(r) ==
  /\ at[r] = "fetching" /\ got[r] # Nothing /\ key[r] \in Tokens
  /\ Respond(r, got[r].value, FALSE)
  /\ got' = [got EXCEPT ![r] = Nothing] /\ began' = [began EXCEPT ![r] = Nothing]
  /\ UNCHANGED <<now, cache, key>>

\* Mutant: whoever holds an entry when the fetch fails falls back on it.
FetchFailsSoftly(r) ==
  /\ at[r] = "fetching"
  /\ IF key[r] \in DOMAIN cache
     THEN Respond(r, cache[key[r]].value, FALSE)
     ELSE at' = [at EXCEPT ![r] = "idle"] /\ UNCHANGED answer
  /\ got' = [got EXCEPT ![r] = Nothing] /\ began' = [began EXCEPT ![r] = Nothing]
  /\ UNCHANGED <<now, cache, key>>

\* A call fails or times out, the answer is refused by the checks on it (no
\* products, exactly as many as the limit): the allowlist falls back on what it
\* has, of whatever age; the request fails otherwise.
FetchFails(r) ==
  /\ at[r] = "fetching"
  /\ IF key[r] \in Fallback \cap DOMAIN cache
     THEN Respond(r, cache[key[r]].value, TRUE)
     ELSE at' = [at EXCEPT ![r] = "idle"] /\ UNCHANGED answer
  /\ got' = [got EXCEPT ![r] = Nothing] /\ began' = [began EXCEPT ![r] = Nothing]
  /\ UNCHANGED <<now, cache, key>>

\* The request goes on with its answer and is over.
Done(r) ==
  /\ at[r] = "answered"
  /\ at' = [at EXCEPT ![r] = "idle"]
  /\ answer' = [answer EXCEPT ![r] = Nothing]
  /\ UNCHANGED <<now, cache, key, began, got>>

\* Time passes, but no fetch outlasts the timeouts of its calls.
Tick ==
  /\ now < EndOfTime
  /\ \A r \in Requests : /\ at[r] # "answered"
                         /\ at[r] = "fetching" => now - began[r] < MaxRead
  /\ now' = now + 1
  /\ UNCHANGED <<cache, at, key, began, got, answer>>

\* The process restarts; verify drops entries that have expired as well.
Empty ==
  /\ cache # <<>> /\ \A r \in Requests : at[r] = "idle"
  /\ cache' = <<>>
  /\ UNCHANGED <<now, at, key, began, got, answer>>

CachesNext ==
  \/ \E r \in Requests, k \in Keys : Hit(r, k) \/ Miss(r, k)
  \/ \E r \in Requests : Read(r) \/ Store(r) \/ AnswerUncached(r) \/ FetchFails(r) \/ Done(r)
  \/ Tick \/ Empty

CachesSpec == CachesInit /\ [][CachesNext]_cachesVars

-----------------------------------------------------------------------------
CachesTypeOK ==
  /\ now \in 0..EndOfTime
  /\ DOMAIN cache \subseteq Keys /\ cache \in [DOMAIN cache -> Entry]
  /\ at \in [Requests -> {"idle", "fetching", "answered"}]
  /\ key \in [Requests -> Keys \cup {Nothing}] /\ began \in [Requests -> Nat \cup {Nothing}]
  /\ got \in [Requests -> [value : Nat, left : Nat] \cup {Nothing}]
  /\ answer \in [Requests -> [value : Nat, failed : BOOLEAN] \cup {Nothing}]

Age(r) == now - answer[r].value

\* An answer is at most a TTL plus one fetch old, however reads overlap and
\* overwrite each other; only a request whose own fetch failed is answered with
\* an older allowlist.  A token is accepted after its expiry for no longer than
\* one answer of Google is on its way.
AnswersAreRecent ==
  \A r \in Requests : at[r] = "answered" =>
    /\ Age(r) <= Ttl[key[r]] + MaxRead \/ (key[r] \in Fallback /\ answer[r].failed)
    /\ key[r] \in Tokens => now < Lifetime[key[r]] + MaxRead

\* corpus.rs: an answer from the corpus is at most TTL seconds old.
StaleForTheTtlAtMost ==
  \A r \in Requests : at[r] = "answered" /\ key[r] \notin Tokens \cup Fallback =>
    Age(r) <= Ttl[key[r]]

-----------------------------------------------------------------------------
(* Why: an entry was read at most one fetch before it was stored.          *)

EntriesAreRecent ==
  \A k \in DOMAIN cache :
    /\ cache[k].value <= now /\ cache[k].until <= cache[k].value + Ttl[k] + MaxRead
    /\ k \in Tokens => cache[k].until <= Lifetime[k] + MaxRead

FetchesAreShort ==
  \A r \in Requests :
    /\ at[r] # "fetching" => got[r] = Nothing
    /\ at[r] = "fetching" =>
         /\ key[r] \in Keys /\ began[r] \in Nat
         /\ began[r] <= now /\ now <= began[r] + MaxRead
         /\ got[r] # Nothing =>
              /\ began[r] <= got[r].value /\ got[r].value <= now
              /\ key[r] \in Tokens => /\ got[r].value < Lifetime[key[r]]
                                      /\ got[r].left = Lifetime[key[r]] - got[r].value

AnswersAreThere ==
  \A r \in Requests : at[r] = "answered" => key[r] \in Keys /\ answer[r] # Nothing

CachesInv ==
  /\ CachesTypeOK
  /\ EntriesAreRecent
  /\ FetchesAreShort
  /\ AnswersAreThere
  /\ AnswersAreRecent
=============================================================================

---------------------------- MODULE SessionStore ----------------------------
(***************************************************************************)
(* SessionStore and handle_event of the LINE adapter (bin/line_adapter.rs): *)
(* the events of webhooks, each in a task of its own, take the session of  *)
(* their user out of a bounded map of Arc<Mutex<Session>> and hold it while *)
(* the answer is produced and sent.                                        *)
(*                                                                         *)
(* The outer mutex of the map makes get_or_create and sweep atomic; the    *)
(* mutex of a session is FIFO (tokio).  An Arc is named after the event    *)
(* that created it, a case after the event whose answer brought its id.    *)
(***************************************************************************)
EXTENDS Integers, Sequences, FiniteSets, Functions

CONSTANTS
  Users,
  Events,      \* bound: text messages and reset postbacks to handle
  MaxEntries,  \* max_entries
  None

ASSUME MaxEntriesAssumption == MaxEntries \in Nat \ {0}
ASSUME NoneAssumption == None \notin Users \cup Events

VARIABLES
  users,    \* the map: user -> Arc
  case,     \* Session::case_id, by Arc
  recency,  \* the Arcs by last_at, the oldest first
  expired,  \* the Arcs whose last_at is more than the TTL ago
  queue,    \* by Arc: the owner of its lock, then those that wait
  pc, user, arc,  \* by event: where its handler is, for whom, with which Arc
  known     \* history, by user: the case of the last answer, until it is forgotten

vars == <<users, case, recency, expired, queue, pc, user, arc, known>>
sessionVars == <<users, case, recency, expired, known>>

-----------------------------------------------------------------------------
Init ==
  /\ users = <<>>
  /\ case = [a \in Events |-> None]
  /\ recency = <<>> /\ expired = {}
  /\ queue = [a \in Events |-> <<>>]
  /\ pc = [e \in Events |-> "new"]
  /\ user = [e \in Events |-> None] /\ arc = [e \in Events |-> None]
  /\ known = [u \in Users |-> None]

Active == {e \in Events : pc[e] \notin {"new", "done"}}

\* Mutant: an Arc is in use while its lock is taken (try_lock).
IsLocked(a) == queue[a] # <<>>

\* Arc::strong_count is above one: an event has a clone, its lock or not.
InUse(a) == \E e \in Active : arc[e] = a

Without(as) == SelectSeq(recency, LAMBDA a : a \notin as)

\* last_at = now.
Touch(a) == recency' = Append(Without({a}), a) /\ expired' = expired \ {a}

\* pick_lru_key: among the entries nobody uses, the user of the oldest.
Evictable == {u \in DOMAIN users : ~InUse(users[u])}
LruKeys ==
  {u \in Evictable : \A v \in Evictable :
     \E i, j \in DOMAIN recency : recency[i] = users[u] /\ recency[j] = users[v] /\ i <= j}

\* Entries leave the map; their sessions are forgotten.
Dropped(us) == [u \in Users |-> IF u \in us THEN None ELSE known[u]]

\* get_or_create.
Arrive(e, u) ==
  LET victims == IF Cardinality(DOMAIN users) >= MaxEntries THEN LruKeys ELSE {}
      kept == DOMAIN users \ victims
  IN /\ pc[e] = "new"
     /\ pc' = [pc EXCEPT ![e] = "cloned"]
     /\ user' = [user EXCEPT ![e] = u]
     /\ \/ /\ u \in DOMAIN users
           /\ arc' = [arc EXCEPT ![e] = users[u]]
           /\ UNCHANGED sessionVars
        \/ /\ u \notin DOMAIN users
           /\ arc' = [arc EXCEPT ![e] = e]
           /\ users' = [v \in kept \cup {u} |-> IF v = u THEN e ELSE users[v]]
           /\ recency' = Append(Without({users[v] : v \in victims}), e)
           /\ expired' = expired \ {users[v] : v \in victims}
           /\ known' = Dropped(victims)
           /\ UNCHANGED case
     /\ UNCHANGED queue

\* lock_owned().await joins the queue of the lock.
Enqueue(e) ==
  /\ pc[e] = "cloned"
  /\ queue' = [queue EXCEPT ![arc[e]] = Append(@, e)]
  /\ pc' = [pc EXCEPT ![e] = "queued"]
  /\ UNCHANGED <<user, arc>> /\ UNCHANGED sessionVars

Forget(e) ==
  /\ case' = [case EXCEPT ![arc[e]] = None]
  /\ known' = [known EXCEPT ![user[e]] = None]
  /\ Touch(arc[e])

\* lock_session returns; a session past its TTL starts afresh.
Lock(e) ==
  /\ pc[e] = "queued" /\ queue[arc[e]] # <<>> /\ Head(queue[arc[e]]) = e
  /\ pc' = [pc EXCEPT ![e] = "calling"]
  /\ IF arc[e] \in expired THEN Forget(e) ELSE UNCHANGED <<case, recency, expired, known>>
  /\ UNCHANGED <<users, queue, user, arc>>

-----------------------------------------------------------------------------
(* With the session locked.                                                *)

\* call_answer_api returns the case of the session, or a new one: for a first
\* message, after a change of product, for an id the server does not know.
\* apply_customer_turn notes it before the reply is sent.
Answered(e) ==
  /\ pc[e] = "calling"
  /\ \E c \in {case[arc[e]], e} \ {None} :
       /\ case' = [case EXCEPT ![arc[e]] = c]
       /\ known' = [known EXCEPT ![user[e]] = c]
  /\ Touch(arc[e])
  /\ pc' = [pc EXCEPT ![e] = "replying"]
  /\ UNCHANGED <<users, queue, user, arc>>

\* Timeout, error status or a body that cannot be read: the fixed reply.
NotAnswered(e) ==
  /\ pc[e] = "calling"
  /\ pc' = [pc EXCEPT ![e] = "falling_back"]
  /\ UNCHANGED <<queue, user, arc>> /\ UNCHANGED sessionVars

\* The reset button.
Reset(e) ==
  /\ pc[e] = "calling"
  /\ Forget(e)
  /\ pc' = [pc EXCEPT ![e] = "falling_back"]
  /\ UNCHANGED <<users, queue, user, arc>>

\* Mutant: the guard outlives the handler.
ReplyKeepingLock(e) ==
  /\ pc[e] \in {"replying", "falling_back"}
  /\ \/ pc[e] = "replying" /\ Touch(arc[e])
     \/ UNCHANGED <<recency, expired>>
  /\ pc' = [pc EXCEPT ![e] = "done"]
  /\ UNCHANGED <<users, case, queue, user, arc, known>>

\* send_line_reply, successful or not; apply_assistant_turn follows a success
\* with an answer.  The guard and the Arc are dropped.
Reply(e) ==
  /\ pc[e] \in {"replying", "falling_back"}
  /\ \/ pc[e] = "replying" /\ Touch(arc[e])
     \/ UNCHANGED <<recency, expired>>
  /\ queue' = [queue EXCEPT ![arc[e]] = Tail(@)]
  /\ pc' = [pc EXCEPT ![e] = "done"]
  /\ UNCHANGED <<users, case, user, arc, known>>

-----------------------------------------------------------------------------
(* Around the handlers.                                                    *)

\* Mutant: everything past its TTL goes, in use or not.
SweepAll ==
  LET gone == {u \in DOMAIN users : users[u] \in expired} IN
  /\ gone # {}
  /\ users' = Restrict(users, DOMAIN users \ gone)
  /\ recency' = Without({users[u] : u \in gone})
  /\ expired' = expired \ {users[u] : u \in gone}
  /\ known' = Dropped(gone)
  /\ UNCHANGED <<case, queue, pc, user, arc>>

Sweep ==
  LET gone == {u \in Evictable : users[u] \in expired} IN
  /\ gone # {}
  /\ users' = Restrict(users, DOMAIN users \ gone)
  /\ recency' = Without({users[u] : u \in gone})
  /\ expired' = expired \ {users[u] : u \in gone}
  /\ known' = Dropped(gone)
  /\ UNCHANGED <<case, queue, pc, user, arc>>

\* Time passes: the oldest session that has not expired does.
Expire ==
  \E i \in DOMAIN recency :
    /\ recency[i] \notin expired
    /\ \A j \in 1..i - 1 : recency[j] \in expired
    /\ expired' = expired \cup {recency[i]}
    /\ UNCHANGED <<users, case, recency, queue, pc, user, arc, known>>

\* The process stops, and starts with an empty map.
Restart ==
  /\ users # <<>>
  /\ users' = <<>> /\ recency' = <<>> /\ expired' = {}
  /\ queue' = [a \in Events |-> <<>>]
  /\ pc' = [e \in Events |-> IF pc[e] = "new" THEN "new" ELSE "done"]
  /\ known' = [u \in Users |-> None]
  /\ UNCHANGED <<case, user, arc>>

Handle(e) ==
  Enqueue(e) \/ Lock(e) \/ Answered(e) \/ NotAnswered(e) \/ Reset(e) \/ Reply(e)

Next ==
  \/ \E e \in Events, u \in Users : Arrive(e, u)
  \/ \E e \in Events : Handle(e)
  \/ Sweep \/ Expire \/ Restart

\* A handler goes on: the calls of the API and of LINE have timeouts, and a
\* lock that is free is given to the first in its queue.
Spec == Init /\ [][Next]_vars /\ \A e \in Events : WF_vars(Handle(e))

-----------------------------------------------------------------------------
Handling(e) == pc[e] \in {"calling", "replying", "falling_back"}

TypeOK ==
  /\ DOMAIN users \subseteq Users /\ \A u \in DOMAIN users : users[u] \in Events
  /\ case \in [Events -> Events \cup {None}]
  /\ known \in [Users -> Events \cup {None}]
  /\ expired \subseteq Range(recency)
  /\ IsInjective(recency) /\ {users[u] : u \in DOMAIN users} \subseteq Range(recency)
  /\ \A a \in Events : IsInjective(queue[a]) /\ Range(queue[a]) \subseteq Active
  /\ \A e \in Active : user[e] \in Users /\ arc[e] \in Events

\* The messages of one user are handled one at a time, whatever is evicted,
\* swept or reset meanwhile: the contract the server relies on for its
\* read-merge-writes (module CaseRecord).
SerialPerUser ==
  \A e, f \in Events : e # f /\ Handling(e) /\ Handling(f) => user[e] # user[f]

\* The next message of a user goes to the case of the last answer, unless that
\* session has ended: a case noted by a handler is in the session the map has.
CaseIsKept ==
  \A u \in Users : known[u] = IF u \in DOMAIN users THEN case[users[u]] ELSE None

\* The inductive invariant behind these two: a session in use stays in the map
\* under its user, for that user alone, and the handler at work is the first in
\* the queue of its lock.
IndInv ==
  /\ pc \in [Events -> {"new", "cloned", "queued", "calling", "replying",
                       "falling_back", "done"}]
  /\ user \in [Events -> Users \cup {None}] /\ arc \in [Events -> Events \cup {None}]
  /\ queue \in [Events -> Seq(Events)]
  /\ case \in [Events -> Events \cup {None}] /\ known \in [Users -> Events \cup {None}]
  /\ \A u \in DOMAIN users :
       /\ u \in Users /\ users[u] \in Events /\ pc[users[u]] # "new"
       /\ \A v \in DOMAIN users : users[u] = users[v] => u = v
  /\ \A e \in Active : user[e] \in DOMAIN users /\ arc[e] = users[user[e]]
  /\ \A e \in Events : Handling(e) => /\ queue[arc[e]] # <<>>
                                      /\ Head(queue[arc[e]]) = e
  /\ \A e \in Events : pc[e] = "new" => case[e] = None
  /\ CaseIsKept

\* The map grows past its limit only while all its entries are in use, so it
\* never has more entries than its limit or than handlers that ran at once.
OverLimitOnlyWhenBusy ==
  [][Cardinality(DOMAIN users') > MaxEntries
       /\ Cardinality(DOMAIN users') > Cardinality(DOMAIN users)
     => Cardinality(DOMAIN users') <= Cardinality(Active')]_vars

\* Every message is answered: handlers that wait for each other's sessions do
\* not block, and no queue is left without an owner.
EveryMessageIsHandled == \A e \in Events : pc[e] = "cloned" ~> pc[e] = "done"
=============================================================================

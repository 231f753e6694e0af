--------------------------- MODULE AlarmcomIngest ---------------------------
(***************************************************************************)
(* bin/ingest_alarmcom.rs: the articles of Alarm.com, hubs before what is  *)
(* below them, each translated and committed at once.  An article that     *)
(* cannot be fetched or translated is left out and the crawl goes on; one  *)
(* below a hub that was never stored becomes a section of the document.    *)
(*                                                                         *)
(* Concepts are extracted by a language model: the same text may yield     *)
(* others in the next run.                                                 *)
(***************************************************************************)
EXTENDS ManualGraph

CONSTANTS
  Order,    \* the articles in depth_first_order
  Parent,   \* by article: the hub above it on the site, or None
  MaxEdits  \* bound on the edits of the site

ASSUME OrderAssumption ==
  /\ Order \in Seq(Sections) /\ Parent \in [Sections -> Sections \cup {None}]
  /\ MaxEdits \in Nat

VARIABLES
  text, edits,  \* the site: by article its text, and how often it was edited
  ipc,          \* where the run is
  known,        \* existing_hash
  stored,       \* ingested_this_run
  pos,          \* the place in Order
  cur           \* the article being committed: a batch of one

site == <<text, edits>>
ingest == <<ipc, known, stored, pos, cur>>

IngestInit ==
  /\ text \in [Sections -> Hashes] /\ edits = 0
  /\ ipc = "idle" /\ known = [s \in Sections |-> None]
  /\ stored = {} /\ pos = 1 /\ cur = <<>>

Edit ==
  /\ edits < MaxEdits
  /\ \E s \in Sections, h \in Hashes : text[s] # h /\ text' = [text EXCEPT ![s] = h]
  /\ edits' = edits + 1
  /\ UNCHANGED <<store, ingest>>

-----------------------------------------------------------------------------
EndOfRun ==
  /\ ipc' = "idle" /\ known' = [s \in Sections |-> None]
  /\ stored' = {} /\ pos' = 1 /\ cur' = <<>>

Article == Order[pos]

\* A section that a probe has stripped of its attributes is not found by doc_key.
IngestBegins ==
  /\ ipc = "idle"
  /\ known' = [s \in Sections |-> StoredHash(s)]
  /\ ipc' = "crawl"
  /\ UNCHANGED <<store, site, stored, pos, cur>>

\* Unchanged; or not fetched, empty or not translated.
PassOver ==
  /\ ipc = "crawl" /\ pos <= Len(Order)
  /\ pos' = pos + 1
  /\ UNCHANGED <<store, site, ipc, known, stored, cur>>

\* Mutant: a hub of the site is taken for stored.
AnyParent(s) == Parent[s]

\* resolve_parent_edge_slug, parent_is_known.
KnownParent(s) ==
  IF Parent[s] # None /\ (known[Parent[s]] # None \/ Parent[s] \in stored)
  THEN Parent[s] ELSE None

Translate(concepts) ==
  /\ ipc = "crawl" /\ pos <= Len(Order)
  /\ known[Article] # text[Article]
  /\ LET build == [hash |-> text[Article], parent |-> KnownParent(Article),
                   targets |-> concepts]
     IN IF known[Article] # None /\ HasStaleEdges(Article, build, FALSE)
        THEN EndOfRun
        ELSE /\ cur' = [s \in {Article} |-> build]
             /\ ipc' = "vectors" /\ UNCHANGED <<known, stored, pos>>
  /\ UNCHANGED <<store, site>>

\* A call is carried out, and may report an error all the same.
Called(step) == EndOfRun \/ (ipc' = step /\ UNCHANGED <<known, stored, pos, cur>>)

\* commit_article: vector, node, edges.
PutVector ==
  /\ ipc = "vectors"
  /\ PutVectors(cur) /\ Called("nodes")
  /\ UNCHANGED <<node, listed, parents, derived, site>>

PutNode ==
  /\ ipc = "nodes"
  /\ PutNodes(cur, TRUE) /\ Called("edges")
  /\ UNCHANGED <<vectors, listed, parents, derived, site>>

PutItsEdges ==
  /\ ipc = "edges"
  /\ PutEdges(cur)
  /\ \/ EndOfRun
     \/ /\ ipc' = "crawl" /\ pos' = pos + 1 /\ cur' = <<>>
        /\ stored' = stored \cup {Article} /\ UNCHANGED known
  /\ UNCHANGED <<node, vectors, site>>

\* The crawl is over, or given up: a call fails, too many articles were left
\* out, or the process is stopped.
IngestEnds ==
  /\ ipc # "idle"
  /\ EndOfRun
  /\ UNCHANGED <<store, site>>

Ingest ==
  \/ Edit \/ IngestBegins \/ PassOver \/ PutVector \/ PutNode \/ PutItsEdges \/ IngestEnds
  \/ \E concepts \in SUBSET Targets : Translate(concepts)

-----------------------------------------------------------------------------
IngestTypeOK ==
  /\ text \in [Sections -> Hashes] /\ edits \in 0..MaxEdits
  /\ ipc \in {"idle", "crawl", "vectors", "nodes", "edges"}
  /\ known \in [Sections -> Hashes \cup {None}] /\ stored \subseteq Sections
  /\ pos \in 1..Len(Order) + 1
  /\ DOMAIN cur \subseteq Sections /\ \A s \in DOMAIN cur : cur[s] \in Build

\* No PARENT_OF edge leads from a hub that is not in the store, however hubs
\* fail and succeed from run to run and wherever a run breaks off.
NoOrphanParents == \A s \in Sections : \A p \in parents[s] : node[p] # None

-----------------------------------------------------------------------------
(* The inductive invariant.                                                *)

\* What the run takes for stored is, and the article under way goes below it.
StoredHasNode ==
  /\ \A s \in Sections : known[s] # None \/ s \in stored => node[s] # None
  /\ ipc \in {"vectors", "nodes", "edges"} =>
       /\ pos <= Len(Order) /\ DOMAIN cur = {Article}
       /\ cur[Article].parent # None => node[cur[Article].parent] # None
  /\ ipc = "edges" => node[Article] # None

IngestInv == IngestTypeOK /\ StoredHasNode /\ NoOrphanParents
=============================================================================

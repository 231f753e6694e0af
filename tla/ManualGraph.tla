---------------------------- MODULE ManualGraph -----------------------------
(***************************************************************************)
(* The manual sections in the graph store, as the ingestion tools write    *)
(* them (manual/ingest_model.rs, manual/reingest.rs).                      *)
(*                                                                         *)
(* The store has no deletion: an upsert of a node replaces its attributes, *)
(* one of a vector replaces the vector of its node, edges are only ever    *)
(* added.  Vectors, nodes and edges are three calls; each may fail, or be  *)
(* carried out and report an error.                                        *)
(*                                                                         *)
(* What the tools derive from a text is represented by the text itself and *)
(* by the targets of its derived edges: products (DESCRIBES) or concepts   *)
(* (MENTIONS_CONCEPT).  MENTIONS_SIGNAL is never checked nor read.         *)
(***************************************************************************)
EXTENDS Naturals, Sequences

CONSTANTS
  Sections,
  Hashes,    \* what content_hash tells apart
  Targets,   \* products or concepts
  None

VARIABLES
  node,     \* by section: None, or its attributes [hash, keys, whole]: whole when
            \* the required ones are there, keys is concept_keys
  vectors,  \* by section: the hash of what its vector was computed of, or None
  listed,   \* the sections with a HAS_SECTION edge from the document
  parents,  \* by section: where its PARENT_OF edges come from
  derived   \* by section: where its derived edges lead

store == <<node, vectors, listed, parents, derived>>

StoreInit ==
  /\ node = [s \in Sections |-> None]
  /\ vectors = [s \in Sections |-> None]
  /\ listed = {}
  /\ parents = [s \in Sections |-> {}]
  /\ derived = [s \in Sections |-> {}]

Attributes == [hash : Hashes \cup {None}, keys : SUBSET Targets, whole : BOOLEAN]

ASSUME NoneIsNoName ==
  /\ None \notin Sections \cup Hashes \cup Attributes
  /\ None \notin [attrs : Attributes, edges : SUBSET Targets]

\* A section to be written: one build_section_graph.
Build == [hash : Hashes, parent : Sections \cup {None}, targets : SUBSET Targets]

\* existing_hash: what the tool reads when it starts.
StoredHash(s) == IF node[s] = None THEN None ELSE node[s].hash

StoreTypeOK ==
  /\ node \in [Sections -> Attributes \cup {None}]
  /\ vectors \in [Sections -> Hashes \cup {None}]
  /\ listed \subseteq Sections
  /\ parents \in [Sections -> SUBSET Sections]
  /\ derived \in [Sections -> SUBSET Targets]

-----------------------------------------------------------------------------
(* The three calls, for a batch: a function from sections to builds.       *)

\* The id of the vector is that of the section's node.
PutVectors(batch) ==
  vectors' = [s \in Sections |->
    IF s \in DOMAIN batch THEN batch[s].hash ELSE vectors[s]]

\* Of urtect the targets are products and concept_keys is not written.
PutNodes(batch, withKeys) ==
  node' = [s \in Sections |->
    IF s \in DOMAIN batch
    THEN [hash |-> batch[s].hash, whole |-> TRUE,
          keys |-> IF withKeys THEN batch[s].targets ELSE {}]
    ELSE node[s]]

PutEdges(batch) ==
  /\ listed' = listed \cup DOMAIN batch
  /\ parents' = [s \in Sections |->
       IF s \in DOMAIN batch THEN parents[s] \cup ({batch[s].parent} \ {None}) ELSE parents[s]]
  /\ derived' = [s \in Sections |->
       IF s \in DOMAIN batch THEN derived[s] \cup batch[s].targets ELSE derived[s]]

\* assert_no_stale_section_edges: an edge that would have to go.  Concepts come
\* from a language model and may drift, products may not.
HasStaleEdges(s, build, strict) ==
  \/ strict /\ ~(derived[s] \subseteq build.targets)
  \/ ~(parents[s] \subseteq {build.parent})
=============================================================================

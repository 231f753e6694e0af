-------------------------- MODULE ConceptBackfill ---------------------------
(***************************************************************************)
(* bin/backfill_concept_keys.rs beside the ingestion: concept_keys of a    *)
(* section is a copy of its MENTIONS_CONCEPT edges, and the edges are      *)
(* right.                                                                  *)
(*                                                                         *)
(* The tool reads all sections with their edges first and then writes back *)
(* whole sections, batch by batch in the order of their keys.  A run that  *)
(* fails names the last batch committed, and the next one may start after  *)
(* it.  --probe-one writes a section without its attributes to see what    *)
(* the store does, and restores it.                                        *)
(***************************************************************************)
EXTENDS AlarmcomIngest, FiniteSets

CONSTANTS
  Keys,     \* the sections in the order of their keys
  SkipOneIn \* 1 / MAX_SKIP_RATIO: one in so many may be skipped (ten in the code)

ASSUME KeysAssumption ==
  /\ Keys \in Seq(Sections)
  /\ \A s \in Sections : \E i \in DOMAIN Keys : Keys[i] = s
  /\ \A i, j \in DOMAIN Keys : Keys[i] = Keys[j] => i = j
ASSUME SkipAssumption == SkipOneIn \in Nat /\ IsFiniteSet(Sections)

VARIABLES
  bpc,      \* where the tool is
  rows,     \* what it has read: by section [attrs, edges], or None
  next,     \* the place in Keys of the next section to write
  last,     \* the place of last_committed_key, or 0
  resume,   \* the --start-after to be given to the next run: a place, or 0
  probed,   \* the section of --probe-one
  calm,     \* history: only the tool has changed nodes or derived edges in the series
  complete, \* history: the series has come to its end
  mishap    \* history: a probe was killed, or its restore failed

backfill == <<bpc, rows, next, last, resume, probed>>
series == <<calm, complete, mishap>>
vars == <<store, site, ingest, backfill, series>>

NoRows == [s \in Sections |-> None]

Init ==
  /\ StoreInit /\ IngestInit
  /\ bpc = "idle" /\ rows = NoRows /\ next = 1 /\ last = 0 /\ resume = 0
  /\ probed = None
  /\ calm = FALSE /\ complete = FALSE /\ mishap = FALSE

\* Nothing keeps the tools apart.
IngestStep ==
  /\ Ingest
  /\ calm' = (calm /\ UNCHANGED <<node, derived>>)
  /\ UNCHANGED <<backfill, complete, mishap>>

-----------------------------------------------------------------------------
(* The default mode: a series of runs, each after the last batch committed *)
(* by the one before.                                                      *)

\* collect_section_concepts.  A section without its key has no place in the order.
Read(s, after) ==
  IF node[s] # None /\ (after = 0 \/ (node[s].whole /\ \E i \in DOMAIN Keys : i > after /\ Keys[i] = s))
  THEN [attrs |-> node[s], edges |-> derived[s]]
  ELSE None

NeedsUpdate(row) == row # None /\ row.attrs.keys # row.edges

\* What cannot be sent again without losing what is missing.
Writable(row) == NeedsUpdate(row) /\ row.attrs.whole

\* exceeds_skip_threshold: so many of the candidates are incomplete that the run ends.
TooManyIncomplete(read) ==
  LET candidates == {s \in Sections : NeedsUpdate(read[s])}
      skipped == {s \in candidates : ~read[s].attrs.whole}
  IN SkipOneIn * Cardinality(skipped) > Cardinality(candidates)

\* build_backfill_node: all that was read, and the keys of the edges.
Rewritten(row) == [row.attrs EXCEPT !.keys = row.edges]

Idle == bpc' = "idle" /\ rows' = NoRows /\ next' = 1 /\ last' = 0 /\ probed' = None

BackfillBegins(after) ==
  /\ bpc = "idle" /\ after \in {0, resume}
  /\ LET read == [s \in Sections |-> Read(s, after)]
     IN /\ ~TooManyIncomplete(read)
        /\ rows' = read
  /\ bpc' = "writing" /\ next' = after + 1
  /\ calm' = (after = 0 \/ calm) /\ complete' = FALSE
  /\ UNCHANGED <<store, site, ingest, last, resume, probed, mishap>>

\* Mutant: the batch that failed is the one to start after.
ResumeAfterFailed == next

\* The --start-after the error names; without a batch committed, none.
ResumeAfter == last

BatchDone ==
  /\ bpc' = "writing" /\ next' = next + 1 /\ last' = next
  /\ UNCHANGED <<rows, resume, probed>>

BatchFailed == Idle /\ resume' = ResumeAfter

\* upsert_nodes of a batch of one.
WriteBatch ==
  /\ bpc = "writing" /\ next <= Len(Keys)
  /\ LET s == Keys[next]
     IN /\ Writable(rows[s])
        /\ \/ /\ node' = [node EXCEPT ![s] = Rewritten(rows[s])]
              /\ BatchDone \/ BatchFailed
           \/ UNCHANGED node /\ BatchFailed
  /\ UNCHANGED <<vectors, listed, parents, derived, site, ingest, series>>

\* Up to date, or skipped with a warning.
PassRow ==
  /\ bpc = "writing" /\ next <= Len(Keys) /\ ~Writable(rows[Keys[next]])
  /\ next' = next + 1
  /\ UNCHANGED <<store, site, ingest, bpc, rows, last, resume, probed, series>>

BackfillEnds ==
  /\ bpc = "writing" /\ next > Len(Keys)
  /\ Idle /\ resume' = 0 /\ complete' = TRUE
  /\ UNCHANGED <<store, site, ingest, calm, mishap>>

\* The process is stopped: no error tells where to go on.
BackfillKilled ==
  /\ bpc # "idle"
  /\ Idle /\ resume' = 0
  /\ mishap' = (mishap \/ bpc = "restoring")
  /\ UNCHANGED <<store, site, ingest, calm, complete>>

-----------------------------------------------------------------------------
(* --probe-one.                                                            *)

ProbeBegins(s) ==
  /\ bpc = "idle" /\ node[s] # None /\ node[s].whole
  /\ rows' = [NoRows EXCEPT ![s] = Read(s, 0)] /\ probed' = s
  /\ bpc' = "probing"
  /\ UNCHANGED <<store, site, ingest, next, last, resume, series>>

\* Mutant: an error of the probing write ends the probe.
ProbeWritesOrEnds ==
  /\ bpc = "probing"
  /\ node' = [node EXCEPT ![probed] =
       [hash |-> None, whole |-> FALSE, keys |-> rows[probed].edges]]
  /\ \/ bpc' = "restoring" /\ UNCHANGED <<rows, next, last, probed>>
     \/ Idle
  /\ calm' = FALSE
  /\ UNCHANGED <<vectors, listed, parents, derived, site, ingest, resume, complete, mishap>>

\* The node with nothing but concept_keys.  Whatever comes of this write and of
\* reading it back, the restore follows.
ProbeWrites ==
  /\ bpc = "probing"
  /\ node' \in {node, [node EXCEPT ![probed] =
       [hash |-> None, whole |-> FALSE, keys |-> rows[probed].edges]]}
  /\ bpc' = "restoring"
  /\ calm' = FALSE
  /\ UNCHANGED <<vectors, listed, parents, derived, site, ingest>>
  /\ UNCHANGED <<rows, next, last, resume, probed, complete, mishap>>

Restore ==
  /\ bpc = "restoring"
  /\ \/ node' = [node EXCEPT ![probed] = Rewritten(rows[probed])] /\ UNCHANGED mishap
     \/ UNCHANGED node /\ mishap' = TRUE
  /\ Idle
  /\ UNCHANGED <<vectors, listed, parents, derived, site, ingest, resume, calm, complete>>

Next ==
  \/ IngestStep
  \/ \E after \in 0..Len(Keys) : BackfillBegins(after)
  \/ WriteBatch \/ PassRow \/ BackfillEnds \/ BackfillKilled
  \/ \E s \in Sections : ProbeBegins(s)
  \/ ProbeWrites \/ Restore

Spec == Init /\ [][Next]_vars

-----------------------------------------------------------------------------
ToolTypeOK ==
  /\ bpc \in {"idle", "writing", "probing", "restoring"}
  /\ rows \in [Sections -> [attrs : Attributes, edges : SUBSET Targets] \cup {None}]
  /\ next \in 1..Len(Keys) + 1 /\ last \in 0..Len(Keys) /\ resume \in 0..Len(Keys)
  /\ probed \in Sections \cup {None}
  /\ calm \in BOOLEAN /\ complete \in BOOLEAN /\ mishap \in BOOLEAN

TypeOK == StoreTypeOK /\ IngestTypeOK /\ ToolTypeOK

\* Once a series of runs has come to its end, each started where the error of the
\* one before said, every section that has its attributes bears the keys of its
\* edges: none was left out between two runs, or skipped but for what it lacks. An
\* ingestion in between may have made the edges grow.
BackfillCompletes ==
  complete /\ calm =>
    \A s \in Sections : node[s] # None /\ node[s].whole => node[s].keys = derived[s]

\* A section is without its attributes only during a probe, or after one that was
\* killed or could not restore it: no other error leaves it so.
ProbeRestores ==
  \A s \in Sections : node[s] # None /\ ~node[s].whole =>
    mishap \/ (bpc = "restoring" /\ probed = s)

-----------------------------------------------------------------------------
(* The inductive invariant.                                                *)

HasItsKeys(s) == node[s] # None /\ node[s].whole => node[s].keys = derived[s]

\* Between two runs of a series: nothing before the place to resume at is left.
DoneUpToResume ==
  calm /\ bpc \in {"idle", "probing"} => \A i \in 1..resume : HasItsKeys(Keys[i])

\* During a run: nothing is left behind, and what is ahead is as it was read.
ReadIsCurrent ==
  /\ last < next /\ (bpc # "writing" => next = 1)
  /\ calm /\ bpc = "writing" =>
       /\ \A i \in 1..next - 1 : HasItsKeys(Keys[i])
       /\ \A i \in next..Len(Keys) :
            IF rows[Keys[i]] = None THEN HasItsKeys(Keys[i])
            ELSE rows[Keys[i]] = [attrs |-> node[Keys[i]], edges |-> derived[Keys[i]]]

\* What is written back is complete.
RowsAreWhole ==
  /\ bpc = "writing" => ~complete
  /\ bpc \in {"probing", "restoring"} =>
       probed # None /\ rows[probed] # None /\ rows[probed].attrs.whole
  /\ bpc = "restoring" => ~calm

BackfillInv ==
  /\ StoreTypeOK /\ IngestInv /\ ToolTypeOK
  /\ DoneUpToResume /\ ReadIsCurrent /\ RowsAreWhole
  /\ BackfillCompletes /\ ProbeRestores
=============================================================================

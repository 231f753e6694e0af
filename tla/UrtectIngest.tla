---------------------------- MODULE UrtectIngest ----------------------------
(***************************************************************************)
(* bin/ingest_urtect.rs: the manual of the product, crawled page by page   *)
(* along the navigation of a site that is edited between the runs.  Only   *)
(* pages whose hash has changed are written, all in one batch at the end:  *)
(* vectors, nodes, edges.  A run that fails is run again.                  *)
(***************************************************************************)
EXTENDS ManualGraph

CONSTANTS
  Texts,
  Products,   \* by text: the models detect_product_models finds in it
  Navs,       \* the navigations the site may have: sequences of [page, depth]
  MaxSiteEdits    \* bound on the edits of the site

ASSUME NavAssumption ==
  /\ \A n \in Navs : n \in Seq([page : Sections, depth : Nat])
  /\ MaxSiteEdits \in Nat

\* content_hash is taken of the text, the parent and the place of a page.
ASSUME HashAssumption ==
  /\ Products \in [Texts -> SUBSET Targets]
  /\ \A n \in Navs : \A i \in DOMAIN n, p \in Sections \cup {None}, t \in Texts :
       [text |-> t, parent |-> p, order |-> i] \in Hashes

VARIABLES
  nav, pageText, \* the site: its navigation, and by page its text
  siteEdits,       \* history: how often the site has been edited
  shown,       \* history, by page: the texts it has had
  returned,    \* history: the pages that were changed back to a text they had
  pc,          \* how far the run is, or how it ended
  knownPages,       \* existing_hash
  place, stack,  \* the place in the navigation, and the pages above it
  batch,       \* what is going to be written, by page
  failed       \* history: a page could not be fetched in this run

navSite == <<nav, pageText, siteEdits, shown, returned>>
crawl == <<knownPages, place, stack, batch, failed>>
crawlVars == <<store, navSite, pc, crawl>>

Ended == {"never", "complete", "stale", "aborted"}

CrawlInit ==
  /\ StoreInit
  /\ nav \in Navs /\ pageText \in [Sections -> Texts] /\ siteEdits = 0
  /\ shown = [p \in Sections |-> {pageText[p]}] /\ returned = {}
  /\ pc = "never" /\ knownPages = [s \in Sections |-> None]
  /\ place = 1 /\ stack = <<>> /\ batch = <<>> /\ failed = FALSE

EditPage(p, t) ==
  /\ pageText[p] # t /\ pageText' = [pageText EXCEPT ![p] = t]
  /\ shown' = [shown EXCEPT ![p] = @ \cup {t}]
  /\ returned' = IF t \in shown[p] THEN returned \cup {p} ELSE returned
  /\ UNCHANGED nav

EditSite ==
  /\ pc \in Ended /\ siteEdits < MaxSiteEdits
  /\ \/ nav' \in Navs \ {nav} /\ UNCHANGED <<pageText, shown, returned>>
     \/ \E p \in Sections, t \in Texts : EditPage(p, t)
  /\ siteEdits' = siteEdits + 1
  /\ UNCHANGED <<store, pc, crawl>>

-----------------------------------------------------------------------------
NoRun == knownPages' = [s \in Sections |-> None] /\ place' = 1 /\ stack' = <<>> /\ batch' = <<>>

Ends(outcome) == pc' = outcome /\ NoRun

Goto(step) == pc' = step /\ UNCHANGED <<knownPages, place, stack, batch>>

Entry == nav[place]

Pages == {nav[i].page : i \in DOMAIN nav}

\* A section of the store that has left the navigation ends the run.
Begin ==
  /\ pc \in Ended
  /\ IF \A s \in Sections \ Pages : StoredHash(s) = None
     THEN /\ knownPages' = [s \in Sections |-> StoredHash(s)]
          /\ pc' = "crawl" /\ UNCHANGED <<place, stack, batch>>
     ELSE Ends("aborted")
  /\ failed' = FALSE
  /\ UNCHANGED <<store, navSite>>

\* The fetch fails, or the page is empty: fatal for a section of the store, which
\* could not be verified; a new one is left out, of the stack as well.
FetchFails ==
  /\ pc = "crawl" /\ place <= Len(nav)
  /\ IF knownPages[Entry.page] = None
     THEN place' = place + 1 /\ failed' = TRUE /\ UNCHANGED <<pc, knownPages, stack, batch>>
     ELSE Ends("aborted") /\ UNCHANGED failed
  /\ UNCHANGED <<store, navSite>>

\* So many entries stay when those that are not less deep than this one are popped.
Above(kept) ==
  /\ kept \in 0..Len(stack)
  /\ kept # 0 => stack[kept].depth < Entry.depth
  /\ \A i \in kept + 1..Len(stack) : stack[i].depth >= Entry.depth

Hash(page, parent) == [text |-> pageText[page], parent |-> parent, order |-> place]

BuildOf(page, parent) ==
  [hash |-> Hash(page, parent), parent |-> parent, targets |-> Products[pageText[page]]]

\* Mutant: the edges of a page whose text has not changed are not looked at.
MustNotWriteSameText(page, build) ==
  /\ knownPages[page] # None /\ knownPages[page].text # build.hash.text
  /\ HasStaleEdges(page, build, TRUE)

\* A changed section with an edge that would have to be removed.
MustNotWrite(page, build) == knownPages[page] # None /\ HasStaleEdges(page, build, TRUE)

Fetch(kept) ==
  /\ pc = "crawl" /\ place <= Len(nav) /\ Above(kept)
  /\ LET page == Entry.page
         parent == IF kept = 0 THEN None ELSE stack[kept].page
         build == BuildOf(page, parent)
     IN IF knownPages[page] # build.hash /\ MustNotWrite(page, build)
        THEN Ends("stale")
        ELSE /\ stack' = Append(SubSeq(stack, 1, kept), Entry) /\ place' = place + 1
             /\ batch' = IF knownPages[page] = build.hash THEN batch
                         ELSE [p \in DOMAIN batch \cup {page} |->
                                IF p = page THEN build ELSE batch[p]]
             /\ UNCHANGED <<pc, knownPages>>
  /\ UNCHANGED <<store, navSite, failed>>

Crawled ==
  /\ pc = "crawl" /\ place > Len(nav)
  /\ Goto("vectors")
  /\ UNCHANGED <<store, navSite, failed>>

\* A call is carried out, and may report an error all the same.
CallMade(step) == Goto(step) \/ Ends("aborted")

\* Mutant: the vectors are stored after the nodes.
VectorsSkipped ==
  /\ pc = "vectors"
  /\ CallMade("nodes")
  /\ UNCHANGED <<store, navSite, failed>>

\* embed_all, of which no failure is passed over, and upsert_vectors.
Vectors ==
  /\ pc = "vectors"
  /\ PutVectors(batch) /\ CallMade("nodes")
  /\ UNCHANGED <<node, listed, parents, derived, navSite, failed>>

\* upsert_graph_low_level: nodes, then edges.
Nodes ==
  /\ pc = "nodes"
  /\ PutNodes(batch, FALSE) /\ CallMade("edges")
  /\ UNCHANGED <<vectors, listed, parents, derived, navSite, failed>>

Edges ==
  /\ pc = "edges"
  /\ PutEdges(batch) /\ (Ends("complete") \/ Ends("aborted"))
  /\ UNCHANGED <<node, vectors, navSite, failed>>

\* A call fails, or the process is stopped.
Abort ==
  /\ pc \notin Ended
  /\ Ends("aborted")
  /\ UNCHANGED <<store, navSite, failed>>

CrawlNext ==
  \/ EditSite \/ Begin \/ FetchFails \/ \E kept \in 0..Len(stack) : Fetch(kept)
  \/ Crawled \/ Vectors \/ Nodes \/ Edges \/ Abort

CrawlSpec == CrawlInit /\ [][CrawlNext]_crawlVars

-----------------------------------------------------------------------------
CrawlTypeOK ==
  /\ StoreTypeOK
  /\ nav \in Navs /\ pageText \in [Sections -> Texts] /\ siteEdits \in 0..MaxSiteEdits
  /\ shown \in [Sections -> SUBSET Texts] /\ returned \subseteq Sections
  /\ pc \in Ended \cup {"crawl", "vectors", "nodes", "edges"}
  /\ knownPages \in [Sections -> Hashes \cup {None}]
  /\ place \in Nat \ {0} /\ stack \in Seq([page : Sections, depth : Nat])
  /\ failed \in BOOLEAN
  /\ DOMAIN batch \subseteq Sections /\ \A s \in DOMAIN batch : batch[s] \in Build

\* The edges search relies on fit the text and the place a section is stored
\* with, although nothing can be removed and runs stop half way.
NoStaleEdges ==
  \A s \in Sections : node[s] # None =>
    /\ parents[s] \subseteq {node[s].hash.parent}
    /\ derived[s] \subseteq Products[node[s].hash.text]

\* The vector is of the text that is stored with its section.
VectorFits(s) == vectors[s] # None /\ vectors[s].text = node[s].hash.text

\* Whatever earlier runs have left between the vectors and the nodes, a run that is
\* complete leaves every section with the vector of its text, unless the page was
\* changed back to a text it had before.
VectorsAreRepaired ==
  pc = "complete" => \A s \in Sections : node[s] # None /\ s \notin returned => VectorFits(s)

\* ingest_urtect.rs: a vector stored beside the node of an older text is repaired by
\* the next run, whatever has happened to the page.
SelfRepairs == pc = "complete" => \A s \in Sections : node[s] # None => VectorFits(s)

\* ingest_urtect.rs: what a run leaves unfinished behind the vectors is retried
\* and repaired by the next one.
RepairedByRerun ==
  pc = "complete" /\ ~failed => \A s \in Sections : node[s] # None => s \in listed

\* ingest_urtect.rs: a new page that cannot be fetched leaves no stale edge. Then
\* only an edited site could ask for one to be removed.
StaleOnlyAfterEdits == pc = "stale" => siteEdits > 0

-----------------------------------------------------------------------------
(* The inductive invariant.                                                *)

\* Nodes are written before edges.
EdgesHaveNodes ==
  \A s \in Sections : node[s] = None => parents[s] = {} /\ derived[s] = {}

\* A node has the hash of a text its page has had, and is never without a vector.
NodesAreHashed ==
  \A s \in Sections :
    /\ pageText[s] \in shown[s]
    /\ node[s] # None =>
         node[s].hash \in Hashes /\ node[s].hash.text \in shown[s] /\ vectors[s] # None

\* What a page is going to be written with is what its hash is of, and takes the
\* place of what is stored without an edge left over.
BatchFits ==
  \A s \in DOMAIN batch :
    /\ batch[s].hash.text = pageText[s]
    /\ batch[s].parent = batch[s].hash.parent
    /\ batch[s].targets = Products[batch[s].hash.text]
    /\ parents[s] \subseteq {batch[s].parent} /\ derived[s] \subseteq batch[s].targets

\* Nothing is written beside the run, and each call rests on the one before.
RunIsCurrent ==
  /\ pc \in Ended => batch = <<>> /\ place = 1
  /\ pc \in {"crawl", "vectors", "nodes"} =>
       \A s \in Sections : knownPages[s] = StoredHash(s)
  /\ pc \in {"nodes", "edges"} => \A s \in DOMAIN batch : vectors[s] = batch[s].hash
  /\ pc = "edges" =>
       /\ \A s \in DOMAIN batch : node[s] # None /\ node[s].hash = batch[s].hash
       /\ \A s \in Sections \ DOMAIN batch : knownPages[s] = StoredHash(s)

\* A run passes over a stored section only if it has the text of the page.
PassedOver(s) == s \in DOMAIN batch \/ knownPages[s] = None \/ knownPages[s].text = pageText[s]

EachIsLookedAt ==
  pc \notin Ended =>
    /\ \A s \in Sections : knownPages[s] # None => s \in Pages
    /\ \A i \in DOMAIN nav : i < place => PassedOver(nav[i].page)
    /\ pc # "crawl" => place > Len(nav)

\* A vector of another text is of a later one: the next run finds the section changed.
UnfinishedIsRetried ==
  \A s \in Sections : node[s] # None /\ s \notin returned /\ ~VectorFits(s) =>
    node[s].hash.text # pageText[s]

CrawlInv ==
  /\ CrawlTypeOK /\ EdgesHaveNodes /\ NodesAreHashed /\ BatchFits /\ RunIsCurrent
  /\ EachIsLookedAt /\ UnfinishedIsRetried
  /\ NoStaleEdges /\ VectorsAreRepaired

=============================================================================

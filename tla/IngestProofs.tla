---------------------------- MODULE IngestProofs ----------------------------
(***************************************************************************)
(* Theorems about UrtectIngest, and about ConceptBackfill with             *)
(* AlarmcomIngest: what the tools that fill the graph store keep right,    *)
(* however their runs break off and in whatever order they run.            *)
(***************************************************************************)
EXTENDS UrtectIngest, ConceptBackfill, TLAPS

-----------------------------------------------------------------------------
(* Facts about the store.                                                  *)

\* None is told apart from whatever stands in its place.
LEMMA NoneIsNone ==
  /\ \A s \in Sections : s # None
  /\ \A h \in Hashes : h # None
  /\ \A a \in Attributes : a # None
  /\ \A r \in [attrs : Attributes, edges : SUBSET Targets] : r # None
BY NoneIsNoName

LEMMA EmptySeqHasType == \A S : <<>> \in Seq(S)
OBVIOUS

LEMMA SeqElements ==
  ASSUME NEW S, NEW q \in Seq(S)
  PROVE  /\ Len(q) \in Nat /\ DOMAIN q = 1..Len(q)
         /\ \A i \in 1..Len(q) : q[i] \in S
OBVIOUS

LEMMA SubSeqHasType ==
  ASSUME NEW S, NEW q \in Seq(S), NEW k \in 0..Len(q)
  PROVE  SubSeq(q, 1, k) \in Seq(S)
OBVIOUS

\* existing_hash is the hash of the node, of a store that hashes all its nodes.
LEMMA StoredHashOfNode ==
  ASSUME StoreTypeOK, NodesAreHashed, NEW s \in Sections
  PROVE  /\ StoredHash(s) \in Hashes \cup {None}
         /\ StoredHash(s) = None <=> node[s] = None
<1>1. node[s] # None => node[s].hash \in Hashes
  BY DEF NodesAreHashed
<1> QED
  BY <1>1, NoneIsNone DEF StoredHash

-----------------------------------------------------------------------------
(* The crawl of the product's manual.                                      *)

\* A run that ends leaves nothing behind but what it has stored.
LEMMA CrawlEnds ==
  ASSUME CrawlInv, NEW outcome \in Ended, Ends(outcome),
         StoreTypeOK', EdgesHaveNodes', NoStaleEdges', NodesAreHashed', UnfinishedIsRetried',
         outcome = "complete" => VectorsAreRepaired',
         UNCHANGED navSite, failed' \in BOOLEAN
  PROVE  CrawlInv'
<1>1. /\ knownPages' = [s \in Sections |-> None] /\ place' = 1
      /\ stack' = <<>> /\ batch' = <<>> /\ pc' = outcome
  BY DEF Ends, NoRun
<1>2. DOMAIN batch' = {}
  BY <1>1
<1>3. CrawlTypeOK'
  BY <1>1, <1>2 DEF CrawlInv, CrawlTypeOK, navSite, Ended
<1>4. BatchFits' /\ RunIsCurrent' /\ EachIsLookedAt'
  BY <1>1, <1>2 DEF BatchFits, RunIsCurrent, EachIsLookedAt, Ended
<1>5. VectorsAreRepaired'
  BY <1>1 DEF VectorsAreRepaired
<1> QED
  BY <1>3, <1>4, <1>5 DEF CrawlInv

LEMMA CrawlInitInv == CrawlInit => CrawlInv
<1> SUFFICES ASSUME CrawlInit PROVE CrawlInv
  OBVIOUS
<1>1. DOMAIN batch = {}
  BY DEF CrawlInit
<1>2. StoreTypeOK
  BY DEF CrawlInit, StoreInit, StoreTypeOK
<1>3. CrawlTypeOK
  <2>1. stack \in Seq([page : Sections, depth : Nat])
    BY EmptySeqHasType DEF CrawlInit
  <2>2. place \in Nat \ {0}
    BY DEF CrawlInit
  <2>3. siteEdits \in 0..MaxSiteEdits
    BY NavAssumption DEF CrawlInit
  <2>4. failed \in BOOLEAN
    BY DEF CrawlInit
  <2>5. nav \in Navs /\ pageText \in [Sections -> Texts] /\ pc \in Ended
    BY DEF CrawlInit, Ended
  <2>6. knownPages \in [Sections -> Hashes \cup {None}]
    BY DEF CrawlInit
  <2>7. shown \in [Sections -> SUBSET Texts] /\ returned \subseteq Sections
    BY DEF CrawlInit
  <2> QED
    BY <1>1, <1>2, <2>1, <2>2, <2>3, <2>4, <2>5, <2>6, <2>7 DEF CrawlTypeOK
<1>4. BatchFits /\ RunIsCurrent /\ EachIsLookedAt
  BY <1>1 DEF CrawlInit, BatchFits, RunIsCurrent, EachIsLookedAt, Ended
<1>5. /\ EdgesHaveNodes /\ NoStaleEdges /\ NodesAreHashed /\ UnfinishedIsRetried
      /\ VectorsAreRepaired
  BY DEF CrawlInit, StoreInit, EdgesHaveNodes, NoStaleEdges, NodesAreHashed,
         UnfinishedIsRetried, VectorsAreRepaired
<1> QED
  BY <1>3, <1>4, <1>5 DEF CrawlInv

LEMMA EditSiteKeeps == CrawlInv /\ EditSite => CrawlInv'
<1> SUFFICES ASSUME CrawlInv, EditSite PROVE CrawlInv'
  OBVIOUS
<1>1. UNCHANGED <<node, vectors, listed, parents, derived, pc, knownPages, place, stack, batch,
                  failed>>
  BY DEF EditSite, store, crawl
<1>2. /\ pc \in Ended /\ batch = <<>> /\ siteEdits' \in 0..MaxSiteEdits
      /\ nav \in Navs /\ pageText \in [Sections -> Texts]
      /\ shown \in [Sections -> SUBSET Texts] /\ returned \subseteq Sections
  BY NavAssumption DEF EditSite, CrawlInv, CrawlTypeOK, RunIsCurrent
<1>3. /\ nav' \in Navs /\ pageText' \in [Sections -> Texts]
      /\ shown' \in [Sections -> SUBSET Texts] /\ returned' \subseteq Sections
      /\ returned \subseteq returned'
      /\ \A s \in Sections :
           /\ shown[s] \subseteq shown'[s] /\ (pageText[s] \in shown[s] => pageText'[s] \in shown'[s])
           /\ s \in returned' \/ pageText'[s] = pageText[s] \/ pageText'[s] \notin shown[s]
  <2>1. CASE nav' \in Navs \ {nav} /\ UNCHANGED <<pageText, shown, returned>>
    BY <1>2, <2>1
  <2>2. ASSUME NEW p \in Sections, NEW t \in Texts, EditPage(p, t)
        PROVE  <1>3!:
    <3>1. /\ pageText' = [pageText EXCEPT ![p] = t]
          /\ shown' = [shown EXCEPT ![p] = shown[p] \cup {t}]
          /\ returned' = IF t \in shown[p] THEN returned \cup {p} ELSE returned
          /\ nav' = nav
      BY <2>2 DEF EditPage
    <3> QED
      BY <1>2, <3>1
  <2> QED
    BY <2>1, <2>2 DEF EditSite
<1>4. CrawlTypeOK'
  BY <1>1, <1>2, <1>3 DEF CrawlInv, CrawlTypeOK, StoreTypeOK
<1>5. EdgesHaveNodes' /\ NoStaleEdges' /\ NodesAreHashed'
  BY <1>1, <1>3 DEF CrawlInv, EdgesHaveNodes, NoStaleEdges, NodesAreHashed
<1>6. BatchFits' /\ RunIsCurrent' /\ EachIsLookedAt'
  <2>1. DOMAIN batch' = {}
    BY <1>1, <1>2
  <2> QED
    BY <1>1, <1>2, <2>1 DEF CrawlInv, BatchFits, RunIsCurrent, EachIsLookedAt, Ended
<1>7. UnfinishedIsRetried'
  <2> SUFFICES ASSUME NEW s \in Sections, node[s] # None, s \notin returned', ~VectorFits(s)
               PROVE  node[s].hash.text # pageText'[s]
    BY <1>1 DEF UnfinishedIsRetried, VectorFits
  <2>1. node[s].hash.text # pageText[s] /\ node[s].hash.text \in shown[s]
    BY <1>3 DEF CrawlInv, UnfinishedIsRetried, NodesAreHashed
  <2> QED
    BY <1>3, <2>1
<1>8. VectorsAreRepaired'
  BY <1>1, <1>3 DEF CrawlInv, VectorsAreRepaired, VectorFits
<1> QED
  BY <1>4, <1>5, <1>6, <1>7, <1>8 DEF CrawlInv

\* The store as a whole stays, and so do the pages.
LEMMA StoreStays ==
  ASSUME CrawlInv, UNCHANGED <<store, navSite>>
  PROVE  /\ StoreTypeOK' /\ EdgesHaveNodes' /\ NoStaleEdges' /\ NodesAreHashed'
         /\ UnfinishedIsRetried'
BY DEF CrawlInv, CrawlTypeOK, StoreTypeOK, EdgesHaveNodes, NoStaleEdges, NodesAreHashed,
       UnfinishedIsRetried, VectorFits, store, navSite

LEMMA BeginKeeps == CrawlInv /\ Begin => CrawlInv'
<1> SUFFICES ASSUME CrawlInv, Begin PROVE CrawlInv'
  OBVIOUS
<1>1. /\ StoreTypeOK' /\ EdgesHaveNodes' /\ NoStaleEdges' /\ NodesAreHashed'
      /\ UnfinishedIsRetried'
  BY StoreStays DEF Begin
<1>2. CASE \A s \in Sections \ Pages : StoredHash(s) = None
  <2>1. /\ knownPages' = [s \in Sections |-> StoredHash(s)]
        /\ pc' = "crawl" /\ UNCHANGED <<place, stack, batch, store, navSite>> /\ failed' = FALSE
    BY <1>2 DEF Begin
  <2>2. \A s \in Sections : StoredHash(s) \in Hashes \cup {None}
    BY StoredHashOfNode DEF CrawlInv, CrawlTypeOK
  <2>3. CrawlTypeOK'
    BY <1>1, <2>1, <2>2 DEF CrawlInv, CrawlTypeOK, navSite
  <2>4. BatchFits'
    BY <2>1 DEF CrawlInv, BatchFits, store, navSite
  <2>5. RunIsCurrent'
    <3>1. \A s \in Sections : knownPages'[s] = StoredHash(s)'
      BY <2>1 DEF StoredHash, store
    <3> QED
      BY <2>1, <3>1 DEF RunIsCurrent, Ended
  <2>6. EachIsLookedAt'
    <3>1. \A s \in Sections : knownPages'[s] # None => s \in Pages
      BY <1>2, <2>1
    <3>2. place = 1 /\ nav \in Seq([page : Sections, depth : Nat])
      BY NavAssumption DEF Begin, CrawlInv, CrawlTypeOK, RunIsCurrent
    <3>3. \A i \in DOMAIN nav : ~(i < place)
      BY <3>2, SeqElements
    <3> QED
      BY <2>1, <3>1, <3>3 DEF EachIsLookedAt, Pages, navSite
  <2>7. VectorsAreRepaired'
    BY <2>1 DEF VectorsAreRepaired
  <2> QED
    BY <1>1, <2>3, <2>4, <2>5, <2>6, <2>7 DEF CrawlInv
<1>3. CASE ~ \A s \in Sections \ Pages : StoredHash(s) = None
  <2>1. Ends("aborted") /\ UNCHANGED navSite /\ failed' \in BOOLEAN
    BY <1>3 DEF Begin
  <2> QED
    BY <1>1, <2>1, CrawlEnds DEF Ended
<1> QED
  BY <1>2, <1>3

LEMMA EntryIsPage ==
  ASSUME CrawlInv, place <= Len(nav)
  PROVE  place \in DOMAIN nav /\ Entry \in [page : Sections, depth : Nat]
<1>1. nav \in Seq([page : Sections, depth : Nat]) /\ place \in Nat \ {0}
  BY NavAssumption DEF CrawlInv, CrawlTypeOK
<1>2. Len(nav) \in Nat /\ DOMAIN nav = 1..Len(nav)
  BY <1>1, SeqElements
<1>3. place \in 1..Len(nav)
  BY <1>1, <1>2
<1>4. nav[place] \in [page : Sections, depth : Nat]
  BY <1>1, <1>3, SeqElements
<1> QED
  BY <1>2, <1>3, <1>4 DEF Entry

\* The crawl goes on to the next entry when this one has been dealt with.
LEMMA NextIsLookedAt ==
  ASSUME CrawlInv, pc = "crawl", place <= Len(nav), place' = place + 1,
         UNCHANGED <<pc, knownPages, navSite>>, DOMAIN batch \subseteq DOMAIN batch',
         NEW page \in Sections, Entry.page = page, PassedOver(page)'
  PROVE  EachIsLookedAt'
<1>1. nav \in Seq([page : Sections, depth : Nat]) /\ place \in Nat \ {0}
  BY NavAssumption DEF CrawlInv, CrawlTypeOK
<1>2. UNCHANGED <<nav, pageText>>
  BY DEF navSite
<1> SUFFICES ASSUME NEW i \in DOMAIN nav, i < place + 1 PROVE PassedOver(nav[i].page)'
  BY <1>2 DEF CrawlInv, EachIsLookedAt, Pages, Ended
<1>3. i \in Nat
  BY <1>1, SeqElements
<1>4. CASE i < place
  BY <1>2, <1>4 DEF CrawlInv, EachIsLookedAt, PassedOver, Ended
<1>5. CASE i = place
  BY <1>2, <1>5 DEF Entry
<1> QED
  BY <1>1, <1>3, <1>4, <1>5

LEMMA FetchFailsKeeps == CrawlInv /\ FetchFails => CrawlInv'
<1> SUFFICES ASSUME CrawlInv, FetchFails PROVE CrawlInv'
  OBVIOUS
<1>1. /\ StoreTypeOK' /\ EdgesHaveNodes' /\ NoStaleEdges' /\ NodesAreHashed'
      /\ UnfinishedIsRetried'
  BY StoreStays DEF FetchFails
<1>2. CASE knownPages[Entry.page] = None
  <2>1. /\ place' = place + 1 /\ failed' = TRUE
        /\ UNCHANGED <<pc, knownPages, stack, batch, store, navSite>>
    BY <1>2 DEF FetchFails
  <2>2. place' \in Nat \ {0}
    BY <2>1 DEF CrawlInv, CrawlTypeOK
  <2>3. CrawlTypeOK'
    BY <1>1, <2>1, <2>2 DEF CrawlInv, CrawlTypeOK, navSite
  <2>4. BatchFits' /\ RunIsCurrent' /\ pc' = "crawl"
    BY <2>1 DEF FetchFails, CrawlInv, BatchFits, RunIsCurrent, StoredHash, store, navSite, Ended
  <2>5. EachIsLookedAt'
    <3>1. PICK page \in Sections : Entry.page = page
      BY EntryIsPage DEF FetchFails
    <3>2. PassedOver(page)'
      BY <1>2, <2>1, <3>1 DEF PassedOver
    <3> QED
      BY <2>1, <3>1, <3>2, NextIsLookedAt DEF FetchFails
  <2>6. VectorsAreRepaired'
    BY <2>4 DEF VectorsAreRepaired
  <2> QED
    BY <1>1, <2>3, <2>4, <2>5, <2>6 DEF CrawlInv
<1>3. CASE knownPages[Entry.page] # None
  <2>1. Ends("aborted") /\ UNCHANGED <<navSite, failed>>
    BY <1>3 DEF FetchFails
  <2>2. failed' \in BOOLEAN
    BY <2>1 DEF CrawlInv, CrawlTypeOK
  <2> QED
    BY <1>1, <2>1, <2>2, CrawlEnds DEF Ended
<1> QED
  BY <1>2, <1>3

\* A page is built with the hash of what it is written with.
LEMMA BuildOfPage ==
  ASSUME CrawlInv, place <= Len(nav), NEW page \in Sections,
         NEW parent \in Sections \cup {None}
  PROVE  /\ BuildOf(page, parent) \in Build
         /\ BuildOf(page, parent).hash.text = pageText[page]
         /\ BuildOf(page, parent).hash.parent = parent
         /\ BuildOf(page, parent).parent = parent
         /\ BuildOf(page, parent).targets = Products[BuildOf(page, parent).hash.text]
<1>1. pageText[page] \in Texts /\ nav \in Navs
  BY DEF CrawlInv, CrawlTypeOK
<1>2. Hash(page, parent) \in Hashes
  BY <1>1, EntryIsPage, HashAssumption DEF Hash
<1>3. Products[pageText[page]] \in SUBSET Targets
  BY <1>1, HashAssumption
<1> QED
  BY <1>2, <1>3 DEF BuildOf, Build, Hash

\* A page that may be written takes the place of the stored one without an edge
\* left over.
LEMMA WritableFits ==
  ASSUME CrawlInv, pc = "crawl", NEW page \in Sections, NEW build \in Build,
         ~MustNotWrite(page, build)
  PROVE  parents[page] \subseteq {build.parent} /\ derived[page] \subseteq build.targets
<1>1. CASE knownPages[page] = None
  <2>1. node[page] = None
    BY <1>1, StoredHashOfNode DEF CrawlInv, CrawlTypeOK, RunIsCurrent
  <2> QED
    BY <2>1 DEF CrawlInv, EdgesHaveNodes
<1>2. CASE knownPages[page] # None
  BY <1>2 DEF MustNotWrite, HasStaleEdges
<1> QED
  BY <1>1, <1>2

LEMMA FetchKeeps ==
  ASSUME CrawlInv, NEW kept \in 0..Len(stack), Fetch(kept)
  PROVE  CrawlInv'
<1> DEFINE page == Entry.page
           parent == IF kept = 0 THEN None ELSE stack[kept].page
           build == BuildOf(page, parent)
<1>1. /\ StoreTypeOK' /\ EdgesHaveNodes' /\ NoStaleEdges' /\ NodesAreHashed'
      /\ UnfinishedIsRetried'
  BY StoreStays DEF Fetch
<1>2. stack \in Seq([page : Sections, depth : Nat]) /\ Len(stack) \in Nat
  BY DEF CrawlInv, CrawlTypeOK
<1>3. kept # 0 => stack[kept] \in [page : Sections, depth : Nat]
  <2>1. \A i \in 1..Len(stack) : stack[i] \in [page : Sections, depth : Nat]
    BY <1>2, SeqElements
  <2>2. kept # 0 => kept \in 1..Len(stack)
    BY <1>2
  <2> QED
    BY <2>1, <2>2
<1>4. page \in Sections /\ parent \in Sections \cup {None}
  BY <1>3, EntryIsPage DEF Fetch
<1>5. /\ build \in Build /\ build.hash.parent = parent /\ build.parent = parent
      /\ build.hash.text = pageText[page] /\ build.targets = Products[build.hash.text]
  BY <1>4, BuildOfPage DEF Fetch
<1>6. CASE knownPages[page] # build.hash /\ MustNotWrite(page, build)
  <2>1. Ends("stale") /\ UNCHANGED <<navSite, failed>>
    BY <1>6 DEF Fetch
  <2>2. failed' \in BOOLEAN
    BY <2>1 DEF CrawlInv, CrawlTypeOK
  <2> QED
    BY <1>1, <2>1, <2>2, CrawlEnds DEF Ended
<1>7. CASE ~(knownPages[page] # build.hash /\ MustNotWrite(page, build))
  <2>1. /\ stack' = Append(SubSeq(stack, 1, kept), Entry) /\ place' = place + 1
        /\ batch' = IF knownPages[page] = build.hash THEN batch
                    ELSE [p \in DOMAIN batch \cup {page} |->
                           IF p = page THEN build ELSE batch[p]]
        /\ UNCHANGED <<pc, knownPages, store, navSite, failed>> /\ pc = "crawl"
    BY <1>7 DEF Fetch
  <2> HIDE DEF build, parent
  <2>2. SubSeq(stack, 1, kept) \in Seq([page : Sections, depth : Nat])
    BY <1>2, SubSeqHasType
  <2>3. stack' \in Seq([page : Sections, depth : Nat])
    BY <2>1, <2>2, EntryIsPage DEF Fetch
  <2>4. place' \in Nat \ {0}
    BY <2>1 DEF CrawlInv, CrawlTypeOK
  <2>5. knownPages[page] # build.hash =>
          /\ parents[page] \subseteq {build.parent} /\ derived[page] \subseteq build.targets
    BY <1>4, <1>5, <1>7, <2>1, WritableFits
  <2>6. DOMAIN batch' \subseteq Sections /\ \A s \in DOMAIN batch' : batch'[s] \in Build
    BY <1>4, <1>5, <2>1 DEF CrawlInv, CrawlTypeOK
  <2>7. CrawlTypeOK'
    BY <1>1, <2>1, <2>3, <2>4, <2>6 DEF CrawlInv, CrawlTypeOK, navSite
  <2>8. BatchFits'
    <3>1. UNCHANGED <<parents, derived, pageText>>
      BY <2>1 DEF store, navSite
    <3> SUFFICES ASSUME NEW s \in DOMAIN batch'
                 PROVE  /\ batch'[s].hash.text = pageText[s]
                        /\ batch'[s].parent = batch'[s].hash.parent
                        /\ batch'[s].targets = Products[batch'[s].hash.text]
                        /\ parents[s] \subseteq {batch'[s].parent}
                        /\ derived[s] \subseteq batch'[s].targets
      BY <3>1 DEF BatchFits
    <3>2. CASE s \in DOMAIN batch /\ batch'[s] = batch[s]
      BY <3>2 DEF CrawlInv, BatchFits
    <3>3. CASE s = page /\ batch'[s] = build /\ knownPages[page] # build.hash
      BY <3>3, <1>5, <2>5
    <3> QED
      BY <2>1, <3>2, <3>3
  <2>9. RunIsCurrent'
    BY <2>1 DEF CrawlInv, RunIsCurrent, StoredHash, store, Ended
  <2>10. EachIsLookedAt'
    <3>1. /\ DOMAIN batch \subseteq DOMAIN batch'
          /\ knownPages[page] = build.hash \/ page \in DOMAIN batch'
      BY <2>1
    <3>2. PICK p \in Sections : Entry.page = p
      BY <1>4
    <3>3. pageText' = pageText /\ knownPages' = knownPages
      BY <2>1 DEF navSite
    <3>4. PassedOver(p)'
      BY <1>5, <3>1, <3>2, <3>3 DEF PassedOver
    <3> QED
      BY <2>1, <3>1, <3>2, <3>4, NextIsLookedAt DEF Fetch
  <2>11. VectorsAreRepaired'
    BY <2>1 DEF VectorsAreRepaired
  <2> QED
    BY <1>1, <2>7, <2>8, <2>9, <2>10, <2>11 DEF CrawlInv
<1> QED
  BY <1>6, <1>7

LEMMA CrawledKeeps == CrawlInv /\ Crawled => CrawlInv'
<1> SUFFICES ASSUME CrawlInv, Crawled PROVE CrawlInv'
  OBVIOUS
<1>1. /\ StoreTypeOK' /\ EdgesHaveNodes' /\ NoStaleEdges' /\ NodesAreHashed'
      /\ UnfinishedIsRetried'
  BY StoreStays DEF Crawled
<1>2. pc = "crawl" /\ pc' = "vectors" /\ UNCHANGED <<knownPages, place, stack, batch, store, navSite, failed>>
  BY DEF Crawled, Goto
<1>3. CrawlTypeOK'
  BY <1>1, <1>2 DEF CrawlInv, CrawlTypeOK, navSite
<1>4. BatchFits' /\ RunIsCurrent'
  BY <1>2 DEF CrawlInv, BatchFits, RunIsCurrent, StoredHash, store, navSite, Ended
<1>5. EachIsLookedAt' /\ VectorsAreRepaired'
  BY <1>2 DEF Crawled, CrawlInv, EachIsLookedAt, PassedOver, Pages, VectorsAreRepaired, navSite, Ended
<1> QED
  BY <1>1, <1>3, <1>4, <1>5 DEF CrawlInv

LEMMA AbortKeeps == CrawlInv /\ Abort => CrawlInv'
<1> SUFFICES ASSUME CrawlInv, Abort PROVE CrawlInv'
  OBVIOUS
<1>1. /\ StoreTypeOK' /\ EdgesHaveNodes' /\ NoStaleEdges' /\ NodesAreHashed'
      /\ UnfinishedIsRetried'
  BY StoreStays DEF Abort
<1>2. Ends("aborted") /\ UNCHANGED navSite /\ failed' \in BOOLEAN
  BY DEF Abort, CrawlInv, CrawlTypeOK
<1> QED
  BY <1>1, <1>2, CrawlEnds DEF Ended

\* A call of the run is made: it goes on, or ends with an error.
LEMMA CallKeeps ==
  ASSUME CrawlInv, pc \in {"vectors", "nodes"}, NEW step \in {"nodes", "edges"}, CallMade(step),
         StoreTypeOK', EdgesHaveNodes', NoStaleEdges', NodesAreHashed', UnfinishedIsRetried',
         UNCHANGED <<parents, derived, navSite, failed>>,
         step = "nodes" => \A s \in Sections : knownPages[s] = StoredHash(s)',
         \A s \in DOMAIN batch : vectors'[s] = batch[s].hash,
         step = "edges" =>
           /\ \A s \in DOMAIN batch : node'[s] # None /\ node'[s].hash = batch[s].hash
           /\ \A s \in Sections \ DOMAIN batch : knownPages[s] = StoredHash(s)'
  PROVE  CrawlInv'
<1>1. failed' \in BOOLEAN
  BY DEF CrawlInv, CrawlTypeOK
<1>2. CASE Ends("aborted")
  BY <1>1, <1>2, CrawlEnds DEF Ended
<1>3. CASE Goto(step)
  <2>1. pc' = step /\ UNCHANGED <<knownPages, place, stack, batch>>
    BY <1>3 DEF Goto
  <2>2. CrawlTypeOK'
    BY <1>1, <2>1 DEF CrawlInv, CrawlTypeOK, navSite
  <2>3. BatchFits'
    BY <2>1 DEF CrawlInv, BatchFits, navSite
  <2>4. RunIsCurrent'
    BY <2>1 DEF RunIsCurrent, Ended
  <2>5. EachIsLookedAt' /\ VectorsAreRepaired'
    BY <2>1 DEF CrawlInv, EachIsLookedAt, PassedOver, Pages, VectorsAreRepaired, navSite, Ended
  <2> QED
    BY <2>2, <2>3, <2>4, <2>5 DEF CrawlInv
<1> QED
  BY <1>2, <1>3 DEF CallMade

LEMMA VectorsKeeps == CrawlInv /\ Vectors => CrawlInv'
<1> SUFFICES ASSUME CrawlInv, Vectors PROVE CrawlInv'
  OBVIOUS
<1>1. /\ pc = "vectors" /\ PutVectors(batch) /\ CallMade("nodes")
      /\ UNCHANGED <<node, listed, parents, derived, navSite, failed>>
  BY DEF Vectors
<1>2. DOMAIN batch \subseteq Sections /\ \A s \in DOMAIN batch : batch[s].hash \in Hashes
  BY DEF CrawlInv, CrawlTypeOK, Build
<1>3. \A s \in Sections : vectors'[s] = IF s \in DOMAIN batch THEN batch[s].hash ELSE vectors[s]
  BY <1>1 DEF PutVectors
<1>4. StoreTypeOK'
  BY <1>1, <1>2 DEF CrawlInv, CrawlTypeOK, StoreTypeOK, PutVectors
<1>5. UNCHANGED <<pageText, shown, returned>>
  BY <1>1 DEF navSite
<1>6. EdgesHaveNodes' /\ NoStaleEdges' /\ NodesAreHashed'
  BY <1>1, <1>2, <1>3, <1>5, NoneIsNone
     DEF CrawlInv, EdgesHaveNodes, NoStaleEdges, NodesAreHashed
<1>7. UnfinishedIsRetried'
  <2> SUFFICES ASSUME NEW s \in Sections, node[s] # None, s \notin returned, ~VectorFits(s)'
               PROVE  node[s].hash.text # pageText[s]
    BY <1>1, <1>5 DEF UnfinishedIsRetried
  <2>1. CASE s \in DOMAIN batch
    BY <1>1, <1>2, <1>3, <2>1, NoneIsNone DEF VectorFits, CrawlInv, BatchFits
  <2>2. CASE s \notin DOMAIN batch
    BY <1>1, <1>3, <2>2 DEF VectorFits, CrawlInv, UnfinishedIsRetried
  <2> QED
    BY <2>1, <2>2
<1>8. \A s \in Sections : knownPages[s] = StoredHash(s)'
  BY <1>1 DEF CrawlInv, RunIsCurrent, StoredHash
<1>9. \A s \in DOMAIN batch : vectors'[s] = batch[s].hash
  BY <1>2, <1>3
<1> QED
  BY <1>1, <1>4, <1>6, <1>7, <1>8, <1>9, CallKeeps

LEMMA NodesKeeps == CrawlInv /\ Nodes => CrawlInv'
<1> SUFFICES ASSUME CrawlInv, Nodes PROVE CrawlInv'
  OBVIOUS
<1>1. /\ pc = "nodes" /\ PutNodes(batch, FALSE) /\ CallMade("edges")
      /\ UNCHANGED <<vectors, listed, parents, derived, navSite, failed>>
  BY DEF Nodes
<1>2. DOMAIN batch \subseteq Sections /\ \A s \in DOMAIN batch : batch[s].hash \in Hashes
  BY DEF CrawlInv, CrawlTypeOK, Build
<1>3. \A s \in Sections : node'[s] =
        IF s \in DOMAIN batch
        THEN [hash |-> batch[s].hash, whole |-> TRUE, keys |-> {}] ELSE node[s]
  BY <1>1 DEF PutNodes
<1>4. ASSUME NEW s \in DOMAIN batch
      PROVE  node'[s] \in Attributes /\ node'[s].hash = batch[s].hash
  <2>1. node'[s] = [hash |-> batch[s].hash, whole |-> TRUE, keys |-> {}]
    BY <1>2, <1>3
  <2>2. batch[s].hash \in Hashes
    BY <1>2
  <2> QED
    BY <2>1, <2>2 DEF Attributes
<1>5. \A s \in DOMAIN batch : node'[s] # None /\ node'[s].hash = batch[s].hash
  BY <1>4, NoneIsNone
<1>6. node' \in [Sections -> Attributes \cup {None}]
  <2>1. node' = [s \in Sections |-> node'[s]]
    BY <1>1 DEF PutNodes
  <2>2. \A s \in Sections : node'[s] \in Attributes \cup {None}
    BY <1>3, <1>4 DEF CrawlInv, CrawlTypeOK, StoreTypeOK
  <2> QED
    BY <2>1, <2>2
<1>7. StoreTypeOK'
  BY <1>1, <1>6 DEF CrawlInv, CrawlTypeOK, StoreTypeOK
<1>8. EdgesHaveNodes'
  BY <1>1, <1>3, <1>5 DEF CrawlInv, EdgesHaveNodes
<1>9. UNCHANGED <<pageText, shown, returned>>
  BY <1>1 DEF navSite
<1>10. \A s \in DOMAIN batch : vectors[s] = batch[s].hash /\ vectors[s] # None
  BY <1>1, <1>2, NoneIsNone DEF CrawlInv, RunIsCurrent
<1>11. NoStaleEdges' /\ NodesAreHashed' /\ UnfinishedIsRetried'
  <2> SUFFICES ASSUME NEW s \in Sections, node'[s] # None
               PROVE  /\ parents[s] \subseteq {node'[s].hash.parent}
                      /\ derived[s] \subseteq Products[node'[s].hash.text]
                      /\ node'[s].hash \in Hashes /\ node'[s].hash.text \in shown[s]
                      /\ vectors[s] # None
                      /\ s \notin returned /\ ~VectorFits(s)' =>
                           node'[s].hash.text # pageText[s]
    BY <1>1, <1>9 DEF CrawlInv, NoStaleEdges, NodesAreHashed, UnfinishedIsRetried
  <2>1. CASE s \in DOMAIN batch
    <3>1. /\ node'[s].hash = batch[s].hash /\ batch[s].hash \in Hashes
          /\ vectors[s] = batch[s].hash /\ vectors[s] # None
      BY <1>2, <1>5, <1>10, <2>1
    <3>2. VectorFits(s)'
      BY <1>1, <3>1 DEF VectorFits
    <3> QED
      BY <2>1, <3>1, <3>2 DEF CrawlInv, BatchFits, NodesAreHashed
  <2>2. CASE s \notin DOMAIN batch
    BY <1>1, <1>3, <2>2
       DEF CrawlInv, NoStaleEdges, NodesAreHashed, UnfinishedIsRetried, VectorFits
  <2> QED
    BY <2>1, <2>2
<1>12. \A s \in DOMAIN batch : vectors'[s] = batch[s].hash
  BY <1>1, <1>10
<1>13. \A s \in Sections \ DOMAIN batch : knownPages[s] = StoredHash(s)'
  BY <1>1, <1>3 DEF CrawlInv, RunIsCurrent, StoredHash
<1> QED
  BY <1>1, <1>5, <1>7, <1>8, <1>11, <1>12, <1>13, CallKeeps

LEMMA EdgesKeeps == CrawlInv /\ Edges => CrawlInv'
<1> SUFFICES ASSUME CrawlInv, Edges PROVE CrawlInv'
  OBVIOUS
<1>1. /\ pc = "edges" /\ PutEdges(batch)
      /\ UNCHANGED <<node, vectors, navSite, failed>>
  BY DEF Edges
<1>2. DOMAIN batch \subseteq Sections /\ \A s \in DOMAIN batch : batch[s] \in Build
  BY DEF CrawlInv, CrawlTypeOK
<1>3. \A s \in Sections :
        /\ parents'[s] = IF s \in DOMAIN batch
                         THEN parents[s] \cup ({batch[s].parent} \ {None}) ELSE parents[s]
        /\ derived'[s] = IF s \in DOMAIN batch
                         THEN derived[s] \cup batch[s].targets ELSE derived[s]
  BY <1>1 DEF PutEdges
<1>4. listed' \subseteq Sections
  BY <1>1, <1>2 DEF PutEdges, CrawlInv, CrawlTypeOK, StoreTypeOK
<1>5. parents' \in [Sections -> SUBSET Sections]
  <2>1. parents' = [s \in Sections |-> parents'[s]]
    BY <1>1 DEF PutEdges
  <2>2. ASSUME NEW s \in Sections PROVE parents'[s] \in SUBSET Sections
    <3>1. parents[s] \in SUBSET Sections
      BY DEF CrawlInv, CrawlTypeOK, StoreTypeOK
    <3>2. CASE s \in DOMAIN batch
      BY <3>1, <3>2, <1>2, <1>3 DEF Build
    <3> QED
      BY <3>1, <3>2, <1>3
  <2> QED
    BY <2>1, <2>2
<1>6. derived' \in [Sections -> SUBSET Targets]
  <2>1. derived' = [s \in Sections |-> derived'[s]]
    BY <1>1 DEF PutEdges
  <2>2. ASSUME NEW s \in Sections PROVE derived'[s] \in SUBSET Targets
    <3>1. derived[s] \in SUBSET Targets
      BY DEF CrawlInv, CrawlTypeOK, StoreTypeOK
    <3>2. CASE s \in DOMAIN batch
      BY <3>1, <3>2, <1>2, <1>3 DEF Build
    <3> QED
      BY <3>1, <3>2, <1>3
  <2> QED
    BY <2>1, <2>2
<1>7. StoreTypeOK'
  BY <1>1, <1>4, <1>5, <1>6 DEF CrawlInv, CrawlTypeOK, StoreTypeOK
<1>8. \A s \in DOMAIN batch : node[s] # None /\ node[s].hash = batch[s].hash
  BY <1>1 DEF CrawlInv, RunIsCurrent
<1>9. EdgesHaveNodes'
  BY <1>1, <1>3, <1>8 DEF CrawlInv, EdgesHaveNodes
<1>10. NoStaleEdges'
  <2> SUFFICES ASSUME NEW s \in Sections, node[s] # None
               PROVE  /\ parents'[s] \subseteq {node[s].hash.parent}
                      /\ derived'[s] \subseteq Products[node[s].hash.text]
    BY <1>1 DEF NoStaleEdges
  <2>1. CASE s \in DOMAIN batch
    BY <2>1, <1>3, <1>8 DEF CrawlInv, BatchFits
  <2>2. CASE s \notin DOMAIN batch
    BY <2>2, <1>3 DEF CrawlInv, NoStaleEdges
  <2> QED
    BY <2>1, <2>2
<1>11. UNCHANGED <<pageText, shown, returned>> /\ failed' \in BOOLEAN
  BY <1>1 DEF navSite, CrawlInv, CrawlTypeOK
<1>12. NodesAreHashed' /\ UnfinishedIsRetried'
  BY <1>1, <1>11 DEF CrawlInv, NodesAreHashed, UnfinishedIsRetried, VectorFits
<1>13. VectorsAreRepaired'
  <2> SUFFICES ASSUME NEW s \in Sections, node[s] # None, s \notin returned PROVE VectorFits(s)
    BY <1>1, <1>11 DEF VectorsAreRepaired, VectorFits
  <2>1. CASE s \in DOMAIN batch
    BY <1>1, <1>2, <1>8, <2>1, NoneIsNone DEF VectorFits, CrawlInv, RunIsCurrent, Build
  <2>2. CASE s \notin DOMAIN batch
    <3>1. knownPages[s] = node[s].hash /\ knownPages[s] # None
      BY <1>1, <2>2, NoneIsNone DEF CrawlInv, RunIsCurrent, NodesAreHashed, StoredHash
    <3>2. PICK i \in DOMAIN nav : s = nav[i].page
      BY <1>1, <3>1 DEF CrawlInv, EachIsLookedAt, Pages, Ended
    <3>3. i < place
      <4>1. nav \in Seq([page : Sections, depth : Nat]) /\ place \in Nat /\ place > Len(nav)
        BY <1>1, NavAssumption DEF CrawlInv, CrawlTypeOK, EachIsLookedAt, Ended
      <4> QED
        BY <4>1, SeqElements
    <3>4. PassedOver(s)
      BY <1>1, <3>2, <3>3 DEF CrawlInv, EachIsLookedAt, Ended
    <3>5. node[s].hash.text = pageText[s]
      BY <2>2, <3>1, <3>4 DEF PassedOver
    <3> QED
      BY <3>5 DEF CrawlInv, UnfinishedIsRetried
  <2> QED
    BY <2>1, <2>2
<1> QED
  BY <1>1, <1>7, <1>9, <1>10, <1>11, <1>12, <1>13, CrawlEnds DEF Edges, Ended

\* The invariant of the crawl holds for any pages, texts and navigations of a
\* site that is edited between the runs, wherever runs fail.
THEOREM CrawlInvHolds == CrawlSpec => []CrawlInv
<1>1. CrawlInv /\ CrawlNext => CrawlInv'
  <2> SUFFICES ASSUME CrawlInv, CrawlNext PROVE CrawlInv'
    OBVIOUS
  <2>1. CASE \E kept \in 0..Len(stack) : Fetch(kept)
    BY <2>1, FetchKeeps
  <2> QED
    BY <2>1, EditSiteKeeps, BeginKeeps, FetchFailsKeeps, CrawledKeeps, VectorsKeeps,
       NodesKeeps, EdgesKeeps, AbortKeeps DEF CrawlNext
<1>2. CrawlInv /\ UNCHANGED crawlVars => CrawlInv'
  <2> SUFFICES ASSUME CrawlInv, UNCHANGED crawlVars PROVE CrawlInv'
    OBVIOUS
  <2>1. /\ StoreTypeOK' /\ EdgesHaveNodes' /\ NoStaleEdges' /\ NodesAreHashed'
        /\ UnfinishedIsRetried'
    BY StoreStays DEF crawlVars
  <2>2. CrawlTypeOK'
    BY <2>1 DEF CrawlInv, CrawlTypeOK, crawlVars, navSite, crawl
  <2>3. BatchFits' /\ RunIsCurrent'
    BY DEF CrawlInv, BatchFits, RunIsCurrent, StoredHash, crawlVars, crawl, store, navSite
  <2>4. EachIsLookedAt' /\ VectorsAreRepaired'
    BY DEF CrawlInv, EachIsLookedAt, PassedOver, Pages, VectorsAreRepaired, VectorFits,
           crawlVars, crawl, store, navSite
  <2> QED
    BY <2>1, <2>2, <2>3, <2>4 DEF CrawlInv
<1> QED
  BY <1>1, <1>2, CrawlInitInv, PTL DEF CrawlSpec

\* The edges of a section fit the text and the place it is stored with, although
\* edges cannot be removed and runs stop between their three calls
\* (ingest_urtect.rs, assert_no_stale_section_edges).
THEOREM NoStaleEdgesAlways == CrawlSpec => []NoStaleEdges
<1>1. CrawlInv => NoStaleEdges
  BY DEF CrawlInv
<1> QED
  BY <1>1, CrawlInvHolds, PTL

\* A run that is complete leaves every section with the vector of its text, whatever
\* earlier runs have left between the vectors and the nodes, unless its page was
\* changed back to a text it had before (ingest_urtect.rs, upsert_vectors before
\* upsert_graph_low_level; the vector of a section replaces the one it had).
THEOREM VectorsAreRepairedAlways == CrawlSpec => []VectorsAreRepaired
<1>1. CrawlInv => VectorsAreRepaired
  BY DEF CrawlInv
<1> QED
  BY <1>1, CrawlInvHolds, PTL

-----------------------------------------------------------------------------
(* The articles of Alarm.com.                                              *)

LEMMA ArticleIsSection ==
  ASSUME IngestTypeOK, pos <= Len(Order)
  PROVE  Article \in Sections
<1>1. Order \in Seq(Sections)
  BY OrderAssumption
<1>2. Len(Order) \in Nat /\ \A i \in 1..Len(Order) : Order[i] \in Sections
  BY <1>1, SeqElements
<1>3. pos \in 1..Len(Order)
  BY <1>2 DEF IngestTypeOK
<1> QED
  BY <1>2, <1>3 DEF Article

\* A run that ends keeps nothing in mind.
LEMMA IngestRunEnds ==
  ASSUME IngestInv, EndOfRun, UNCHANGED site, NoOrphanParents'
  PROVE  IngestInv'
<1>1. /\ ipc' = "idle" /\ known' = [s \in Sections |-> None]
      /\ stored' = {} /\ pos' = 1 /\ cur' = <<>>
  BY DEF EndOfRun
<1>2. DOMAIN cur' = {}
  BY <1>1
<1>3. 1 \in 1..Len(Order) + 1
  <2>1. Len(Order) \in Nat
    BY OrderAssumption, SeqElements
  <2> QED
    BY <2>1
<1>4. IngestTypeOK'
  BY <1>1, <1>2, <1>3 DEF IngestInv, IngestTypeOK, site
<1>5. StoredHasNode'
  BY <1>1 DEF StoredHasNode
<1> QED
  BY <1>4, <1>5 DEF IngestInv

\* Without a step of the calls, the store stays.
LEMMA OrphansStay ==
  ASSUME NoOrphanParents, UNCHANGED store
  PROVE  NoOrphanParents'
BY DEF NoOrphanParents, store

LEMMA EditKeeps ==
  ASSUME StoreTypeOK, IngestInv, Edit
  PROVE  UNCHANGED store /\ IngestInv'
<1>1. UNCHANGED <<store, ingest>>
  BY DEF Edit
<1>2. text' \in [Sections -> Hashes]
  BY DEF Edit, IngestInv, IngestTypeOK
<1>3. edits' \in 0..MaxEdits
  BY OrderAssumption DEF Edit, IngestInv, IngestTypeOK
<1>4. IngestTypeOK'
  BY <1>1, <1>2, <1>3 DEF IngestInv, IngestTypeOK, ingest
<1>5. StoredHasNode'
  BY <1>1 DEF IngestInv, StoredHasNode, ingest, store, Article
<1>6. NoOrphanParents'
  BY <1>1, OrphansStay DEF IngestInv
<1> QED
  BY <1>1, <1>4, <1>5, <1>6 DEF IngestInv

LEMMA IngestBeginsKeeps ==
  ASSUME StoreTypeOK, IngestInv, IngestBegins
  PROVE  UNCHANGED store /\ IngestInv'
<1>1. /\ known' = [s \in Sections |-> StoredHash(s)] /\ ipc' = "crawl"
      /\ UNCHANGED <<store, site, stored, pos, cur>>
  BY DEF IngestBegins
<1>2. \A s \in Sections : StoredHash(s) \in Hashes \cup {None}
  <2> SUFFICES ASSUME NEW s \in Sections PROVE StoredHash(s) \in Hashes \cup {None}
    OBVIOUS
  <2>1. node[s] = None \/ node[s] \in Attributes
    BY DEF StoreTypeOK
  <2> QED
    BY <2>1 DEF StoredHash, Attributes
<1>3. IngestTypeOK'
  BY <1>1, <1>2 DEF IngestInv, IngestTypeOK, site
<1>4. StoredHasNode'
  <2>1. \A s \in Sections : known'[s] # None => node[s] # None
    BY <1>1 DEF StoredHash
  <2> QED
    BY <1>1, <2>1 DEF IngestInv, StoredHasNode, store
<1>5. NoOrphanParents'
  BY <1>1, OrphansStay DEF IngestInv
<1> QED
  BY <1>1, <1>3, <1>4, <1>5 DEF IngestInv

LEMMA PassOverKeeps ==
  ASSUME StoreTypeOK, IngestInv, PassOver
  PROVE  UNCHANGED store /\ IngestInv'
<1>1. /\ ipc = "crawl" /\ pos <= Len(Order) /\ pos' = pos + 1
      /\ UNCHANGED <<store, site, ipc, known, stored, cur>>
  BY DEF PassOver
<1>2. pos' \in 1..Len(Order) + 1
  <2>1. Len(Order) \in Nat
    BY OrderAssumption, SeqElements
  <2> QED
    BY <1>1, <2>1 DEF IngestInv, IngestTypeOK
<1>3. IngestTypeOK'
  BY <1>1, <1>2 DEF IngestInv, IngestTypeOK, site
<1>4. StoredHasNode'
  BY <1>1 DEF IngestInv, StoredHasNode, store
<1>5. NoOrphanParents'
  BY <1>1, OrphansStay DEF IngestInv
<1> QED
  BY <1>1, <1>3, <1>4, <1>5 DEF IngestInv

\* A parent that the run takes for stored has a node.
LEMMA KnownParentHasNode ==
  ASSUME IngestInv, NEW s \in Sections
  PROVE  /\ KnownParent(s) \in Sections \cup {None}
         /\ KnownParent(s) # None => node[KnownParent(s)] # None
<1>1. Parent[s] \in Sections \cup {None}
  BY OrderAssumption
<1>2. Parent[s] # None /\ (known[Parent[s]] # None \/ Parent[s] \in stored) =>
        node[Parent[s]] # None
  BY <1>1 DEF IngestInv, StoredHasNode
<1> QED
  BY <1>1, <1>2 DEF KnownParent

LEMMA TranslateKeeps ==
  ASSUME StoreTypeOK, IngestInv, NEW concepts \in SUBSET Targets, Translate(concepts)
  PROVE  UNCHANGED store /\ IngestInv'
<1> DEFINE build == [hash |-> text[Article], parent |-> KnownParent(Article),
                     targets |-> concepts]
<1>1. /\ ipc = "crawl" /\ pos <= Len(Order) /\ UNCHANGED <<store, site>>
      /\ \/ EndOfRun
         \/ /\ cur' = [s \in {Article} |-> build]
            /\ ipc' = "vectors" /\ UNCHANGED <<known, stored, pos>>
  BY DEF Translate
<1>2. Article \in Sections
  BY <1>1, ArticleIsSection DEF IngestInv
<1>3. NoOrphanParents'
  BY <1>1, OrphansStay DEF IngestInv
<1>4. CASE EndOfRun
  BY <1>1, <1>3, <1>4, IngestRunEnds
<1>5. CASE /\ cur' = [s \in {Article} |-> build]
           /\ ipc' = "vectors" /\ UNCHANGED <<known, stored, pos>>
  <2>1. Article' = Article
    BY <1>5 DEF Article
  <2>2. text[Article] \in Hashes
    BY <1>2 DEF IngestInv, IngestTypeOK
  <2>3. build \in Build /\ build.parent = KnownParent(Article)
    BY <1>2, <2>2, KnownParentHasNode DEF Build
  <2>4. DOMAIN cur' = {Article} /\ cur'[Article] = build
    BY <1>5
  <2> HIDE DEF build
  <2>5. IngestTypeOK'
    BY <1>1, <1>2, <1>5, <2>3, <2>4 DEF IngestInv, IngestTypeOK, site
  <2>6. StoredHasNode'
    <3>1. cur'[Article].parent # None => node[cur'[Article].parent] # None
      BY <1>2, <2>3, <2>4, KnownParentHasNode
    <3>2. \A s \in Sections : known'[s] # None \/ s \in stored' => node'[s] # None
      BY <1>1, <1>5 DEF IngestInv, StoredHasNode, store
    <3> QED
      BY <1>1, <1>5, <2>1, <2>4, <3>1, <3>2 DEF StoredHasNode, store
  <2> QED
    BY <1>1, <1>3, <2>5, <2>6 DEF IngestInv
<1> QED
  BY <1>1, <1>4, <1>5

LEMMA IngestEndsKeeps ==
  ASSUME StoreTypeOK, IngestInv, IngestEnds
  PROVE  UNCHANGED store /\ IngestInv'
BY IngestRunEnds, OrphansStay DEF IngestEnds, IngestInv

\* A call for an article is made: the run goes on, or ends with an error.
LEMMA ArticleCallKeeps ==
  ASSUME IngestInv, NEW step \in {"nodes", "edges"}, Called(step), UNCHANGED site,
         ipc \in {"vectors", "nodes"}, NoOrphanParents',
         \A s \in Sections : node[s] # None => node'[s] # None,
         step = "edges" => node'[Article] # None
  PROVE  IngestInv'
<1>1. CASE EndOfRun
  BY <1>1, IngestRunEnds
<1>2. CASE ipc' = step /\ UNCHANGED <<known, stored, pos, cur>>
  <2>1. Article' = Article
    BY <1>2 DEF Article
  <2>2. Article \in Sections /\ cur[Article] \in Build
    BY ArticleIsSection DEF IngestInv, IngestTypeOK, StoredHasNode
  <2>3. cur[Article].parent \in Sections \cup {None}
    BY <2>2 DEF Build
  <2>4. IngestTypeOK'
    BY <1>2 DEF IngestInv, IngestTypeOK, site
  <2>5. StoredHasNode'
    BY <1>2, <2>1, <2>3 DEF IngestInv, StoredHasNode
  <2> QED
    BY <2>4, <2>5 DEF IngestInv
<1> QED
  BY <1>1, <1>2 DEF Called

\* What the calls for an article are made with.
LEMMA ArticleUnderWay ==
  ASSUME IngestInv, ipc \in {"vectors", "nodes", "edges"}
  PROVE  /\ Article \in Sections /\ DOMAIN cur = {Article} /\ cur[Article] \in Build
         /\ cur[Article].parent # None => node[cur[Article].parent] # None
BY ArticleIsSection DEF IngestInv, IngestTypeOK, StoredHasNode

LEMMA PutVectorKeeps ==
  ASSUME StoreTypeOK, IngestInv, PutVector
  PROVE  StoreTypeOK' /\ IngestInv' /\ UNCHANGED node
<1>1. /\ ipc = "vectors" /\ PutVectors(cur) /\ Called("nodes")
      /\ UNCHANGED <<node, listed, parents, derived, site>>
  BY DEF PutVector
<1>2. DOMAIN cur \subseteq Sections /\ \A s \in DOMAIN cur : cur[s].hash \in Hashes
  BY DEF IngestInv, IngestTypeOK, Build
<1>3. StoreTypeOK'
  BY <1>1, <1>2 DEF PutVectors, StoreTypeOK
<1>4. NoOrphanParents'
  BY <1>1 DEF IngestInv, NoOrphanParents
<1>5. IngestInv'
  BY <1>1, <1>4, ArticleCallKeeps
<1> QED
  BY <1>1, <1>3, <1>5

LEMMA PutNodeKeeps ==
  ASSUME StoreTypeOK, IngestInv, PutNode
  PROVE  /\ StoreTypeOK' /\ IngestInv'
         /\ \A s \in Sections : node'[s] = node[s] \/ (node'[s] # None /\ node'[s].whole)
<1>1. /\ ipc = "nodes" /\ PutNodes(cur, TRUE) /\ Called("edges")
      /\ UNCHANGED <<vectors, listed, parents, derived, site>>
  BY DEF PutNode
<1>2. Article \in Sections /\ DOMAIN cur = {Article} /\ cur[Article] \in Build
  BY <1>1, ArticleUnderWay
<1> DEFINE new == [hash |-> cur[Article].hash, whole |-> TRUE, keys |-> cur[Article].targets]
<1>3. node' = [s \in Sections |-> IF s = Article THEN new ELSE node[s]]
  BY <1>1, <1>2 DEF PutNodes
<1>4. new \in Attributes /\ new.whole
  BY <1>2 DEF Attributes, Build
<1>5. new # None
  BY <1>4, NoneIsNone
<1> HIDE DEF new
<1>6. \A s \in Sections : node'[s] = IF s = Article THEN new ELSE node[s]
  BY <1>3
<1>7. node' \in [Sections -> Attributes \cup {None}]
  BY <1>3, <1>4 DEF StoreTypeOK
<1>8. StoreTypeOK'
  BY <1>1, <1>7 DEF StoreTypeOK
<1>9. NoOrphanParents'
  <2> SUFFICES ASSUME NEW s \in Sections, NEW p \in parents[s] PROVE node'[p] # None
    BY <1>1 DEF NoOrphanParents
  <2>1. p \in Sections /\ node[p] # None
    BY DEF StoreTypeOK, IngestInv, NoOrphanParents
  <2> QED
    BY <2>1, <1>5, <1>6
<1>10. IngestInv'
  <2>1. \A s \in Sections : node[s] # None => node'[s] # None
    BY <1>5, <1>6
  <2>2. node'[Article] # None
    BY <1>2, <1>5, <1>6
  <2> QED
    BY <1>1, <1>9, <2>1, <2>2, ArticleCallKeeps
<1>11. \A s \in Sections : node'[s] = node[s] \/ (node'[s] # None /\ node'[s].whole)
  BY <1>4, <1>5, <1>6
<1> QED
  BY <1>8, <1>10, <1>11

LEMMA PutItsEdgesKeeps ==
  ASSUME StoreTypeOK, IngestInv, PutItsEdges
  PROVE  StoreTypeOK' /\ IngestInv' /\ UNCHANGED node
<1>1. /\ ipc = "edges" /\ PutEdges(cur) /\ UNCHANGED <<node, vectors, site>>
      /\ \/ EndOfRun
         \/ /\ ipc' = "crawl" /\ pos' = pos + 1 /\ cur' = <<>>
            /\ stored' = stored \cup {Article} /\ UNCHANGED known
  BY DEF PutItsEdges
<1>2. /\ Article \in Sections /\ DOMAIN cur = {Article} /\ cur[Article] \in Build
      /\ cur[Article].parent # None => node[cur[Article].parent] # None
  BY <1>1, ArticleUnderWay
<1>3. /\ cur[Article].parent \in Sections \cup {None}
      /\ cur[Article].targets \in SUBSET Targets
  BY <1>2 DEF Build
<1>4. /\ listed' = listed \cup {Article}
      /\ parents' = [s \in Sections |->
           IF s = Article THEN parents[s] \cup ({cur[Article].parent} \ {None}) ELSE parents[s]]
      /\ derived' = [s \in Sections |->
           IF s = Article THEN derived[s] \cup cur[Article].targets ELSE derived[s]]
  BY <1>1, <1>2 DEF PutEdges
<1>5. parents' \in [Sections -> SUBSET Sections]
  BY <1>3, <1>4 DEF StoreTypeOK
<1>6. derived' \in [Sections -> SUBSET Targets]
  BY <1>3, <1>4 DEF StoreTypeOK
<1>7. StoreTypeOK'
  BY <1>1, <1>2, <1>4, <1>5, <1>6 DEF StoreTypeOK
<1>8. NoOrphanParents'
  <2> SUFFICES ASSUME NEW s \in Sections, NEW p \in parents'[s] PROVE node[p] # None
    BY <1>1 DEF NoOrphanParents
  <2>1. p \in parents[s] \/ (p = cur[Article].parent /\ p # None)
    BY <1>4
  <2> QED
    BY <1>2, <2>1 DEF IngestInv, NoOrphanParents
<1>9. CASE EndOfRun
  BY <1>1, <1>7, <1>8, <1>9, IngestRunEnds
<1>10. CASE /\ ipc' = "crawl" /\ pos' = pos + 1 /\ cur' = <<>>
            /\ stored' = stored \cup {Article} /\ UNCHANGED known
  <2>1. pos' \in 1..Len(Order) + 1
    <3>1. Len(Order) \in Nat
      BY OrderAssumption, SeqElements
    <3> QED
      BY <1>1, <1>10, <3>1 DEF IngestInv, IngestTypeOK, StoredHasNode
  <2>2. DOMAIN cur' = {}
    BY <1>10
  <2>3. IngestTypeOK'
    BY <1>1, <1>2, <1>10, <2>1, <2>2 DEF IngestInv, IngestTypeOK, site
  <2>4. StoredHasNode'
    BY <1>1, <1>10 DEF IngestInv, StoredHasNode
  <2> QED
    BY <1>1, <1>7, <1>8, <2>3, <2>4 DEF IngestInv
<1> QED
  BY <1>1, <1>9, <1>10

\* What any step of the ingestion keeps; a node it writes is complete.
LEMMA IngestKeeps ==
  ASSUME StoreTypeOK, IngestInv, Ingest
  PROVE  /\ StoreTypeOK' /\ IngestInv'
         /\ \A s \in Sections : node'[s] = node[s] \/ (node'[s] # None /\ node'[s].whole)
<1>1. UNCHANGED store => StoreTypeOK' /\ UNCHANGED node
  BY DEF StoreTypeOK, store
<1>2. CASE PutNode
  BY <1>2, PutNodeKeeps
<1>3. CASE \E concepts \in SUBSET Targets : Translate(concepts)
  BY <1>1, <1>3, TranslateKeeps
<1> QED
  BY <1>1, <1>2, <1>3, EditKeeps, IngestBeginsKeeps, PassOverKeeps, PutVectorKeeps,
     PutItsEdgesKeeps, IngestEndsKeeps DEF Ingest

-----------------------------------------------------------------------------
(* The tool beside the ingestion.                                          *)

\* The keys are those of the sections, each in one place.
LEMMA KeysAreSections ==
  /\ Len(Keys) \in Nat
  /\ \A i \in 1..Len(Keys) : Keys[i] \in Sections
  /\ \A s \in Sections : \E i \in 1..Len(Keys) : Keys[i] = s
  /\ \A i, j \in 1..Len(Keys) : Keys[i] = Keys[j] => i = j
<1>1. Keys \in Seq(Sections)
  BY KeysAssumption
<1>2. Len(Keys) \in Nat /\ DOMAIN Keys = 1..Len(Keys) /\ \A i \in 1..Len(Keys) : Keys[i] \in Sections
  BY <1>1, SeqElements
<1> QED
  BY <1>2, KeysAssumption

LEMMA BackfillInitInv == Init => BackfillInv
<1> SUFFICES ASSUME Init PROVE BackfillInv
  OBVIOUS
<1>1. StoreTypeOK
  BY DEF Init, StoreInit, StoreTypeOK
<1>2. DOMAIN cur = {}
  BY DEF Init, IngestInit
<1>3. IngestInv
  <2>1. 1 \in 1..Len(Order) + 1
    <3>1. Len(Order) \in Nat
      BY OrderAssumption, SeqElements
    <3> QED
      BY <3>1
  <2>2. edits \in 0..MaxEdits
    BY OrderAssumption DEF Init, IngestInit
  <2>3. IngestTypeOK
    BY <1>2, <2>1, <2>2 DEF Init, IngestInit, IngestTypeOK
  <2>4. StoredHasNode
    BY DEF Init, IngestInit, StoredHasNode
  <2>5. NoOrphanParents
    BY DEF Init, StoreInit, NoOrphanParents
  <2> QED
    BY <2>3, <2>4, <2>5 DEF IngestInv
<1>4. ToolTypeOK
  <2>1. next \in 1..Len(Keys) + 1 /\ last \in 0..Len(Keys) /\ resume \in 0..Len(Keys)
    BY KeysAreSections DEF Init
  <2>2. calm \in BOOLEAN /\ complete \in BOOLEAN /\ mishap \in BOOLEAN
    BY DEF Init
  <2>3. rows \in [Sections -> [attrs : Attributes, edges : SUBSET Targets] \cup {None}]
    BY DEF Init, NoRows
  <2>4. bpc = "idle" /\ probed = None
    BY DEF Init
  <2> QED
    BY <2>1, <2>2, <2>3, <2>4 DEF ToolTypeOK
<1>5. /\ ~calm /\ ~complete /\ bpc = "idle" /\ next = 1 /\ last = 0
      /\ node = [s \in Sections |-> None]
  BY DEF Init, StoreInit
<1>6. DoneUpToResume /\ ReadIsCurrent /\ RowsAreWhole
  BY <1>5 DEF DoneUpToResume, ReadIsCurrent, RowsAreWhole
<1>7. BackfillCompletes /\ ProbeRestores
  BY <1>5 DEF BackfillCompletes, ProbeRestores
<1> QED
  BY <1>1, <1>3, <1>4, <1>6, <1>7 DEF BackfillInv

LEMMA IngestStepKeeps == BackfillInv /\ IngestStep => BackfillInv'
<1> SUFFICES ASSUME BackfillInv, IngestStep PROVE BackfillInv'
  OBVIOUS
<1>1. /\ StoreTypeOK /\ IngestInv /\ ToolTypeOK
      /\ DoneUpToResume /\ ReadIsCurrent /\ RowsAreWhole
      /\ BackfillCompletes /\ ProbeRestores
  BY DEF BackfillInv
<1>2. Ingest /\ UNCHANGED <<backfill, complete, mishap>> 
      /\ calm' = (calm /\ UNCHANGED <<node, derived>>)
  BY DEF IngestStep
<1>3. /\ StoreTypeOK' /\ IngestInv'
      /\ \A s \in Sections : node'[s] = node[s] \/ (node'[s] # None /\ node'[s].whole)
  BY <1>1, <1>2, IngestKeeps
<1>4. calm' \in BOOLEAN /\ (calm' => calm /\ UNCHANGED <<node, derived>>)
  BY <1>2
<1>5. UNCHANGED <<bpc, rows, next, last, resume, probed, complete, mishap>>
  BY <1>2 DEF backfill
<1>6. ToolTypeOK'
  BY <1>1, <1>4, <1>5 DEF ToolTypeOK
<1>7. DoneUpToResume'
  BY <1>1, <1>4, <1>5 DEF DoneUpToResume, HasItsKeys
<1>8. ReadIsCurrent'
  BY <1>1, <1>4, <1>5 DEF ReadIsCurrent, HasItsKeys
<1>9. RowsAreWhole'
  BY <1>1, <1>4, <1>5 DEF RowsAreWhole
<1>10. BackfillCompletes'
  BY <1>1, <1>4, <1>5 DEF BackfillCompletes
<1>11. ProbeRestores'
  BY <1>1, <1>3, <1>5 DEF ProbeRestores
<1> QED
  BY <1>3, <1>6, <1>7, <1>8, <1>9, <1>10, <1>11 DEF BackfillInv

\* A step that leaves the store and the ingestion alone.
LEMMA StoreAndIngestStay ==
  ASSUME BackfillInv, UNCHANGED <<store, site, ingest>>
  PROVE  StoreTypeOK' /\ IngestInv'
<1>1. UNCHANGED <<node, vectors, listed, parents, derived, text, edits, ipc, known, stored, pos, cur>>
  BY DEF store, site, ingest
<1> QED
  BY <1>1 DEF BackfillInv, StoreTypeOK, IngestInv, IngestTypeOK, StoredHasNode, Article,
     NoOrphanParents

\* A step in which the tool writes the node of a section.
LEMMA ToolWritesNode ==
  ASSUME BackfillInv, NEW s \in Sections, NEW v \in Attributes,
         node' = [node EXCEPT ![s] = v],
         UNCHANGED <<vectors, listed, parents, derived, site, ingest>>
  PROVE  /\ StoreTypeOK' /\ IngestInv' /\ node'[s] = v /\ node'[s] # None
         /\ \A t \in Sections : t # s => node'[t] = node[t]
<1>1. UNCHANGED <<vectors, listed, parents, derived, text, edits, ipc, known, stored, pos, cur>>
  BY DEF site, ingest
<1>2. node \in [Sections -> Attributes \cup {None}]
  BY DEF BackfillInv, StoreTypeOK
<1>3. /\ node'[s] = v /\ \A t \in Sections : t # s => node'[t] = node[t]
      /\ node' \in [Sections -> Attributes \cup {None}]
  BY <1>2
<1>4. \A t \in Sections : node[t] # None => node'[t] # None
  BY <1>3, NoneIsNone
<1>5. StoreTypeOK'
  BY <1>1, <1>3 DEF BackfillInv, StoreTypeOK
<1>6. IngestTypeOK'
  BY <1>1 DEF BackfillInv, IngestInv, IngestTypeOK
<1>7. StoredHasNode'
  <2>1. ipc \in {"vectors", "nodes", "edges"} =>
          Article \in Sections /\ cur[Article] \in Build
    BY ArticleUnderWay DEF BackfillInv
  <2>2. ipc \in {"vectors", "nodes", "edges"} =>
          cur[Article].parent \in Sections \cup {None}
    BY <2>1 DEF Build
  <2>3. Article' = Article
    BY <1>1 DEF Article
  <2> QED
    BY <1>1, <1>4, <2>1, <2>2, <2>3 DEF BackfillInv, IngestInv, StoredHasNode
<1>8. NoOrphanParents'
  <2> SUFFICES ASSUME NEW t \in Sections, NEW p \in parents[t] PROVE node'[p] # None
    BY <1>1 DEF NoOrphanParents
  <2>1. p \in Sections /\ node[p] # None
    BY DEF BackfillInv, StoreTypeOK, IngestInv, NoOrphanParents
  <2> QED
    BY <2>1, <1>4
<1> QED
  BY <1>3, <1>4, <1>5, <1>6, <1>7, <1>8, NoneIsNone DEF IngestInv

LEMMA BackfillBeginsKeeps ==
  ASSUME BackfillInv, NEW after \in 0..Len(Keys), BackfillBegins(after)
  PROVE  BackfillInv'
<1> DEFINE read == [s \in Sections |-> Read(s, after)]
<1>1. /\ bpc = "idle" /\ after \in {0, resume}
      /\ rows' = read /\ bpc' = "writing" /\ next' = after + 1
      /\ UNCHANGED <<store, site, ingest, last, resume, probed, mishap>>
  BY DEF BackfillBegins
<1>2. calm' = (after = 0 \/ calm) /\ complete' = FALSE
  BY DEF BackfillBegins
<1>3. calm' \in BOOLEAN /\ (calm' => after = 0 \/ calm) /\ ~complete' /\ complete' \in BOOLEAN
  BY <1>2
<1>4. StoreTypeOK' /\ IngestInv'
  BY <1>1, StoreAndIngestStay
<1>5. UNCHANGED <<node, derived>>
  BY <1>1 DEF store
<1>6. \A s \in Sections :
        /\ node[s] # None => [attrs |-> node[s], edges |-> derived[s]]
                               \in [attrs : Attributes, edges : SUBSET Targets]
        /\ read[s] = Read(s, after)
  BY DEF BackfillInv, StoreTypeOK
<1>7. \A s \in Sections : \/ read[s] = None
                          \/ /\ read[s] = [attrs |-> node[s], edges |-> derived[s]]
                             /\ read[s] # None /\ node[s] # None
                             /\ read[s] \in [attrs : Attributes, edges : SUBSET Targets]
  BY <1>6, NoneIsNone DEF Read
<1>8. ToolTypeOK'
  <2>1. rows' \in [Sections -> [attrs : Attributes, edges : SUBSET Targets] \cup {None}]
    BY <1>1, <1>7
  <2>2. next' \in 1..Len(Keys) + 1
    BY <1>1, KeysAreSections
  <2> QED
    BY <1>1, <1>3, <2>1, <2>2 DEF BackfillInv, ToolTypeOK
<1>9. DoneUpToResume'
  BY <1>1 DEF DoneUpToResume
<1>10. RowsAreWhole'
  BY <1>1, <1>3 DEF RowsAreWhole
<1>11. ReadIsCurrent'
  <2>1. last' < next'
    BY <1>1 DEF BackfillInv, ReadIsCurrent, ToolTypeOK
  <2> SUFFICES ASSUME calm'
               PROVE  /\ \A i \in 1..after : HasItsKeys(Keys[i])
                      /\ \A i \in after + 1..Len(Keys) :
                           IF read[Keys[i]] = None THEN HasItsKeys(Keys[i])
                           ELSE read[Keys[i]] = [attrs |-> node[Keys[i]],
                                                 edges |-> derived[Keys[i]]]
    <3>1. next' - 1 = after
      BY <1>1
    <3> HIDE DEF read
    <3> QED
      BY <1>1, <1>5, <2>1, <3>1 DEF ReadIsCurrent, HasItsKeys
  <2>2. \A i \in 1..after : HasItsKeys(Keys[i])
    BY <1>1, <1>3 DEF BackfillInv, DoneUpToResume
  <2>3. ASSUME NEW i \in after + 1..Len(Keys)
        PROVE  IF read[Keys[i]] = None THEN HasItsKeys(Keys[i])
               ELSE read[Keys[i]] = [attrs |-> node[Keys[i]], edges |-> derived[Keys[i]]]
    <3>1. i \in 1..Len(Keys) /\ i > after /\ Keys[i] \in Sections
      BY KeysAreSections
    <3>2. i \in DOMAIN Keys
      BY <3>1, SeqElements, KeysAssumption
    <3>3. node[Keys[i]] # None /\ node[Keys[i]].whole => read[Keys[i]] # None
      <4>1. node[Keys[i]] # None /\ node[Keys[i]].whole =>
              read[Keys[i]] = [attrs |-> node[Keys[i]], edges |-> derived[Keys[i]]]
        BY <3>1, <3>2 DEF Read
      <4> QED
        BY <1>6, <3>1, <4>1, NoneIsNone
    <3>4. CASE read[Keys[i]] = None
      BY <3>3, <3>4 DEF HasItsKeys
    <3>5. CASE read[Keys[i]] # None
      BY <1>7, <3>1, <3>5
    <3> HIDE DEF read
    <3> QED
      BY <3>4, <3>5
  <2> QED
    BY <2>2, <2>3
<1>12. BackfillCompletes'
  BY <1>3 DEF BackfillCompletes
<1>13. ProbeRestores'
  BY <1>1, <1>5 DEF BackfillInv, ProbeRestores
<1> QED
  BY <1>4, <1>8, <1>9, <1>10, <1>11, <1>12, <1>13 DEF BackfillInv

\* What the tool is going to write back.
LEMMA RowToWrite ==
  ASSUME BackfillInv, NEW s \in Sections, rows[s] # None
  PROVE  /\ rows[s].attrs \in Attributes /\ rows[s].edges \in SUBSET Targets
         /\ Rewritten(rows[s]) \in Attributes
         /\ Rewritten(rows[s]).keys = rows[s].edges
         /\ Rewritten(rows[s]).whole = rows[s].attrs.whole
<1>1. rows[s] \in [attrs : Attributes, edges : SUBSET Targets]
  BY DEF BackfillInv, ToolTypeOK
<1>2. rows[s].attrs \in Attributes /\ rows[s].edges \in SUBSET Targets
  BY <1>1
<1> QED
  BY <1>2 DEF Rewritten, Attributes

\* The tool ends a run or a probe; what it has to leave behind.
LEMMA ToolEnds ==
  ASSUME BackfillInv, Idle, StoreTypeOK', IngestInv',
         resume' \in 0..Len(Keys), calm' \in BOOLEAN, complete' \in BOOLEAN,
         mishap' \in BOOLEAN, DoneUpToResume', BackfillCompletes', ProbeRestores'
  PROVE  BackfillInv'
<1>1. bpc' = "idle" /\ rows' = [s \in Sections |-> None] /\ next' = 1 /\ last' = 0 /\ probed' = None
  BY DEF Idle, NoRows
<1>2. 1 \in 1..Len(Keys) + 1 /\ 0 \in 0..Len(Keys)
  BY KeysAreSections
<1>3. ToolTypeOK'
  BY <1>1, <1>2 DEF ToolTypeOK
<1>4. ReadIsCurrent' /\ RowsAreWhole'
  BY <1>1 DEF ReadIsCurrent, RowsAreWhole
<1> QED
  BY <1>3, <1>4 DEF BackfillInv

LEMMA WriteBatchKeeps == BackfillInv /\ WriteBatch => BackfillInv'
<1> SUFFICES ASSUME BackfillInv, WriteBatch PROVE BackfillInv'
  OBVIOUS
<1>0. next \in 1..Len(Keys)
  BY KeysAreSections DEF BackfillInv, ToolTypeOK, WriteBatch
<1>a. PICK s \in Sections : s = Keys[next]
  BY <1>0, KeysAreSections
<1>1. /\ bpc = "writing" /\ next <= Len(Keys) /\ Writable(rows[s])
      /\ UNCHANGED <<vectors, listed, parents, derived, site, ingest, calm, complete, mishap>>
      /\ \/ node' = [node EXCEPT ![s] = Rewritten(rows[s])] /\ (BatchDone \/ BatchFailed)
         \/ UNCHANGED node /\ BatchFailed
  BY <1>a DEF WriteBatch, series
<1>2. next \in 1..Len(Keys) /\ s = Keys[next]
  BY <1>0, <1>a
<1>3. rows[s] # None /\ rows[s].attrs.whole /\ ~complete
  BY <1>1 DEF BackfillInv, RowsAreWhole, Writable, NeedsUpdate
<1>4. calm => /\ \A i \in 1..next - 1 : HasItsKeys(Keys[i])
              /\ \A i \in next..Len(Keys) :
                   IF rows[Keys[i]] = None THEN HasItsKeys(Keys[i])
                   ELSE rows[Keys[i]] = [attrs |-> node[Keys[i]], edges |-> derived[Keys[i]]]
  BY <1>1 DEF BackfillInv, ReadIsCurrent
<1>5. calm => rows[s].edges = derived[s]
  <2>1. calm => rows[s] = [attrs |-> node[s], edges |-> derived[s]]
    BY <1>2, <1>3, <1>4
  <2> QED
    BY <2>1
<1>6. last \in 0..Len(Keys) /\ last < next
  BY DEF BackfillInv, ToolTypeOK, ReadIsCurrent
<1>7. CASE BatchFailed /\ UNCHANGED node
  <2>1. Idle /\ resume' = last /\ bpc' = "idle"
    BY <1>7 DEF BatchFailed, ResumeAfter, Idle
  <2>2. StoreTypeOK' /\ IngestInv'
    BY <1>1, <1>7, StoreAndIngestStay DEF store
  <2>3. DoneUpToResume'
    <3>1. UNCHANGED <<node, derived, calm>>
      BY <1>1, <1>7
    <3>2. \A i \in 1..last : i \in 1..next - 1
      BY <1>2, <1>6
    <3>3. calm => \A i \in 1..last : HasItsKeys(Keys[i])
      BY <1>4, <3>2
    <3>4. calm => \A i \in 1..last : HasItsKeys(Keys[i])'
      BY <3>1, <3>3 DEF HasItsKeys
    <3> QED
      BY <2>1, <3>1, <3>4 DEF DoneUpToResume
  <2>4. BackfillCompletes'
    BY <1>1, <1>3 DEF BackfillCompletes
  <2>5. ProbeRestores'
    BY <1>1, <1>7 DEF BackfillInv, ProbeRestores
  <2>6. calm' \in BOOLEAN /\ complete' \in BOOLEAN /\ mishap' \in BOOLEAN
    BY <1>1 DEF BackfillInv, ToolTypeOK
  <2> QED
    BY <1>6, <2>1, <2>2, <2>3, <2>4, <2>5, <2>6, ToolEnds
<1>8. CASE node' = [node EXCEPT ![s] = Rewritten(rows[s])] /\ (BatchDone \/ BatchFailed)
  <2>1. /\ Rewritten(rows[s]) \in Attributes /\ Rewritten(rows[s]).whole
        /\ Rewritten(rows[s]).keys = rows[s].edges
    BY <1>2, <1>3, RowToWrite
  <2>2. /\ StoreTypeOK' /\ IngestInv' /\ node'[s] = Rewritten(rows[s]) /\ node'[s] # None
        /\ \A t \in Sections : t # s => node'[t] = node[t]
    BY <1>1, <1>2, <1>8, <2>1, ToolWritesNode
  <2>3. node'[s] # None /\ node'[s].whole /\ node'[s].keys = rows[s].edges
    BY <2>1, <2>2
  <2>4. calm => HasItsKeys(s)' /\ \A t \in Sections : HasItsKeys(t) => HasItsKeys(t)'
    <3>1. UNCHANGED derived
      BY <1>1
    <3>2. calm => HasItsKeys(s)'
      BY <1>5, <2>3, <3>1 DEF HasItsKeys
    <3>3. ASSUME calm, NEW t \in Sections, HasItsKeys(t) PROVE HasItsKeys(t)'
      BY <2>2, <3>1, <3>2, <3>3 DEF HasItsKeys
    <3> QED
      BY <3>2, <3>3
  <2>5. ProbeRestores'
    <3> SUFFICES ASSUME NEW t \in Sections, node'[t] # None, ~node'[t].whole PROVE mishap
      BY <1>1 DEF ProbeRestores
    <3>1. t # s
      BY <2>3
    <3> QED
      BY <1>1, <2>2, <3>1 DEF BackfillInv, ProbeRestores
  <2>6. BackfillCompletes'
    BY <1>1, <1>3 DEF BackfillCompletes
  <2>7. calm' \in BOOLEAN /\ complete' \in BOOLEAN /\ mishap' \in BOOLEAN
    BY <1>1 DEF BackfillInv, ToolTypeOK
  <2>8. ASSUME BatchFailed PROVE BackfillInv'
    <3>1. Idle /\ resume' = last /\ bpc' = "idle"
      BY <2>8 DEF BatchFailed, ResumeAfter, Idle
    <3>2. \A i \in 1..last : i \in 1..next - 1 /\ Keys[i] \in Sections
      BY <1>2, <1>6, KeysAreSections
    <3>3. calm => \A i \in 1..last : HasItsKeys(Keys[i])'
      BY <1>4, <2>4, <3>2
    <3>4. DoneUpToResume'
      BY <1>1, <3>1, <3>3 DEF DoneUpToResume
    <3> QED
      BY <1>6, <2>2, <2>5, <2>6, <2>7, <3>1, <3>4, ToolEnds
  <2>9. ASSUME BatchDone PROVE BackfillInv'
    <3>1. /\ bpc' = "writing" /\ next' = next + 1 /\ last' = next
          /\ UNCHANGED <<rows, resume, probed>>
      BY <2>9 DEF BatchDone
    <3>2. ToolTypeOK'
      <4>1. next' \in 1..Len(Keys) + 1 /\ last' \in 0..Len(Keys)
        BY <1>2, <3>1, KeysAreSections
      <4> QED
        BY <2>7, <3>1, <4>1 DEF BackfillInv, ToolTypeOK
    <3>3. DoneUpToResume'
      BY <3>1 DEF DoneUpToResume
    <3>4. RowsAreWhole'
      BY <1>1, <3>1 DEF BackfillInv, RowsAreWhole
    <3>5. ReadIsCurrent'
      <4>1. last' < next'
        BY <1>2, <3>1
      <4>2. next' - 1 = next
        BY <1>2, <3>1
      <4>3. \A i \in 1..next : Keys[i] \in Sections /\ (i \in 1..next - 1 \/ Keys[i] = s)
        BY <1>2, KeysAreSections
      <4>4. calm => \A i \in 1..next : HasItsKeys(Keys[i])'
        BY <1>4, <2>4, <4>3
      <4>5. ASSUME calm, NEW i \in next + 1..Len(Keys)
            PROVE  IF rows[Keys[i]] = None THEN HasItsKeys(Keys[i])'
                   ELSE rows[Keys[i]] = [attrs |-> node'[Keys[i]], edges |-> derived[Keys[i]]]
        <5>1. i \in next..Len(Keys) /\ i # next /\ i \in 1..Len(Keys)
          BY <1>2, KeysAreSections
        <5>4. Keys[i] \in Sections
          BY <5>1, KeysAreSections
        <5>2. Keys[i] # s
          BY <1>2, <5>1, KeysAreSections
        <5>3. node'[Keys[i]] = node[Keys[i]]
          BY <2>2, <5>4, <5>2
        <5> QED
          BY <1>4, <2>4, <4>5, <5>1, <5>4, <5>3
      <4> QED
        BY <1>1, <2>4, <3>1, <4>1, <4>2, <4>4, <4>5 DEF ReadIsCurrent
    <3> QED
      BY <2>2, <2>5, <2>6, <3>2, <3>3, <3>4, <3>5 DEF BackfillInv
  <2> QED
    BY <1>8, <2>8, <2>9
<1> QED
  BY <1>1, <1>7, <1>8

LEMMA PassRowKeeps == BackfillInv /\ PassRow => BackfillInv'
<1> SUFFICES ASSUME BackfillInv, PassRow PROVE BackfillInv'
  OBVIOUS
<1>1. /\ bpc = "writing" /\ next <= Len(Keys) /\ ~Writable(rows[Keys[next]])
      /\ next' = next + 1
      /\ UNCHANGED <<store, site, ingest, bpc, rows, last, resume, probed, calm, complete, mishap>>
  BY DEF PassRow, series
<1>2. next \in 1..Len(Keys) /\ Len(Keys) \in Nat
  BY <1>1, KeysAreSections DEF BackfillInv, ToolTypeOK
<1>3. StoreTypeOK' /\ IngestInv'
  BY <1>1, StoreAndIngestStay
<1>4. ToolTypeOK'
  <2>1. next' \in 1..Len(Keys) + 1
    BY <1>1, <1>2
  <2> QED
    BY <1>1, <2>1 DEF BackfillInv, ToolTypeOK
<1>5. DoneUpToResume' /\ RowsAreWhole'
  BY <1>1 DEF BackfillInv, DoneUpToResume, RowsAreWhole
<1>6. ReadIsCurrent'
  <2>1. last' < next' /\ next' - 1 = next
    BY <1>1, <1>2 DEF BackfillInv, ReadIsCurrent, ToolTypeOK
  <2>2. UNCHANGED <<node, derived>>
    BY <1>1 DEF store
  <2>3. ASSUME calm
        PROVE  /\ \A i \in 1..next : HasItsKeys(Keys[i])
               /\ \A i \in next + 1..Len(Keys) :
                    IF rows[Keys[i]] = None THEN HasItsKeys(Keys[i])
                    ELSE rows[Keys[i]] = [attrs |-> node[Keys[i]], edges |-> derived[Keys[i]]]
    <3>1. /\ \A i \in 1..next - 1 : HasItsKeys(Keys[i])
          /\ \A i \in next..Len(Keys) :
               IF rows[Keys[i]] = None THEN HasItsKeys(Keys[i])
               ELSE rows[Keys[i]] = [attrs |-> node[Keys[i]], edges |-> derived[Keys[i]]]
      BY <1>1, <2>3 DEF BackfillInv, ReadIsCurrent
    <3>2. HasItsKeys(Keys[next])
      <4>0. IF rows[Keys[next]] = None THEN HasItsKeys(Keys[next])
            ELSE rows[Keys[next]] = [attrs |-> node[Keys[next]], edges |-> derived[Keys[next]]]
        <5>1. next \in next..Len(Keys)
          BY <1>2
        <5> QED
          BY <3>1, <5>1
      <4>1. CASE rows[Keys[next]] = None
        BY <4>0, <4>1
      <4>2. CASE rows[Keys[next]] # None
        <5>1. rows[Keys[next]].attrs.whole =>
                rows[Keys[next]].attrs.keys = rows[Keys[next]].edges
          BY <1>1, <4>2 DEF Writable, NeedsUpdate
        <5>2. rows[Keys[next]] = [attrs |-> node[Keys[next]], edges |-> derived[Keys[next]]]
          BY <4>0, <4>2
        <5> QED
          BY <5>1, <5>2 DEF HasItsKeys
      <4> QED
        BY <4>1, <4>2
    <3>3. \A i \in 1..next : i \in 1..next - 1 \/ i = next
      BY <1>2
    <3>4. \A i \in next + 1..Len(Keys) : i \in next..Len(Keys)
      BY <1>2
    <3> QED
      BY <3>1, <3>2, <3>3, <3>4
  <2> QED
    BY <1>1, <2>1, <2>2, <2>3 DEF ReadIsCurrent, HasItsKeys
<1>7. BackfillCompletes' /\ ProbeRestores'
  BY <1>1 DEF BackfillInv, BackfillCompletes, ProbeRestores, store
<1> QED
  BY <1>3, <1>4, <1>5, <1>6, <1>7 DEF BackfillInv

LEMMA BackfillEndsKeeps == BackfillInv /\ BackfillEnds => BackfillInv'
<1> SUFFICES ASSUME BackfillInv, BackfillEnds PROVE BackfillInv'
  OBVIOUS
<1>1. /\ bpc = "writing" /\ next > Len(Keys) /\ Idle /\ resume' = 0 /\ complete' = TRUE
      /\ UNCHANGED <<store, site, ingest, calm, mishap>>
  BY DEF BackfillEnds
<1>2. next - 1 = Len(Keys) /\ 0 \in 0..Len(Keys)
  BY <1>1, KeysAreSections DEF BackfillInv, ToolTypeOK
<1>3. StoreTypeOK' /\ IngestInv'
  BY <1>1, StoreAndIngestStay
<1>4. UNCHANGED <<node, derived>>
  BY <1>1 DEF store
<1>5. BackfillCompletes'
  <2> SUFFICES ASSUME calm, NEW s \in Sections PROVE HasItsKeys(s)
    BY <1>1, <1>4 DEF BackfillCompletes, HasItsKeys
  <2>1. PICK i \in 1..Len(Keys) : Keys[i] = s
    BY KeysAreSections
  <2>2. HasItsKeys(Keys[i])
    BY <1>1, <1>2 DEF BackfillInv, ReadIsCurrent
  <2> QED
    BY <2>1, <2>2
<1>6. ProbeRestores'
  BY <1>1, <1>4 DEF BackfillInv, ProbeRestores
<1>7. DoneUpToResume'
  BY <1>1 DEF DoneUpToResume
<1>8. calm' \in BOOLEAN /\ complete' \in BOOLEAN /\ mishap' \in BOOLEAN
  BY <1>1 DEF BackfillInv, ToolTypeOK
<1> QED
  BY <1>1, <1>2, <1>3, <1>5, <1>6, <1>7, <1>8, ToolEnds

LEMMA BackfillKilledKeeps == BackfillInv /\ BackfillKilled => BackfillInv'
<1> SUFFICES ASSUME BackfillInv, BackfillKilled PROVE BackfillInv'
  OBVIOUS
<1>1. /\ bpc # "idle" /\ Idle /\ resume' = 0
      /\ UNCHANGED <<store, site, ingest, calm, complete>>
  BY DEF BackfillKilled
<1>2. mishap' \in BOOLEAN /\ (mishap \/ bpc = "restoring" => mishap')
  BY DEF BackfillKilled, BackfillInv, ToolTypeOK
<1>3. StoreTypeOK' /\ IngestInv'
  BY <1>1, StoreAndIngestStay
<1>4. UNCHANGED <<node, derived>>
  BY <1>1 DEF store
<1>5. DoneUpToResume'
  BY <1>1 DEF DoneUpToResume
<1>6. BackfillCompletes'
  BY <1>1, <1>4 DEF BackfillInv, BackfillCompletes
<1>7. ProbeRestores'
  BY <1>2, <1>4 DEF BackfillInv, ProbeRestores
<1>8. calm' \in BOOLEAN /\ complete' \in BOOLEAN /\ 0 \in 0..Len(Keys)
  BY <1>1, KeysAreSections DEF BackfillInv, ToolTypeOK
<1> QED
  BY <1>1, <1>2, <1>3, <1>5, <1>6, <1>7, <1>8, ToolEnds

LEMMA ProbeBeginsKeeps ==
  ASSUME BackfillInv, NEW s \in Sections, ProbeBegins(s)
  PROVE  BackfillInv'
<1>1. /\ bpc = "idle" /\ node[s] # None /\ node[s].whole
      /\ rows' = [NoRows EXCEPT ![s] = Read(s, 0)] /\ probed' = s /\ bpc' = "probing"
      /\ UNCHANGED <<store, site, ingest, next, last, resume, calm, complete, mishap>>
  BY DEF ProbeBegins, series
<1>2. StoreTypeOK' /\ IngestInv'
  BY <1>1, StoreAndIngestStay
<1>3. node[s] \in Attributes /\ derived[s] \in SUBSET Targets
  BY <1>1 DEF BackfillInv, StoreTypeOK
<1>4. /\ Read(s, 0) \in [attrs : Attributes, edges : SUBSET Targets]
      /\ Read(s, 0).attrs = node[s]
  BY <1>1, <1>3 DEF Read
<1>5. /\ rows' \in [Sections -> [attrs : Attributes, edges : SUBSET Targets] \cup {None}]
      /\ rows'[s] = Read(s, 0)
  BY <1>1, <1>4 DEF NoRows
<1>6. ToolTypeOK'
  BY <1>1, <1>5 DEF BackfillInv, ToolTypeOK
<1>7. UNCHANGED <<node, derived>>
  BY <1>1 DEF store
<1>8. DoneUpToResume'
  BY <1>1, <1>7 DEF BackfillInv, DoneUpToResume, HasItsKeys
<1>9. ReadIsCurrent'
  BY <1>1 DEF BackfillInv, ReadIsCurrent
<1>10. RowsAreWhole'
  BY <1>1, <1>4, <1>5, NoneIsNone DEF RowsAreWhole
<1>11. BackfillCompletes' /\ ProbeRestores'
  BY <1>1, <1>7 DEF BackfillInv, BackfillCompletes, ProbeRestores
<1> QED
  BY <1>2, <1>6, <1>8, <1>9, <1>10, <1>11 DEF BackfillInv

LEMMA ProbeWritesKeeps == BackfillInv /\ ProbeWrites => BackfillInv'
<1> SUFFICES ASSUME BackfillInv, ProbeWrites PROVE BackfillInv'
  OBVIOUS
<1>1. /\ bpc = "probing" /\ bpc' = "restoring" /\ calm' = FALSE
      /\ UNCHANGED <<vectors, listed, parents, derived, site, ingest>>
      /\ UNCHANGED <<rows, next, last, resume, probed, complete, mishap>>
  BY DEF ProbeWrites
<1>2. /\ probed \in Sections /\ rows[probed] # None /\ rows[probed].attrs.whole
  BY <1>1 DEF BackfillInv, RowsAreWhole, ToolTypeOK
<1>3. PICK s \in Sections : s = probed
  BY <1>2
<1> DEFINE bare == [hash |-> None, whole |-> FALSE, keys |-> rows[s].edges]
<1>4. UNCHANGED node \/ node' = [node EXCEPT ![s] = bare]
  BY <1>3 DEF ProbeWrites
<1>5. bare \in Attributes
  <2>1. rows[s].edges \in SUBSET Targets
    BY <1>2, <1>3, RowToWrite
  <2> QED
    BY <2>1 DEF Attributes
<1> HIDE DEF bare
<1>6. /\ StoreTypeOK' /\ IngestInv'
      /\ \A t \in Sections : t # s => node'[t] = node[t]
  <2>1. CASE UNCHANGED node
    BY <1>1, <2>1, StoreAndIngestStay DEF store
  <2>2. CASE node' = [node EXCEPT ![s] = bare]
    BY <1>1, <1>5, <2>2, ToolWritesNode
  <2> QED
    BY <1>4, <2>1, <2>2
<1>7. ToolTypeOK'
  BY <1>1 DEF BackfillInv, ToolTypeOK
<1>8. DoneUpToResume' /\ BackfillCompletes'
  BY <1>1 DEF DoneUpToResume, BackfillCompletes
<1>9. ReadIsCurrent'
  BY <1>1 DEF BackfillInv, ReadIsCurrent
<1>10. RowsAreWhole'
  BY <1>1 DEF BackfillInv, RowsAreWhole
<1>11. ProbeRestores'
  BY <1>1, <1>3, <1>6 DEF BackfillInv, ProbeRestores
<1> QED
  BY <1>6, <1>7, <1>8, <1>9, <1>10, <1>11 DEF BackfillInv

LEMMA RestoreKeeps == BackfillInv /\ Restore => BackfillInv'
<1> SUFFICES ASSUME BackfillInv, Restore PROVE BackfillInv'
  OBVIOUS
<1>1. /\ bpc = "restoring" /\ Idle
      /\ UNCHANGED <<vectors, listed, parents, derived, site, ingest, resume, calm, complete>>
  BY DEF Restore
<1>2. probed \in Sections /\ rows[probed] # None /\ rows[probed].attrs.whole /\ ~calm
  BY <1>1 DEF BackfillInv, RowsAreWhole, ToolTypeOK
<1>3. PICK s \in Sections : s = probed
  BY <1>2
<1>4. \/ node' = [node EXCEPT ![s] = Rewritten(rows[s])] /\ UNCHANGED mishap
      \/ UNCHANGED node /\ mishap' = TRUE
  BY <1>3 DEF Restore
<1>5. Rewritten(rows[s]) \in Attributes /\ Rewritten(rows[s]).whole
  BY <1>2, <1>3, RowToWrite
<1>6. DoneUpToResume' /\ BackfillCompletes'
  BY <1>1, <1>2 DEF DoneUpToResume, BackfillCompletes
<1>7. resume' \in 0..Len(Keys) /\ calm' \in BOOLEAN /\ complete' \in BOOLEAN
  BY <1>1 DEF BackfillInv, ToolTypeOK
<1>8. mishap' \in BOOLEAN
  BY <1>4 DEF BackfillInv, ToolTypeOK
<1>9. CASE node' = [node EXCEPT ![s] = Rewritten(rows[s])] /\ UNCHANGED mishap
  <2>1. /\ StoreTypeOK' /\ IngestInv' /\ node'[s] = Rewritten(rows[s])
        /\ \A t \in Sections : t # s => node'[t] = node[t]
    BY <1>1, <1>5, <1>9, ToolWritesNode
  <2>2. ProbeRestores'
    <3> SUFFICES ASSUME NEW t \in Sections, node'[t] # None, ~node'[t].whole PROVE mishap
      BY <1>9 DEF ProbeRestores
    <3>1. t # s
      BY <1>5, <2>1
    <3> QED
      BY <1>3, <2>1, <3>1 DEF BackfillInv, ProbeRestores
  <2> QED
    BY <1>1, <1>6, <1>7, <1>8, <2>1, <2>2, ToolEnds
<1>10. CASE UNCHANGED node /\ mishap' = TRUE
  <2>1. StoreTypeOK' /\ IngestInv'
    BY <1>1, <1>10, StoreAndIngestStay DEF store
  <2>2. ProbeRestores'
    BY <1>10 DEF ProbeRestores
  <2> QED
    BY <1>1, <1>6, <1>7, <1>8, <2>1, <2>2, ToolEnds
<1> QED
  BY <1>4, <1>9, <1>10

\* The invariant of the tool and of the ingestion beside it, for any sections,
\* order of the articles, hubs, texts and concepts.
THEOREM BackfillInvHolds == Spec => []BackfillInv
<1>1. BackfillInv /\ Next => BackfillInv'
  <2> SUFFICES ASSUME BackfillInv, Next PROVE BackfillInv'
    OBVIOUS
  <2>1. CASE \E after \in 0..Len(Keys) : BackfillBegins(after)
    BY <2>1, BackfillBeginsKeeps
  <2>2. CASE \E s \in Sections : ProbeBegins(s)
    BY <2>2, ProbeBeginsKeeps
  <2> QED
    BY <2>1, <2>2, IngestStepKeeps, WriteBatchKeeps, PassRowKeeps, BackfillEndsKeeps,
       BackfillKilledKeeps, ProbeWritesKeeps, RestoreKeeps DEF Next
<1>2. BackfillInv /\ UNCHANGED vars => BackfillInv'
  <2> SUFFICES ASSUME BackfillInv, UNCHANGED vars PROVE BackfillInv'
    OBVIOUS
  <2>1. UNCHANGED <<store, site, ingest, bpc, rows, next, last, resume, probed, calm, complete,
                    mishap>>
    BY DEF vars, backfill, series
  <2>2. StoreTypeOK' /\ IngestInv'
    BY <2>1, StoreAndIngestStay
  <2>3. UNCHANGED <<node, derived>>
    BY <2>1 DEF store
  <2>4. ToolTypeOK' /\ RowsAreWhole'
    BY <2>1 DEF BackfillInv, ToolTypeOK, RowsAreWhole
  <2>5. DoneUpToResume' /\ ReadIsCurrent'
    BY <2>1, <2>3 DEF BackfillInv, DoneUpToResume, ReadIsCurrent, HasItsKeys
  <2>6. BackfillCompletes' /\ ProbeRestores'
    BY <2>1, <2>3 DEF BackfillInv, BackfillCompletes, ProbeRestores
  <2> QED
    BY <2>2, <2>4, <2>5, <2>6 DEF BackfillInv
<1> QED
  BY <1>1, <1>2, BackfillInitInv, PTL DEF Spec

\* No edge leads from a hub that is not in the store, however hubs fail and
\* succeed from run to run (ingest_alarmcom.rs, resolve_parent_edge_slug).
THEOREM NoOrphanParentsAlways == Spec => []NoOrphanParents
<1>1. BackfillInv => NoOrphanParents
  BY DEF BackfillInv, IngestInv
<1> QED
  BY <1>1, BackfillInvHolds, PTL

\* A series of runs, each after the batch the one before named, leaves no section
\* out that has its attributes, unless somebody else has written in between; the
\* incomplete ones it skips while they are few, for any number of sections and any
\* ratio (backfill_concept_keys.rs, exceeds_skip_threshold, write_backfill).
THEOREM BackfillCompletesAlways == Spec => []BackfillCompletes
<1>1. BackfillInv => BackfillCompletes
  BY DEF BackfillInv
<1> QED
  BY <1>1, BackfillInvHolds, PTL

\* A probe that is neither killed nor fails to restore leaves its section with
\* its attributes, and nothing else takes them (backfill_concept_keys.rs,
\* run_probe_one).
THEOREM ProbeRestoresAlways == Spec => []ProbeRestores
<1>1. BackfillInv => ProbeRestores
  BY DEF BackfillInv
<1> QED
  BY <1>1, BackfillInvHolds, PTL
=============================================================================

------------------------- MODULE MCConceptBackfill --------------------------
(* Model of ConceptBackfill and AlarmcomIngest for TLC: a hub and an article *)
(* below it that comes first in the order of the keys, two texts, one        *)
(* concept; one edit of the site.  Texts are interchangeable.                *)
EXTENDS ConceptBackfill, TLC

CONSTANTS hub, article

Interchangeable == Permutations(Hashes)

MCOrder == <<hub, article>>
MCKeys == <<article, hub>>
MCParent == [s \in {hub, article} |-> IF s = article THEN hub ELSE None]

\* Vectors are only written: nothing the tools do depends on them.
WithoutVectors == <<node, listed, parents, derived, site, ingest, backfill, series>>
=============================================================================

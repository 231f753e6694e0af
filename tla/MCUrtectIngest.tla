--------------------------- MODULE MCUrtectIngest ---------------------------
(* Model of UrtectIngest for TLC: two pages and one below the second, which *)
(* comes to be below the first when the second cannot be fetched, and may   *)
(* be taken from the site; two texts, one of which describes a product.     *)
EXTENDS UrtectIngest

CONSTANTS first, second, below, plain, other, product

MCSections == {first, second, below}
MCTexts == {plain, other}
At(p, d) == [page |-> p, depth |-> d]
MCNavs ==
  {<<At(first, 0), At(second, 0), At(below, 1)>>,
   <<At(first, 0), At(second, 0)>>}
MCHashes == [text : MCTexts, parent : MCSections \cup {None}, order : 1..3]
MCProducts == [t \in MCTexts |-> IF t = other THEN {product} ELSE {}]
=============================================================================

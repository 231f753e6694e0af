----------------------------- MODULE MCTtlCaches ----------------------------
(* Model of TtlCaches for TLC: one key of each cache and two requests that  *)
(* may read at once.  A fetch takes up to two ticks, as long as a TTL,       *)
(* and the token expires while it is cached.                               *)
EXTENDS TtlCaches

CONSTANTS allowlist, corpus, token

MCKeys == {allowlist, corpus, token}
MCTtl == [k \in MCKeys |-> 2]
MCLifetime == [k \in {token} |-> 3]
=============================================================================

---------------------------- MODULE MCAuthServer ----------------------------
(* Model of AuthServer for TLC: two logins and three requests over a map of *)
(* two entries, so that it fills up with states and codes, is pruned and    *)
(* opens again; states live longer than codes, the clock passes both.       *)
(* Logins and requests are interchangeable, and no property here is about   *)
(* liveness.                                                               *)
EXTENDS AuthServer, TLC

Interchangeable == Permutations(Logins) \cup Permutations(Requests)
=============================================================================

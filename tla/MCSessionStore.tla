--------------------------- MODULE MCSessionStore ---------------------------
(* Model of SessionStore for TLC: a map of one entry, two users and three   *)
(* events: one user's session is in the way of the other's, who writes      *)
(* again while the first message is still being handled.                    *)
EXTENDS SessionStore
=============================================================================

--------------------------- MODULE MCWormAuditLog ---------------------------
(* Model of WormAuditLog for TLC: two threads, three events, so that one   *)
(* append can fail, one follow it in the same or the next process, and one *)
(* more land behind a repaired or reopened file.                           *)
EXTENDS WormAuditLog
=============================================================================

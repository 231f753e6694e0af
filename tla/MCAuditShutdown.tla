-------------------------- MODULE MCAuditShutdown --------------------------
(* Model of AuditShutdown for TLC: the two logs of homesec_advisor, two     *)
(* requests.                                                               *)
EXTENDS AuditShutdown
=============================================================================

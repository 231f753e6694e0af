----------------------------- MODULE AuditTrail -----------------------------
(***************************************************************************)
(* What the WORM audit log promises its callers, without files, hashes or  *)
(* locks: a trail of events that only grows, in which an event stands at   *)
(* most once, and an acknowledgement ("append returned Ok") that is given  *)
(* only in the very step that makes the event permanent.                   *)
(*                                                                         *)
(* WormAuditLog implements this specification under the mapping given      *)
(* there (trail = the complete lines that survive a crash).                *)
(***************************************************************************)
EXTENDS Sequences, Functions

CONSTANT Event

VARIABLES trail,  \* the permanent events, oldest first
          acked   \* the events whose append returned Ok

Init ==
  /\ trail = <<>>
  /\ acked = {}

\* An event becomes permanent and its caller is told so.
RecordAcknowledged(e) ==
  /\ e \notin Range(trail)
  /\ trail' = Append(trail, e)
  /\ acked' = acked \cup {e}

\* An event becomes permanent although its caller got an error, or no answer.
RecordUnacknowledged(e) ==
  /\ e \notin Range(trail)
  /\ trail' = Append(trail, e)
  /\ UNCHANGED acked

Next == \E e \in Event : RecordAcknowledged(e) \/ RecordUnacknowledged(e)

Spec == Init /\ [][Next]_<<trail, acked>>
=============================================================================

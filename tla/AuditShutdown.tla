--------------------------- MODULE AuditShutdown ---------------------------
(***************************************************************************)
(* shutdown.rs, health.rs and the end of main.rs / homesec_advisor.rs: how *)
(* one process that owns several audit logs notices that one of them is    *)
(* poisoned, stops accepting, drains, and exits so that the restart checks *)
(* the file again.                                                         *)
(*                                                                         *)
(* Of a log only what the others can see is kept: its flag, its watch      *)
(* value, and whether its mutex is poisoned (WormAuditLog has the rest).   *)
(* The plain and the TLS listener differ only in who holds the grace timer *)
(* (a spawned task, or axum_server's Handle), so one model stands for      *)
(* both.  Time is the order of events: the timer fires at some moment      *)
(* after it was started.  The names leave those of WormAuditLog alone: one *)
(* process has both.                                                       *)
(***************************************************************************)
EXTENDS Naturals, Sequences

CONSTANTS Log,      \* the audit logs of the process
          Request,  \* the requests of one behaviour
          NoLog     \* nothing was reported yet

ASSUME NoLogAssumption == NoLog \notin Log

VARIABLES
  mutexesPoisoned,  \* per log: a panic happened under its mutex
  flags,            \* per log: the AtomicBool
  watch,            \* per log: the value of the watch channel
  watcher,          \* per log: its task in wait_for_any_poisoned
  inbox,            \* the mpsc channel of capacity 1
  reported,         \* the log whose path the receiver returned
  timer,            \* the grace timer
  phase,            \* serving, draining, exited
  request           \* per request: where it is

logs         == <<mutexesPoisoned, flags, watch>>
monitor      == <<watcher, inbox, reported>>
server       == <<timer, phase, request>>
shutdownVars == <<logs, monitor, server>>

ShutdownInit ==
  /\ mutexesPoisoned = [l \in Log |-> FALSE]
  /\ flags = [l \in Log |-> FALSE]
  /\ watch = [l \in Log |-> FALSE]
  /\ watcher = [l \in Log |-> "unsubscribed"]
  /\ inbox = <<>>
  /\ reported = NoLog
  /\ timer = "off"
  /\ phase = "serving"
  /\ request = [r \in Request |-> "none"]

-----------------------------------------------------------------------------
(* Requests and what they do to the logs.                                  *)

Accept(r) ==
  /\ phase = "serving"
  /\ request[r] = "none"
  /\ request' = [request EXCEPT ![r] = "open"]
  /\ UNCHANGED <<logs, monitor, timer, phase>>

\* Answered, or given up by the client.
Finish(r) ==
  /\ request[r] = "open"
  /\ request' = [request EXCEPT ![r] = "finished"]
  /\ UNCHANGED <<logs, monitor, timer, phase>>

\* append panics while it holds the mutex: visible to the health handler, but
\* nobody is told.
AppendPanics(r, l) ==
  /\ request[r] = "open"
  /\ ~flags[l] /\ ~mutexesPoisoned[l]
  /\ mutexesPoisoned' = [mutexesPoisoned EXCEPT ![l] = TRUE]
  /\ UNCHANGED <<flags, watch, monitor, server>>

\* Mutant: mark_poisoned sends without raising the flag.
AppendOnlySends(r, l) ==
  /\ request[r] = "open"
  /\ ~flags[l]
  /\ watch' = [watch EXCEPT ![l] = TRUE]
  /\ UNCHANGED <<mutexesPoisoned, flags, monitor, server>>

\* append fails to persist, or finds the mutex poisoned: mark_poisoned swaps
\* the flag ...
AppendRaisesFlag(r, l) ==
  /\ request[r] = "open"
  /\ ~flags[l]
  /\ flags' = [flags EXCEPT ![l] = TRUE]
  /\ UNCHANGED <<mutexesPoisoned, watch, monitor, server>>

\* ... and then sends, whatever became of the request: append runs on the
\* blocking pool.
SendWatch(l) ==
  /\ phase # "exited"
  /\ flags[l] /\ ~watch[l]
  /\ watch' = [watch EXCEPT ![l] = TRUE]
  /\ UNCHANGED <<mutexesPoisoned, flags, monitor, server>>

-----------------------------------------------------------------------------
(* wait_for_any_poisoned.                                                  *)

\* The signal future is polled for the first time: one task per log.  The
\* listener may already be accepting.
Subscribe ==
  /\ phase # "exited"
  /\ \A l \in Log : watcher[l] = "unsubscribed"
  /\ watcher' = [l \in Log |-> "waiting"]
  /\ UNCHANGED <<logs, inbox, reported, server>>

\* wait_for returns at once when the value is already true.
WatcherWakes(l) ==
  /\ phase # "exited"
  /\ watcher[l] = "waiting" /\ watch[l]
  /\ watcher' = [watcher EXCEPT ![l] = "sending"]
  /\ UNCHANGED <<logs, inbox, reported, server>>

\* tx.send: waits for room while the receiver lives, fails once it is gone;
\* the failure is ignored.
WatcherSends(l) ==
  /\ phase # "exited"
  /\ watcher[l] = "sending"
  /\ \/ reported = NoLog /\ inbox = <<>> /\ inbox' = <<l>>
     \/ reported # NoLog /\ UNCHANGED inbox
  /\ watcher' = [watcher EXCEPT ![l] = "done"]
  /\ UNCHANGED <<logs, reported, server>>

\* Mutant: the signal returns without starting the grace timer.
ReportWithoutTimer ==
  /\ phase = "serving"
  /\ inbox # <<>>
  /\ reported' = Head(inbox) /\ inbox' = Tail(inbox)
  /\ phase' = "draining"
  /\ UNCHANGED <<logs, watcher, timer, request>>

\* rx.recv: the first path is reported, the receiver is dropped, the grace
\* timer starts and the listener stops accepting.
Report ==
  /\ phase = "serving"
  /\ inbox # <<>>
  /\ reported' = Head(inbox) /\ inbox' = Tail(inbox)
  /\ timer' = "running"
  /\ phase' = "draining"
  /\ UNCHANGED <<logs, watcher, request>>

-----------------------------------------------------------------------------
(* The end of the process.                                                 *)

TimerFires ==
  /\ phase # "exited"
  /\ timer = "running"
  /\ timer' = "elapsed"
  /\ UNCHANGED <<logs, monitor, phase, request>>

Exit ==
  /\ phase' = "exited"
  /\ request' = [r \in Request |-> IF request[r] = "open" THEN "cut" ELSE request[r]]
  /\ UNCHANGED <<logs, monitor, timer>>

\* Mutant: the process exits as soon as it is told.
ServeReturnsAtOnce == phase = "draining" /\ Exit

\* The server has drained and main goes on to process::exit.
ServeReturns ==
  /\ phase = "draining"
  /\ \A r \in Request : request[r] # "open"
  /\ Exit

\* The grace period is over: exit, whatever is still open.
ForcedExit ==
  /\ phase = "draining"
  /\ timer = "elapsed"
  /\ Exit

ShutdownNext ==
  \/ \E r \in Request : Accept(r) \/ Finish(r)
  \/ \E r \in Request, l \in Log : AppendPanics(r, l) \/ AppendRaisesFlag(r, l)
  \/ \E l \in Log : SendWatch(l) \/ WatcherWakes(l) \/ WatcherSends(l)
  \/ Subscribe \/ Report
  \/ TimerFires \/ ServeReturns \/ ForcedExit

\* Tasks and timers of the runtime run; a request may stay open for ever.
Fairness ==
  /\ \A l \in Log : /\ WF_shutdownVars(SendWatch(l))
                    /\ WF_shutdownVars(WatcherWakes(l))
                    /\ WF_shutdownVars(WatcherSends(l))
  /\ WF_shutdownVars(Subscribe) /\ WF_shutdownVars(Report)
  /\ WF_shutdownVars(TimerFires) /\ WF_shutdownVars(ServeReturns) /\ WF_shutdownVars(ForcedExit)

ShutdownSpec == ShutdownInit /\ [][ShutdownNext]_shutdownVars /\ Fairness

-----------------------------------------------------------------------------
\* Every variable has its type; the channel holds at most one path.
ShutdownTypeOK ==
  /\ mutexesPoisoned \in [Log -> BOOLEAN]
  /\ flags \in [Log -> BOOLEAN]
  /\ watch \in [Log -> BOOLEAN]
  /\ watcher \in [Log -> {"unsubscribed", "waiting", "sending", "done"}]
  /\ inbox \in Seq(Log) /\ Len(inbox) <= 1
  /\ reported \in Log \cup {NoLog}
  /\ timer \in {"off", "running", "elapsed"}
  /\ phase \in {"serving", "draining", "exited"}
  /\ request \in [Request -> {"none", "open", "finished", "cut"}]

\* health_handler answers 503.
Unhealthy == \E l \in Log : flags[l] \/ mutexesPoisoned[l]

\* A process stops for a log that is poisoned and already says so: when the
\* drain begins, the health handler has been answering 503, and the path in the
\* error log names a log whose flag is up.
StopsForAPoisonedLog ==
  phase # "serving" => Unhealthy /\ reported \in Log /\ flags[reported]

\* No request is cut off before the grace period is over.
CutOnlyAfterGrace ==
  (\E r \in Request : request[r] = "cut") => timer = "elapsed"

\* Only a log whose flag is up has sent, has woken its watcher or is in the
\* channel.
SentAfterFlag ==
  /\ \A l \in Log : watch[l] \/ watcher[l] \in {"sending", "done"} => flags[l]
  /\ inbox # <<>> => flags[Head(inbox)]

\* The timer is off exactly while the listener accepts.
TimerStartsTheDrain == phase = "serving" <=> timer = "off"

ShutdownInv ==
  /\ ShutdownTypeOK /\ SentAfterFlag /\ TimerStartsTheDrain
  /\ StopsForAPoisonedLog /\ CutOnlyAfterGrace

\* A poisoned log ends the process: whichever log it is, whether the poisoning
\* comes before or after the tasks subscribe, however many logs fail together,
\* and although requests may stay open for ever.
PoisonLeadsToExit == \A l \in Log : flags[l] ~> phase = "exited"
=============================================================================

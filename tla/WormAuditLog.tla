---------------------------- MODULE WormAuditLog ----------------------------
(***************************************************************************)
(* harness/audit.rs: one WormAuditLog of one process, the file behind it,  *)
(* and the process's stops and restarts.                                   *)
(*                                                                         *)
(* The file is a sequence of lines.  A line carries the event it records,  *)
(* the prev_hash it was written with, and its form: "whole" (complete,     *)
(* with its newline), "noeol" (complete JSON, newline missing) or          *)
(* "partial" (a fragment that is not JSON).  The first `durable` lines are *)
(* on stable storage; what lies behind them is only buffered, and a stop   *)
(* of the process may lose it, keep it, or keep a piece of it.             *)
(*                                                                         *)
(* SHA-256 is taken to be collision free: the hash of a line is the        *)
(* sequence of the events it commits to, oldest first.                     *)
(***************************************************************************)
EXTENDS Integers, Sequences, Functions

CONSTANTS Thread,    \* blocking-pool threads that call append
          Event,     \* the events of one behaviour (fresh uuids)
          NoThread,  \* nobody holds the mutex
          NoEvent    \* the thread is not inside append

ASSUME NoThreadAssumption == NoThread \notin Thread
ASSUME NoEventAssumption  == NoEvent \notin Event

VARIABLES
  file,           \* the lines a reader of the file sees
  durable,        \* how many of them survive a stop of the process
  running,        \* the process is up and has opened the log
  prevHash,       \* the hash inside ChainState::Verified
  poisoned,       \* ChainState::Poisoned
  flag,           \* the AtomicBool read by the health handler
  sends,          \* values sent on the watch channel by this process
  holder,         \* the thread that holds the state mutex
  mutexPoisoned,  \* a thread panicked while it held the mutex
  pc,             \* where each thread is inside append
  ev,             \* the event each thread is appending
  outcome         \* what the caller of each append was told

disk   == <<file, durable>>
memory == <<running, prevHash, poisoned, flag, sends, holder, mutexPoisoned>>
calls  == <<pc, ev, outcome>>
vars   == <<disk, memory, calls>>

-----------------------------------------------------------------------------
(* The hash chain.                                                         *)

Form == {"whole", "noeol", "partial"}

Line == [prev : Seq(Event), event : Event, form : Form]

GenesisHash == <<>>

LineHash(l) == Append(l.prev, l.event)

\* The prev_hash that line i of a good file carries.
HashBefore(f, i) == IF i = 1 THEN GenesisHash ELSE LineHash(f[i - 1])

\* The hash verify_chain returns for the last line.
ChainHead(f) == HashBefore(f, Len(f) + 1)

\* verify_chain: every line is JSON and continues the chain.  Its line reader
\* accepts a last line without a newline.
ChainVerifies(f) ==
  \A i \in 1..Len(f) :
    /\ f[i].form # "partial"
    /\ f[i].form = "noeol" => i = Len(f)
    /\ f[i].prev = HashBefore(f, i)

\* A file in which every line continues the line before it and only the last
\* one may be incomplete.
Chained(f) ==
  \A i \in 1..Len(f) :
    /\ f[i].prev = HashBefore(f, i)
    /\ f[i].form # "whole" => i = Len(f)

\* verify_trailing_newline: the check that follows verify_chain.
EndsWithNewline(f) == f # <<>> => f[Len(f)].form = "whole"

\* Text appended behind a line without a newline becomes part of that line,
\* which is then no JSON document any more.
AppendText(f, l) ==
  IF EndsWithNewline(f) THEN Append(f, l)
  ELSE [f EXCEPT ![Len(f)].form = "partial"]

-----------------------------------------------------------------------------
Init ==
  /\ file = <<>> /\ durable = 0
  /\ running = FALSE
  /\ prevHash = GenesisHash
  /\ poisoned = FALSE /\ flag = FALSE /\ sends = 0
  /\ holder = NoThread /\ mutexPoisoned = FALSE
  /\ pc = [t \in Thread |-> "idle"]
  /\ ev = [t \in Thread |-> NoEvent]
  /\ outcome = [e \in Event |-> "none"]

\* Mutant: open without verify_trailing_newline.
OpenWithoutNewlineCheck ==
  /\ ~running /\ ChainVerifies(file)
  /\ running' = TRUE /\ prevHash' = ChainHead(file)
  /\ UNCHANGED <<disk, poisoned, flag, sends, holder, mutexPoisoned, calls>>

\* Mutant: open starts a new chain instead of failing on a bad file.
OpenStartingAfresh ==
  /\ ~running
  /\ IF ChainVerifies(file) /\ EndsWithNewline(file) THEN UNCHANGED disk
     ELSE file' = <<>> /\ durable' = 0
  /\ running' = TRUE /\ prevHash' = ChainHead(file')
  /\ UNCHANGED <<poisoned, flag, sends, holder, mutexPoisoned, calls>>

(* WormAuditLog::open.  A file that fails either check stops the start.    *)
Open ==
  /\ ~running
  /\ ChainVerifies(file)
  /\ EndsWithNewline(file)
  /\ running' = TRUE
  /\ prevHash' = ChainHead(file)
  /\ poisoned' = FALSE /\ flag' = FALSE /\ sends' = 0
  /\ holder' = NoThread /\ mutexPoisoned' = FALSE
  /\ UNCHANGED <<disk, calls>>

\* mark_poisoned: whoever turns the flag sends, once.
MarkPoisoned ==
  /\ flag' = TRUE
  /\ sends' = IF flag THEN sends ELSE sends + 1

Return(t, answer) ==
  /\ pc' = [pc EXCEPT ![t] = "idle"]
  /\ ev' = [ev EXCEPT ![t] = NoEvent]
  /\ outcome' = [outcome EXCEPT ![ev[t]] = answer]

(* append, up to the point where the mutex is held on a verified chain.    *)
AppendLock(t, e) ==
  /\ running /\ pc[t] = "idle" /\ outcome[e] = "none"
  /\ holder = NoThread /\ ~mutexPoisoned
  /\ ~poisoned
  /\ holder' = t
  /\ pc' = [pc EXCEPT ![t] = "locked"]
  /\ ev' = [ev EXCEPT ![t] = e]
  /\ outcome' = [outcome EXCEPT ![e] = "running"]
  /\ UNCHANGED <<disk, running, prevHash, poisoned, flag, sends, mutexPoisoned>>

\* Mutant: append writes the line before it asks for the chain state.
AppendRefusedAfterWrite(t, e) ==
  /\ running /\ pc[t] = "idle" /\ outcome[e] = "none"
  /\ holder = NoThread /\ ~mutexPoisoned
  /\ poisoned
  /\ file' = AppendText(file, [prev |-> prevHash, event |-> e, form |-> "whole"])
  /\ outcome' = [outcome EXCEPT ![e] = "refused"]
  /\ UNCHANGED <<durable, memory, pc, ev>>

\* append on a poisoned chain: an error, and no I/O.
AppendRefused(t, e) ==
  /\ running /\ pc[t] = "idle" /\ outcome[e] = "none"
  /\ holder = NoThread /\ ~mutexPoisoned
  /\ poisoned
  /\ outcome' = [outcome EXCEPT ![e] = "refused"]
  /\ UNCHANGED <<disk, memory, pc, ev>>

\* append finds the mutex poisoned by a panic: an error, and the transition is
\* published now, because the panic itself could not be observed.
AppendMutexPoisoned(t, e) ==
  /\ running /\ pc[t] = "idle" /\ outcome[e] = "none"
  /\ holder = NoThread /\ mutexPoisoned
  /\ MarkPoisoned
  /\ outcome' = [outcome EXCEPT ![e] = "refused"]
  /\ UNCHANGED <<disk, running, prevHash, poisoned, holder, mutexPoisoned, pc, ev>>

NewLine(t, form) == [prev |-> prevHash, event |-> ev[t], form |-> form]

\* write_all returned Ok: the whole line is in the file, not yet durable.
AppendWrite(t) ==
  /\ pc[t] = "locked"
  /\ file' = AppendText(file, NewLine(t, "whole"))
  /\ pc' = [pc EXCEPT ![t] = "written"]
  /\ UNCHANGED <<durable, memory, ev, outcome>>

Poison ==
  /\ poisoned' = TRUE
  /\ MarkPoisoned

\* write_all failed: nothing or a piece of the line reached the file.
AppendWriteFails(t) ==
  /\ pc[t] = "locked"
  /\ \/ UNCHANGED file
     \/ \E form \in Form \ {"whole"} : file' = AppendText(file, NewLine(t, form))
  /\ Poison
  /\ holder' = NoThread
  /\ Return(t, "failed")
  /\ UNCHANGED <<durable, running, prevHash, mutexPoisoned>>

\* Mutant: a failed fsync leaves the chain Verified.
AppendSyncFailsUnpoisoned(t) ==
  /\ pc[t] = "written"
  /\ durable' \in {durable, Len(file)}
  /\ holder' = NoThread
  /\ Return(t, "failed")
  /\ UNCHANGED <<file, running, prevHash, poisoned, flag, sends, mutexPoisoned>>

\* flush or sync_all failed: nobody knows whether the line is durable.
AppendSyncFails(t) ==
  /\ pc[t] = "written"
  /\ durable' \in {durable, Len(file)}
  /\ Poison
  /\ holder' = NoThread
  /\ Return(t, "failed")
  /\ UNCHANGED <<file, running, prevHash, mutexPoisoned>>

\* flush and sync_all succeeded: the chain advances, the caller gets the id.
AppendSync(t) ==
  /\ pc[t] = "written"
  /\ durable' = Len(file)
  /\ prevHash' = Append(prevHash, ev[t])
  /\ holder' = NoThread
  /\ Return(t, "ok")
  /\ UNCHANGED <<file, running, poisoned, flag, sends, mutexPoisoned>>

\* A panic while the guard is alive poisons the mutex and unlocks it.
Panic(t) ==
  /\ pc[t] # "idle"
  /\ mutexPoisoned' = TRUE
  /\ holder' = NoThread
  /\ Return(t, "failed")
  /\ UNCHANGED <<disk, running, prevHash, poisoned, flag, sends>>

Torn(form) == IF form = "whole" THEN {"noeol", "partial"} ELSE {"partial"}

\* What a stop may leave of the file: the durable lines, and behind them any
\* prefix of the buffered bytes.
Survivors ==
  {SubSeq(file, 1, k) : k \in durable..Len(file)}
    \cup UNION {{Append(SubSeq(file, 1, k - 1), [file[k] EXCEPT !.form = form]) :
                   form \in Torn(file[k].form)} : k \in durable + 1..Len(file)}

\* The process ends: a crash, a kill by the platform, or its own exit after
\* poisoning.  Whoever was inside append never gets an answer.
Stop ==
  /\ running
  /\ running' = FALSE
  /\ file' \in Survivors
  /\ durable' = Len(file')
  /\ poisoned' = FALSE /\ flag' = FALSE /\ sends' = 0
  /\ holder' = NoThread /\ mutexPoisoned' = FALSE
  /\ prevHash' = GenesisHash
  /\ pc' = [t \in Thread |-> "idle"]
  /\ ev' = [t \in Thread |-> NoEvent]
  /\ outcome' = [e \in Event |-> IF outcome[e] = "running" THEN "lost" ELSE outcome[e]]

\* The operator follows the recovery runbook on a file that does not open: a
\* fragment that is no JSON is cut off, a missing newline is added.
OperatorRepair ==
  /\ ~running
  /\ ~EndsWithNewline(file)
  /\ \/ /\ file[Len(file)].form = "partial"
        /\ file' = SubSeq(file, 1, Len(file) - 1)
     \/ /\ file[Len(file)].form = "noeol"
        /\ ChainVerifies(file)
        /\ file' = [file EXCEPT ![Len(file)].form = "whole"]
  /\ durable' = Len(file')
  /\ UNCHANGED <<memory, calls>>

Next ==
  \/ Open
  \/ \E t \in Thread, e \in Event :
       AppendLock(t, e) \/ AppendRefused(t, e) \/ AppendMutexPoisoned(t, e)
  \/ \E t \in Thread :
       AppendWrite(t) \/ AppendWriteFails(t) \/ AppendSyncFails(t)
         \/ AppendSync(t) \/ Panic(t)
  \/ Stop
  \/ OperatorRepair

Spec == Init /\ [][Next]_vars

-----------------------------------------------------------------------------
Outcome == {"none", "running", "ok", "failed", "refused", "lost"}

\* Every variable has its type.
TypeOK ==
  /\ file \in Seq(Line)
  /\ durable \in 0..Len(file)
  /\ prevHash \in Seq(Event)
  /\ sends \in Nat
  /\ running \in BOOLEAN /\ poisoned \in BOOLEAN
  /\ flag \in BOOLEAN /\ mutexPoisoned \in BOOLEAN
  /\ holder \in Thread \cup {NoThread}
  /\ pc \in [Thread -> {"idle", "locked", "written"}]
  /\ ev \in [Thread -> Event \cup {NoEvent}]
  /\ outcome \in [Event -> Outcome]

\* The file never forks: each line continues the line before it, whatever was
\* written by earlier processes, half-written by a failing disk or lost by a
\* stop, and only the last line can be incomplete.  (append's doc comment, the
\* reason for ChainState::Poisoned; the runbook's "only the last line".)
ChainNeverForks == Chained(file)

Recorded(e, n) == \E i \in 1..n : file[i].event = e /\ file[i].form = "whole"

\* "append succeeded" is "the event is durable": an event whose append
\* returned Ok is a complete line on stable storage, and stays one through
\* later failures, stops, restarts and repairs of the tail.
AcknowledgedIsDurable ==
  \A e \in Event : outcome[e] = "ok" => Recorded(e, durable)

\* An append refused by a poisoned log did no I/O: its event is nowhere in the
\* file, not even as a fragment.
RefusedLeavesNoTrace ==
  \A e \in Event : outcome[e] = "refused" => \A i \in 1..Len(file) : file[i].event # e

\* A process that appends on a verified chain continues exactly the file it
\* sees: the in-memory prev_hash is the hash of the last complete line, and
\* that line is already durable.
VerifiedMatchesFile ==
  \A t \in Thread :
    pc[t] = "locked" => /\ EndsWithNewline(file)
                        /\ prevHash = ChainHead(file)
                        /\ durable = Len(file)

\* The transition is published exactly once per process life: the watch value
\* was sent once if the flag is up and never otherwise, and a poisoned chain
\* always has its flag up.
NotifiedOnce ==
  /\ sends = IF flag THEN 1 ELSE 0
  /\ poisoned => flag

\* Once poisoned, chain or mutex, a process never touches the file again; only
\* its end lets a verified restart continue.
PoisonedNeverWrites ==
  [][(poisoned \/ mutexPoisoned) /\ running' => UNCHANGED <<file, durable, prevHash>>]_vars

(* The inductive invariant behind the properties above.                    *)

\* The mutex serialises append: whoever is inside holds it, on a verified
\* chain, for an event of its own.
AppendersHoldMutex ==
  \A t \in Thread :
    /\ pc[t] # "idle" <=> holder = t
    /\ pc[t] # "idle" => /\ running /\ ~poisoned /\ ~mutexPoisoned
                         /\ ev[t] \in Event /\ outcome[ev[t]] = "running"

\* With nobody between write and sync, a healthy process knows the file.
QuietMatchesFile ==
  running /\ ~poisoned /\ ~mutexPoisoned /\ (\A t \in Thread : pc[t] # "written")
    => EndsWithNewline(file) /\ prevHash = ChainHead(file) /\ durable = Len(file)

\* Between write and sync exactly the last line is not durable, and it is the
\* holder's.
WrittenIsLastLine ==
  \A t \in Thread : pc[t] = "written" =>
    /\ file # <<>>
    /\ durable = Len(file) - 1
    /\ file[Len(file)] = NewLine(t, "whole")

\* What is in the file was appended, once; what was refused, or is still to be
\* written, is not there.
EventsInFile ==
  /\ \A i \in 1..Len(file) : outcome[file[i].event] \notin {"none", "refused"}
  /\ \A i, j \in 1..Len(file) : file[i].event = file[j].event => i = j
  /\ \A t \in Thread : pc[t] = "locked" => \A i \in 1..Len(file) : file[i].event # ev[t]

\* A stopped process holds nothing; what it left is all there is.
StoppedIsDurable ==
  ~running => durable = Len(file) /\ holder = NoThread /\ ~poisoned /\ ~mutexPoisoned

\* At most one line is not durable, and a running process stands on complete
\* durable lines.
BufferIsOneLine ==
  /\ Len(file) <= durable + 1
  /\ running => \A i \in 1..durable : file[i].form = "whole"

IndInv ==
  /\ TypeOK
  /\ ChainNeverForks
  /\ AcknowledgedIsDurable
  /\ AppendersHoldMutex
  /\ QuietMatchesFile
  /\ WrittenIsLastLine
  /\ EventsInFile
  /\ StoppedIsDurable
  /\ BufferIsOneLine
  /\ NotifiedOnce

\* The abstract trail: complete durable lines, and the acknowledged events.
CompleteLines ==
  IF durable > 0 /\ file[durable].form # "whole" THEN durable - 1 ELSE durable

Trail == [i \in 1..CompleteLines |-> file[i].event]

Acked == {e \in Event : outcome[e] = "ok"}

Abstract == INSTANCE AuditTrail WITH
  trail <- Trail,
  acked <- Acked

\* The log implements the abstract trail: what is permanent only grows, in
\* order, without duplicates, and acknowledgement is never early.
ImplementsTrail == Abstract!Spec
=============================================================================

------------------------- MODULE WormAuditLogProofs -------------------------
(***************************************************************************)
(* Theorems about WormAuditLog for any threads and any events.  The        *)
(* inductive invariant is IndInv of WormAuditLog; each action of Next has  *)
(* a lemma that it preserves IndInv.                                       *)
(***************************************************************************)
EXTENDS WormAuditLog, AuditShutdown, SequenceTheorems, TLAPS

-----------------------------------------------------------------------------
(* Files.                                                                  *)

\* The head of a file is a hash.
LEMMA ChainHeadType ==
  ASSUME NEW f \in Seq(Line)
  PROVE  ChainHead(f) \in Seq(Event)
<1>1. CASE Len(f) = 0
  BY <1>1 DEF ChainHead, HashBefore, GenesisHash
<1>2. CASE Len(f) # 0
  <2>1. f[Len(f)] \in Line
    BY <1>2
  <2>2. LineHash(f[Len(f)]) \in Seq(Event)
    BY <2>1 DEF LineHash, Line
  <2> QED BY <1>2, <2>2 DEF ChainHead, HashBefore
<1> QED BY <1>1, <1>2

\* A line that continues a well-ended chained file keeps it chained.
LEMMA AppendKeepsChain ==
  ASSUME NEW f \in Seq(Line), NEW l \in Line,
         Chained(f), EndsWithNewline(f), l.prev = ChainHead(f)
  PROVE  /\ AppendText(f, l) = Append(f, l)
         /\ Append(f, l) \in Seq(Line)
         /\ Len(Append(f, l)) = Len(f) + 1
         /\ Append(f, l)[Len(f) + 1] = l
         /\ \A i \in 1..Len(f) : Append(f, l)[i] = f[i]
         /\ Chained(Append(f, l))
<1> DEFINE g == Append(f, l)
<1>1. /\ g \in Seq(Line) /\ Len(g) = Len(f) + 1 /\ g[Len(f) + 1] = l
      /\ \A i \in 1..Len(f) : g[i] = f[i]
  BY AppendProperties
<1>2. AppendText(f, l) = g
  BY DEF AppendText
<1> HIDE DEF g
<1>3. Chained(g)
  <2> SUFFICES ASSUME NEW i \in 1..Len(g)
               PROVE  g[i].prev = HashBefore(g, i) /\ (g[i].form # "whole" => i = Len(g))
    BY DEF Chained
  <2>1. CASE i = Len(f) + 1
    <3>1. HashBefore(g, i) = HashBefore(f, i)
      BY <1>1, <2>1 DEF HashBefore
    <3> QED BY <1>1, <2>1, <3>1 DEF ChainHead
  <2>2. CASE i \in 1..Len(f)
    <3>1. HashBefore(g, i) = HashBefore(f, i)
      BY <1>1, <2>2 DEF HashBefore
    <3>2. f[i].form = "whole"
      <4>1. CASE i = Len(f)
        BY <4>1, <2>2 DEF EndsWithNewline
      <4>2. CASE i # Len(f)
        BY <4>2, <2>2 DEF Chained
      <4> QED BY <4>1, <4>2
    <3> QED BY <1>1, <2>2, <3>1, <3>2 DEF Chained
  <2> QED BY <1>1, <2>1, <2>2
<1> QED BY <1>1, <1>2, <1>3 DEF g

\* Cutting a chained file between two lines keeps it chained.
LEMMA PrefixKeepsChain ==
  ASSUME NEW f \in Seq(Line), Chained(f), NEW k \in 0..Len(f)
  PROVE  /\ SubSeq(f, 1, k) \in Seq(Line)
         /\ Len(SubSeq(f, 1, k)) = k
         /\ \A i \in 1..k : SubSeq(f, 1, k)[i] = f[i]
         /\ Chained(SubSeq(f, 1, k))
         /\ k < Len(f) => EndsWithNewline(SubSeq(f, 1, k))
         /\ ChainHead(SubSeq(f, 1, k)) = HashBefore(f, k + 1)
<1> DEFINE g == SubSeq(f, 1, k)
<1>1. g \in Seq(Line) /\ Len(g) = k /\ \A i \in 1..k : g[i] = f[i]
  BY SubSeqProperties
<1> HIDE DEF g
<1>2. \A i \in 1..k + 1 : HashBefore(g, i) = HashBefore(f, i)
  BY <1>1 DEF HashBefore
<1>3. Chained(g)
  BY <1>1, <1>2 DEF Chained
<1>4. k < Len(f) => EndsWithNewline(g)
  BY <1>1 DEF EndsWithNewline, Chained
<1>5. ChainHead(g) = HashBefore(f, k + 1)
  BY <1>1, <1>2 DEF ChainHead
<1> QED BY <1>1, <1>3, <1>4, <1>5 DEF g

\* Changing only the form of the last line keeps a file chained.
LEMMA LastFormKeepsChain ==
  ASSUME NEW f \in Seq(Line), Chained(f), f # <<>>, NEW form \in Form
  PROVE  LET g == [f EXCEPT ![Len(f)].form = form]
         IN  /\ g \in Seq(Line) /\ Len(g) = Len(f) /\ Chained(g)
             /\ \A i \in 1..Len(f) : g[i].event = f[i].event
             /\ \A i \in 1..Len(f) : i # Len(f) => g[i] = f[i]
             /\ g[Len(f)].form = form
<1> DEFINE g == [f EXCEPT ![Len(f)].form = form]
<1>1. Len(f) \in 1..Len(f) /\ f[Len(f)] \in Line
  BY EmptySeq
<1>2. /\ [f[Len(f)] EXCEPT !.form = form] \in Line
      /\ [f[Len(f)] EXCEPT !.form = form].form = form
      /\ [f[Len(f)] EXCEPT !.form = form].event = f[Len(f)].event
      /\ [f[Len(f)] EXCEPT !.form = form].prev = f[Len(f)].prev
  BY <1>1 DEF Line
<1>3. g = [f EXCEPT ![Len(f)] = [f[Len(f)] EXCEPT !.form = form]]
  OBVIOUS
<1>4. /\ g \in Seq(Line) /\ Len(g) = Len(f)
      /\ g[Len(f)] = [f[Len(f)] EXCEPT !.form = form]
      /\ \A i \in 1..Len(f) : i # Len(f) => g[i] = f[i]
  BY <1>1, <1>2, <1>3, ExceptSeq
<1> HIDE DEF g
<1>5. \A i \in 1..Len(f) : g[i].event = f[i].event /\ g[i].prev = f[i].prev
  BY <1>1, <1>2, <1>4
<1>6. \A i \in 1..Len(f) : HashBefore(g, i) = HashBefore(f, i)
  BY <1>1, <1>4, <1>5 DEF HashBefore, LineHash
<1>7. Chained(g)
  BY <1>1, <1>4, <1>5, <1>6 DEF Chained
<1> QED BY <1>1, <1>2, <1>4, <1>5, <1>7 DEF g

\* Any file a stop may leave holds the durable lines unchanged and, behind
\* them, a prefix of the others.
LEMMA SurvivorsKeepChain ==
  ASSUME TypeOK, Chained(file), NEW f \in Survivors
  PROVE  /\ f \in Seq(Line) /\ Chained(f)
         /\ Len(f) \in durable..Len(file)
         /\ \A i \in 1..Len(f) : f[i].event = file[i].event
         /\ \A i \in 1..durable : f[i] = file[i]
<1> USE DEF TypeOK
<1>1. CASE \E k \in durable..Len(file) : f = SubSeq(file, 1, k)
  <2>1. PICK k \in durable..Len(file) : f = SubSeq(file, 1, k)
    BY <1>1
  <2>2. file \in Seq(Line) /\ k \in 0..Len(file) /\ durable \in 0..Len(file)
    OBVIOUS
  <2>3. /\ f \in Seq(Line) /\ Chained(f) /\ Len(f) = k
        /\ \A i \in 1..k : f[i] = file[i]
    BY <2>1, <2>2, PrefixKeepsChain
  <2> QED BY <2>2, <2>3
<1>2. CASE \E k \in durable + 1..Len(file), form \in Form :
             f = Append(SubSeq(file, 1, k - 1), [file[k] EXCEPT !.form = form])
  <2>1. PICK k \in durable + 1..Len(file), form \in Form :
             f = Append(SubSeq(file, 1, k - 1), [file[k] EXCEPT !.form = form])
    BY <1>2
  <2> DEFINE p == SubSeq(file, 1, k - 1)
             l == [file[k] EXCEPT !.form = form]
  <2>2. k \in 1..Len(file) /\ k - 1 \in 0..Len(file) /\ k - 1 < Len(file)
    OBVIOUS
  <2>3. /\ p \in Seq(Line) /\ Len(p) = k - 1 /\ Chained(p) /\ EndsWithNewline(p)
        /\ \A i \in 1..k - 1 : p[i] = file[i]
        /\ ChainHead(p) = HashBefore(file, k)
    BY <2>2, PrefixKeepsChain
  <2>4. file[k] \in Line
    BY <2>2
  <2>5. l \in Line /\ l.event = file[k].event /\ l.prev = ChainHead(p)
    BY <2>2, <2>3, <2>4 DEF Line, Chained
  <2> HIDE DEF p, l
  <2>6. /\ Append(p, l) \in Seq(Line) /\ Len(Append(p, l)) = k
        /\ Append(p, l)[k] = l /\ Chained(Append(p, l))
        /\ \A i \in 1..k - 1 : Append(p, l)[i] = file[i]
    BY <2>2, <2>3, <2>5, AppendKeepsChain
  <2>7. f = Append(p, l)
    BY <2>1 DEF p, l
  <2> QED BY <2>2, <2>5, <2>6, <2>7
<1> QED BY <1>1, <1>2 DEF Survivors, Torn, Form

\* The events in the file are events.
LEMMA FileEvents == TypeOK => \A i \in 1..Len(file) : file[i].event \in Event
<1> SUFFICES ASSUME TypeOK, NEW i \in 1..Len(file) PROVE file[i].event \in Event
  OBVIOUS
<1>1. file[i] \in Line
  BY ElementOfSeq DEF TypeOK
<1> QED BY <1>1 DEF Line

-----------------------------------------------------------------------------
(* The initial state, the start and the stop of the process, the repair.   *)

LEMMA InitIndInv == Init => IndInv
<1> SUFFICES ASSUME Init PROVE IndInv
  OBVIOUS
<1>1. file \in Seq(Line) /\ durable \in 0..Len(file) /\ prevHash \in Seq(Event) /\ sends \in Nat
  BY DEF Init, GenesisHash
<1>2. /\ running \in BOOLEAN /\ poisoned \in BOOLEAN /\ flag \in BOOLEAN
      /\ mutexPoisoned \in BOOLEAN /\ holder \in Thread \cup {NoThread}
  BY Zenon DEF Init
<1>3. /\ pc \in [Thread -> {"idle", "locked", "written"}]
      /\ ev \in [Thread -> Event \cup {NoEvent}]
      /\ outcome \in [Event -> Outcome]
  BY DEF Init, Outcome
<1>4. ChainNeverForks /\ AcknowledgedIsDurable /\ EventsInFile /\ NotifiedOnce
  BY DEF Init, ChainNeverForks, Chained, AcknowledgedIsDurable, EventsInFile, NotifiedOnce
<1>5. AppendersHoldMutex /\ QuietMatchesFile /\ WrittenIsLastLine /\ StoppedIsDurable /\ BufferIsOneLine
  BY NoThreadAssumption
  DEF Init, AppendersHoldMutex, QuietMatchesFile, WrittenIsLastLine, StoppedIsDurable, BufferIsOneLine
<1> QED BY <1>1, <1>2, <1>3, <1>4, <1>5 DEF IndInv, TypeOK

LEMMA OpenIndInv == IndInv /\ Open => IndInv'
<1> SUFFICES ASSUME IndInv, Open PROVE IndInv'
  OBVIOUS
<1> USE DEF IndInv
<1>1. TypeOK'
  BY ChainHeadType DEF Open, TypeOK, disk, calls
<1>2. ChainNeverForks' /\ AcknowledgedIsDurable'
  BY DEF Open, disk, calls, ChainNeverForks, AcknowledgedIsDurable, Recorded, Chained, HashBefore
<1>3. AppendersHoldMutex'
  BY NoThreadAssumption DEF Open, disk, calls, AppendersHoldMutex
<1>4. \A t \in Thread : pc[t] = "idle"
  BY NoThreadAssumption DEF Open, StoppedIsDurable, AppendersHoldMutex
<1>5. QuietMatchesFile'
  BY DEF Open, disk, calls, QuietMatchesFile, StoppedIsDurable, ChainHead, HashBefore, EndsWithNewline
<1>6. WrittenIsLastLine'
  BY <1>4 DEF Open, disk, calls, WrittenIsLastLine
<1>7. EventsInFile' /\ StoppedIsDurable' /\ NotifiedOnce'
  BY DEF Open, disk, calls, EventsInFile, StoppedIsDurable, NotifiedOnce
<1>8. BufferIsOneLine'
  <2>1. durable = Len(file) /\ UNCHANGED <<file, durable>> /\ Len(file) \in Nat
    BY DEF Open, disk, StoppedIsDurable, TypeOK
  <2>2. \A i \in 1..Len(file) : file[i].form = "whole"
    <3> SUFFICES ASSUME NEW i \in 1..Len(file) PROVE file[i].form = "whole"
      OBVIOUS
    <3>1. file[i] \in Line /\ file # <<>>
      BY <2>1, ElementOfSeq DEF TypeOK
    <3>2. file[i].form \in Form
      BY <3>1 DEF Line
    <3> QED BY <3>1, <3>2 DEF Open, ChainVerifies, EndsWithNewline, Form
  <2> QED BY <2>1, <2>2 DEF BufferIsOneLine
<1> QED BY <1>1, <1>2, <1>3, <1>5, <1>6, <1>7, <1>8

LEMMA StopIndInv == IndInv /\ Stop => IndInv'
<1> SUFFICES ASSUME IndInv, Stop PROVE IndInv'
  OBVIOUS
<1> USE DEF IndInv
<1>1. /\ file' \in Seq(Line) /\ Chained(file')
      /\ Len(file') \in durable..Len(file)
      /\ \A i \in 1..Len(file') : file'[i].event = file[i].event
      /\ \A i \in 1..durable : file'[i] = file[i]
  BY SurvivorsKeepChain DEF Stop, ChainNeverForks
<1>2. Len(file) \in Nat /\ durable \in 0..Len(file) /\ outcome \in [Event -> Outcome]
  BY DEF TypeOK
<1>3. \A i \in 1..Len(file) : file[i].event \in Event
  BY FileEvents
<1>4. TypeOK'
  <2>1. outcome' \in [Event -> Outcome]
    BY <1>2 DEF Stop, Outcome
  <2>2. pc' \in [Thread -> {"idle", "locked", "written"}] /\ ev' \in [Thread -> Event \cup {NoEvent}]
    BY DEF Stop
  <2>3. /\ file' \in Seq(Line) /\ durable' \in 0..Len(file')
        /\ prevHash' \in Seq(Event) /\ sends' \in Nat
    BY <1>1, <1>2 DEF Stop, GenesisHash
  <2>4. /\ running' \in BOOLEAN /\ poisoned' \in BOOLEAN /\ flag' \in BOOLEAN
        /\ mutexPoisoned' \in BOOLEAN /\ holder' \in Thread \cup {NoThread}
    BY Zenon DEF Stop
  <2> QED BY <2>1, <2>2, <2>3, <2>4 DEF TypeOK
<1>5. ChainNeverForks'
  BY <1>1 DEF ChainNeverForks, Chained, HashBefore
<1>6. \A e \in Event : outcome'[e] = (IF outcome[e] = "running" THEN "lost" ELSE outcome[e])
  BY DEF Stop
<1>7. AcknowledgedIsDurable'
  <2> SUFFICES ASSUME NEW e \in Event, outcome'[e] = "ok" PROVE Recorded(e, durable)'
    BY DEF AcknowledgedIsDurable
  <2>1. outcome[e] = "ok"
    BY <1>6
  <2>2. PICK i \in 1..durable : file[i].event = e /\ file[i].form = "whole"
    BY <2>1 DEF AcknowledgedIsDurable, Recorded
  <2>3. i \in 1..durable' /\ file'[i] = file[i]
    BY <1>1, <1>2, <2>2 DEF Stop
  <2> QED BY <2>2, <2>3 DEF Recorded
<1>8. AppendersHoldMutex' /\ QuietMatchesFile' /\ WrittenIsLastLine' /\ StoppedIsDurable' /\ NotifiedOnce'
  BY NoThreadAssumption
  DEF Stop, AppendersHoldMutex, QuietMatchesFile, WrittenIsLastLine, StoppedIsDurable, NotifiedOnce
<1>9. EventsInFile'
  <2>1. \A i \in 1..Len(file') : outcome'[file'[i].event] \notin {"none", "refused"}
    <3> SUFFICES ASSUME NEW i \in 1..Len(file')
                 PROVE  outcome'[file'[i].event] \notin {"none", "refused"}
      OBVIOUS
    <3>1. i \in 1..Len(file) /\ file'[i].event = file[i].event
      BY <1>1, <1>2
    <3>2. outcome[file[i].event] \notin {"none", "refused"} /\ file[i].event \in Event
      BY <3>1, <1>3 DEF EventsInFile
    <3> QED BY <3>1, <3>2, <1>6
  <2>2. \A i, j \in 1..Len(file') : file'[i].event = file'[j].event => i = j
    BY <1>1, <1>2 DEF EventsInFile
  <2>3. \A t \in Thread : pc'[t] # "locked"
    BY DEF Stop
  <2> QED BY <2>1, <2>2, <2>3 DEF EventsInFile
<1>10. BufferIsOneLine'
  BY <1>1, <1>2 DEF Stop, BufferIsOneLine
<1> QED BY <1>4, <1>5, <1>7, <1>8, <1>9, <1>10

LEMMA RepairIndInv == IndInv /\ OperatorRepair => IndInv'
<1> SUFFICES ASSUME IndInv, OperatorRepair PROVE IndInv'
  OBVIOUS
<1> USE DEF IndInv
<1>1. /\ file \in Seq(Line) /\ Chained(file) /\ file # <<>> /\ Len(file) \in Nat \ {0}
      /\ file[Len(file)].form # "whole" /\ durable = Len(file)
      /\ UNCHANGED <<memory, calls>> /\ ~running
  BY EmptySeq DEF OperatorRepair, TypeOK, ChainNeverForks, EndsWithNewline, StoppedIsDurable
\* Either repair keeps the complete lines as they are.
<1>2. /\ file' \in Seq(Line) /\ Chained(file') /\ Len(file') \in 0..Len(file)
      /\ \A i \in 1..Len(file') : file'[i].event = file[i].event
      /\ \A i \in 1..Len(file) : file[i].form = "whole" => i \in 1..Len(file') /\ file'[i] = file[i]
  <2>1. CASE file' = SubSeq(file, 1, Len(file) - 1)
    <3>1. Len(file) - 1 \in 0..Len(file)
      BY <1>1
    <3> QED BY <1>1, <2>1, <3>1, PrefixKeepsChain
  <2>2. CASE file' = [file EXCEPT ![Len(file)].form = "whole"]
    <3>1. "whole" \in Form
      BY DEF Form
    <3> DEFINE g == [file EXCEPT ![Len(file)].form = "whole"]
    <3>2. /\ g \in Seq(Line) /\ Len(g) = Len(file) /\ Chained(g)
          /\ \A i \in 1..Len(file) : g[i].event = file[i].event
          /\ \A i \in 1..Len(file) : i # Len(file) => g[i] = file[i]
      BY <1>1, <3>1, LastFormKeepsChain
    <3> HIDE DEF g
    <3>3. file' = g
      BY <2>2 DEF g
    <3> QED BY <1>1, <3>2, <3>3
  <2> QED BY <2>1, <2>2 DEF OperatorRepair
<1>3. TypeOK'
  BY <1>1, <1>2 DEF OperatorRepair, TypeOK, memory, calls
<1>4. ChainNeverForks'
  BY <1>2 DEF ChainNeverForks, Chained, HashBefore
<1>5. AcknowledgedIsDurable'
  BY <1>1, <1>2 DEF OperatorRepair, calls, AcknowledgedIsDurable, Recorded
<1>6. AppendersHoldMutex' /\ NotifiedOnce' /\ StoppedIsDurable' /\ QuietMatchesFile'
  BY <1>1 DEF OperatorRepair, memory, calls, AppendersHoldMutex, NotifiedOnce,
     StoppedIsDurable, QuietMatchesFile
<1>7. WrittenIsLastLine'
  BY <1>1 DEF memory, calls, WrittenIsLastLine, AppendersHoldMutex
<1>8. EventsInFile'
  <2>1. \A t \in Thread : pc'[t] = "idle"
    BY <1>1, NoThreadAssumption DEF calls, AppendersHoldMutex, StoppedIsDurable
  <2>2. \A i \in 1..Len(file') : i \in 1..Len(file) /\ file'[i].event = file[i].event
    BY <1>1, <1>2
  <2>3. \A i \in 1..Len(file') : outcome'[file'[i].event] \notin {"none", "refused"}
    BY <1>1, <2>2 DEF calls, EventsInFile
  <2>4. \A i, j \in 1..Len(file') : file'[i].event = file'[j].event => i = j
    BY <2>2 DEF EventsInFile
  <2> QED BY <2>1, <2>3, <2>4 DEF EventsInFile
<1>9. BufferIsOneLine'
  BY <1>1, <1>2 DEF OperatorRepair, memory, BufferIsOneLine
<1> QED BY <1>3, <1>4, <1>5, <1>6, <1>7, <1>8, <1>9

-----------------------------------------------------------------------------
(* append.                                                                 *)

LEMMA AppendLockIndInv ==
  ASSUME IndInv, NEW t \in Thread, NEW e \in Event, AppendLock(t, e)
  PROVE  IndInv'
<1> USE DEF IndInv
<1>1. /\ UNCHANGED <<file, durable, running, prevHash, poisoned, flag, sends, mutexPoisoned>>
      /\ pc \in [Thread -> {"idle", "locked", "written"}] /\ pc[t] = "idle"
      /\ pc' = [pc EXCEPT ![t] = "locked"] /\ ev' = [ev EXCEPT ![t] = e]
      /\ outcome' = [outcome EXCEPT ![e] = "running"] /\ outcome[e] = "none"
      /\ outcome \in [Event -> Outcome] /\ ev \in [Thread -> Event \cup {NoEvent}]
      /\ holder = NoThread /\ holder' = t /\ running /\ ~poisoned /\ ~mutexPoisoned
  BY DEF AppendLock, TypeOK, disk
<1>2. \A u \in Thread : pc[u] = "idle"
  BY <1>1, NoThreadAssumption DEF AppendersHoldMutex
<1>3. TypeOK'
  BY <1>1 DEF TypeOK, Outcome
<1>4. ChainNeverForks' /\ AcknowledgedIsDurable' /\ NotifiedOnce'
  BY <1>1 DEF ChainNeverForks, Chained, HashBefore, AcknowledgedIsDurable, Recorded, NotifiedOnce
<1>5. AppendersHoldMutex'
  BY <1>1, <1>2 DEF AppendersHoldMutex
<1>6. QuietMatchesFile' /\ StoppedIsDurable'
  BY <1>1, <1>2 DEF QuietMatchesFile, StoppedIsDurable, ChainHead, HashBefore, EndsWithNewline
<1>7. WrittenIsLastLine'
  BY <1>1, <1>2 DEF WrittenIsLastLine
<1>8. EventsInFile'
  <2>1. \A i \in 1..Len(file) : file[i].event # e
    BY <1>1 DEF EventsInFile
  <2>2. \A u \in Thread : pc'[u] = "locked" => ev'[u] = e
    BY <1>1, <1>2
  <2>3. \A i \in 1..Len(file) : file[i].event \in Event
    BY FileEvents
  <2> QED BY <1>1, <2>1, <2>2, <2>3 DEF EventsInFile
<1>9. BufferIsOneLine'
  BY <1>1 DEF BufferIsOneLine
<1> QED BY <1>3, <1>4, <1>5, <1>6, <1>7, <1>8, <1>9

\* Publishing the transition sends at most once.
LEMMA MarkPoisonedOnce ==
  TypeOK /\ NotifiedOnce /\ MarkPoisoned
    => NotifiedOnce' /\ flag' = TRUE /\ flag' \in BOOLEAN /\ sends' \in Nat
<1> SUFFICES ASSUME TypeOK, NotifiedOnce, MarkPoisoned
             PROVE  NotifiedOnce' /\ flag' = TRUE /\ flag' \in BOOLEAN /\ sends' \in Nat
  OBVIOUS
<1>1. flag' = TRUE
  BY DEF MarkPoisoned
<1>2. sends' = 1
  BY DEF MarkPoisoned, NotifiedOnce
<1> QED BY <1>1, <1>2 DEF NotifiedOnce

\* A refused append only tells its caller so.
LEMMA AppendRefusedIndInv ==
  ASSUME IndInv, NEW t \in Thread, NEW e \in Event,
         AppendRefused(t, e) \/ AppendMutexPoisoned(t, e)
  PROVE  IndInv'
<1> USE DEF IndInv
<1>1. /\ UNCHANGED <<file, durable, running, prevHash, poisoned, holder, mutexPoisoned, pc, ev>>
      /\ outcome' = [outcome EXCEPT ![e] = "refused"] /\ outcome[e] = "none"
      /\ outcome \in [Event -> Outcome] /\ holder = NoThread
  BY DEF AppendRefused, AppendMutexPoisoned, TypeOK, disk, memory
<1>2. \A u \in Thread : pc[u] = "idle"
  BY <1>1, NoThreadAssumption DEF AppendersHoldMutex
<1>3. UNCHANGED <<flag, sends>> \/ MarkPoisoned
  BY DEF AppendRefused, AppendMutexPoisoned, memory
<1>4. NotifiedOnce' /\ flag' \in BOOLEAN /\ sends' \in Nat
  <2>1. CASE UNCHANGED <<flag, sends>>
    BY <1>1, <2>1 DEF NotifiedOnce, TypeOK
  <2>2. CASE MarkPoisoned
    BY <2>2, MarkPoisonedOnce
  <2> QED BY <1>3, <2>1, <2>2
<1>5. TypeOK'
  BY <1>1, <1>4 DEF TypeOK, Outcome
<1>6. ChainNeverForks' /\ AcknowledgedIsDurable'
  BY <1>1 DEF ChainNeverForks, Chained, HashBefore, AcknowledgedIsDurable, Recorded
<1>7. AppendersHoldMutex' /\ WrittenIsLastLine'
  BY <1>1, <1>2, NoThreadAssumption DEF AppendersHoldMutex, WrittenIsLastLine
<1>8. QuietMatchesFile' /\ StoppedIsDurable' /\ BufferIsOneLine'
  BY <1>1 DEF QuietMatchesFile, StoppedIsDurable, ChainHead, HashBefore, EndsWithNewline, BufferIsOneLine
<1>9. EventsInFile'
  <2>1. \A i \in 1..Len(file) : file[i].event # e
    BY <1>1 DEF EventsInFile
  <2>2. \A i \in 1..Len(file) : file[i].event \in Event
    BY FileEvents
  <2> QED BY <1>1, <1>2, <2>1, <2>2 DEF EventsInFile
<1> QED BY <1>4, <1>5, <1>6, <1>7, <1>8, <1>9

\* The thread inside append is alone there.
LEMMA InsideAlone ==
  ASSUME IndInv, NEW t \in Thread, pc[t] # "idle"
  PROVE  /\ holder = t /\ running /\ ~poisoned /\ ~mutexPoisoned
         /\ ev[t] \in Event /\ outcome[ev[t]] = "running"
         /\ \A u \in Thread : u # t => pc[u] = "idle"
BY DEF IndInv, AppendersHoldMutex

\* The line a thread is about to write continues the file it writes to.
LEMMA LockedContinues ==
  ASSUME IndInv, NEW t \in Thread, pc[t] = "locked"
  PROVE  /\ EndsWithNewline(file) /\ prevHash = ChainHead(file) /\ durable = Len(file)
         /\ \A i \in 1..Len(file) : file[i].event # ev[t]
         /\ \A form \in Form : LET l == NewLine(t, form)
                             IN  l \in Line /\ l.prev = ChainHead(file)
                                 /\ l.event = ev[t] /\ l.form = form
<1> USE DEF IndInv
<1>1. /\ running /\ ~poisoned /\ ~mutexPoisoned /\ ev[t] \in Event
      /\ \A u \in Thread : pc[u] # "written"
  BY InsideAlone
<1>2. EndsWithNewline(file) /\ prevHash = ChainHead(file) /\ durable = Len(file)
  BY <1>1 DEF QuietMatchesFile
<1>3. prevHash \in Seq(Event)
  BY DEF TypeOK
<1> QED BY <1>1, <1>2, <1>3 DEF NewLine, Line, EventsInFile

\* A line appended behind a complete file: the facts every write needs.
LEMMA AppendedEvents ==
  ASSUME IndInv, NEW t \in Thread, pc[t] = "locked", NEW form \in Form,
         file' = AppendText(file, NewLine(t, form))
  PROVE  /\ file' \in Seq(Line) /\ Chained(file')
         /\ Len(file') = Len(file) + 1 /\ Len(file) \in Nat
         /\ file'[Len(file) + 1] = NewLine(t, form)
         /\ file'[Len(file) + 1].event = ev[t]
         /\ \A i \in 1..Len(file) : file'[i] = file[i] /\ file[i].event # ev[t]
<1>1. NewLine(t, form) \in Line /\ NewLine(t, form).prev = ChainHead(file)
      /\ NewLine(t, form).event = ev[t]
  BY LockedContinues
<1>2. file \in Seq(Line) /\ Chained(file) /\ EndsWithNewline(file)
  BY LockedContinues DEF IndInv, TypeOK, ChainNeverForks
<1> DEFINE l == NewLine(t, form)
<1> HIDE DEF l
<1>3. /\ AppendText(file, l) = Append(file, l)
      /\ Append(file, l) \in Seq(Line) /\ Chained(Append(file, l))
      /\ Len(Append(file, l)) = Len(file) + 1 /\ Append(file, l)[Len(file) + 1] = l
      /\ \A i \in 1..Len(file) : Append(file, l)[i] = file[i]
  BY <1>1, <1>2, AppendKeepsChain DEF l
<1>4. file' = Append(file, l) /\ l.event = ev[t] /\ Len(file) \in Nat
  BY <1>1, <1>2, <1>3 DEF l
<1> QED BY <1>3, <1>4, LockedContinues DEF l

LEMMA AppendWriteIndInv ==
  ASSUME IndInv, NEW t \in Thread, AppendWrite(t)
  PROVE  IndInv'
<1> USE DEF IndInv
<1>1. /\ pc[t] = "locked" /\ pc' = [pc EXCEPT ![t] = "written"]
      /\ UNCHANGED <<durable, running, prevHash, poisoned, flag, sends, holder,
                     mutexPoisoned, ev, outcome>>
      /\ pc \in [Thread -> {"idle", "locked", "written"}]
  BY DEF AppendWrite, memory, TypeOK
<1>2. "whole" \in Form
  BY DEF Form
<1>3. /\ file' \in Seq(Line) /\ Chained(file')
      /\ Len(file') = Len(file) + 1 /\ Len(file) \in Nat
      /\ file'[Len(file) + 1] = NewLine(t, "whole")
      /\ file'[Len(file) + 1].event = ev[t]
      /\ \A i \in 1..Len(file) : file'[i] = file[i] /\ file[i].event # ev[t]
  BY <1>1, <1>2, AppendedEvents DEF AppendWrite
<1>4. /\ holder = t /\ running /\ ~poisoned /\ ~mutexPoisoned /\ ev[t] \in Event
      /\ outcome[ev[t]] = "running" /\ \A u \in Thread : u # t => pc[u] = "idle"
  BY <1>1, InsideAlone
<1>5. durable = Len(file)
  BY <1>1, LockedContinues
<1>6. TypeOK'
  BY <1>1, <1>3, <1>5 DEF TypeOK
<1>7. ChainNeverForks'
  BY <1>3 DEF ChainNeverForks, Chained, HashBefore
<1>8. AcknowledgedIsDurable'
  BY <1>1, <1>3, <1>5 DEF AcknowledgedIsDurable, Recorded
<1>9. AppendersHoldMutex' /\ NotifiedOnce' /\ StoppedIsDurable'
  BY <1>1, <1>4 DEF AppendersHoldMutex, NotifiedOnce, StoppedIsDurable
<1>10. QuietMatchesFile'
  BY <1>1 DEF QuietMatchesFile
<1>11. WrittenIsLastLine'
  <2>1. \A u \in Thread : pc'[u] = "written" => u = t
    BY <1>1, <1>4
  <2>2. file' # <<>> /\ durable' = Len(file') - 1 /\ file'[Len(file')] = NewLine(t, "whole")
    BY <1>1, <1>3, <1>5
  <2>3. NewLine(t, "whole")' = NewLine(t, "whole")
    BY <1>1 DEF NewLine
  <2> QED BY <2>1, <2>2, <2>3 DEF WrittenIsLastLine
<1>12. EventsInFile'
  <2>1. \A i \in 1..Len(file') : outcome'[file'[i].event] \notin {"none", "refused"}
    <3> SUFFICES ASSUME NEW i \in 1..Len(file')
                 PROVE  outcome[file'[i].event] \notin {"none", "refused"}
      BY <1>1
    <3>1. CASE i = Len(file) + 1
      BY <1>3, <1>4, <3>1
    <3>2. CASE i \in 1..Len(file)
      BY <1>3, <3>2 DEF EventsInFile
    <3> QED BY <1>3, <3>1, <3>2
  <2>2. \A i, j \in 1..Len(file') : file'[i].event = file'[j].event => i = j
    BY <1>3 DEF EventsInFile
  <2>3. \A u \in Thread : pc'[u] # "locked"
    BY <1>1, <1>4
  <2> QED BY <2>1, <2>2, <2>3 DEF EventsInFile
<1>13. BufferIsOneLine'
  BY <1>1, <1>3, <1>5 DEF BufferIsOneLine
<1> QED BY <1>6, <1>7, <1>8, <1>9, <1>10, <1>11, <1>12, <1>13

\* Leaving append with an error, on whatever path: the mutex is free, the
\* process can no longer append, and the caller's event is not acknowledged.
LEMMA FailedReturnIndInv ==
  ASSUME IndInv, NEW t \in Thread, pc[t] # "idle", Return(t, "failed"),
         holder' = NoThread, UNCHANGED <<running, prevHash>>,
         poisoned' \in BOOLEAN, mutexPoisoned' \in BOOLEAN, poisoned' \/ mutexPoisoned',
         UNCHANGED <<poisoned, flag, sends>> \/ (poisoned' = TRUE /\ MarkPoisoned),
         file' \in Seq(Line), Chained(file'), durable' \in durable..Len(file'),
         Len(file') <= durable' + 1, \A i \in 1..durable' : file'[i].form = "whole",
         \A i \in 1..durable : file'[i] = file[i],
         \A i \in 1..Len(file') :
           file'[i].event = ev[t] \/ (i \in 1..Len(file) /\ file'[i] = file[i]),
         \A i, j \in 1..Len(file') : file'[i].event = file'[j].event => i = j
  PROVE  IndInv'
<1> USE DEF IndInv
<1>1. /\ holder = t /\ running /\ ~poisoned /\ ~mutexPoisoned /\ ev[t] \in Event
      /\ outcome[ev[t]] = "running" /\ \A u \in Thread : u # t => pc[u] = "idle"
  BY InsideAlone
<1>2. /\ pc' = [pc EXCEPT ![t] = "idle"] /\ ev' = [ev EXCEPT ![t] = NoEvent]
      /\ outcome' = [outcome EXCEPT ![ev[t]] = "failed"]
      /\ pc \in [Thread -> {"idle", "locked", "written"}] /\ outcome \in [Event -> Outcome]
      /\ ev \in [Thread -> Event \cup {NoEvent}] /\ durable \in 0..Len(file)
      /\ Len(file) \in Nat /\ Len(file') \in Nat
  BY DEF Return, TypeOK
<1>3. \A u \in Thread : pc'[u] = "idle"
  BY <1>1, <1>2
<1>4. NotifiedOnce' /\ flag' \in BOOLEAN /\ sends' \in Nat
  <2>1. CASE UNCHANGED <<poisoned, flag, sends>>
    BY <2>1 DEF NotifiedOnce, TypeOK
  <2>2. CASE poisoned' = TRUE /\ MarkPoisoned
    BY <2>2, MarkPoisonedOnce DEF NotifiedOnce
  <2> QED BY <2>1, <2>2
<1>5. TypeOK'
  <2>1. /\ pc' \in [Thread -> {"idle", "locked", "written"}]
        /\ ev' \in [Thread -> Event \cup {NoEvent}]
        /\ outcome' \in [Event -> Outcome]
    BY <1>2 DEF Outcome
  <2>2. durable' \in 0..Len(file')
    BY <1>2
  <2>3. running' \in BOOLEAN /\ prevHash' \in Seq(Event) /\ holder' \in Thread \cup {NoThread}
    BY DEF TypeOK
  <2> QED BY <1>4, <2>1, <2>2, <2>3 DEF TypeOK
<1>6. ChainNeverForks'
  BY DEF ChainNeverForks, Chained, HashBefore
<1>7. AcknowledgedIsDurable'
  <2> SUFFICES ASSUME NEW e \in Event, outcome'[e] = "ok" PROVE Recorded(e, durable)'
    BY DEF AcknowledgedIsDurable
  <2>1. outcome[e] = "ok"
    BY <1>1, <1>2
  <2>2. PICK i \in 1..durable : file[i].event = e /\ file[i].form = "whole"
    BY <2>1 DEF AcknowledgedIsDurable, Recorded
  <2>3. i \in 1..durable' /\ file'[i] = file[i]
    BY <1>2, <2>2
  <2> QED BY <2>2, <2>3 DEF Recorded
<1>8. AppendersHoldMutex' /\ WrittenIsLastLine' /\ QuietMatchesFile' /\ StoppedIsDurable'
  BY <1>1, <1>3, NoThreadAssumption
  DEF AppendersHoldMutex, WrittenIsLastLine, QuietMatchesFile, StoppedIsDurable
<1>9. EventsInFile'
  <2> SUFFICES ASSUME NEW i \in 1..Len(file')
               PROVE  outcome'[file'[i].event] \notin {"none", "refused"}
    BY <1>3 DEF EventsInFile
  <2>1. CASE file'[i].event = ev[t]
    BY <1>1, <1>2, <2>1
  <2>2. CASE i \in 1..Len(file) /\ file'[i] = file[i]
    <3>1. file[i].event \in Event /\ outcome[file[i].event] \notin {"none", "refused"}
      BY <2>2, FileEvents DEF EventsInFile
    <3> QED BY <1>1, <1>2, <2>2, <3>1
  <2> QED BY <2>1, <2>2
<1>10. BufferIsOneLine'
  BY DEF BufferIsOneLine
<1> QED BY <1>4, <1>5, <1>6, <1>7, <1>8, <1>9, <1>10

\* A failed write leaves the file alone or leaves a fragment behind it.
LEMMA AppendWriteFailsIndInv ==
  ASSUME IndInv, NEW t \in Thread, AppendWriteFails(t)
  PROVE  IndInv'
<1>1. /\ pc[t] = "locked" /\ Return(t, "failed") /\ holder' = NoThread
      /\ UNCHANGED <<durable, running, prevHash, mutexPoisoned>>
      /\ poisoned' = TRUE /\ MarkPoisoned
  BY DEF AppendWriteFails, Poison
<1>2. /\ file \in Seq(Line) /\ Chained(file) /\ durable = Len(file) /\ Len(file) \in Nat
      /\ \A i, j \in 1..Len(file) : file[i].event = file[j].event => i = j
      /\ mutexPoisoned \in BOOLEAN
      /\ \A i \in 1..durable : file[i].form = "whole"
  BY <1>1, LockedContinues, InsideAlone
  DEF IndInv, TypeOK, ChainNeverForks, EventsInFile, BufferIsOneLine
<1>3. /\ file' \in Seq(Line) /\ Chained(file') /\ durable' \in durable..Len(file')
      /\ \A i \in 1..durable : file'[i] = file[i]
      /\ \A i \in 1..Len(file') :
           file'[i].event = ev[t] \/ (i \in 1..Len(file) /\ file'[i] = file[i])
      /\ \A i, j \in 1..Len(file') : file'[i].event = file'[j].event => i = j
      /\ Len(file') <= durable' + 1 /\ \A i \in 1..durable' : file'[i].form = "whole"
  <2>1. CASE UNCHANGED file
    BY <1>1, <1>2, <2>1
  <2>2. CASE \E form \in Form \ {"whole"} : file' = AppendText(file, NewLine(t, form))
    <3>1. PICK form \in Form : file' = AppendText(file, NewLine(t, form))
      BY <2>2
    <3>2. /\ file' \in Seq(Line) /\ Chained(file')
          /\ Len(file') = Len(file) + 1 /\ Len(file) \in Nat
          /\ file'[Len(file) + 1].event = ev[t]
          /\ \A i \in 1..Len(file) : file'[i] = file[i] /\ file[i].event # ev[t]
      BY <1>1, <3>1, AppendedEvents
    <3> QED BY <1>1, <1>2, <3>2
  <2> QED BY <2>1, <2>2 DEF AppendWriteFails
<1> QED BY <1>1, <1>2, <1>3, FailedReturnIndInv

\* A failed sync and a panic leave the lines of the file alone.
LEMMA AppendAbandonedIndInv ==
  ASSUME IndInv, NEW t \in Thread, AppendSyncFails(t) \/ Panic(t)
  PROVE  IndInv'
<1>1. /\ pc[t] # "idle" /\ Return(t, "failed") /\ holder' = NoThread
      /\ UNCHANGED <<file, running, prevHash>>
      /\ durable' \in {durable, Len(file)}
  BY DEF AppendSyncFails, Panic, disk
<1>2. /\ poisoned' \in BOOLEAN /\ mutexPoisoned' \in BOOLEAN /\ (poisoned' \/ mutexPoisoned')
      /\ UNCHANGED <<poisoned, flag, sends>> \/ (poisoned' = TRUE /\ MarkPoisoned)
  <2>1. CASE AppendSyncFails(t)
    BY <2>1 DEF AppendSyncFails, Poison, IndInv, TypeOK
  <2>2. CASE Panic(t)
    BY <2>2 DEF Panic, IndInv, TypeOK
  <2> QED BY <2>1, <2>2
<1>3. /\ file \in Seq(Line) /\ Chained(file) /\ durable \in 0..Len(file) /\ Len(file) \in Nat
      /\ \A i, j \in 1..Len(file) : file[i].event = file[j].event => i = j
  BY DEF IndInv, TypeOK, ChainNeverForks, EventsInFile
<1>4. Chained(file') /\ durable' \in durable..Len(file')
  BY <1>1, <1>3
<1>5. Len(file') <= durable' + 1 /\ \A i \in 1..durable' : file'[i].form = "whole"
  <2>1. Len(file) <= durable + 1 /\ \A i \in 1..durable : file[i].form = "whole"
    BY <1>1, InsideAlone DEF IndInv, BufferIsOneLine
  <2>2. CASE durable' = durable
    BY <1>1, <2>1, <2>2
  <2>3. CASE AppendSyncFails(t) /\ durable' = Len(file)
    <3>1. file[Len(file)].form = "whole"
      <4>1. file[Len(file)] = NewLine(t, "whole")
        BY <2>3 DEF AppendSyncFails, IndInv, WrittenIsLastLine
      <4> QED BY <4>1 DEF NewLine
    <3> QED BY <1>1, <1>3, <2>1, <2>3, <3>1
  <2> QED BY <1>1, <2>2, <2>3 DEF AppendSyncFails, Panic, disk
<1> QED BY <1>1, <1>2, <1>3, <1>4, <1>5, FailedReturnIndInv

LEMMA AppendSyncIndInv ==
  ASSUME IndInv, NEW t \in Thread, AppendSync(t)
  PROVE  IndInv'
<1> USE DEF IndInv
<1>1. /\ pc[t] = "written" /\ durable' = Len(file) /\ prevHash' = Append(prevHash, ev[t])
      /\ holder' = NoThread
      /\ UNCHANGED <<file, running, poisoned, flag, sends, mutexPoisoned>>
      /\ pc' = [pc EXCEPT ![t] = "idle"] /\ ev' = [ev EXCEPT ![t] = NoEvent]
      /\ outcome' = [outcome EXCEPT ![ev[t]] = "ok"]
  BY DEF AppendSync, Return
<1>2. /\ holder = t /\ running /\ ~poisoned /\ ~mutexPoisoned /\ ev[t] \in Event
      /\ outcome[ev[t]] = "running" /\ \A u \in Thread : u # t => pc[u] = "idle"
  BY <1>1, InsideAlone
<1>3. /\ pc \in [Thread -> {"idle", "locked", "written"}] /\ outcome \in [Event -> Outcome]
      /\ ev \in [Thread -> Event \cup {NoEvent}] /\ durable \in 0..Len(file)
      /\ file \in Seq(Line) /\ Len(file) \in Nat /\ prevHash \in Seq(Event)
  BY DEF TypeOK
<1>4. /\ file # <<>> /\ Len(file) # 0
      /\ file[Len(file)] = [prev |-> prevHash, event |-> ev[t], form |-> "whole"]
  BY <1>1, <1>3, EmptySeq DEF WrittenIsLastLine, NewLine
<1>5. \A u \in Thread : pc'[u] = "idle"
  BY <1>1, <1>2, <1>3
<1>6. TypeOK'
  <2>1. prevHash' \in Seq(Event) /\ durable' \in 0..Len(file')
    BY <1>1, <1>2, <1>3
  <2>2. /\ pc' \in [Thread -> {"idle", "locked", "written"}]
        /\ ev' \in [Thread -> Event \cup {NoEvent}]
        /\ outcome' \in [Event -> Outcome]
    BY <1>1, <1>3 DEF Outcome
  <2>3. UNCHANGED <<file, running, poisoned, flag, sends, mutexPoisoned>> /\ holder' = NoThread
    BY <1>1
  <2> QED BY <2>1, <2>2, <2>3 DEF TypeOK
<1>7. ChainNeverForks' /\ NotifiedOnce'
  BY <1>1 DEF ChainNeverForks, Chained, HashBefore, NotifiedOnce
<1>8. AcknowledgedIsDurable'
  <2> SUFFICES ASSUME NEW e \in Event, outcome'[e] = "ok" PROVE Recorded(e, durable)'
    BY DEF AcknowledgedIsDurable
  <2>1. CASE e = ev[t]
    <3>1. Len(file) \in 1..durable' /\ file'[Len(file)].event = e /\ file'[Len(file)].form = "whole"
      BY <1>1, <1>3, <1>4, <2>1
    <3> QED BY <3>1 DEF Recorded
  <2>2. CASE e # ev[t]
    <3>1. outcome[e] = "ok"
      BY <1>1, <1>2, <1>3, <2>2
    <3>2. PICK i \in 1..durable : file[i].event = e /\ file[i].form = "whole"
      BY <3>1 DEF AcknowledgedIsDurable, Recorded
    <3>3. i \in 1..durable' /\ file'[i] = file[i]
      BY <1>1, <1>3, <3>2
    <3> QED BY <3>2, <3>3 DEF Recorded
  <2> QED BY <2>1, <2>2
<1>9. AppendersHoldMutex' /\ WrittenIsLastLine' /\ StoppedIsDurable'
  BY <1>1, <1>2, <1>5, NoThreadAssumption
  DEF AppendersHoldMutex, WrittenIsLastLine, StoppedIsDurable
<1>10. QuietMatchesFile'
  <2>1. ChainHead(file) = Append(prevHash, ev[t]) /\ EndsWithNewline(file)
    <3>1. Len(file) + 1 # 1 /\ Len(file) + 1 - 1 = Len(file)
      BY <1>3, <1>4
    <3>2. ChainHead(file) = LineHash(file[Len(file)])
      BY <3>1 DEF ChainHead, HashBefore
    <3> QED BY <1>4, <3>2 DEF LineHash, EndsWithNewline
  <2>2. ChainHead(file') = ChainHead(file) /\ EndsWithNewline(file')
    BY <1>1, <2>1
  <2> QED BY <1>1, <2>1, <2>2 DEF QuietMatchesFile, ChainHead, HashBefore, EndsWithNewline
<1>11. EventsInFile'
  <2> SUFFICES ASSUME NEW i \in 1..Len(file)
               PROVE  outcome'[file[i].event] \notin {"none", "refused"}
    BY <1>1, <1>5 DEF EventsInFile
  <2>1. file[i].event \in Event /\ outcome[file[i].event] \notin {"none", "refused"}
    BY FileEvents DEF EventsInFile
  <2> QED BY <1>1, <1>2, <1>3, <2>1
<1>12. BufferIsOneLine'
  <2>1. Len(file) = durable + 1 /\ \A i \in 1..durable : file[i].form = "whole"
    BY <1>1, <1>2, <1>3 DEF BufferIsOneLine, WrittenIsLastLine
  <2> QED BY <1>1, <1>3, <1>4, <2>1 DEF BufferIsOneLine
<1> QED BY <1>6, <1>7, <1>8, <1>9, <1>10, <1>11, <1>12

-----------------------------------------------------------------------------
(* The theorems.                                                           *)

\* IndInv holds of every behaviour of the log.
THEOREM IndInvHolds == Spec => []IndInv
<1>1. IndInv /\ [Next]_vars => IndInv'
  <2> SUFFICES ASSUME IndInv, [Next]_vars PROVE IndInv'
    OBVIOUS
  <2>1. CASE Open
    BY <2>1, OpenIndInv
  <2>2. CASE Stop
    BY <2>2, StopIndInv
  <2>3. CASE OperatorRepair
    BY <2>3, RepairIndInv
  <2>4. ASSUME NEW t \in Thread, NEW e \in Event,
               AppendLock(t, e) \/ AppendRefused(t, e) \/ AppendMutexPoisoned(t, e)
        PROVE  IndInv'
    BY <2>4, AppendLockIndInv, AppendRefusedIndInv
  <2>5. ASSUME NEW t \in Thread,
               AppendWrite(t) \/ AppendWriteFails(t) \/ AppendSyncFails(t)
                 \/ AppendSync(t) \/ Panic(t)
        PROVE  IndInv'
    BY <2>5, AppendWriteIndInv, AppendWriteFailsIndInv, AppendAbandonedIndInv, AppendSyncIndInv
  <2>6. CASE UNCHANGED vars
    <3> USE <2>6 DEF vars, disk, memory, calls, IndInv
    <3>1. TypeOK'
      BY DEF TypeOK
    <3>2. ChainNeverForks' /\ AcknowledgedIsDurable' /\ BufferIsOneLine'
      BY DEF ChainNeverForks, Chained, HashBefore, AcknowledgedIsDurable, Recorded, BufferIsOneLine
    <3>3. AppendersHoldMutex' /\ StoppedIsDurable' /\ NotifiedOnce'
      BY DEF AppendersHoldMutex, StoppedIsDurable, NotifiedOnce
    <3>4. QuietMatchesFile'
      BY DEF QuietMatchesFile, ChainHead, HashBefore, EndsWithNewline
    <3>5. WrittenIsLastLine'
      BY DEF WrittenIsLastLine, NewLine
    <3>6. EventsInFile'
      BY DEF EventsInFile
    <3> QED BY <3>1, <3>2, <3>3, <3>4, <3>5, <3>6
  <2> QED BY <2>1, <2>2, <2>3, <2>4, <2>5, <2>6 DEF Next
<1> QED BY InitIndInv, <1>1, PTL DEF Spec

\* The file never forks and only its last line can be incomplete, and an
\* acknowledged event is durable: the two promises of append.
THEOREM AuditLogIntegrity == Spec => [](TypeOK /\ ChainNeverForks /\ AcknowledgedIsDurable)
<1>1. IndInv => TypeOK /\ ChainNeverForks /\ AcknowledgedIsDurable
  BY DEF IndInv
<1> QED BY <1>1, IndInvHolds, PTL

\* A refused append leaves no trace, a verified chain matches the file, and a
\* poisoned log is published exactly once.
THEOREM AuditLogRefusal == Spec => [](RefusedLeavesNoTrace /\ VerifiedMatchesFile /\ NotifiedOnce)
<1>1. ASSUME IndInv PROVE RefusedLeavesNoTrace
  <2> SUFFICES ASSUME NEW e \in Event, outcome[e] = "refused", NEW i \in 1..Len(file),
                      file[i].event = e
               PROVE  FALSE
    BY DEF RefusedLeavesNoTrace
  <2> QED BY <1>1 DEF IndInv, EventsInFile
<1>2. ASSUME IndInv PROVE VerifiedMatchesFile
  BY <1>2, LockedContinues DEF VerifiedMatchesFile
<1>3. IndInv => NotifiedOnce
  BY DEF IndInv
<1> QED BY <1>1, <1>2, <1>3, IndInvHolds, PTL

\* A process that is poisoned, by its chain or by its mutex, never writes.
THEOREM PoisonedIsSilent == Spec => PoisonedNeverWrites
<1>1. IndInv /\ [Next]_vars
        => [(poisoned \/ mutexPoisoned) /\ running' => UNCHANGED <<file, durable, prevHash>>]_vars
  <2> SUFFICES ASSUME IndInv, Next, poisoned \/ mutexPoisoned, running'
               PROVE  UNCHANGED <<file, durable, prevHash>>
    OBVIOUS
  <2>1. \A t \in Thread : pc[t] = "idle"
    BY DEF IndInv, AppendersHoldMutex
  <2>2. CASE Open
    BY <2>2 DEF Open, IndInv, StoppedIsDurable
  <2>3. ASSUME NEW t \in Thread, NEW e \in Event,
               AppendLock(t, e) \/ AppendRefused(t, e) \/ AppendMutexPoisoned(t, e)
        PROVE  UNCHANGED <<file, durable, prevHash>>
    BY <2>3 DEF AppendLock, AppendRefused, AppendMutexPoisoned, disk, memory
  <2>4. ASSUME NEW t \in Thread,
               AppendWrite(t) \/ AppendWriteFails(t) \/ AppendSyncFails(t)
                 \/ AppendSync(t) \/ Panic(t)
        PROVE  FALSE
    BY <2>1, <2>4 DEF AppendWrite, AppendWriteFails, AppendSyncFails, AppendSync, Panic
  <2>5. CASE Stop
    BY <2>5 DEF Stop
  <2>6. CASE OperatorRepair
    BY <2>6 DEF OperatorRepair, memory
  <2> QED BY <2>2, <2>3, <2>4, <2>5, <2>6 DEF Next
<1> QED BY <1>1, IndInvHolds, PTL DEF Spec, PoisonedNeverWrites

-----------------------------------------------------------------------------
(* The log implements the abstract trail.                                  *)

\* The events of the first n lines of a file form a sequence of events.
LEMMA EventSequence ==
  ASSUME NEW f \in Seq(Line), NEW n \in 0..Len(f)
  PROVE  LET s == [i \in 1..n |-> f[i].event]
         IN  /\ s \in Seq(Event) /\ Len(s) = n /\ DOMAIN s = 1..n
             /\ \A i \in 1..n : s[i] = f[i].event /\ f[i].event \in Event
<1>1. \A i \in 1..n : f[i] \in Line
  BY ElementOfSeq
<1>2. \A i \in 1..n : f[i].event \in Event
  BY <1>1 DEF Line
<1>3. [i \in 1..n |-> f[i].event] \in [1..n -> Event] /\ n \in Nat
  BY <1>2
<1> QED BY <1>2, <1>3

LEMMA RunningIsComplete == IndInv /\ running => CompleteLines = durable
BY DEF IndInv, TypeOK, BufferIsOneLine, CompleteLines

LEMMA TrailSame ==
  ASSUME IndInv, IndInv', CompleteLines' = CompleteLines,
         \A i \in 1..CompleteLines : file'[i].event = file[i].event
  PROVE  Trail' = Trail
BY DEF Trail

LEMMA TrailGrows ==
  ASSUME IndInv, IndInv', CompleteLines' = CompleteLines + 1,
         \A i \in 1..CompleteLines : file'[i].event = file[i].event
  PROVE  LET e == file'[CompleteLines + 1].event
         IN  e \in Event /\ e \notin Range(Trail) /\ Trail' = Append(Trail, e)
<1> DEFINE n == CompleteLines
           e == file'[n + 1].event
<1>1. /\ file \in Seq(Line) /\ durable \in 0..Len(file) /\ Len(file) \in Nat
      /\ file' \in Seq(Line) /\ durable' \in 0..Len(file') /\ Len(file') \in Nat
  BY DEF IndInv, TypeOK
<1>2. n \in 0..Len(file) /\ n + 1 \in 0..Len(file') /\ n \in Nat
  <2>1. n \in 0..Len(file)
    BY <1>1 DEF CompleteLines
  <2>2. CompleteLines' = durable' \/ (durable' > 0 /\ CompleteLines' = durable' - 1)
    BY Zenon DEF CompleteLines
  <2>3. CompleteLines' \in 0..Len(file')
    BY <1>1, <2>2
  <2> QED BY <1>1, <2>1, <2>3
<1> HIDE DEF n
<1>3. /\ Trail \in Seq(Event) /\ Len(Trail) = n /\ DOMAIN Trail = 1..n
      /\ \A i \in 1..n : Trail[i] = file[i].event
  BY <1>1, <1>2, EventSequence DEF Trail, n
<1>4. /\ Trail' \in Seq(Event) /\ Len(Trail') = n + 1
      /\ \A i \in 1..n + 1 : Trail'[i] = file'[i].event /\ file'[i].event \in Event
  <2>1. CompleteLines' = n + 1
    BY DEF n
  <2>2. Trail' = [i \in 1..CompleteLines' |-> file'[i].event]
    BY DEF Trail
  <2> HIDE DEF n
  <2>3. Trail' = [i \in 1..n + 1 |-> file'[i].event]
    BY Zenon, <2>1, <2>2
  <2> QED BY <1>1, <1>2, <2>3, EventSequence
<1>5. \A i, j \in 1..Len(file') : file'[i].event = file'[j].event => i = j
  BY DEF IndInv, EventsInFile
<1> HIDE DEF e
<1>8. e \in Event
  BY <1>2, <1>4 DEF e
<1>6. e \notin Range(Trail)
  <2> SUFFICES ASSUME e \in Range(Trail) PROVE FALSE
    OBVIOUS
  <2>1. PICK i \in 1..n : file[i].event = e
    BY <1>3 DEF Range
  <2>2. file'[i].event = file'[n + 1].event
    BY <2>1 DEF e, n
  <2>3. i = n + 1
    BY <1>1, <1>2, <1>5, <2>2
  <2> QED BY <1>2, <2>3
<1>7. Trail' = Append(Trail, e)
  <2>1. /\ Append(Trail, e) \in Seq(Event) /\ Len(Append(Trail, e)) = n + 1
        /\ Append(Trail, e)[n + 1] = e
        /\ \A i \in 1..n : Append(Trail, e)[i] = Trail[i]
    BY <1>2, <1>3, <1>8, AppendProperties
  <2>2. \A i \in 1..n : Trail'[i] = Trail[i]
    BY <1>2, <1>3, <1>4 DEF n
  <2>3. Trail'[n + 1] = e
    BY <1>2, <1>4 DEF e
  <2>4. \A i \in 1..n + 1 : Trail'[i] = Append(Trail, e)[i]
    BY <1>2, <2>1, <2>2, <2>3
  <2> QED BY <1>2, <1>4, <2>1, <2>4, SeqEqual
<1> QED BY <1>8, <1>6, <1>7 DEF e, n

\* What each step does to the trail and to the acknowledged events: nothing,
\* one more event without an acknowledgement, or one more with it.
LEMMA StepOfTrail ==
  ASSUME IndInv, IndInv', Next
  PROVE  \/ UNCHANGED <<Trail, Acked>>
         \/ \E e \in Event : Abstract!RecordAcknowledged(e) \/ Abstract!RecordUnacknowledged(e)
<1> DEFINE Goal == \/ UNCHANGED <<Trail, Acked>>
                   \/ \E e \in Event : Abstract!RecordAcknowledged(e)
                                         \/ Abstract!RecordUnacknowledged(e)
<1>1. /\ durable \in 0..Len(file) /\ Len(file) \in Nat /\ durable' \in 0..Len(file')
      /\ Len(file') \in Nat /\ Len(file) <= durable + 1
      /\ outcome \in [Event -> Outcome]
  BY DEF IndInv, TypeOK, BufferIsOneLine
<1>2. running => CompleteLines = durable
  BY RunningIsComplete
<1>3. running' => CompleteLines' = durable'
  <2>1. running' => \A i \in 1..durable' : file'[i].form = "whole"
    BY DEF IndInv, BufferIsOneLine
  <2>2. running' /\ durable' > 0 => file'[durable'].form = "whole"
    BY <1>1, <2>1
  <2> QED BY <2>2 DEF CompleteLines
\* A step that keeps the complete lines and the acknowledgements stutters.
<1>4. ASSUME CompleteLines' = CompleteLines, UNCHANGED Acked,
             \A i \in 1..CompleteLines : file'[i].event = file[i].event
      PROVE  Goal
  BY <1>4, TrailSame
\* A step that completes one more line records its event.
<1>5. ASSUME CompleteLines' = CompleteLines + 1, UNCHANGED Acked,
             \A i \in 1..CompleteLines : file'[i].event = file[i].event
      PROVE  Goal
  <2>1. PICK e \in Event : e \notin Range(Trail) /\ Trail' = Append(Trail, e)
    BY <1>5, TrailGrows
  <2>2. Abstract!RecordUnacknowledged(e)
    BY <1>5, <2>1 DEF Abstract!RecordUnacknowledged, Range, Abstract!Range
  <2> QED BY <2>2
<1>6. CASE Open
  <2>1. UNCHANGED <<CompleteLines, Acked, file>>
    BY <1>6 DEF Open, disk, calls, CompleteLines, Acked
  <2> QED BY <1>4, <2>1
<1>7. ASSUME NEW t \in Thread, NEW e \in Event,
             AppendLock(t, e) \/ AppendRefused(t, e) \/ AppendMutexPoisoned(t, e)
      PROVE  Goal
  <2>1. UNCHANGED <<CompleteLines, file>>
    BY <1>7 DEF AppendLock, AppendRefused, AppendMutexPoisoned, disk, CompleteLines
  <2>2. outcome[e] = "none" /\ outcome' \in {[outcome EXCEPT ![e] = a] : a \in {"running", "refused"}}
    BY <1>7 DEF AppendLock, AppendRefused, AppendMutexPoisoned
  <2>3. UNCHANGED Acked
    BY <1>1, <2>2 DEF Acked
  <2> QED BY <1>4, <2>1, <2>3
<1>8. ASSUME NEW t \in Thread, AppendWrite(t) \/ AppendWriteFails(t)
      PROVE  Goal
  <2>1. /\ pc[t] = "locked" /\ running /\ running' /\ UNCHANGED durable
        /\ ev[t] \in Event /\ outcome[ev[t]] = "running"
    BY <1>8, InsideAlone DEF AppendWrite, AppendWriteFails, memory
  <2>2. CompleteLines' = CompleteLines /\ CompleteLines = durable
    BY <1>2, <1>3, <2>1
  <2>3. UNCHANGED outcome \/ outcome' = [outcome EXCEPT ![ev[t]] = "failed"]
    BY <1>8 DEF AppendWrite, AppendWriteFails, Return
  <2>4. UNCHANGED Acked
    BY <1>1, <2>1, <2>3 DEF Acked
  <2>5. \A i \in 1..Len(file) : file'[i] = file[i]
    <3>1. CASE UNCHANGED file
      BY <3>1
    <3>2. CASE \E form \in Form : file' = AppendText(file, NewLine(t, form))
      BY <2>1, <3>2, AppendedEvents
    <3> QED BY <1>8, <3>1, <3>2 DEF AppendWrite, AppendWriteFails, Form
  <2> QED BY <1>1, <1>4, <2>2, <2>4, <2>5
<1>9. ASSUME NEW t \in Thread, AppendSyncFails(t) \/ Panic(t)
      PROVE  Goal
  <2>1. /\ pc[t] # "idle" /\ running /\ running' /\ UNCHANGED file
        /\ ev[t] \in Event /\ outcome[ev[t]] = "running"
        /\ outcome' = [outcome EXCEPT ![ev[t]] = "failed"]
        /\ durable' = durable \/ durable' = Len(file)
    BY <1>9, InsideAlone DEF AppendSyncFails, Panic, Return, disk
  <2>2. UNCHANGED Acked
    BY <1>1, <2>1 DEF Acked
  <2>3. CompleteLines = durable /\ CompleteLines' = durable'
    BY <1>2, <1>3, <2>1
  <2>4. durable' = durable \/ durable' = durable + 1
    BY <1>1, <2>1
  <2> QED BY <1>4, <1>5, <2>1, <2>2, <2>3, <2>4
<1>10. ASSUME NEW t \in Thread, AppendSync(t)
       PROVE  Goal
  <2>1. /\ pc[t] = "written" /\ running /\ running' /\ UNCHANGED file /\ durable' = Len(file)
        /\ ev[t] \in Event /\ outcome' = [outcome EXCEPT ![ev[t]] = "ok"]
    BY <1>10, InsideAlone DEF AppendSync, Return
  <2>2. Len(file) = durable + 1 /\ file[Len(file)] = NewLine(t, "whole")
    BY <1>1, <2>1 DEF IndInv, WrittenIsLastLine
  <2>3. CompleteLines = durable /\ CompleteLines' = CompleteLines + 1
    BY <1>2, <1>3, <2>1, <2>2
  <2>4. file'[CompleteLines + 1].event = ev[t]
    BY <2>1, <2>2, <2>3 DEF NewLine
  <2>5. ev[t] \notin Range(Trail) /\ Trail' = Append(Trail, ev[t])
    BY <2>1, <2>3, <2>4, TrailGrows
  <2>6. Acked' = Acked \cup {ev[t]}
    BY <1>1, <2>1 DEF Acked
  <2> QED BY <2>1, <2>5, <2>6 DEF Abstract!RecordAcknowledged, Range, Abstract!Range
<1>11. CASE Stop
  <2>1. /\ running /\ ~running' /\ durable' = Len(file')
        /\ Len(file') \in durable..Len(file)
        /\ \A i \in 1..Len(file') : file'[i].event = file[i].event
        /\ \A i \in 1..durable : file'[i] = file[i]
    BY <1>11, SurvivorsKeepChain DEF Stop, IndInv, ChainNeverForks
  <2>2. UNCHANGED Acked
    BY <1>1, <1>11 DEF Stop, Acked
  <2>3. CompleteLines = durable /\ \A i \in 1..CompleteLines : file'[i].event = file[i].event
    BY <1>1, <1>2, <2>1
  <2>4. CompleteLines' = durable \/ CompleteLines' = durable + 1
    <3>1. CASE durable' = durable
      <4>1. durable > 0 => file'[durable].form = "whole"
        BY <1>1, <2>1 DEF IndInv, BufferIsOneLine
      <4> QED BY <1>1, <3>1, <4>1 DEF CompleteLines
    <3>2. CASE durable' = durable + 1
      BY <1>1, <3>2 DEF CompleteLines
    <3> QED BY <1>1, <2>1, <3>1, <3>2
  <2> QED BY <1>4, <1>5, <2>2, <2>3, <2>4
<1>12. CASE OperatorRepair
  <2>1. /\ file \in Seq(Line) /\ file # <<>> /\ Chained(file)
        /\ file[Len(file)].form # "whole" /\ durable = Len(file) /\ Len(file) > 0
        /\ durable' = Len(file') /\ UNCHANGED Acked
    BY <1>1, <1>12, EmptySeq DEF OperatorRepair, IndInv, TypeOK, ChainNeverForks,
       EndsWithNewline, StoppedIsDurable, calls, Acked
  <2>2. CompleteLines = Len(file) - 1
    BY <1>1, <2>1 DEF CompleteLines
  <2>3. CASE file' = SubSeq(file, 1, Len(file) - 1)
    <3>1. Len(file) - 1 \in 0..Len(file)
      BY <1>1, <2>1
    <3>2. Len(file') = Len(file) - 1 /\ \A i \in 1..Len(file) - 1 : file'[i] = file[i]
      BY <2>1, <2>3, <3>1, PrefixKeepsChain
    <3>3. durable' > 0 => file'[durable'].form = "whole"
      BY <1>1, <2>1, <3>2 DEF Chained
    <3>4. CompleteLines' = Len(file) - 1
      BY <2>1, <3>2, <3>3 DEF CompleteLines
    <3> QED BY <1>4, <2>1, <2>2, <3>2, <3>4
  <2>4. CASE file' = [file EXCEPT ![Len(file)].form = "whole"]
    <3> DEFINE g == [file EXCEPT ![Len(file)].form = "whole"]
    <3>1. Len(g) = Len(file) /\ g[Len(file)].form = "whole"
          /\ \A i \in 1..Len(file) : g[i].event = file[i].event
      BY <2>1, LastFormKeepsChain DEF Form
    <3> HIDE DEF g
    <3>2. file' = g
      BY <2>4 DEF g
    <3>3. CompleteLines' = Len(file)
      BY <2>1, <3>1, <3>2 DEF CompleteLines
    <3> QED BY <1>1, <1>5, <2>1, <2>2, <3>1, <3>2, <3>3
  <2> QED BY <1>12, <2>3, <2>4 DEF OperatorRepair
<1> QED BY <1>6, <1>7, <1>8, <1>9, <1>10, <1>11, <1>12 DEF Next

\* The log implements the abstract trail: through failing disks, stops,
\* restarts and repairs, what is permanent only grows, no event is recorded
\* twice, and an acknowledgement comes with the step that makes it permanent.
THEOREM AuditLogRefinesTrail == Spec => ImplementsTrail
<1>1. Init => Abstract!Init
  BY DEF Init, Abstract!Init, Trail, CompleteLines, Acked
<1>2. IndInv /\ IndInv' /\ [Next]_vars => [Abstract!Next]_<<Trail, Acked>>
  <2> SUFFICES ASSUME IndInv, IndInv', [Next]_vars
               PROVE  [Abstract!Next]_<<Trail, Acked>>
    OBVIOUS
  <2>1. CASE Next
    BY <2>1, StepOfTrail DEF Abstract!Next
  <2>2. CASE UNCHANGED vars
    BY <2>2 DEF vars, disk, memory, calls, Trail, CompleteLines, Acked
  <2> QED BY <2>1, <2>2
<1> QED BY <1>1, <1>2, IndInvHolds, PTL DEF Spec, ImplementsTrail, Abstract!Spec

\* No second line continues the same line: the chain of the file, its torn end
\* included, never forks, whoever appends and wherever the process stops.
THEOREM ChainStaysUnforked == Spec => []ChainNeverForks
<1>1. IndInv => ChainNeverForks
  BY DEF IndInv
<1> QED BY <1>1, IndInvHolds, PTL

-----------------------------------------------------------------------------
(* The process around the logs: AuditShutdown, for any logs and requests.   *)
(* A log is seen through its flag and its watch value there, so nothing of  *)
(* the file above is used.                                                  *)

\* A step of the requests or of the logs, which leaves the watchers, the timer
\* and the phase alone.
LEMMA LogsKeepShutdownInv ==
  ASSUME ShutdownInv,
         \/ \E r \in Request : Accept(r) \/ Finish(r)
         \/ \E r \in Request, l \in Log :
              AppendPanics(r, l) \/ AppendRaisesFlag(r, l)
         \/ \E l \in Log : SendWatch(l)
  PROVE  ShutdownInv'
<1> USE DEF ShutdownInv, logs, monitor, server
<1>1. ShutdownTypeOK'
  BY DEF ShutdownTypeOK, Accept, Finish, AppendPanics,
     AppendRaisesFlag, SendWatch
<1>2. /\ \A k \in Log : flags[k] => flags'[k]
      /\ \A k \in Log : watch'[k] => watch[k] \/ flags[k]
      /\ \A k \in Log : mutexesPoisoned[k] => mutexesPoisoned'[k]
      /\ \A q \in Request : request'[q] = "cut" => request[q] = "cut"
      /\ UNCHANGED <<watcher, inbox, reported, timer, phase>>
  BY DEF ShutdownTypeOK, Accept, Finish, AppendPanics,
     AppendRaisesFlag, SendWatch
<1>3. SentAfterFlag'
  <2>1. inbox # <<>> => Head(inbox) \in Log
    BY DEF ShutdownTypeOK
  <2> QED BY <1>2, <2>1 DEF SentAfterFlag
<1>4. TimerStartsTheDrain' /\ CutOnlyAfterGrace'
  BY <1>2 DEF TimerStartsTheDrain, CutOnlyAfterGrace
<1>5. StopsForAPoisonedLog'
  BY <1>2 DEF StopsForAPoisonedLog, Unhealthy
<1> QED BY <1>1, <1>3, <1>4, <1>5

\* A step of the watchers and of the receiver.
LEMMA WatchersKeepShutdownInv ==
  ASSUME ShutdownInv,
         \/ Subscribe \/ Report
         \/ \E l \in Log : WatcherWakes(l) \/ WatcherSends(l)
  PROVE  ShutdownInv'
<1> USE DEF ShutdownInv, logs, monitor, server
<1>1. CASE Subscribe
  BY <1>1 DEF Subscribe, ShutdownTypeOK, SentAfterFlag,
     TimerStartsTheDrain, StopsForAPoisonedLog, Unhealthy,
     CutOnlyAfterGrace
<1>2. CASE Report
  <2>1. /\ inbox \in Seq(Log) /\ inbox # <<>> /\ Len(inbox) <= 1
        /\ reported' = Head(inbox) /\ inbox' = Tail(inbox)
        /\ phase = "serving" /\ phase' = "draining"
        /\ timer = "off" /\ timer' = "running"
        /\ UNCHANGED <<mutexesPoisoned, flags, watch, watcher, request>>
    BY <1>2 DEF Report, ShutdownTypeOK, TimerStartsTheDrain
  <2>2. /\ Head(inbox) \in Log /\ flags[Head(inbox)]
        /\ Tail(inbox) = <<>> /\ Tail(inbox) \in Seq(Log) /\ Len(Tail(inbox)) <= 1
    BY <2>1 DEF SentAfterFlag
  <2>3. ShutdownTypeOK'
    BY <2>1, <2>2 DEF ShutdownTypeOK
  <2>4. SentAfterFlag' /\ TimerStartsTheDrain'
    BY <2>1, <2>2 DEF SentAfterFlag, TimerStartsTheDrain
  <2>5. StopsForAPoisonedLog' /\ CutOnlyAfterGrace'
    BY <2>1, <2>2 DEF StopsForAPoisonedLog, Unhealthy,
       CutOnlyAfterGrace
  <2> QED BY <2>3, <2>4, <2>5
<1>3. ASSUME NEW l \in Log, WatcherWakes(l) \/ WatcherSends(l)
      PROVE  ShutdownInv'
  <2>1. /\ flags[l]
        /\ watcher' = [watcher EXCEPT ![l] = "sending"] \/ watcher' = [watcher EXCEPT ![l] = "done"]
        /\ UNCHANGED <<mutexesPoisoned, flags, watch, reported, timer, phase, request>>
    BY <1>3 DEF WatcherWakes, WatcherSends, SentAfterFlag
  <2>2. inbox' = inbox \/ inbox' = <<l>>
    BY <1>3 DEF WatcherWakes, WatcherSends
  <2>3. <<l>> \in Seq(Log) /\ Len(<<l>>) = 1 /\ Head(<<l>>) = l
    OBVIOUS
  <2>4. ShutdownTypeOK'
    <3>1. inbox' \in Seq(Log) /\ Len(inbox') <= 1
      <4>1. CASE inbox' = inbox
        BY <4>1 DEF ShutdownTypeOK
      <4>2. CASE inbox' = <<l>>
        BY <4>2, <2>3
      <4> QED BY <2>2, <4>1, <4>2
    <3>2. watcher' \in [Log -> {"unsubscribed", "waiting", "sending", "done"}]
      BY <2>1 DEF ShutdownTypeOK
    <3> QED BY <2>1, <3>1, <3>2 DEF ShutdownTypeOK
  <2>5. SentAfterFlag'
    BY <2>1, <2>2, <2>3 DEF SentAfterFlag, ShutdownTypeOK
  <2>6. /\ TimerStartsTheDrain' /\ StopsForAPoisonedLog'
        /\ CutOnlyAfterGrace'
    BY <2>1 DEF TimerStartsTheDrain, StopsForAPoisonedLog,
       Unhealthy, CutOnlyAfterGrace
  <2> QED BY <2>4, <2>5, <2>6
<1> QED BY <1>1, <1>2, <1>3

\* A step of the timer, or the end of the process.
LEMMA ExitsKeepShutdownInv ==
  ASSUME ShutdownInv,
         TimerFires \/ ServeReturns \/ ForcedExit
  PROVE  ShutdownInv'
<1> USE DEF ShutdownInv, logs, monitor
<1>1. /\ phase # "serving" /\ phase' # "serving"
      /\ timer # "off" /\ timer' # "off"
      /\ UNCHANGED <<mutexesPoisoned, flags, watch, watcher, inbox, reported>>
  BY DEF TimerFires, ServeReturns, ForcedExit, Exit,
     TimerStartsTheDrain
<1>2. ShutdownTypeOK'
  BY DEF ShutdownTypeOK, TimerFires, ServeReturns, ForcedExit,
     Exit
<1>3. (\E r \in Request : request'[r] = "cut") => timer' = "elapsed"
  BY DEF ShutdownTypeOK, TimerFires, ServeReturns, ForcedExit,
     Exit, CutOnlyAfterGrace
<1>4. /\ SentAfterFlag' /\ TimerStartsTheDrain'
      /\ StopsForAPoisonedLog'
  BY <1>1 DEF SentAfterFlag, TimerStartsTheDrain,
     StopsForAPoisonedLog, Unhealthy
<1> QED BY <1>2, <1>3, <1>4 DEF CutOnlyAfterGrace

\* The inductive invariant of the shutdown holds in every reachable state.
LEMMA ShutdownIndInvHolds == ShutdownSpec => []ShutdownInv
<1>1. ShutdownInit => ShutdownInv
  BY DEF ShutdownInit, ShutdownInv, ShutdownTypeOK, SentAfterFlag,
     TimerStartsTheDrain, StopsForAPoisonedLog, CutOnlyAfterGrace
<1>2. ShutdownInv /\ [ShutdownNext]_(shutdownVars) => ShutdownInv'
  <2> SUFFICES ASSUME ShutdownInv, [ShutdownNext]_(shutdownVars)
               PROVE  ShutdownInv'
    OBVIOUS
  <2>1. ASSUME NEW r \in Request, Accept(r) \/ Finish(r)
        PROVE  ShutdownInv'
    BY <2>1, LogsKeepShutdownInv
  <2>2. ASSUME NEW r \in Request, NEW l \in Log,
               AppendPanics(r, l) \/ AppendRaisesFlag(r, l)
        PROVE  ShutdownInv'
    BY <2>2, LogsKeepShutdownInv
  <2>3. ASSUME NEW l \in Log,
               SendWatch(l) \/ WatcherWakes(l) \/ WatcherSends(l)
        PROVE  ShutdownInv'
    BY <2>3, LogsKeepShutdownInv, WatchersKeepShutdownInv
  <2>4. CASE Subscribe \/ Report
    BY <2>4, WatchersKeepShutdownInv
  <2>5. CASE TimerFires \/ ServeReturns \/ ForcedExit
    BY <2>5, ExitsKeepShutdownInv
  <2>6. CASE UNCHANGED shutdownVars
    BY <2>6 DEF shutdownVars, logs, monitor, server,
       ShutdownInv, ShutdownTypeOK, SentAfterFlag, TimerStartsTheDrain,
       StopsForAPoisonedLog, Unhealthy, CutOnlyAfterGrace
  <2> QED BY <2>1, <2>2, <2>3, <2>4, <2>5, <2>6 DEF ShutdownNext
<1> QED BY <1>1, <1>2, PTL DEF ShutdownSpec

\* A process stops serving only for a log whose flag is up, and says which: for
\* any number of logs that fail in any order.
THEOREM StopsForAPoisonedLogAlways == ShutdownSpec => []StopsForAPoisonedLog
<1>1. ShutdownInv => StopsForAPoisonedLog
  BY DEF ShutdownInv
<1> QED BY <1>1, ShutdownIndInvHolds, PTL

\* No request is cut off before the grace period is over, for any requests.
THEOREM CutOnlyAfterGraceAlways == ShutdownSpec => []CutOnlyAfterGrace
<1>1. ShutdownInv => CutOnlyAfterGrace
  BY DEF ShutdownInv
<1> QED BY <1>1, ShutdownIndInvHolds, PTL
=============================================================================

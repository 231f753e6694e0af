-------------------------- MODULE CaseSwitchProofs --------------------------
(* What CaseSwitch promises, for any number of products and cases and any    *)
(* length of a history.  One lemma says what a window keeps of a history,    *)
(* one per group of actions that it keeps IndInv.                            *)
EXTENDS CaseSwitch, SequenceTheorems, TLAPS

\* The window has its length, and nothing but entries of the history.
LEMMA WindowKeepsEntries ==
  ASSUME NEW h \in Seq(Cases)
  PROVE  /\ Window(h) \in Histories
         /\ \A i \in DOMAIN Window(h) : \E j \in DOMAIN h : Window(h)[i] = h[j]
<1>1. Len(h) \in Nat /\ DOMAIN h = 1 .. Len(h) /\ \A j \in 1 .. Len(h) : h[j] \in Cases
  BY LenProperties, ElementOfSeq
<1>2. CASE Len(h) <= MaxHistoryTurns
  BY <1>2 DEF Window, Histories
<1>3. CASE Len(h) > MaxHistoryTurns
  <2> DEFINE m == Len(h) - MaxHistoryTurns + 1
             w == SubSeq(h, m, Len(h))
  <2>1. m \in 1 .. Len(h) /\ Len(h) - m + 1 = MaxHistoryTurns
    BY <1>1, <1>3, MaxHistoryTurnsAssumption
  <2>2. /\ w \in Seq(Cases) /\ Len(w) = MaxHistoryTurns
        /\ \A i \in 1 .. MaxHistoryTurns : w[i] = h[m + i - 1]
    <3> HIDE DEF m
    <3>1. m \in Int /\ Len(h) \in Int /\ m <= Len(h) /\ \A i \in m .. Len(h) : h[i] \in Cases
      BY <1>1, <2>1
    <3> QED BY <2>1, <3>1, SubSeqProperties
  <2>3. Window(h) = w
    BY <1>1, <1>3, MaxHistoryTurnsAssumption DEF Window
  <2>4. DOMAIN w = 1 .. MaxHistoryTurns
    BY <2>2, LenProperties
  <2>5. \A i \in 1 .. MaxHistoryTurns : m + i - 1 \in DOMAIN h
    BY <1>1, <1>3, MaxHistoryTurnsAssumption
  <2>6. w \in Histories
    BY <2>2, MaxHistoryTurnsAssumption DEF Histories
  <2> HIDE DEF m, w
  <2> QED BY <2>2, <2>3, <2>4, <2>5, <2>6
<1> QED BY <1>1, <1>2, <1>3, MaxHistoryTurnsAssumption

LEMMA EmptyHistory == <<>> \in Histories /\ \A c : OfCase(<<>>, c)
<1>1. <<>> \in Seq(Cases) /\ Len(<<>>) = 0 /\ DOMAIN <<>> = {}
  BY EmptySeq
<1> QED BY <1>1, MaxHistoryTurnsAssumption DEF Histories, OfCase

LEMMA InitIndInv == Init => IndInv
<1> SUFFICES ASSUME Init PROVE IndInv
  OBVIOUS
<1> USE EmptyHistory DEF Init, FreshSession, NoTurn
<1>1. TypeOK
  BY DEF TypeOK, CaseOrNone
<1>2. HistoryOfTheCase
  BY DEF HistoryOfTheCase
<1> QED BY <1>1, <1>2 DEF IndInv, TurnOfTheSession, AnswerHasItsCase, ComparisonStands

\* Entries of a history are cases.
LEMMA EntriesAreCases == \A h \in Histories : \A i \in DOMAIN h : h[i] \in Cases
BY LenProperties, ElementOfSeq DEF Histories

\* A case is created beside the others, and no history has it.
LEMMA CreatingACase ==
  ASSUME TypeOK, NEW c \in FreshIds, cases' = [cases EXCEPT ![c] = NewCase]
  PROVE  /\ cases' \in [Cases -> Records \cup {None}]
         /\ c \in Cases /\ c # None /\ c # session.case /\ c # turn.case
         /\ cases[c] = None /\ cases'[c] = NewCase /\ cases'[c] # None
         /\ \A d \in Cases : d # c => cases'[d] = cases[d]
         /\ \A i \in DOMAIN session.history : session.history[i] # c
<1>1. c \in Cases /\ cases[c] = None /\ c \notin Range(session.history)
        /\ c # session.case /\ c # turn.case
  BY DEF FreshIds
<1>2. NewCase \in Records
  BY DEF NewCase, Records
<1> QED BY <1>1, <1>2, NoneAssumption DEF TypeOK, Records, Range

-----------------------------------------------------------------------------
(* reply_handler up to the evaluation.                                     *)

LEMMA ReceiveIndInv == IndInv /\ Receive => IndInv'
<1> SUFFICES ASSUME IndInv, Receive PROVE IndInv'
  OBVIOUS
<1> USE DEF IndInv, Receive, Request, NoTurn
<1>1. TypeOK'
  BY EmptyHistory DEF TypeOK, CaseOrNone, Allowlists
<1>2. HistoryOfTheCase'
  BY DEF HistoryOfTheCase, OfCase
<1>3. TurnOfTheSession' /\ AnswerHasItsCase' /\ ComparisonStands'
  BY DEF TurnOfTheSession, AnswerHasItsCase, ComparisonStands
<1> QED BY <1>1, <1>2, <1>3

LEMMA ReceiveOutOfScopeIndInv == IndInv /\ ReceiveOutOfScope => IndInv'
<1> SUFFICES ASSUME IndInv, ReceiveOutOfScope PROVE IndInv'
  OBVIOUS
<1> USE DEF IndInv
<1>1. PICK id \in Cases : turn' = [Request EXCEPT !.at = id]
  BY DEF ReceiveOutOfScope, Known, TypeOK, CaseOrNone, FreshIds
<1>2. /\ session' = session /\ stocked' = stocked /\ pc' = "respond"
      /\ turn'.case = session.case /\ turn'.history = session.history
      /\ turn'.supplied = FALSE /\ turn'.refs = {} /\ turn'.old = None /\ turn'.at = id
      /\ turn' \in [case : CaseOrNone, history : Histories, allow : SUBSET Products,
                    supplied : BOOLEAN, refs : SUBSET Products, old : CaseOrNone,
                    used : Histories, again : SUBSET Products, found : SUBSET Products,
                    at : CaseOrNone]
  BY <1>1, EmptyHistory DEF ReceiveOutOfScope, Request, NoTurn, TypeOK, CaseOrNone, Allowlists
<1>3. \/ cases' = cases /\ id = session.case
      \/ cases' = cases /\ ~Known(session.case)
      \/ /\ ~Known(session.case)
         /\ \E c \in FreshIds : cases' = [cases EXCEPT ![c] = NewCase]
  BY <1>1, <1>2 DEF ReceiveOutOfScope
<1>4. /\ cases' \in [Cases -> Records \cup {None}]
      /\ OfCase(session.history, session.case)' /\ OfCase(session.history, id)'
  <2>1. \A i \in DOMAIN session.history : session.history[i] \in Cases
    BY EntriesAreCases DEF TypeOK
  <2>2. CASE cases' = cases /\ id = session.case
    BY <1>2, <2>2 DEF TypeOK, HistoryOfTheCase, OfCase
  <2>3. CASE cases' = cases /\ ~Known(session.case)
    BY <1>2, <2>1, <2>3, NoneAssumption DEF TypeOK, HistoryOfTheCase, OfCase, Known
  <2>4. ASSUME ~Known(session.case),
               NEW c \in FreshIds, cases' = [cases EXCEPT ![c] = NewCase]
        PROVE  <1>4!:
    <3>1. /\ cases' \in [Cases -> Records \cup {None}]
          /\ \A d \in Cases : d # c => cases'[d] = cases[d]
          /\ \A i \in DOMAIN session.history : session.history[i] # c
      BY <2>4, CreatingACase
    <3>2. \A i \in DOMAIN session.history : cases[session.history[i]] = None
      BY <2>1, <2>4, NoneAssumption DEF HistoryOfTheCase, OfCase, Known
    <3> QED BY <1>2, <2>1, <3>1, <3>2 DEF OfCase
  <2> QED BY <1>3, <2>2, <2>3, <2>4
<1>5. TypeOK' /\ HistoryOfTheCase'
  BY <1>2, <1>4 DEF TypeOK, HistoryOfTheCase
<1>6. TurnOfTheSession' /\ AnswerHasItsCase' /\ ComparisonStands'
  BY <1>2, <1>4 DEF TurnOfTheSession, AnswerHasItsCase, ComparisonStands
<1> QED BY <1>5, <1>6

LEMMA DetectIndInv == IndInv /\ Detect => IndInv'
<1> SUFFICES ASSUME IndInv, Detect PROVE IndInv'
  OBVIOUS
<1> USE DEF IndInv, Detect
<1>1. /\ cases' = cases /\ session' = session /\ stocked' = stocked
      /\ pc = "detect" /\ pc' = "time_pref"
      /\ turn'.case = turn.case /\ turn'.history = turn.history /\ turn'.at = turn.at
  BY DEF TypeOK
<1>2. TypeOK'
  BY <1>1 DEF TypeOK, CaseOrNone
<1>3. HistoryOfTheCase' /\ TurnOfTheSession' /\ AnswerHasItsCase'
  BY <1>1 DEF HistoryOfTheCase, OfCase, TurnOfTheSession, AnswerHasItsCase
<1>4. ComparisonStands'
  <2>1. CASE turn' = turn
    BY <1>1, <2>1 DEF ComparisonStands
  <2>2. ASSUME Known(turn.case), NEW refs \in SUBSET Products,
               turn' = [turn EXCEPT !.supplied = TRUE, !.refs = refs, !.old =
                 IF IsProductSwitch(cases[turn.case].models, refs \cap turn.allow)
                 THEN turn.case ELSE None]
        PROVE  ComparisonStands'
    <3>1. /\ turn'.supplied /\ turn'.refs = refs /\ turn'.allow = turn.allow
          /\ turn'.old = IF IsProductSwitch(cases[turn.case].models, refs \cap turn.allow)
                         THEN turn.case ELSE None
      BY <2>2 DEF TypeOK
    <3>2. turn.at # turn.case
      BY <1>1, <2>2 DEF ComparisonStands, Known
    <3> QED BY <1>1, <2>2, <3>1, <3>2 DEF ComparisonStands, Switches, Known
  <2> QED BY <2>1, <2>2
<1> QED BY <1>2, <1>3, <1>4

LEMMA NotAwaitedIndInv == IndInv /\ NotAwaited => IndInv'
<1> SUFFICES ASSUME IndInv, NotAwaited PROVE IndInv'
  OBVIOUS
<1> QED
  BY DEF IndInv, NotAwaited, TypeOK, HistoryOfTheCase, OfCase, TurnOfTheSession,
         AnswerHasItsCase, ComparisonStands, Switches, Known

\* The flag of a case is all that changes: no case comes or goes, and their
\* products stay.
LEMMA ChangingTheFlag ==
  ASSUME TypeOK, NEW id \in Cases, Known(id), NEW awaiting \in BOOLEAN,
         cases' = [cases EXCEPT ![id].awaiting = awaiting]
  PROVE  /\ cases' \in [Cases -> Records \cup {None}]
         /\ \A c \in Cases : /\ cases[c] = None <=> cases'[c] = None
                             /\ cases[c] # None => cases'[c].models = cases[c].models
                             /\ c # id => cases'[c] = cases[c]
BY NoneAssumption DEF TypeOK, Records, Known

LEMMA TimePrefIndInv == IndInv /\ (TimePrefReply \/ TimePrefPassed) => IndInv'
<1> SUFFICES ASSUME IndInv, TimePrefReply \/ TimePrefPassed PROVE IndInv'
  OBVIOUS
<1> USE DEF IndInv
<1>1. PICK awaiting \in BOOLEAN :
        cases' = [cases EXCEPT ![TimePrefCase(turn)].awaiting = awaiting]
  BY DEF TimePrefReply, TimePrefPassed
<1>2. /\ pc = "time_pref" /\ session' = session /\ stocked' = stocked
      /\ turn.old = None /\ Known(turn.case) /\ TimePrefCase(turn) = turn.case
      /\ turn.case \in Cases
  BY DEF TimePrefReply, TimePrefPassed, TimePrefCase, Known, TypeOK, CaseOrNone
<1>3. /\ cases' \in [Cases -> Records \cup {None}]
      /\ \A c \in Cases : /\ cases[c] = None <=> cases'[c] = None
                          /\ cases[c] # None => cases'[c].models = cases[c].models
  BY <1>1, <1>2, ChangingTheFlag
<1>4. \/ turn' = [turn EXCEPT !.at = turn.case] /\ pc' = "respond"
      \/ turn' = turn /\ pc' = "evaluate"
  BY <1>2 DEF TimePrefReply, TimePrefPassed
<1>5. TypeOK'
  BY <1>2, <1>3, <1>4 DEF TypeOK
<1>6. OfCase(session.history, session.case)'
  BY <1>2, <1>3, EntriesAreCases DEF TypeOK, HistoryOfTheCase, OfCase
<1>7. HistoryOfTheCase'
  BY <1>4, <1>6 DEF HistoryOfTheCase
<1>8. TurnOfTheSession' /\ AnswerHasItsCase'
  BY <1>2, <1>4, <1>6 DEF TypeOK, TurnOfTheSession, AnswerHasItsCase
<1>9. ComparisonStands'
  BY <1>2, <1>3, <1>4 DEF TypeOK, ComparisonStands, Switches, Known
<1> QED BY <1>5, <1>7, <1>8, <1>9

-----------------------------------------------------------------------------
(* Harness::evaluate, and the reply.                                       *)

LEMMA EvaluateIndInv == IndInv /\ Evaluate => IndInv'
<1> SUFFICES ASSUME IndInv, Evaluate PROVE IndInv'
  OBVIOUS
<1> USE DEF IndInv
<1> DEFINE id == EvaluatedCase(turn)
<1>1. PICK refs \in SUBSET Products, c \in Cases :
        /\ turn.supplied => refs = turn.refs
        /\ turn' = [turn EXCEPT !.at = c, !.used = EvaluatedHistory(turn),
                                !.again = stocked, !.found = refs \cap stocked]
        /\ \/ Known(id) /\ c = id /\ cases' = cases
           \/ /\ ~Known(id) /\ c \in FreshIds
              /\ cases' = [cases EXCEPT ![c] = NewCase]
  BY DEF Evaluate, EvaluatedCase, Known, FreshIds, TypeOK, CaseOrNone
<1>2. /\ pc = "evaluate" /\ pc' = "record" /\ session' = session /\ stocked' = stocked
      /\ turn.case = session.case /\ turn.history = session.history
  BY DEF Evaluate, TurnOfTheSession
<1>3. /\ turn'.case = turn.case /\ turn'.history = turn.history /\ turn'.allow = turn.allow
      /\ turn'.supplied = turn.supplied /\ turn'.refs = turn.refs /\ turn'.old = turn.old
      /\ turn'.used = EvaluatedHistory(turn) /\ turn'.again = stocked
      /\ turn'.found = refs \cap stocked /\ turn'.at = c
  BY <1>1 DEF TypeOK
<1>4. EvaluatedHistory(turn) \in Histories
  BY EmptyHistory DEF EvaluatedHistory, TypeOK
<1>5. turn' \in [case : CaseOrNone, history : Histories, allow : SUBSET Products,
                 supplied : BOOLEAN, refs : SUBSET Products, old : CaseOrNone,
                 used : Histories, again : SUBSET Products, found : SUBSET Products,
                 at : CaseOrNone]
  BY <1>1, <1>4 DEF TypeOK, CaseOrNone, Allowlists
<1>6. \/ turn.old = None /\ id = turn.case
      \/ turn.old # None /\ ~Known(id) /\ turn.old = turn.case
  BY DEF EvaluatedCase, Known, ComparisonStands
<1>7. \A i \in DOMAIN session.history : session.history[i] \in Cases
  BY EntriesAreCases DEF TypeOK
<1>8. CASE Known(id) /\ c = id /\ cases' = cases
  <2>1. /\ turn.old = None /\ c = session.case /\ Known(turn.case)
        /\ OfCase(session.history, session.case)'
    BY <1>2, <1>6, <1>8 DEF HistoryOfTheCase, OfCase
  <2>2. EvaluatedHistory(turn) = session.history
    BY <1>2, <2>1 DEF EvaluatedHistory
  <2>3. TypeOK' /\ HistoryOfTheCase' /\ TurnOfTheSession' /\ AnswerHasItsCase'
    BY <1>2, <1>3, <1>5, <1>8, <2>1, <2>2
       DEF TypeOK, HistoryOfTheCase, TurnOfTheSession, AnswerHasItsCase, Known
  <2>4. ComparisonStands'
    BY <1>1, <1>2, <1>3, <1>8, <2>1 DEF ComparisonStands, Switches, Known
  <2> QED BY <2>3, <2>4
<1>9. CASE ~Known(id) /\ c \in FreshIds /\ cases' = [cases EXCEPT ![c] = NewCase]
  <2>1. /\ cases' \in [Cases -> Records \cup {None}]
        /\ c # None /\ c # turn.case /\ cases'[c] = NewCase /\ cases'[c] # None
        /\ \A d \in Cases : d # c => cases'[d] = cases[d]
        /\ \A i \in DOMAIN session.history : session.history[i] # c
    BY <1>9, CreatingACase
  <2>2. OfCase(session.history, session.case)'
    BY <1>2, <1>7, <2>1 DEF HistoryOfTheCase, OfCase
  <2>3. turn.old = None => OfCase(session.history, c)'
    <3>1. ASSUME turn.old = None
          PROVE  \A i \in DOMAIN session.history : cases[session.history[i]] = None
      BY <1>2, <1>6, <1>7, <1>9, <3>1, NoneAssumption DEF HistoryOfTheCase, OfCase, Known
    <3> QED BY <1>2, <1>7, <2>1, <3>1 DEF OfCase
  <2>4. OfCase(turn.used, turn.at)'
    <3>1. CASE turn.old = None
      <4>1. turn'.used = session.history
        BY <1>2, <1>3, <3>1 DEF EvaluatedHistory
      <4> QED BY <1>2, <1>3, <2>3, <3>1, <4>1 DEF OfCase
    <3>2. CASE turn.old # None
      BY <1>3, <3>2, EmptyHistory DEF EvaluatedHistory, OfCase
    <3> QED BY <3>1, <3>2
  <2>5. TypeOK' /\ HistoryOfTheCase' /\ TurnOfTheSession' /\ AnswerHasItsCase'
    BY <1>2, <1>3, <1>5, <2>1, <2>2, <2>3, <2>4
       DEF TypeOK, HistoryOfTheCase, TurnOfTheSession, AnswerHasItsCase, Known
  <2>6. turn.supplied => turn.case \in Cases /\ cases'[turn.case] = cases[turn.case]
    BY <2>1 DEF ComparisonStands, Known, TypeOK, CaseOrNone
  <2>7. turn.supplied => turn.old # None
    BY <1>6, <1>9 DEF ComparisonStands
  <2>8. ComparisonStands'
    BY <1>1, <1>2, <1>3, <2>1, <2>6, <2>7 DEF ComparisonStands, Switches, Known, NewCase
  <2> QED BY <2>5, <2>8
<1> QED BY <1>1, <1>8, <1>9

LEMMA RecordIndInv == IndInv /\ Record => IndInv'
<1> SUFFICES ASSUME IndInv, Record PROVE IndInv'
  OBVIOUS
<1> USE DEF IndInv
<1>1. /\ pc = "record" /\ pc' = "reply" /\ turn.at \in Cases /\ Known(turn.at)
      /\ cases' = [cases EXCEPT ![turn.at].models = @ \cup turn.found]
      /\ session' = session /\ stocked' = stocked /\ turn' = turn
  BY DEF Record, AnswerHasItsCase
<1>2. /\ cases' \in [Cases -> Records \cup {None}]
      /\ \A c \in Cases : /\ cases[c] = None <=> cases'[c] = None
                          /\ c # turn.at => cases'[c] = cases[c]
  BY <1>1, NoneAssumption DEF TypeOK, Records, Known
<1>3. TypeOK' /\ TurnOfTheSession' /\ AnswerHasItsCase'
  <2>1. TypeOK' /\ TurnOfTheSession'
    BY <1>1, <1>2 DEF TypeOK, TurnOfTheSession
  <2>2. AnswerHasItsCase'
    BY <1>1, <1>2, EntriesAreCases DEF TypeOK, AnswerHasItsCase, OfCase, Known
  <2> QED BY <2>1, <2>2
<1>4. HistoryOfTheCase'
  BY <1>1, <1>2, EntriesAreCases DEF TypeOK, HistoryOfTheCase, OfCase
<1>5. ComparisonStands'
  <2>1. turn.old # None => turn.case # turn.at /\ turn.case \in Cases
    BY DEF ComparisonStands, TypeOK, CaseOrNone
  <2>2. turn.supplied => Known(turn.case)'
    BY <1>1, <1>2 DEF ComparisonStands, Known, TypeOK, CaseOrNone
  <2> QED BY <1>1, <1>2, <2>1, <2>2 DEF ComparisonStands, Switches
<1> QED BY <1>3, <1>4, <1>5

LEMMA ReplyIndInv == IndInv /\ Reply => IndInv'
<1> SUFFICES ASSUME IndInv, Reply PROVE IndInv'
  OBVIOUS
<1> USE DEF IndInv
<1>1. /\ pc = "reply" /\ pc' = "respond" /\ turn.at \in Cases /\ Known(turn.at)
      /\ session' = session /\ stocked' = stocked /\ turn' = turn
  BY DEF Reply, AnswerHasItsCase
<1>2. PICK awaiting \in BOOLEAN : cases' = [cases EXCEPT ![turn.at].awaiting = awaiting]
  BY <1>1 DEF Reply, TypeOK, Records, Known
<1>3. /\ cases' \in [Cases -> Records \cup {None}]
      /\ \A c \in Cases : /\ cases[c] = None <=> cases'[c] = None
                          /\ cases[c] # None => cases'[c].models = cases[c].models
  BY <1>1, <1>2, ChangingTheFlag
<1>4. TypeOK' /\ TurnOfTheSession'
  BY <1>1, <1>3 DEF TypeOK, TurnOfTheSession
<1>5. HistoryOfTheCase' /\ AnswerHasItsCase'
  BY <1>1, <1>3, EntriesAreCases DEF TypeOK, HistoryOfTheCase, AnswerHasItsCase, OfCase
<1>6. ComparisonStands'
  BY <1>1, <1>3 DEF ComparisonStands, Switches, Known, TypeOK, CaseOrNone
<1> QED BY <1>4, <1>5, <1>6

-----------------------------------------------------------------------------
(* The session of the adapter.                                             *)

LEMMA AnsweredIndInv == IndInv /\ Answered => IndInv'
<1> SUFFICES ASSUME IndInv, Answered PROVE IndInv'
  OBVIOUS
<1> USE DEF IndInv
<1>1. PICK said \in {<<turn.at>>, <<turn.at, turn.at>>} :
        session' = [case |-> turn.at, history |-> Window(KeptHistory \o said)]
  BY DEF Answered
<1>2. /\ pc = "respond" /\ pc' = "idle" /\ turn' = NoTurn /\ turn.at \in Cases
      /\ cases' = cases /\ stocked' = stocked
  BY DEF Answered, AnswerHasItsCase
<1>3. said \in Seq(Cases) /\ \A i \in 1 .. Len(said) : said[i] = turn.at
  BY <1>2
<1>4. KeptHistory \in Seq(Cases) /\ OfCase(KeptHistory, turn.at)
  <2>1. CASE turn.old = None
    BY <1>2, <2>1 DEF KeptHistory, AnswerHasItsCase, TypeOK, Histories
  <2>2. CASE turn.old # None
    BY <2>2, EmptyHistory DEF KeptHistory, Histories
  <2> QED BY <2>1, <2>2
<1> DEFINE h == KeptHistory \o said
<1>5. h \in Seq(Cases) /\ OfCase(h, turn.at)
  <2>1. /\ h \in Seq(Cases) /\ Len(h) = Len(KeptHistory) + Len(said)
        /\ \A i \in 1 .. Len(KeptHistory) + Len(said) :
             h[i] = IF i <= Len(KeptHistory) THEN KeptHistory[i] ELSE said[i - Len(KeptHistory)]
    BY <1>3, <1>4, ConcatProperties
  <2>2. /\ DOMAIN h = 1 .. Len(KeptHistory) + Len(said)
        /\ DOMAIN KeptHistory = 1 .. Len(KeptHistory)
        /\ Len(KeptHistory) \in Nat /\ Len(said) \in Nat
    BY <1>3, <1>4, <2>1, LenProperties
  <2>3. \A i \in 1 .. Len(KeptHistory) + Len(said) :
          h[i] = turn.at \/ cases[h[i]] = None
    <3> SUFFICES ASSUME NEW i \in 1 .. Len(KeptHistory) + Len(said)
                 PROVE  h[i] = turn.at \/ cases[h[i]] = None
      OBVIOUS
    <3>1. CASE i <= Len(KeptHistory)
      BY <1>4, <2>1, <2>2, <3>1 DEF OfCase
    <3>2. CASE ~(i <= Len(KeptHistory))
      <4>1. i - Len(KeptHistory) \in 1 .. Len(said)
        BY <2>2, <3>2
      <4> QED BY <1>3, <2>1, <3>2, <4>1
    <3> QED BY <3>1, <3>2
  <2> HIDE DEF h
  <2> QED BY <2>1, <2>2, <2>3 DEF OfCase
<1> HIDE DEF h
<1>6. session'.case = turn.at /\ session'.history = Window(h)
      /\ session' \in [case : CaseOrNone, history : Histories]
  BY <1>1, <1>2, <1>5, WindowKeepsEntries DEF h, CaseOrNone
<1>7. OfCase(session.history, session.case)'
  BY <1>2, <1>5, <1>6, WindowKeepsEntries DEF OfCase
<1>8. TypeOK'
  BY <1>2, <1>6, EmptyHistory DEF TypeOK, NoTurn, CaseOrNone
<1> QED BY <1>2, <1>7, <1>8
        DEF HistoryOfTheCase, TurnOfTheSession, AnswerHasItsCase, ComparisonStands, NoTurn

LEMMA NotAnsweredIndInv == IndInv /\ NotAnswered => IndInv'
<1> SUFFICES ASSUME IndInv, NotAnswered PROVE IndInv'
  OBVIOUS
<1> USE DEF IndInv, NotAnswered, NoTurn
<1>1. TypeOK'
  BY EmptyHistory DEF TypeOK, CaseOrNone
<1>2. HistoryOfTheCase'
  BY DEF HistoryOfTheCase, OfCase
<1> QED BY <1>1, <1>2 DEF TurnOfTheSession, AnswerHasItsCase, ComparisonStands

LEMMA ForgetIndInv == IndInv /\ Forget => IndInv'
<1> SUFFICES ASSUME IndInv, Forget PROVE IndInv'
  OBVIOUS
<1> USE DEF IndInv, Forget, FreshSession
<1>1. TypeOK'
  BY EmptyHistory DEF TypeOK, CaseOrNone
<1>2. HistoryOfTheCase'
  BY EmptyHistory DEF HistoryOfTheCase, OfCase
<1> QED BY <1>1, <1>2 DEF TurnOfTheSession, AnswerHasItsCase, ComparisonStands, Switches, Known

LEMMA RestockIndInv == IndInv /\ Restock => IndInv'
BY DEF IndInv, Restock, TypeOK, HistoryOfTheCase, OfCase, TurnOfTheSession,
       AnswerHasItsCase, ComparisonStands, Switches, Known

LEMMA StepIndInv == IndInv /\ [Next]_vars => IndInv'
<1> SUFFICES ASSUME IndInv, [Next]_vars PROVE IndInv'
  OBVIOUS
<1>1. CASE Receive
  BY <1>1, ReceiveIndInv
<1>2. CASE ReceiveOutOfScope
  BY <1>2, ReceiveOutOfScopeIndInv
<1>3. CASE Detect
  BY <1>3, DetectIndInv
<1>4. CASE NotAwaited
  BY <1>4, NotAwaitedIndInv
<1>5. CASE TimePrefReply \/ TimePrefPassed
  BY <1>5, TimePrefIndInv
<1>6. CASE Evaluate
  BY <1>6, EvaluateIndInv
<1>7. CASE Record
  BY <1>7, RecordIndInv
<1>8. CASE Reply
  BY <1>8, ReplyIndInv
<1>9. CASE Answered
  BY <1>9, AnsweredIndInv
<1>10. CASE NotAnswered
  BY <1>10, NotAnsweredIndInv
<1>11. CASE Forget
  BY <1>11, ForgetIndInv
<1>12. CASE Restock
  BY <1>12, RestockIndInv
<1>13. CASE UNCHANGED vars
  BY <1>13 DEF vars, IndInv, TypeOK, HistoryOfTheCase, OfCase, TurnOfTheSession,
               AnswerHasItsCase, ComparisonStands, Switches, Known
<1> QED BY <1>1, <1>2, <1>3, <1>4, <1>5, <1>6, <1>7, <1>8, <1>9, <1>10, <1>11, <1>12, <1>13
        DEF Next

LEMMA IndInvHolds == Spec => []IndInv
BY InitIndInv, StepIndInv, PTL DEF Spec

-----------------------------------------------------------------------------
\* No turn is evaluated with, and no session keeps, what was said in the case of
\* another product, for any length of the histories.
THEOREM HistoriesAreOfTheirCase == Spec => []TypeOK /\ []HistoryOfTheCase
<1>1. IndInv => TypeOK /\ HistoryOfTheCase
  BY DEF IndInv
<1> QED BY <1>1, IndInvHolds, PTL

\* What SubjectsStayApart says of a step, for a case and for the session.
CaseKeepsApart(c) ==
  Known(c) /\ cases'[c] # cases[c] =>
    /\ c # turn.old
    /\ cases[c].models \notin {{}, cases'[c].models} =>
         \/ ~turn.supplied \/ turn.again # turn.allow
         \/ turn.refs \cap cases[c].models # {}

SessionKeepsApart ==
  Known(session.case) /\ session'.case \notin {session.case, None} =>
    turn.refs \cap turn.allow \cap cases[session.case].models = {}

LEMMA CreatingKeepsApart ==
  ASSUME TypeOK, NEW d \in FreshIds, cases' = [cases EXCEPT ![d] = NewCase]
  PROVE  \A c \in Cases : CaseKeepsApart(c)
BY CreatingACase DEF CaseKeepsApart, Known

LEMMA TheFlagKeepsApart ==
  ASSUME TypeOK, NEW id \in Cases, Known(id), id # turn.old, NEW awaiting \in BOOLEAN,
         cases' = [cases EXCEPT ![id].awaiting = awaiting]
  PROVE  \A c \in Cases : CaseKeepsApart(c)
BY ChangingTheFlag DEF CaseKeepsApart, Known

LEMMA RecordKeepsApart ==
  ASSUME IndInv, Record PROVE \A c \in Cases : CaseKeepsApart(c)
<1> SUFFICES ASSUME NEW c \in Cases, Known(c), cases'[c] # cases[c]
             PROVE  CaseKeepsApart(c)
  BY DEF CaseKeepsApart
<1>1. /\ c = turn.at /\ pc = "record" /\ cases[c] \in Records
      /\ cases'[c] = [cases[c] EXCEPT !.models = @ \cup turn.found]
  BY DEF IndInv, TypeOK, Record, AnswerHasItsCase, Known, Records
<1>2. c # turn.old
  BY <1>1, NoneAssumption DEF IndInv, ComparisonStands
<1>3. SUFFICES ASSUME cases[c].models # {}, cases[c].models # cases'[c].models,
                      turn.supplied, turn.again = turn.allow
               PROVE  turn.refs \cap cases[c].models # {}
  BY <1>2 DEF CaseKeepsApart
<1>4. cases'[c].models = cases[c].models \cup turn.found
  BY <1>1 DEF Records
<1>5. turn.old = None /\ turn.at = turn.case /\ ~Switches /\ turn.found = turn.refs \cap turn.allow
  BY <1>1, <1>3 DEF IndInv, ComparisonStands
<1>6. turn.refs \cap turn.allow # {}
  BY <1>3, <1>4, <1>5
<1> QED BY <1>1, <1>3, <1>5, <1>6 DEF Switches, IsProductSwitch

LEMMA AnsweredKeepsApart == IndInv /\ Answered => SessionKeepsApart
<1> SUFFICES ASSUME IndInv, Answered, Known(session.case), session'.case # session.case
             PROVE  turn.refs \cap turn.allow \cap cases[session.case].models = {}
  BY DEF SessionKeepsApart
<1>1. session'.case = turn.at /\ pc = "respond" /\ turn.case = session.case
  BY DEF Answered, IndInv, TurnOfTheSession
<1>2. CASE ~turn.supplied
  BY <1>2 DEF IndInv, ComparisonStands
<1>3. CASE turn.supplied
  <2>1. Switches
    BY <1>1, <1>3 DEF IndInv, ComparisonStands
  <2> QED BY <1>1, <2>1 DEF Switches, IsProductSwitch
<1> QED BY <1>2, <1>3

\* Subjects stay in cases of their own: a switch leaves the old case alone, and a
\* case with products gets, or loses its customer to, another one only as said in
\* SubjectsStayApart, for any number of products and cases.
THEOREM SubjectsAreKeptApart == Spec => SubjectsStayApart
<1>1. IndInv /\ [Next]_vars => [(\A c \in Cases : CaseKeepsApart(c)) /\ SessionKeepsApart]_vars
  <2> SUFFICES ASSUME IndInv, Next
               PROVE  (\A c \in Cases : CaseKeepsApart(c)) /\ SessionKeepsApart
    OBVIOUS
  <2>1. TypeOK
    BY DEF IndInv
  <2>2. CASE Receive \/ Detect \/ NotAwaited \/ NotAnswered \/ Forget \/ Restock
    <3>1. cases' = cases
      BY <2>2 DEF Receive, Detect, NotAwaited, NotAnswered, Forget, Restock
    <3>2. session'.case \in {session.case, None}
      <4>1. CASE Forget
        BY <4>1 DEF Forget, FreshSession
      <4>2. CASE Receive \/ Detect \/ NotAwaited \/ NotAnswered \/ Restock
        <5>1. session' = session
          BY <4>2 DEF Receive, Detect, NotAwaited, NotAnswered, Restock
        <5> QED BY <5>1
      <4> QED BY <2>2, <4>1, <4>2
    <3> QED BY <3>1, <3>2 DEF CaseKeepsApart, SessionKeepsApart
  <2>3. CASE ReceiveOutOfScope
    <3>1. SessionKeepsApart
      BY <2>3 DEF ReceiveOutOfScope, SessionKeepsApart
    <3>2. cases' = cases \/ \E d \in FreshIds : cases' = [cases EXCEPT ![d] = NewCase]
      BY <2>3 DEF ReceiveOutOfScope
    <3>3. \A c \in Cases : CaseKeepsApart(c)
      BY <2>1, <3>2, CreatingKeepsApart DEF CaseKeepsApart
    <3> QED BY <3>1, <3>3
  <2>4. CASE TimePrefReply \/ TimePrefPassed
    <3>1. /\ SessionKeepsApart
          /\ turn.old = None /\ Known(turn.case) /\ turn.case \in Cases
          /\ \E awaiting \in BOOLEAN : cases' = [cases EXCEPT ![turn.case].awaiting = awaiting]
      BY <2>1, <2>4 DEF TimePrefReply, TimePrefPassed, TimePrefCase, Known, SessionKeepsApart,
                        TypeOK, CaseOrNone
    <3> QED BY <2>1, <3>1, TheFlagKeepsApart, NoneAssumption
  <2>5. CASE Evaluate
    <3>1. SessionKeepsApart
      BY <2>5 DEF Evaluate, SessionKeepsApart
    <3>2. cases' = cases \/ \E d \in FreshIds : cases' = [cases EXCEPT ![d] = NewCase]
      BY <2>5 DEF Evaluate
    <3>3. \A c \in Cases : CaseKeepsApart(c)
      BY <2>1, <3>2, CreatingKeepsApart DEF CaseKeepsApart
    <3> QED BY <3>1, <3>3
  <2>6. CASE Record
    BY <2>6, RecordKeepsApart DEF Record, SessionKeepsApart
  <2>7. CASE Reply
    <3>1. turn.at \in Cases /\ Known(turn.at) /\ turn.at # turn.old
      BY <2>7, NoneAssumption DEF Reply, IndInv, AnswerHasItsCase, ComparisonStands
    <3>2. \E awaiting \in BOOLEAN : cases' = [cases EXCEPT ![turn.at].awaiting = awaiting]
      BY <2>1, <2>7, <3>1 DEF Reply, TypeOK, Records, Known
    <3> QED BY <2>1, <2>7, <3>1, <3>2, TheFlagKeepsApart DEF Reply, SessionKeepsApart
  <2>8. CASE Answered
    BY <2>8, AnsweredKeepsApart DEF Answered, CaseKeepsApart
  <2> QED BY <2>2, <2>3, <2>4, <2>5, <2>6, <2>7, <2>8 DEF Next
<1>2. [(\A c \in Cases : CaseKeepsApart(c)) /\ SessionKeepsApart]_vars
        <=> [/\ \A c \in Cases : Known(c) /\ cases'[c] # cases[c] =>
                  /\ c # turn.old
                  /\ cases[c].models \notin {{}, cases'[c].models} =>
                       \/ ~turn.supplied \/ turn.again # turn.allow
                       \/ turn.refs \cap cases[c].models # {}
             /\ Known(session.case) /\ session'.case \notin {session.case, None} =>
                  turn.refs \cap turn.allow \cap cases[session.case].models = {}]_vars
  BY DEF CaseKeepsApart, SessionKeepsApart
<1> QED BY <1>1, <1>2, IndInvHolds, PTL DEF Spec, SubjectsStayApart
=============================================================================

--------------------------- MODULE MetaTxnApiProofs ---------------------------
(***************************************************************************)
(* Theorems about MetaTxnApi, for any number of requests and               *)
(* meta-transactions, any rate limiters and any bounds.                    *)
(***************************************************************************)
EXTENDS MetaTxnApi, FiniteSetTheorems, TLAPS

(***************************************************************************)
(* Type correctness.                                                       *)
(***************************************************************************)

IsOver == \A r \in Request : answer[r].kind # "none" <=> pc[r] \in {"orphan", "done"}

TypeInv == TypeOK /\ IsOver

LEMMA InitTypeInv == Init => TypeInv
<1> SUFFICES ASSUME Init PROVE TypeInv
    OBVIOUS
<1>1. TypeOK
    BY ApiAssumption, FS_CardinalityType
    DEF Init, TypeOK, Time, Row, RowStatus, NoRow, PC, Answer, Answers, Unanswered
<1>2. IsOver
    BY DEF Init, IsOver, Unanswered
<1> QED
    BY <1>1, <1>2 DEF TypeInv

LEMMA PeakType ==
    ASSUME TypeOK, NEW r \in Request
    PROVE  WithPeak(r) \in [Subject -> 0 .. Cardinality(Request)]
<1> SUFFICES ASSUME NEW s \in Subject
             PROVE  Entering(r, s) \in 0 .. Cardinality(Request)
    BY DEF WithPeak, TypeOK
<1> DEFINE Q == {q \in Request \ {r} : s \in SubjectsOf(q) /\ pc[q] \in {"limit", "save"}}
<1>1. IsFiniteSet(Request \ {r})
      /\ Cardinality(Request \ {r}) = Cardinality(Request) - 1
    BY ApiAssumption, FS_RemoveElement
<1>2. IsFiniteSet(Q) /\ Cardinality(Q) <= Cardinality(Request \ {r})
    BY <1>1, FS_Subset
<1>3. Cardinality(Q) \in Nat /\ Cardinality(Request) \in Nat
    BY <1>2, ApiAssumption, FS_CardinalityType
<1>4. Entering(r, s) = 1 + Cardinality(Q)
    BY DEF Entering
<1> QED
    BY <1>1, <1>2, <1>3, <1>4

\* What a step of request r does to r itself, in terms of pc and answer.
OnlyRequest(r) ==
    /\ pc' = [pc EXCEPT ![r] = pc'[r]]
    /\ answer' = [answer EXCEPT ![r] = answer'[r]]
    /\ pc'[r] \in PC /\ answer'[r] \in Answer
    /\ answer'[r].kind # "none" <=> pc'[r] \in {"orphan", "done"}

LEMMA HandleFrame ==
    ASSUME TypeInv, NEW r \in Request, Handle(r) \/ TimesOut(r)
    PROVE  OnlyRequest(r)
<1>0. /\ pc \in [Request -> PC] /\ answer \in [Request -> Answer]
      /\ pc[r] \in PC /\ answer[r] \in Answer
      /\ RowOf(r).hash \in Hash \cup {None}
      /\ answer[r].kind # "none" <=> pc[r] \in {"orphan", "done"}
    BY ApiAssumption DEF TypeInv, TypeOK, IsOver, RowOf, Row
<1>1. ASSUME NEW w \in PC \ {"orphan", "done"}, pc[r] \notin {"orphan", "done"},
             Goes(r, w), UNCHANGED answer
      PROVE  OnlyRequest(r)
    BY <1>0, <1>1 DEF Goes, OnlyRequest
<1>2. ASSUME NEW kind \in Answers \ {"none"}, NEW hash \in Hash \cup {None},
             Answered(r, kind, hash)
      PROVE  OnlyRequest(r)
    BY <1>0, <1>2 DEF Answered, Goes, OnlyRequest, Answer, PC
<1>3. CASE UNCHANGED <<pc, answer>>
    BY <1>0, <1>3 DEF OnlyRequest
<1> USE DEF PC, Answers
<1>4. CASE Receive(r)
    BY <1>1, <1>2, <1>4 DEF Receive
<1>5. CASE FindTransaction(r)
    BY <1>0, <1>1, <1>2, <1>5 DEF FindTransaction
<1>6. CASE Validate(r)
    BY <1>1, <1>2, <1>6 DEF Validate
<1>7. CASE CheckLive(r)
    BY <1>1, <1>2, <1>7 DEF CheckLive
<1>8. CASE CheckLimit(r)
    BY <1>1, <1>2, <1>3, <1>8 DEF CheckLimit
<1>9. CASE Save(r)
    BY <1>1, <1>9 DEF Save
<1>10. CASE Poll(r)
    <2>1. CASE pc[r] = "wait"
        BY <1>0, <1>2, <1>10, <2>1 DEF Poll
    <2>2. CASE pc[r] = "orphan"
        BY <1>0, <1>10, <2>2 DEF Poll, Goes, OnlyRequest
    <2> QED
        BY <1>10, <2>1, <2>2 DEF Poll
<1>11. CASE TimesOut(r)
    BY <1>0, <1>11 DEF TimesOut, Goes, OnlyRequest, Answer
<1> QED
    BY <1>4, <1>5, <1>6, <1>7, <1>8, <1>9, <1>10, <1>11 DEF Handle

LEMMA HandleKeepsTypeInv ==
    ASSUME TypeInv, NEW r \in Request, Handle(r) \/ TimesOut(r)
    PROVE  TypeInv'
<1>1. /\ OnlyRequest(r)
      /\ UNCHANGED <<now, heartbeat, broadcasts, lastLive>>
    BY HandleFrame
    DEF Handle, Receive, FindTransaction, Validate, CheckLive, CheckLimit, Save, Poll,
        TimesOut, Rest, histories
<1>2. limiter' \in [Request -> 1 .. Len(Limiters) + 1]
    <2>1. CASE CheckLimit(r)
        <3>1. Len(Limiters) \in Nat /\ limiter[r] \in 1 .. Len(Limiters) + 1
            BY ApiAssumption DEF TypeInv, TypeOK
        <3> QED
            BY <2>1, <3>1 DEF CheckLimit, TypeInv, TypeOK
    <2>2. CASE UNCHANGED limiter
        BY <2>2 DEF TypeInv, TypeOK
    <2> QED
        BY <2>1, <2>2
        DEF Handle, Receive, FindTransaction, Validate, CheckLive, Save, Poll, TimesOut
<1>3. rows' \in [MetaTxn -> Row]
    <2>1. CASE Save(r)
        <3> DEFINE old == rows[TxnOf[r]]
                   new == IF old.status = "absent"
                          THEN [NoRow EXCEPT !.status = "unsubmitted", !.key = KeyOf[r],
                                             !.createdAt = now]
                          ELSE [old EXCEPT !.status = "unsubmitted", !.key = KeyOf[r]]
        <3>1. /\ rows \in [MetaTxn -> Row] /\ old \in Row
              /\ now \in Time /\ KeyOf[r] \in ApiKey \cup {None}
            BY ApiAssumption DEF TypeInv, TypeOK
        <3>2. new \in Row
            BY <3>1 DEF Row, NoRow, RowStatus
        <3>3. rows' = [rows EXCEPT ![TxnOf[r]] = new]
            BY <2>1 DEF Save
        <3> HIDE DEF new
        <3> QED
            BY <3>1, <3>2, <3>3
    <2>2. CASE UNCHANGED rows
        BY <2>2 DEF TypeInv, TypeOK
    <2> QED
        BY <2>1, <2>2
        DEF Handle, Receive, FindTransaction, Validate, CheckLive, CheckLimit, Poll,
            TimesOut, Rest
<1>4. overlapped' \subseteq MetaTxn
    BY ApiAssumption
    DEF Handle, Receive, FindTransaction, Validate, CheckLive, CheckLimit, Save, Poll,
        TimesOut, histories, TypeInv, TypeOK
<1>5. peak' \in [Subject -> 0 .. Cardinality(Request)]
    BY PeakType
    DEF Handle, Receive, FindTransaction, Validate, CheckLive, CheckLimit, Save, Poll,
        TimesOut, histories, TypeInv, TypeOK
<1>6. TypeOK'
    BY <1>1, <1>2, <1>3, <1>4, <1>5 DEF OnlyRequest, TypeInv, TypeOK
<1>7. IsOver'
    BY <1>1 DEF OnlyRequest, TypeInv, TypeOK, IsOver
<1> QED
    BY <1>6, <1>7 DEF TypeInv

LEMMA OthersKeepTypeInv ==
    ASSUME TypeInv,
           \/ \E m \in MetaTxn : Broadcast(m) \/ Cancel(m)
           \/ \E b, g \in BOOLEAN : Heartbeat(b, g)
           \/ Tick
           \/ UNCHANGED vars
    PROVE  TypeInv'
<1> USE ApiAssumption DEF TypeInv
<1>0. ASSUME NEW m \in MetaTxn, NEW from, NEW to \in RowStatus,
             NEW hash \in Hash \cup {None}, Moves(m, from, to, hash)
      PROVE  /\ rows' \in [MetaTxn -> Row]
             /\ UNCHANGED <<now, heartbeat, pc, limiter, answer, overlapped, peak, lastLive>>
    <2>1. rows \in [MetaTxn -> Row] /\ rows[m] \in Row
        BY DEF TypeOK
    <2>2. [rows[m] EXCEPT !.status = to, !.hash = hash] \in Row
        BY <2>1 DEF Row
    <2>3. /\ rows' = [rows EXCEPT ![m] = [rows[m] EXCEPT !.status = to, !.hash = hash]]
          /\ UNCHANGED <<now, heartbeat, pc, limiter, answer, overlapped, peak, lastLive>>
        BY <1>0, <2>1 DEF Moves
    <2> QED
        BY <2>1, <2>2, <2>3
<1>1. ASSUME NEW m \in MetaTxn, Broadcast(m)
      PROVE  TypeInv'
    <2>1. /\ broadcasts[m] \in 0 .. MaxHash /\ broadcasts[m] < MaxHash
          /\ broadcasts' = [broadcasts EXCEPT ![m] = @ + 1]
        BY <1>1 DEF Broadcast, TypeOK
    <2>2. broadcasts[m] + 1 \in Hash /\ broadcasts' \in [MetaTxn -> 0 .. MaxHash]
        BY <2>1 DEF TypeOK, Hash
    <2>3. /\ rows' \in [MetaTxn -> Row]
          /\ UNCHANGED <<now, heartbeat, pc, limiter, answer, overlapped, peak, lastLive>>
        BY <1>0, <1>1, <2>2 DEF Broadcast, RowStatus
    <2> QED
        BY <2>2, <2>3 DEF TypeOK, IsOver
<1>2. ASSUME NEW m \in MetaTxn, Cancel(m)
      PROVE  TypeInv'
    <2>1. rows[m].hash \in Hash \cup {None}
        BY DEF TypeOK, Row
    <2>2. /\ rows' \in [MetaTxn -> Row]
          /\ UNCHANGED <<now, heartbeat, pc, limiter, answer, overlapped, peak, lastLive>>
          /\ UNCHANGED broadcasts
        BY <1>0, <1>2, <2>1 DEF Cancel, RowStatus
    <2> QED
        BY <2>2 DEF TypeOK, IsOver
<1>3. ASSUME NEW b \in BOOLEAN, NEW g \in BOOLEAN, Heartbeat(b, g)
      PROVE  TypeInv'
    BY <1>3 DEF Heartbeat, TypeOK, IsOver
<1>4. CASE Tick
    BY <1>4 DEF Tick, histories, TypeOK, Time, IsOver
<1>5. CASE UNCHANGED vars
    BY <1>5 DEF vars, TypeOK, IsOver
<1> QED
    BY <1>1, <1>2, <1>3, <1>4, <1>5

LEMMA TypeInvariance == Spec => []TypeInv
<1>1. TypeInv /\ [Next]_vars => TypeInv'
    BY HandleKeepsTypeInv, OthersKeepTypeInv DEF Next
<1> QED
    BY <1>1, InitTypeInv, PTL DEF Spec

\* All variables keep their types, and exactly the requests that are over have
\* an answer.
THEOREM TypeCorrect == Spec => []TypeInvariant
<1>1. TypeInv => TypeInvariant
    BY DEF TypeInv, TypeInvariant, IsOver
<1> QED
    BY <1>1, TypeInvariance, PTL

(***************************************************************************)
(* What is relayed, and what clients are told.  A meta-transaction no two  *)
(* requests of which overlapped has at most one request between the lookup *)
(* and the save, and has no row as long as that one is under way: the save *)
(* inserts the row and never queues it again.                              *)
(***************************************************************************)

Window == {"validate", "isLive", "limit", "save"}

AbsentIsUntouched ==
    \A m \in MetaTxn : rows[m].status = "absent" => broadcasts[m] = 0 /\ rows[m].hash = None

HashWasBroadcast ==
    \A m \in MetaTxn : rows[m].hash # None => rows[m].hash \in 1 .. broadcasts[m]

BroadcastIsNotQueued ==
    \A m \in MetaTxn \ overlapped : broadcasts[m] > 0 =>
        broadcasts[m] = 1 /\ rows[m].status \notin {"absent", "unsubmitted"}

AloneInWindow ==
    \A r \in Request : pc[r] \in Window /\ TxnOf[r] \notin overlapped =>
        /\ RowOf(r).status = "absent"
        /\ \A q \in Request : TxnOf[q] = TxnOf[r] /\ pc[q] \in Window => q = r

RelayInv ==
    /\ TypeInv
    /\ AbsentIsUntouched /\ HashWasBroadcast
    /\ BroadcastIsNotQueued /\ AloneInWindow
    /\ AnswerNamesTheTransaction

LEMMA InitRelayInv == Init => RelayInv
<1> SUFFICES ASSUME Init PROVE RelayInv
    OBVIOUS
<1>1. AbsentIsUntouched /\ HashWasBroadcast /\ BroadcastIsNotQueued
    BY DEF Init, NoRow, AbsentIsUntouched, HashWasBroadcast, BroadcastIsNotQueued
<1>2. AloneInWindow /\ AnswerNamesTheTransaction
    BY DEF Init, Unanswered, Window, AloneInWindow, AnswerNamesTheTransaction
<1> QED
    BY <1>1, <1>2, InitTypeInv DEF RelayInv

\* A step of a request that enters no window and writes no row.
LEMMA QuietStepKeepsRelayInv ==
    ASSUME RelayInv, TypeInv', NEW r \in Request, OnlyRequest(r),
           UNCHANGED <<rows, broadcasts, overlapped>>,
           pc'[r] \in Window => pc[r] \in Window,
           \/ answer'[r] = answer[r]
           \/ answer'[r].kind # "submitted"
           \/ answer'[r].hash = RowOf(r).hash /\ RowOf(r).hash # None
    PROVE  RelayInv'
<1> USE ApiAssumption
<1>1. AbsentIsUntouched' /\ HashWasBroadcast' /\ BroadcastIsNotQueued'
    BY DEF RelayInv, AbsentIsUntouched, HashWasBroadcast, BroadcastIsNotQueued
<1>2. AloneInWindow'
    BY DEF RelayInv, TypeInv, TypeOK, OnlyRequest, AloneInWindow, RowOf
<1>3. AnswerNamesTheTransaction'
    <2> SUFFICES ASSUME NEW q \in Request, answer'[q].kind = "submitted"
                 PROVE  /\ answer'[q].hash \in 1 .. broadcasts[TxnOf[q]]
                        /\ TxnOf[q] \in overlapped \/ answer'[q].hash = RowOf(q).hash
        BY DEF AnswerNamesTheTransaction, RowOf
    <2>1. CASE answer'[q] = answer[q]
        BY <2>1 DEF RelayInv, AnswerNamesTheTransaction
    <2>2. CASE answer'[q] # answer[q]
        <3>1. q = r
            BY <2>2 DEF OnlyRequest, TypeInv, TypeOK, RelayInv
        <3> QED
            BY <3>1, <2>2 DEF RelayInv, HashWasBroadcast, RowOf
    <2> QED
        BY <2>1, <2>2
<1> QED
    BY <1>1, <1>2, <1>3 DEF RelayInv

LEMMA FindKeepsRelayInv ==
    ASSUME RelayInv, TypeInv', NEW r \in Request, OnlyRequest(r), FindTransaction(r)
    PROVE  RelayInv'
<1> USE ApiAssumption
<1>1. UNCHANGED <<rows, broadcasts>> /\ overlapped \subseteq overlapped'
    BY DEF FindTransaction, Rest
<1>2. AbsentIsUntouched' /\ HashWasBroadcast' /\ BroadcastIsNotQueued'
    BY <1>1 DEF RelayInv, AbsentIsUntouched, HashWasBroadcast, BroadcastIsNotQueued
<1>3. answer'[r].kind # "submitted"
    <2>1. answer \in [Request -> Answer] /\ answer[r].kind = "none"
        BY DEF FindTransaction, RelayInv, TypeInv, TypeOK, IsOver
    <2>2. CASE UNCHANGED answer
        BY <2>1, <2>2
    <2>3. CASE Answered(r, "found", RowOf(r).hash)
        BY <2>1, <2>3 DEF Answered
    <2> QED
        BY <2>2, <2>3 DEF FindTransaction
<1>4. AnswerNamesTheTransaction'
    BY <1>1, <1>3
    DEF OnlyRequest, RelayInv, TypeInv, TypeOK, AnswerNamesTheTransaction, RowOf
<1>5. AloneInWindow'
    <2> DEFINE others == {q \in Request \ {r} : TxnOf[q] = TxnOf[r] /\ pc[q] \in Window}
    <2>1. CASE RowOf(r).status # "absent"
        BY <1>1, <2>1
        DEF FindTransaction, Answered, Goes, RelayInv, TypeInv, TypeOK, AloneInWindow, RowOf,
            Window
    <2>2. CASE RowOf(r).status = "absent"
        <3>1. /\ pc' = [pc EXCEPT ![r] = "validate"]
              /\ others # {} => TxnOf[r] \in overlapped'
            BY <2>2 DEF FindTransaction, Goes, Window
        <3> QED
            BY <1>1, <2>2, <3>1
            DEF RelayInv, TypeInv, TypeOK, AloneInWindow, RowOf, Window
    <2> QED
        BY <2>1, <2>2
<1> QED
    BY <1>2, <1>4, <1>5 DEF RelayInv

LEMMA SaveKeepsRelayInv ==
    ASSUME RelayInv, TypeInv', NEW r \in Request, Save(r)
    PROVE  RelayInv'
<1> USE ApiAssumption
<1> DEFINE m == TxnOf[r]
<1>1. /\ m \in MetaTxn /\ m \notin overlapped => rows[m].status = "absent"
      /\ UNCHANGED <<answer, broadcasts, overlapped>>
      /\ pc' = [pc EXCEPT ![r] = "wait"]
    BY DEF Save, Goes, histories, RelayInv, AloneInWindow, RowOf, Window
<1>2. /\ rows'[m].status = "unsubmitted" /\ rows'[m].hash = rows[m].hash
      /\ \A n \in MetaTxn \ {m} : rows'[n] = rows[n]
    BY DEF Save, NoRow, RelayInv, TypeInv, TypeOK, Row, AbsentIsUntouched
<1>3. AbsentIsUntouched' /\ HashWasBroadcast'
    BY <1>1, <1>2 DEF RelayInv, AbsentIsUntouched, HashWasBroadcast
<1>4. BroadcastIsNotQueued'
    BY <1>1, <1>2 DEF RelayInv, BroadcastIsNotQueued, AbsentIsUntouched
<1>5. AloneInWindow'
    BY <1>1, <1>2 DEF Save, RelayInv, TypeInv, TypeOK, AloneInWindow, RowOf, Window
<1>6. AnswerNamesTheTransaction'
    BY <1>1, <1>2 DEF RelayInv, AnswerNamesTheTransaction, RowOf
<1> QED
    BY <1>3, <1>4, <1>5, <1>6 DEF RelayInv

\* The watcher never touches a row that is not queued.
LEMMA WatcherKeepsRelayInv ==
    ASSUME RelayInv, TypeInv', NEW m \in MetaTxn, Broadcast(m) \/ Cancel(m)
    PROVE  RelayInv'
<1> USE ApiAssumption
<1>1. /\ rows[m].status = "unsubmitted"
      /\ rows'[m].status \in {"submitted", "cancelled"}
      /\ \A n \in MetaTxn \ {m} : rows'[n] = rows[n] /\ broadcasts'[n] = broadcasts[n]
      /\ UNCHANGED <<pc, answer, overlapped>>
    BY DEF Broadcast, Cancel, Moves, RelayInv, TypeInv, TypeOK, Row
<1>2. /\ broadcasts[m] \in Nat
      /\ \/ broadcasts'[m] = broadcasts[m] + 1 /\ rows'[m].hash = broadcasts[m] + 1
         \/ broadcasts'[m] = broadcasts[m] /\ rows'[m].hash = rows[m].hash
    BY DEF Broadcast, Cancel, Moves, RelayInv, TypeInv, TypeOK, Row
<1>3. m \notin overlapped => broadcasts[m] = 0
    BY <1>1, <1>2 DEF RelayInv, BroadcastIsNotQueued
<1>4. AbsentIsUntouched'
    BY <1>1 DEF RelayInv, AbsentIsUntouched
<1>5. HashWasBroadcast'
    BY <1>1, <1>2 DEF RelayInv, HashWasBroadcast
<1>6. BroadcastIsNotQueued'
    BY <1>1, <1>2, <1>3 DEF RelayInv, BroadcastIsNotQueued
<1>7. AloneInWindow'
    BY <1>1 DEF RelayInv, AloneInWindow, RowOf
<1>8. AnswerNamesTheTransaction'
    BY <1>1, <1>2, <1>3 DEF RelayInv, AnswerNamesTheTransaction, RowOf
<1> QED
    BY <1>4, <1>5, <1>6, <1>7, <1>8 DEF RelayInv

LEMMA NextKeepsRelayInv ==
    ASSUME RelayInv, [Next]_vars
    PROVE  RelayInv'
<1>0. TypeInv'
    BY HandleKeepsTypeInv, OthersKeepTypeInv DEF Next, RelayInv
<1>1. ASSUME NEW r \in Request, Handle(r) \/ TimesOut(r)
      PROVE  RelayInv'
    <2>0. OnlyRequest(r)
        BY <1>1, HandleFrame DEF RelayInv
    <2>1. CASE FindTransaction(r)
        BY <1>0, <2>0, <2>1, FindKeepsRelayInv
    <2>2. CASE Save(r)
        BY <1>0, <2>2, SaveKeepsRelayInv
    <2>3. CASE Poll(r)
        <3>1. /\ UNCHANGED <<rows, broadcasts, overlapped>> /\ RowOf(r).hash # None
              /\ pc'[r] \notin Window
              /\ answer'[r] = answer[r] \/ answer'[r].hash = RowOf(r).hash
            BY <2>3 DEF Poll, Goes, Answered, Rest, histories, Window, RelayInv, TypeInv, TypeOK
        <3> QED
            BY <1>0, <2>0, <3>1, QuietStepKeepsRelayInv
    <2>4. CASE Receive(r) \/ Validate(r) \/ CheckLive(r) \/ CheckLimit(r) \/ TimesOut(r)
        <3>1. UNCHANGED <<rows, broadcasts, overlapped>>
            BY <2>4
            DEF Receive, Validate, CheckLive, CheckLimit, TimesOut, Rest, histories
        <3>2. pc'[r] \in Window => pc[r] \in Window
            BY <2>4
            DEF Receive, Validate, CheckLive, CheckLimit, TimesOut, Goes, Answered, Window,
                RelayInv, TypeInv, TypeOK
        <3>3. answer'[r] = answer[r] \/ answer'[r].kind # "submitted"
            BY <2>4
            DEF Receive, Validate, CheckLive, CheckLimit, TimesOut, Goes, Answered,
                RelayInv, TypeInv, TypeOK
        <3> QED
            BY <1>0, <2>0, <3>1, <3>2, <3>3, QuietStepKeepsRelayInv
    <2> QED
        BY <1>1, <2>1, <2>2, <2>3, <2>4 DEF Handle
<1>2. ASSUME NEW m \in MetaTxn, Broadcast(m) \/ Cancel(m)
      PROVE  RelayInv'
    BY <1>0, <1>2, WatcherKeepsRelayInv
<1>3. ASSUME UNCHANGED <<rows, broadcasts, overlapped, pc, answer>>
      PROVE  RelayInv'
    BY <1>0, <1>3
    DEF RelayInv, AbsentIsUntouched, HashWasBroadcast, BroadcastIsNotQueued, AloneInWindow,
        AnswerNamesTheTransaction, RowOf
<1> QED
    BY <1>1, <1>2, <1>3 DEF Next, Heartbeat, Tick, histories, vars

LEMMA RelayInvariance == Spec => []RelayInv
BY InitRelayInv, NextKeepsRelayInv, PTL DEF Spec

\* A meta-transaction is broadcast twice only if two requests for it overlapped
\* (meta_transaction_handlers.ts:228-320).
THEOREM RelayedOnce == Spec => []RelayedOnceUnlessConcurrent
<1>1. RelayInv => RelayedOnceUnlessConcurrent
    BY DEF RelayInv, TypeInv, TypeOK, BroadcastIsNotQueued, RelayedOnceUnlessConcurrent
<1> QED
    BY <1>1, RelayInvariance, PTL

\* The hash that a client is answered with was broadcast for its
\* meta-transaction, and stays the row's unless requests overlapped.
THEOREM AnswersNameTheTransaction == Spec => []AnswerNamesTheTransaction
<1>1. RelayInv => AnswerNamesTheTransaction
    BY DEF RelayInv
<1> QED
    BY <1>1, RelayInvariance, PTL

(***************************************************************************)
(* The liveness gate.                                                      *)
(***************************************************************************)

HeartbeatIsLast == heartbeat # None /\ heartbeat.live => lastLive = heartbeat.updatedAt

LEMMA HeartbeatInvariance == Spec => []HeartbeatIsLast
<1>1. Init => HeartbeatIsLast
    BY DEF Init, HeartbeatIsLast
<1>2. HeartbeatIsLast /\ [Next]_vars => HeartbeatIsLast'
    <2> SUFFICES ASSUME HeartbeatIsLast, [Next]_vars PROVE HeartbeatIsLast'
        OBVIOUS
    <2>1. ASSUME NEW b \in BOOLEAN, NEW g \in BOOLEAN, Heartbeat(b, g)
          PROVE  HeartbeatIsLast'
        BY <2>1 DEF Heartbeat, HeartbeatIsLast
    <2>2. CASE UNCHANGED <<heartbeat, lastLive>>
        BY <2>2 DEF HeartbeatIsLast
    <2> QED
        BY <2>1, <2>2
        DEF Next, Handle, Receive, FindTransaction, Validate, CheckLive, CheckLimit, Save,
            Poll, TimesOut, Broadcast, Cancel, Moves, Tick, Rest, histories, vars
<1> QED
    BY <1>1, <1>2, PTL DEF Spec

\* Whatever the watcher reports and however late, no request passes the gate
\* unless the watcher reported that it is live within the window
\* (meta_transaction_service.ts:376-389).
THEOREM GateIsSound == Spec => LetThroughWhileLive
<1> DEFINE Gate ==
        \A r \in Request : pc[r] = "isLive" /\ pc'[r] \in {"limit", "save"} =>
            lastLive # None /\ now - lastLive < LiveWindow
<1>1. TypeInv /\ HeartbeatIsLast /\ [Next]_vars => Gate
    <2> SUFFICES ASSUME TypeInv, HeartbeatIsLast, [Next]_vars,
                        NEW r \in Request, pc[r] = "isLive", pc'[r] \in {"limit", "save"}
                 PROVE  lastLive # None /\ now - lastLive < LiveWindow
        OBVIOUS
    <2>1. ASSUME NEW q \in Request, Handle(q) \/ TimesOut(q)
          PROVE  q = r
        BY <2>1, HandleFrame DEF OnlyRequest, TypeInv, TypeOK
    <2>2. \E q \in Request : Handle(q) \/ TimesOut(q)
        BY DEF Next, Broadcast, Cancel, Moves, Heartbeat, Tick, vars
    <2>3. CheckLive(r)
        BY <2>1, <2>2
        DEF Handle, Receive, FindTransaction, Validate, CheckLimit, Save, Poll, TimesOut
    <2>4. IsSignerLive
        BY <2>3 DEF CheckLive, Answered, Goes, TypeInv, TypeOK
    <2>5. lastLive = heartbeat.updatedAt /\ heartbeat.updatedAt \in Time
        BY <2>4 DEF IsSignerLive, HeartbeatIsLast, TypeInv, TypeOK
    <2>6. None \notin Time
        BY ApiAssumption DEF Time
    <2>7. now \in Int /\ LiveWindow \in Int /\ lastLive \in Int
        BY <2>5, ApiAssumption DEF TypeInv, TypeOK, Time
    <2>8. lastLive > now - LiveWindow
        BY <2>4, <2>5 DEF IsSignerLive
    <2> QED
        BY <2>5, <2>6, <2>7, <2>8
<1>2. Spec => [][Gate]_vars
    <2>1. TypeInv /\ HeartbeatIsLast /\ [Next]_vars => [Gate]_vars
        BY <1>1
    <2> QED
        BY <2>1, TypeInvariance, HeartbeatInvariance, PTL DEF Spec
<1> QED
    BY <1>2 DEF LetThroughWhileLive

(***************************************************************************)
(* By how much concurrent requests overshoot the rate limits.  The         *)
(* limiters bound the rows, and nothing bounds the requests that have      *)
(* passed a limiter and not saved their row yet.  Rows and such requests   *)
(* are therefore counted together: a request joins when its limiter counts *)
(* fewer rows than the limit, and turns from a request into a row when it  *)
(* saves.                                                                  *)
(***************************************************************************)

\* The requests of a subject between the liveness check and the save.
InFlight(s) == {q \in Request : s \in SubjectsOf(q) /\ pc[q] \in {"limit", "save"}}

\* Those of them that the i-th limiter has let pass.
Passed(i, s) ==
    {q \in Request : /\ SubjectFor(Limiters[i], q) = s
                     /\ pc[q] = "save" \/ (pc[q] = "limit" /\ limiter[q] > i)}

Counted(i, s) == Cardinality(Selected(Limiters[i], s)) + Cardinality(Passed(i, s))

LimitersTakeTurns ==
    \A r \in Request :
        /\ pc[r] # "limit" => limiter[r] = 1
        /\ pc[r] = "limit" => limiter[r] <= Len(Limiters)

PeakCovers == \A s \in Subject : Cardinality(InFlight(s)) <= peak[s]

CreatedBefore == \A m \in MetaTxn : rows[m].createdAt <= now

CountIsBounded ==
    \A i \in 1 .. Len(Limiters), s \in Subject :
        Counted(i, s) > 0 => Counted(i, s) <= Limiters[i].limit - 1 + peak[s]

LimitInv ==
    /\ TypeInv
    /\ LimitersTakeTurns /\ PeakCovers /\ CreatedBefore
    /\ CountIsBounded

-----------------------------------------------------------------------------

LEMMA DivMonotone ==
    ASSUME NEW a \in Nat, NEW b \in Nat, a <= b, NEW d \in Nat \ {0}
    PROVE  a \div d <= b \div d
<1> DEFINE q == a \div d
           p == b \div d
<1>1. q \in Int /\ p \in Int /\ d * q <= a /\ b < d * p + d
    OBVIOUS
<1> HIDE DEF q, p
<1>2. ASSUME q >= p + 1 PROVE d * q >= d * p + d
    <2>1. d * q >= d * (p + 1)
        BY <1>1, <1>2
    <2>2. d * (p + 1) = d * p + d
        BY <1>1
    <2> QED
        BY <1>1, <2>1, <2>2
<1>3. d * q \in Int /\ d * p \in Int
    BY <1>1
<1>4. q <= p
    BY <1>1, <1>2, <1>3
<1> QED
    BY <1>4 DEF q, p

LEMMA LimiterTypes ==
    /\ Len(Limiters) \in Nat
    /\ \A i \in 1 .. Len(Limiters) : Limiters[i] \in Limiter /\ Limiters[i].limit \in Nat
                                     /\ Limiters[i].interval \in Nat
<1>1. Limiters \in Seq(Limiter)
    BY ApiAssumption
<1>2. Len(Limiters) \in Nat /\ \A i \in 1 .. Len(Limiters) : Limiters[i] \in Limiter
    BY <1>1
<1>3. \A l \in Limiter : l.limit \in Nat /\ l.interval \in Nat
    BY DEF Limiter
<1> QED
    BY <1>2, <1>3

\* The sets that are counted are finite.
LEMMA Finite ==
    ASSUME NEW i, NEW s
    PROVE  /\ IsFiniteSet(Selected(Limiters[i], s))
           /\ IsFiniteSet(Passed(i, s)) /\ IsFiniteSet(InFlight(s))
           /\ Cardinality(Selected(Limiters[i], s)) \in Nat
           /\ Cardinality(Passed(i, s)) \in Nat
           /\ Cardinality(InFlight(s)) \in Nat
<1>1. IsFiniteSet(Selected(Limiters[i], s))
    BY ApiAssumption, FS_Subset DEF Selected
<1>2. IsFiniteSet(Passed(i, s)) /\ IsFiniteSet(InFlight(s))
    BY ApiAssumption, FS_Subset DEF Passed, InFlight
<1> QED
    BY <1>1, <1>2, FS_CardinalityType

\* A step that adds neither a row nor a request to what is counted.
LEMMA NothingAdded ==
    ASSUME LimitInv, TypeInv',
           \A s \in Subject : peak'[s] >= peak[s],
           NEW i \in 1 .. Len(Limiters), NEW s \in Subject,
           Selected(Limiters[i], s)' \subseteq Selected(Limiters[i], s),
           Passed(i, s)' \subseteq Passed(i, s),
           Counted(i, s)' > 0
    PROVE  Counted(i, s)' <= Limiters[i].limit - 1 + peak'[s]
<1> DEFINE S == Selected(Limiters[i], s)
           P == Passed(i, s)
<1>1. /\ IsFiniteSet(S) /\ IsFiniteSet(P)
      /\ Cardinality(S) \in Nat /\ Cardinality(P) \in Nat
    BY Finite
<1>2. /\ Cardinality(S') <= Cardinality(S) /\ Cardinality(P') <= Cardinality(P)
      /\ Cardinality(S') \in Nat /\ Cardinality(P') \in Nat
    BY <1>1, FS_Subset, FS_CardinalityType
<1>3. /\ Counted(i, s) = Cardinality(S) + Cardinality(P)
      /\ Counted(i, s)' = Cardinality(S') + Cardinality(P')
    BY DEF Counted
<1>4. Counted(i, s) <= Limiters[i].limit - 1 + peak[s]
    BY <1>1, <1>2, <1>3 DEF LimitInv, CountIsBounded
<1>5. peak[s] \in Int /\ peak'[s] \in Int /\ Limiters[i].limit \in Int
    BY LimiterTypes, FS_CardinalityType, ApiAssumption DEF LimitInv, TypeInv, TypeOK
<1>6. peak'[s] >= peak[s]
    OBVIOUS
<1>7. Counted(i, s)' <= Counted(i, s)
    BY <1>1, <1>2, <1>3
<1>8. Counted(i, s) \in Nat /\ Counted(i, s)' \in Nat
    BY <1>1, <1>2, <1>3
<1> HIDE DEF S, P
<1> QED
    BY <1>4, <1>5, <1>6, <1>7, <1>8, SMTT(20)

LEMMA InitLimitInv == Init => LimitInv
<1> SUFFICES ASSUME Init PROVE LimitInv
    OBVIOUS
<1>1. TypeInv
    BY InitTypeInv
<1>2. LimitersTakeTurns /\ CreatedBefore
    BY ApiAssumption DEF Init, LimitersTakeTurns, CreatedBefore, NoRow
<1>3. \A s \in Subject : InFlight(s) = {} /\ \A i \in 1 .. Len(Limiters) :
          Passed(i, s) = {} /\ Selected(Limiters[i], s) = {}
    BY DEF Init, InFlight, Passed, Selected, NoRow
<1>4. \A X : X = {} => Cardinality(X) = 0
    BY FS_EmptySet, Zenon
<1>5. PeakCovers
    <2> SUFFICES ASSUME NEW s \in Subject PROVE Cardinality(InFlight(s)) <= peak[s]
        BY DEF PeakCovers
    <2>1. Cardinality(InFlight(s)) = 0
        BY <1>3, <1>4, Zenon
    <2>2. peak[s] = 0
        BY DEF Init
    <2> QED
        BY <2>1, <2>2
<1>6. CountIsBounded
    <2> SUFFICES ASSUME NEW i \in 1 .. Len(Limiters), NEW s \in Subject
                 PROVE  Counted(i, s) = 0
        BY DEF CountIsBounded
    <2>1. Cardinality(Selected(Limiters[i], s)) = 0
        BY <1>3, <1>4, Zenon
    <2>2. Cardinality(Passed(i, s)) = 0
        BY <1>3, <1>4, Zenon
    <2> QED
        BY <2>1, <2>2 DEF Counted
<1> QED
    BY <1>1, <1>2, <1>5, <1>6 DEF LimitInv

LEMMA PeakStays ==
    ASSUME LimitInv, UNCHANGED peak, NEW s \in Subject, InFlight(s)' \subseteq InFlight(s)
    PROVE  Cardinality(InFlight(s)') <= peak'[s]
<1>1. IsFiniteSet(InFlight(s)) /\ Cardinality(InFlight(s)) <= peak[s]
    BY Finite DEF LimitInv, PeakCovers
<1>2. Cardinality(InFlight(s)') <= Cardinality(InFlight(s))
    BY <1>1, FS_Subset
<1>3. Cardinality(InFlight(s)') \in Nat /\ Cardinality(InFlight(s)) \in Nat
    BY <1>1, FS_Subset, FS_CardinalityType
<1>4. peak[s] \in Int
    BY FS_CardinalityType, ApiAssumption DEF LimitInv, TypeInv, TypeOK
<1> QED
    BY <1>1, <1>2, <1>3, <1>4

\* A step that leaves the requests alone and lets no limiter count more rows.
LEMMA AtRest ==
    ASSUME LimitInv, TypeInv', CreatedBefore', UNCHANGED <<pc, limiter, peak>>,
           \A i \in 1 .. Len(Limiters), s \in Subject :
               Selected(Limiters[i], s)' \subseteq Selected(Limiters[i], s)
    PROVE  LimitInv'
<1>1. LimitersTakeTurns'
    BY DEF LimitInv, LimitersTakeTurns
<1>2. \A s : InFlight(s)' \subseteq InFlight(s) /\ \A i : Passed(i, s)' \subseteq Passed(i, s)
    BY DEF InFlight, Passed, SubjectsOf, SubjectFor
<1>3. PeakCovers'
    BY <1>2, PeakStays DEF PeakCovers
<1>4. \A s \in Subject : peak'[s] >= peak[s]
    BY FS_CardinalityType, ApiAssumption DEF LimitInv, TypeInv, TypeOK
<1>5. CountIsBounded'
    BY <1>2, <1>4, NothingAdded DEF CountIsBounded
<1> QED
    BY <1>1, <1>3, <1>5 DEF LimitInv

\* A step of request r that writes no row, and does not let r pass a limiter.
LEMMA QuietStepKeepsLimitInv ==
    ASSUME LimitInv, TypeInv', NEW r \in Request, OnlyRequest(r),
           UNCHANGED <<rows, now, peak>>,
           pc'[r] \notin {"limit", "save"},
           limiter' = [limiter EXCEPT ![r] = 1]
    PROVE  LimitInv'
<1>1. LimitersTakeTurns' /\ CreatedBefore'
    BY DEF LimitInv, TypeInv, TypeOK, OnlyRequest, LimitersTakeTurns, CreatedBefore
<1>2. \A s : InFlight(s)' \subseteq InFlight(s) /\ \A i : Passed(i, s)' \subseteq Passed(i, s)
    BY DEF LimitInv, TypeInv, TypeOK, OnlyRequest, InFlight, Passed, SubjectsOf, SubjectFor
<1>3. PeakCovers'
    BY <1>2, PeakStays DEF PeakCovers
<1>4. \A i, s : Selected(Limiters[i], s)' = Selected(Limiters[i], s)
    BY DEF Selected, HasKey, InPeriod
<1>5. \A s \in Subject : peak'[s] >= peak[s]
    BY FS_CardinalityType, ApiAssumption DEF LimitInv, TypeInv, TypeOK
<1>6. CountIsBounded'
    BY <1>2, <1>4, <1>5, NothingAdded DEF CountIsBounded
<1> QED
    BY <1>1, <1>3, <1>6 DEF LimitInv

\* A request that has not passed the liveness check has passed no limiter.
LEMMA CheckLiveKeepsLimitInv ==
    ASSUME LimitInv, TypeInv', NEW r \in Request, OnlyRequest(r), CheckLive(r)
    PROVE  LimitInv'
<1>1. /\ pc[r] = "isLive" /\ limiter[r] = 1 /\ limiter' = limiter
      /\ limiter' = [limiter EXCEPT ![r] = 1]
      /\ UNCHANGED <<rows, now>>
    BY DEF CheckLive, Rest, LimitInv, LimitersTakeTurns, TypeInv, TypeOK
<1>2. CASE ~IsSignerLive
    BY <1>1, <1>2, QuietStepKeepsLimitInv
    DEF CheckLive, Answered, Goes, LimitInv, TypeInv, TypeOK
<1>3. CASE IsSignerLive
    <2>1. /\ pc' = [pc EXCEPT ![r] = IF Limiters = <<>> THEN "save" ELSE "limit"]
          /\ peak' = WithPeak(r)
        BY <1>3 DEF CheckLive, Goes
    <2>2. pc \in [Request -> PC]
        BY DEF LimitInv, TypeInv, TypeOK
    <2>3. LimitersTakeTurns'
        <3>1. Limiters # <<>> => Len(Limiters) >= 1
            BY ApiAssumption
        <3> QED
            BY <1>1, <2>1, <2>2, <3>1 DEF LimitInv, LimitersTakeTurns
    <2>4. \A s \in Subject :
              /\ peak'[s] >= peak[s]
              /\ s \in SubjectsOf(r) => peak'[s] >= Entering(r, s)
              /\ s \notin SubjectsOf(r) => peak'[s] = peak[s]
        <3> SUFFICES ASSUME NEW s \in Subject
                     PROVE  /\ peak'[s] >= peak[s]
                            /\ s \in SubjectsOf(r) => peak'[s] >= Entering(r, s)
                            /\ s \notin SubjectsOf(r) => peak'[s] = peak[s]
            OBVIOUS
        <3>1. peak[s] \in Int
            BY FS_CardinalityType, ApiAssumption DEF LimitInv, TypeInv, TypeOK
        <3>2. Entering(r, s) \in Int
            BY FS_Subset, FS_CardinalityType, ApiAssumption DEF Entering
        <3>3. peak'[s] = IF s \in SubjectsOf(r) /\ Entering(r, s) > peak[s]
                         THEN Entering(r, s) ELSE peak[s]
            BY <2>1 DEF WithPeak
        <3> QED
            BY <3>1, <3>2, <3>3
    <2>5. PeakCovers'
        <3> SUFFICES ASSUME NEW s \in Subject
                     PROVE  Cardinality(InFlight(s)') <= peak'[s]
            BY DEF PeakCovers
        <3>1. CASE s \in SubjectsOf(r)
            <4> DEFINE Q == {q \in Request \ {r} : s \in SubjectsOf(q)
                                                  /\ pc[q] \in {"limit", "save"}}
            <4>1. InFlight(s)' = Q \cup {r}
                BY <2>1, <2>2, <3>1 DEF InFlight, SubjectsOf
            <4>2. IsFiniteSet(Q) /\ r \notin Q
                BY FS_Subset, ApiAssumption
            <4>3. Cardinality(Q \cup {r}) = Cardinality(Q) + 1
                BY <4>2, FS_AddElement
            <4>4. Entering(r, s) = 1 + Cardinality(Q)
                BY DEF Entering
            <4>5. Cardinality(Q) \in Nat /\ peak'[s] >= Entering(r, s)
                BY <2>4, <3>1, <4>2, FS_CardinalityType
            <4>6. Cardinality(InFlight(s)') = Cardinality(Q \cup {r})
                BY <4>1, Zenon
            <4> QED
                BY <4>3, <4>4, <4>5, <4>6
        <3>2. CASE s \notin SubjectsOf(r)
            <4>1. InFlight(s)' = InFlight(s)
                BY <2>1, <2>2, <3>2 DEF InFlight, SubjectsOf
            <4>2. Cardinality(InFlight(s)') = Cardinality(InFlight(s))
                BY <4>1, Zenon
            <4> QED
                BY <2>4, <3>2, <4>2 DEF LimitInv, PeakCovers
        <3> QED
            BY <3>1, <3>2
    <2>6. \A i \in 1 .. Len(Limiters), s \in Subject :
              /\ Selected(Limiters[i], s)' \subseteq Selected(Limiters[i], s)
              /\ Passed(i, s)' \subseteq Passed(i, s)
        <3>1. ASSUME NEW i \in 1 .. Len(Limiters) PROVE Limiters # <<>>
            OBVIOUS
        <3>2. \A i \in 1 .. Len(Limiters) : ~(limiter'[r] > i)
            BY <1>1, LimiterTypes
        <3> QED
            BY <1>1, <2>1, <2>2, <3>1, <3>2
            DEF Selected, HasKey, InPeriod, Passed, SubjectFor
    <2>7. CountIsBounded'
        BY <2>4, <2>6, NothingAdded DEF CountIsBounded
    <2>8. CreatedBefore'
        BY <1>1 DEF LimitInv, CreatedBefore
    <2> QED
        BY <2>3, <2>5, <2>7, <2>8 DEF LimitInv
<1> QED
    BY <1>2, <1>3

\* A request joins the count of a limiter that counted fewer rows than its
\* limit, and then no more requests are counted than are in flight.
LEMMA CheckLimitKeepsLimitInv ==
    ASSUME LimitInv, TypeInv', NEW r \in Request, OnlyRequest(r), CheckLimit(r)
    PROVE  LimitInv'
<1> DEFINE k == limiter[r]
           l == Limiters[k]
<1>1. /\ pc[r] = "limit" /\ k \in 1 .. Len(Limiters)
      /\ UNCHANGED <<rows, now, peak>>
      /\ pc \in [Request -> PC] /\ limiter \in [Request -> 1 .. Len(Limiters) + 1]
    BY LimiterTypes
    DEF CheckLimit, Rest, histories, LimitInv, LimitersTakeTurns, TypeInv, TypeOK
<1>2. CASE ~IsUnderLimit(l, SubjectFor(l, r))
    <2>1. limiter' = [limiter EXCEPT ![r] = 1] /\ pc'[r] = "done"
        BY <1>1, <1>2 DEF CheckLimit, Answered, Goes
    <2> QED
        BY <1>1, <2>1, QuietStepKeepsLimitInv
<1>3. CASE IsUnderLimit(l, SubjectFor(l, r))
    <2>1. \/ /\ k < Len(Limiters) /\ limiter' = [limiter EXCEPT ![r] = k + 1] /\ pc' = pc
          \/ /\ k = Len(Limiters) /\ limiter' = [limiter EXCEPT ![r] = 1]
             /\ pc' = [pc EXCEPT ![r] = "save"]
        BY <1>1, <1>3, LimiterTypes DEF CheckLimit, Goes
    <2>2. LimitersTakeTurns'
        <3>1. Len(Limiters) \in Nat /\ k \in 1 .. Len(Limiters)
            BY <1>1, LimiterTypes
        <3>2. /\ limiter'[r] = IF pc'[r] = "limit" THEN k + 1 ELSE 1
              /\ pc'[r] = "limit" => k < Len(Limiters)
            BY <1>1, <2>1
        <3>3. \A q \in Request \ {r} : limiter'[q] = limiter[q] /\ pc'[q] = pc[q]
            BY <1>1, <2>1
        <3> QED
            BY <3>1, <3>2, <3>3 DEF LimitInv, LimitersTakeTurns
    <2>3. \A s : InFlight(s)' = InFlight(s)
        BY <1>1, <2>1 DEF InFlight, SubjectsOf
    <2>4. PeakCovers'
        BY <1>1, <2>3, PeakStays DEF PeakCovers
    <2>5. \A s \in Subject : peak[s] \in Int /\ peak'[s] = peak[s]
        BY <1>1, FS_CardinalityType, ApiAssumption DEF LimitInv, TypeInv, TypeOK
    <2>6. \A i, s : Selected(Limiters[i], s)' = Selected(Limiters[i], s)
        BY <1>1 DEF Selected, HasKey, InPeriod
    <2>7. CountIsBounded'
        <3> SUFFICES ASSUME NEW i \in 1 .. Len(Limiters), NEW s \in Subject,
                            Counted(i, s)' > 0
                     PROVE  Counted(i, s)' <= Limiters[i].limit - 1 + peak'[s]
            BY DEF CountIsBounded
        <3>1. CASE i = k /\ s = SubjectFor(l, r)
            <4>1. Cardinality(Selected(Limiters[i], s)) < Limiters[i].limit
                BY <1>3, <3>1 DEF IsUnderLimit
            <4>2. Passed(i, s)' \subseteq InFlight(s)'
                BY DEF Passed, InFlight, SubjectFor, SubjectsOf
            <4>3. IsFiniteSet(InFlight(s)')
                BY <2>3, Finite
            <4>4. /\ Cardinality(Passed(i, s)') <= Cardinality(InFlight(s)')
                  /\ Cardinality(Passed(i, s)') \in Nat /\ Cardinality(InFlight(s)') \in Nat
                BY <4>2, <4>3, FS_Subset, FS_CardinalityType
            <4>5. Cardinality(InFlight(s)') <= peak'[s]
                BY <2>4 DEF PeakCovers
            <4>6. /\ Counted(i, s)' = Cardinality(Selected(Limiters[i], s)')
                                      + Cardinality(Passed(i, s)')
                  /\ Cardinality(Selected(Limiters[i], s)')
                        = Cardinality(Selected(Limiters[i], s))
                BY <2>6, Zenon DEF Counted
            <4>7. Cardinality(Selected(Limiters[i], s)) \in Nat /\ Limiters[i].limit \in Nat
                BY Finite, LimiterTypes
            <4> QED
                BY <2>5, <4>1, <4>4, <4>5, <4>6, <4>7
        <3>2. CASE ~(i = k /\ s = SubjectFor(l, r))
            <4>1. SubjectFor(Limiters[i], r) = s => i # k
                BY <3>2
            <4>2. Passed(i, s)' \subseteq Passed(i, s)
                BY <1>1, <2>1, <4>1, LimiterTypes DEF Passed, SubjectFor
            <4>3. /\ \A t \in Subject : peak'[t] >= peak[t]
                  /\ Selected(Limiters[i], s)' \subseteq Selected(Limiters[i], s)
                BY <2>5, <2>6
            <4> QED
                BY <4>2, <4>3, NothingAdded
        <3> QED
            BY <3>1, <3>2
    <2>8. CreatedBefore'
        BY <1>1 DEF LimitInv, CreatedBefore
    <2> QED
        BY <2>2, <2>4, <2>7, <2>8 DEF LimitInv
<1> QED
    BY <1>2, <1>3

\* A request that saves its row leaves the count as the row joins it.
LEMMA SaveKeepsLimitInv ==
    ASSUME LimitInv, TypeInv', NEW r \in Request, Save(r)
    PROVE  LimitInv'
<1> DEFINE m == TxnOf[r]
<1>1. /\ pc[r] = "save" /\ pc' = [pc EXCEPT ![r] = "wait"] /\ limiter[r] = 1
      /\ UNCHANGED <<now, limiter, peak>>
      /\ pc \in [Request -> PC] /\ m \in MetaTxn
    BY ApiAssumption
    DEF Save, Goes, histories, LimitInv, LimitersTakeTurns, TypeInv, TypeOK
<1>2. /\ rows'[m].key = KeyOf[r]
      /\ rows'[m].createdAt \in {now, rows[m].createdAt}
      /\ \A n \in MetaTxn \ {m} : rows'[n] = rows[n]
    BY <1>1 DEF Save, NoRow, LimitInv, TypeInv, TypeOK, Row
<1>3. LimitersTakeTurns'
    BY <1>1 DEF LimitInv, LimitersTakeTurns
<1>4. CreatedBefore'
    <2>1. now \in Int /\ \A n \in MetaTxn : rows[n].createdAt <= now
        BY ApiAssumption DEF LimitInv, CreatedBefore, TypeInv, TypeOK, Time
    <2> QED
        BY <1>1, <1>2, <2>1 DEF CreatedBefore
<1>5. \A s : InFlight(s)' \subseteq InFlight(s)
    BY <1>1 DEF InFlight, SubjectsOf
<1>6. PeakCovers'
    BY <1>1, <1>5, PeakStays DEF PeakCovers
<1>7. \A s \in Subject : peak[s] \in Int /\ peak'[s] = peak[s]
    BY <1>1, FS_CardinalityType, ApiAssumption DEF LimitInv, TypeInv, TypeOK
<1>8. CountIsBounded'
    <2> SUFFICES ASSUME NEW i \in 1 .. Len(Limiters), NEW s \in Subject,
                        Counted(i, s)' > 0
                 PROVE  Counted(i, s)' <= Limiters[i].limit - 1 + peak'[s]
        BY DEF CountIsBounded
    <2> DEFINE S == Selected(Limiters[i], s)
               P == Passed(i, s)
    <2>1. CASE SubjectFor(Limiters[i], r) = s
        <3>1. S' \subseteq S \cup {m}
            BY <1>1, <1>2 DEF Save, Selected, HasKey, InPeriod
        <3>2. P' \subseteq P \ {r} /\ r \in P
            BY <1>1, <2>1 DEF Passed, SubjectFor
        <3>3. IsFiniteSet(S) /\ IsFiniteSet(P) /\ IsFiniteSet(S \cup {m})
              /\ IsFiniteSet(P \ {r})
            BY <3>2, Finite, FS_AddElement, FS_RemoveElement
        <3>4. /\ Cardinality(S \cup {m}) <= Cardinality(S) + 1
              /\ Cardinality(P \ {r}) = Cardinality(P) - 1
              /\ Cardinality(S) \in Nat /\ Cardinality(P) \in Nat
            <4> HIDE DEF S, P, m
            <4>1. Cardinality(S) \in Nat /\ Cardinality(P) \in Nat
                BY <3>3, FS_CardinalityType
            <4>2. Cardinality(S \cup {m}) <= Cardinality(S) + 1
                BY <3>3, <4>1, FS_AddElement
            <4>3. Cardinality(P \ {r}) = Cardinality(P) - 1
                BY <3>2, <3>3, FS_RemoveElement
            <4> QED
                BY <4>1, <4>2, <4>3
        <3>5. /\ Cardinality(S') <= Cardinality(S \cup {m})
              /\ Cardinality(P') <= Cardinality(P \ {r})
            BY <3>1, <3>2, <3>3, FS_Subset
        <3>6. /\ Cardinality(S') \in Nat /\ Cardinality(P') \in Nat
              /\ Cardinality(S \cup {m}) \in Nat
            BY <3>1, <3>2, <3>3, FS_Subset, FS_CardinalityType
        <3>7. /\ Counted(i, s) = Cardinality(S) + Cardinality(P)
              /\ Counted(i, s)' = Cardinality(S') + Cardinality(P')
            BY DEF Counted
        <3>8. Counted(i, s) <= Limiters[i].limit - 1 + peak[s]
            <4>1. Counted(i, s) > 0
                BY <3>4, <3>5, <3>6, <3>7
            <4> QED
                BY <4>1 DEF LimitInv, CountIsBounded
        <3>9. Limiters[i].limit \in Nat
            BY LimiterTypes
        <3>10. Counted(i, s)' <= Counted(i, s)
            BY <3>4, <3>5, <3>6, <3>7
        <3>11. Counted(i, s) \in Nat /\ Counted(i, s)' \in Nat
            BY <3>4, <3>6, <3>7
        <3> HIDE DEF S, P, m
        <3> QED
            BY <1>7, <3>8, <3>9, <3>10, <3>11, SMTT(20)
    <2>2. CASE SubjectFor(Limiters[i], r) # s
        <3>1. S' \subseteq S
            BY <1>1, <1>2, <2>2 DEF Save, Selected, HasKey, InPeriod, SubjectFor
        <3>2. P' \subseteq P
            BY <1>1 DEF Passed, SubjectFor
        <3> QED
            BY <1>7, <3>1, <3>2, NothingAdded
    <2> QED
        BY <2>1, <2>2
<1> QED
    BY <1>3, <1>4, <1>6, <1>8 DEF LimitInv

\* The watcher keeps the rows that are counted, and time only removes some.
LEMMA OthersKeepLimitInv ==
    ASSUME LimitInv, TypeInv',
           \/ \E m \in MetaTxn : Broadcast(m) \/ Cancel(m)
           \/ \E b, g \in BOOLEAN : Heartbeat(b, g)
           \/ Tick
           \/ UNCHANGED vars
    PROVE  LimitInv'
<1>1. UNCHANGED <<pc, limiter, peak>>
    BY DEF Broadcast, Cancel, Moves, Heartbeat, Tick, histories, vars
<1>2. ASSUME NEW m \in MetaTxn, Broadcast(m) \/ Cancel(m)
      PROVE  LimitInv'
    <2>1. /\ now' = now
          /\ \A n \in MetaTxn :
                /\ rows'[n].key = rows[n].key /\ rows'[n].createdAt = rows[n].createdAt
                /\ rows'[n].status = "absent" <=> rows[n].status = "absent"
        <3>1. rows \in [MetaTxn -> Row] /\ rows[m] \in Row
            BY DEF LimitInv, TypeInv, TypeOK
        <3>2. /\ now' = now /\ rows[m].status = "unsubmitted"
              /\ \E to \in {"submitted", "cancelled"} : \E hash :
                    rows' = [rows EXCEPT ![m].status = to, ![m].hash = hash]
            BY <1>2 DEF Broadcast, Cancel, Moves
        <3>3. PICK to \in {"submitted", "cancelled"} : \E hash :
                  rows' = [rows EXCEPT ![m].status = to, ![m].hash = hash]
            BY <3>2
        <3>4. /\ rows'[m].key = rows[m].key /\ rows'[m].createdAt = rows[m].createdAt
              /\ rows'[m].status = to
            BY <3>1, <3>3 DEF Row
        <3>5. \A n \in MetaTxn \ {m} : rows'[n] = rows[n]
            BY <3>1, <3>3
        <3> QED
            BY <3>2, <3>4, <3>5
    <2>2. \A i, s : Selected(Limiters[i], s)' \subseteq Selected(Limiters[i], s)
        BY <2>1 DEF Selected, HasKey, InPeriod
    <2>3. CreatedBefore'
        BY <2>1 DEF LimitInv, CreatedBefore
    <2> QED
        BY <1>1, <2>2, <2>3, AtRest
<1>3. CASE Tick
    <2>1. /\ rows' = rows /\ now' = now + 1 /\ now \in Nat
          /\ \A n \in MetaTxn : rows[n].createdAt \in Nat /\ rows[n].createdAt <= now
        BY <1>3, ApiAssumption
        DEF Tick, LimitInv, CreatedBefore, TypeInv, TypeOK, Time, Row
    <2>2. CreatedBefore'
        BY <2>1 DEF CreatedBefore
    <2>3. ASSUME NEW i \in 1 .. Len(Limiters), NEW m \in MetaTxn, InPeriod(Limiters[i], m)'
          PROVE  InPeriod(Limiters[i], m)
        <3>1. CASE Limiters[i].kind = "daily"
            <4> DEFINE c == rows[m].createdAt
            <4>1. c \div Day = (now + 1) \div Day
                BY <2>1, <2>3, <3>1 DEF InPeriod
            <4>2. c \div Day <= now \div Day /\ now \div Day <= (now + 1) \div Day
                BY <2>1, DivMonotone, ApiAssumption
            <4>3. c \div Day \in Int /\ now \div Day \in Int
                BY <2>1, ApiAssumption
            <4>4. c \div Day = now \div Day
                BY <4>1, <4>2, <4>3
            <4> QED
                BY <3>1, <4>4 DEF InPeriod
        <3>2. CASE Limiters[i].kind # "daily"
            BY <2>1, <2>3, <3>2, LimiterTypes DEF InPeriod
        <3> QED
            BY <3>1, <3>2
    <2>4. \A i \in 1 .. Len(Limiters), s \in Subject :
              Selected(Limiters[i], s)' \subseteq Selected(Limiters[i], s)
        BY <2>1, <2>3 DEF Selected, HasKey
    <2> QED
        BY <1>1, <2>2, <2>4, AtRest
<1>4. ASSUME UNCHANGED <<rows, now>>
      PROVE  LimitInv'
    <2>1. \A i, s : Selected(Limiters[i], s)' = Selected(Limiters[i], s)
        BY <1>4 DEF Selected, HasKey, InPeriod
    <2>2. CreatedBefore'
        BY <1>4 DEF LimitInv, CreatedBefore
    <2> QED
        BY <1>1, <2>1, <2>2, AtRest
<1> QED
    BY <1>2, <1>3, <1>4 DEF Heartbeat, vars

LEMMA NextKeepsLimitInv ==
    ASSUME LimitInv, [Next]_vars
    PROVE  LimitInv'
<1>1. TypeInv'
    BY HandleKeepsTypeInv, OthersKeepTypeInv DEF Next, LimitInv
<1>2. ASSUME NEW r \in Request, Handle(r) \/ TimesOut(r)
      PROVE  LimitInv'
    <2>1. OnlyRequest(r)
        BY <1>2, HandleFrame DEF LimitInv
    <2>2. CASE CheckLive(r)
        BY <1>1, <2>1, <2>2, CheckLiveKeepsLimitInv
    <2>3. CASE CheckLimit(r)
        BY <1>1, <2>1, <2>3, CheckLimitKeepsLimitInv
    <2>4. CASE Save(r)
        BY <1>1, <2>4, SaveKeepsLimitInv
    <2>5. CASE \/ Receive(r) \/ FindTransaction(r) \/ Validate(r) \/ Poll(r)
               \/ TimesOut(r)
        <3>1. UNCHANGED <<rows, now, peak, limiter>>
            BY <2>5
            DEF Receive, FindTransaction, Validate, Poll, TimesOut, Rest, histories
        <3>2. pc[r] \notin {"limit", "save"} /\ pc'[r] \notin {"limit", "save"}
            BY <2>5
            DEF Receive, FindTransaction, Validate, Poll, TimesOut, Goes, Answered,
                LimitInv, TypeInv, TypeOK
        <3>3. limiter' = [limiter EXCEPT ![r] = 1]
            BY <3>1, <3>2 DEF LimitInv, LimitersTakeTurns, TypeInv, TypeOK
        <3> QED
            BY <1>1, <2>1, <3>1, <3>2, <3>3, QuietStepKeepsLimitInv
    <2> QED
        BY <1>2, <2>2, <2>3, <2>4, <2>5 DEF Handle
<1> QED
    BY <1>1, <1>2, OthersKeepLimitInv DEF Next

\* Whatever the limiters and however many requests are under way, the rows that
\* a limiter counts for a subject exceed its limit by less than the most
\* requests of the subject that were between the limiters and the save at once.
THEOREM OvershootBounded == Spec => []OvershootIsBounded
<1>1. LimitInv => OvershootIsBounded
    <2> SUFFICES ASSUME LimitInv, NEW i \in 1 .. Len(Limiters), NEW s \in Subject,
                        Cardinality(Selected(Limiters[i], s)) > 0
                 PROVE  Cardinality(Selected(Limiters[i], s))
                          <= Limiters[i].limit - 1 + peak[s]
        BY DEF OvershootIsBounded
    <2>1. /\ Cardinality(Selected(Limiters[i], s)) \in Nat
          /\ Cardinality(Passed(i, s)) \in Nat
        BY Finite
    <2>2. Counted(i, s) <= Limiters[i].limit - 1 + peak[s]
        BY <2>1 DEF LimitInv, CountIsBounded, Counted
    <2>3. peak[s] \in Int /\ Limiters[i].limit \in Nat
        BY LimiterTypes, FS_CardinalityType, ApiAssumption DEF LimitInv, TypeInv, TypeOK
    <2> QED
        BY <2>1, <2>2, <2>3 DEF Counted
<1> QED
    BY <1>1, InitLimitInv, NextKeepsLimitInv, PTL DEF Spec
=============================================================================

----------------------------- MODULE MetaTxnApi -----------------------------
(***************************************************************************)
(* POST /meta_transaction/v0/submit: the handler                           *)
(* (src/src/handlers/meta_transaction_handlers.ts), the service it calls   *)
(* (src/src/services/meta_transaction_service.ts), the rate limiters       *)
(* (src/src/utils/rate-limiters) and the watcher's heartbeat, which the    *)
(* handler trusts.                                                         *)
(*                                                                         *)
(* Requests run concurrently; each query of the database is an action.     *)
(* What the watcher does with a row is reduced to what MetaTxnLedger       *)
(* promises of it, TransactionWatcher being the detailed model.            *)
(***************************************************************************)
EXTENDS Integers, FiniteSets, Sequences

CONSTANTS
    Request,
    MetaTxn,
    ApiKey,
    TxnOf,           \* the meta-transaction each request submits
    KeyOf,           \* the API key it carries, or None
    TakerOf,         \* the taker who signed each meta-transaction
    ValidKey,        \* the API keys that are UUIDs
    Whitelisted,     \* META_TXN_SUBMIT_WHITELISTED_API_KEYS
    Limiters,        \* the configured rate limiters, in their order
    SigningEnabled,  \* META_TXN_SIGNING_ENABLED
    MetricsEnabled,  \* ENABLE_PROMETHEUS_METRICS
    LiveWindow,      \* how long a heartbeat counts as recent
    Day,             \* the length of a calendar day
    MaxTime,         \* bound: the clock runs over 0 .. MaxTime
    MaxHash,         \* bound: how often one row is broadcast
    None             \* null and undefined

Limiter ==
    [kind : {"daily", "rolling"}, field : {"api_key", "taker_address"},
     limit : Nat, interval : Nat]

ASSUME ApiAssumption ==
    /\ TxnOf \in [Request -> MetaTxn]
    /\ KeyOf \in [Request -> ApiKey \cup {None}]
    /\ Whitelisted \subseteq ValidKey /\ ValidKey \subseteq ApiKey
    /\ IsFiniteSet(Request) /\ IsFiniteSet(MetaTxn)
    /\ None \notin ApiKey /\ None \notin 0 .. MaxTime + MaxHash
    /\ Limiters \in Seq(Limiter)
    /\ SigningEnabled \in BOOLEAN /\ MetricsEnabled \in BOOLEAN
    /\ LiveWindow \in Nat /\ Day \in Nat \ {0} /\ MaxTime \in Nat /\ MaxHash \in Nat

VARIABLES
    now,
    rows,         \* the transactions table
    heartbeat,    \* the signer_status entry of the key-value table
    pc,           \* where each request is
    limiter,      \* the rate limiter it asks next
    answer,       \* what it was answered: a kind and a transaction hash
    broadcasts,   \* history: how often each meta-transaction was broadcast
    overlapped,   \* history: the meta-transactions two requests of which
                  \* looked for the row before either of them had saved it
    peak,         \* history: how many requests of a key, or of a taker, were
                  \* at most between the rate limiters and the save at a time
    lastLive      \* history: when the watcher last reported that it was live

vars == <<now, rows, heartbeat, pc, limiter, answer, broadcasts, overlapped,
          peak, lastLive>>
histories == <<broadcasts, overlapped, peak, lastLive>>

Time == 0 .. MaxTime
Hash == 1 .. MaxHash
RowStatus == {"absent", "unsubmitted", "submitted", "cancelled"}
Row == [status : RowStatus, hash : Hash \cup {None}, key : ApiKey \cup {None},
        createdAt : Time]
NoRow == [status |-> "absent", hash |-> None, key |-> None, createdAt |-> 0]

Answers == {"none", "invalidKey", "found", "error", "forbidden", "notLive",
            "rateLimited", "submitted", "timeout"}
Answer == [kind : Answers, hash : Hash \cup {None}]
Unanswered == [kind |-> "none", hash |-> None]

PC == {"new", "find", "validate", "isLive", "limit", "save", "wait", "orphan", "done"}
Takers == {TakerOf[m] : m \in MetaTxn}
Subject == ApiKey \cup Takers

TypeOK ==
    /\ now \in Time
    /\ rows \in [MetaTxn -> Row]
    /\ heartbeat \in [live : BOOLEAN, updatedAt : Time] \cup {None}
    /\ pc \in [Request -> PC]
    /\ limiter \in [Request -> 1 .. Len(Limiters) + 1]
    /\ answer \in [Request -> Answer]
    /\ broadcasts \in [MetaTxn -> 0 .. MaxHash]
    /\ overlapped \subseteq MetaTxn
    /\ peak \in [Subject -> 0 .. Cardinality(Request)]
    /\ lastLive \in Time \cup {None}

Init ==
    /\ now = 0
    /\ rows = [m \in MetaTxn |-> NoRow]
    /\ heartbeat = None
    /\ pc = [r \in Request |-> "new"]
    /\ limiter = [r \in Request |-> 1]
    /\ answer = [r \in Request |-> Unanswered]
    /\ broadcasts = [m \in MetaTxn |-> 0]
    /\ overlapped = {}
    /\ peak = [s \in Subject |-> 0]
    /\ lastLive = None

RowOf(r) == rows[TxnOf[r]]
Goes(r, where) == pc' = [pc EXCEPT ![r] = where]
Answered(r, kind, hash) ==
    /\ Goes(r, "done")
    /\ answer' = [answer EXCEPT ![r] = [kind |-> kind, hash |-> hash]]
Rest == UNCHANGED <<now, rows, heartbeat>>

-----------------------------------------------------------------------------
(* The handler.                                                            *)

Receive(r) ==
    /\ pc[r] = "new"
    /\ IF KeyOf[r] \in ValidKey \cup {None}
       THEN Goes(r, "find") /\ UNCHANGED answer
       ELSE Answered(r, "invalidKey", None)
    /\ Rest /\ UNCHANGED <<limiter, histories>>

FindTransactionByTxHash(r) ==
    /\ pc[r] = "find"
    /\ IF RowOf(r).hash # None
       THEN Answered(r, "found", RowOf(r).hash)
       ELSE Goes(r, "validate") /\ UNCHANGED answer
    /\ Rest /\ UNCHANGED <<limiter, histories>>

\* findTransactionByHashAsync: the row's state answers a meta-transaction that
\* is already in the table.
FindTransaction(r) ==
    LET others == {q \in Request \ {r} : TxnOf[q] = TxnOf[r]
                     /\ pc[q] \in {"validate", "isLive", "limit", "save"}}
    IN
    /\ pc[r] = "find"
    /\ IF RowOf(r).status # "absent"
       THEN Answered(r, "found", RowOf(r).hash) /\ UNCHANGED overlapped
       ELSE /\ Goes(r, "validate")
            /\ overlapped' = overlapped \cup {m \in {TxnOf[r]} : others # {}}
            /\ UNCHANGED answer
    /\ Rest /\ UNCHANGED <<limiter, broadcasts, peak, lastLive>>

\* validateZeroExTransactionFillAsync may throw; isEligibleForFreeMetaTxn.
Validate(r) ==
    /\ pc[r] = "validate"
    /\ \/ Answered(r, "error", None)
       \/ IF KeyOf[r] \in Whitelisted
          THEN Goes(r, "isLive") /\ UNCHANGED answer
          ELSE Answered(r, "forbidden", None)
    /\ Rest /\ UNCHANGED <<limiter, histories>>

\* How many requests of a subject are past the liveness check and have not
\* saved their row, r among them.
SubjectsOf(r) == {KeyOf[r], TakerOf[TxnOf[r]]}
Entering(r, s) ==
    1 + Cardinality({q \in Request \ {r} : s \in SubjectsOf(q) /\ pc[q] \in {"limit", "save"}})
WithPeak(r) ==
    [s \in Subject |->
        IF s \in SubjectsOf(r) /\ Entering(r, s) > peak[s] THEN Entering(r, s) ELSE peak[s]]

\* isSignerLiveAsync.
IsSignerLiveWhenever == heartbeat # None /\ heartbeat.live
IsSignerLive ==
    /\ heartbeat # None
    /\ heartbeat.live
    /\ heartbeat.updatedAt > now - LiveWindow

CheckLive(r) ==
    /\ pc[r] = "isLive"
    /\ IF IsSignerLive
       THEN /\ Goes(r, IF Limiters = <<>> THEN "save" ELSE "limit")
            /\ peak' = WithPeak(r)
            /\ UNCHANGED answer
       ELSE Answered(r, "notLive", None) /\ UNCHANGED peak
    /\ Rest /\ UNCHANGED <<limiter, broadcasts, overlapped, lastLive>>

\* The rows that a rate limiter's query selects.
HasKey(l, m, s) == s = (IF l.field = "api_key" THEN rows[m].key ELSE TakerOf[m])
InPeriod(l, m) ==
    IF l.kind = "daily" THEN rows[m].createdAt \div Day = now \div Day
    ELSE now - rows[m].createdAt < l.interval
Selected(l, s) ==
    {m \in MetaTxn : rows[m].status # "absent" /\ HasKey(l, m, s) /\ InPeriod(l, m)}

IsUnderLimitInclusive(l, s) == Cardinality(Selected(l, s)) <= l.limit
IsUnderLimit(l, s) == Cardinality(Selected(l, s)) < l.limit
SubjectFor(l, r) == IF l.field = "api_key" THEN KeyOf[r] ELSE TakerOf[TxnOf[r]]

\* MetaTransactionComposableLimiter asks one after the other; the first that
\* refuses decides.  Building the transaction for the refusal may throw.
CheckLimit(r) ==
    LET l == Limiters[limiter[r]] IN
    /\ pc[r] = "limit"
    /\ IF IsUnderLimit(l, SubjectFor(l, r))
       THEN IF limiter[r] < Len(Limiters)
            THEN limiter' = [limiter EXCEPT ![r] = @ + 1] /\ UNCHANGED <<pc, answer>>
            ELSE limiter' = [limiter EXCEPT ![r] = 1] /\ Goes(r, "save") /\ UNCHANGED answer
       ELSE /\ limiter' = [limiter EXCEPT ![r] = 1]
            /\ \E kind \in {"rateLimited", "error"} : Answered(r, kind, None)
    /\ Rest /\ UNCHANGED histories

\* submitZeroExTransactionAsync: save() inserts the row, or sets the status of
\* one that is there back to unsubmitted and leaves its hash and creation time.
Save(r) ==
    /\ pc[r] = "save"
    /\ rows' = [rows EXCEPT ![TxnOf[r]] =
          IF @.status = "absent"
          THEN [NoRow EXCEPT !.status = "unsubmitted", !.key = KeyOf[r], !.createdAt = now]
          ELSE [@ EXCEPT !.status = "unsubmitted", !.key = KeyOf[r]]]
    /\ Goes(r, "wait")
    /\ UNCHANGED <<now, heartbeat, limiter, answer, histories>>

\* _waitUntilTxHashAsync: a poll that finds the hash, in time or after the
\* request was answered, ends the loop.
PollAnyRow(r) ==
    /\ pc[r] \in {"wait", "orphan"}
    /\ RowOf(r).status # "absent"
    /\ IF pc[r] = "wait" THEN Answered(r, "submitted", RowOf(r).hash)
                         ELSE Goes(r, "done") /\ UNCHANGED answer
    /\ Rest /\ UNCHANGED <<limiter, histories>>

Poll(r) ==
    /\ pc[r] \in {"wait", "orphan"}
    /\ RowOf(r).hash # None
    /\ IF pc[r] = "wait" THEN Answered(r, "submitted", RowOf(r).hash)
                         ELSE Goes(r, "done") /\ UNCHANGED answer
    /\ Rest /\ UNCHANGED <<limiter, histories>>

TimesOutSilently(r) ==
    /\ pc[r] = "wait"
    /\ Goes(r, "orphan")
    /\ Rest /\ UNCHANGED <<limiter, answer, histories>>

TimesOutAfterPolling(r) ==
    /\ pc[r] = "wait"
    /\ RowOf(r).hash # None
    /\ Goes(r, "orphan")
    /\ answer' = [answer EXCEPT ![r] = [kind |-> "timeout", hash |-> None]]
    /\ Rest /\ UNCHANGED <<limiter, histories>>

\* runWithTimeout: the timer may win the race, and does not stop the loop.
TimesOut(r) ==
    /\ pc[r] = "wait"
    /\ Goes(r, "orphan")
    /\ answer' = [answer EXCEPT ![r] = [kind |-> "timeout", hash |-> None]]
    /\ Rest /\ UNCHANGED <<limiter, histories>>

-----------------------------------------------------------------------------
(* The watcher, another process, and time.                                 *)

Moves(m, from, to, hash) ==
    /\ rows[m].status = from
    /\ rows' = [rows EXCEPT ![m].status = to, ![m].hash = hash]
    /\ UNCHANGED <<now, heartbeat, pc, limiter, answer, overlapped, peak, lastLive>>

Broadcast(m) ==
    /\ broadcasts[m] < MaxHash
    /\ broadcasts' = [broadcasts EXCEPT ![m] = @ + 1]
    /\ Moves(m, "unsubmitted", "submitted", broadcasts[m] + 1)
Cancel(m) == Moves(m, "unsubmitted", "cancelled", rows[m].hash) /\ UNCHANGED broadcasts

\* _updateSignerStatusAsync: live if a signer has balance and gas is cheap enough
\* (_isSignerLiveAsync).  Without metrics the gauge is undefined, and the call
\* throws before the entry is written.
Heartbeat(hasAvailableBalance, isGasPriceBelowMax) ==
    LET live == SigningEnabled /\ hasAvailableBalance /\ isGasPriceBelowMax IN
    /\ MetricsEnabled
    /\ heartbeat' = [live |-> live, updatedAt |-> now]
    /\ lastLive' = IF live THEN now ELSE lastLive
    /\ UNCHANGED <<now, rows, pc, limiter, answer, broadcasts, overlapped, peak>>

Tick ==
    /\ now < MaxTime
    /\ now' = now + 1
    /\ UNCHANGED <<rows, heartbeat, pc, limiter, answer, histories>>

-----------------------------------------------------------------------------
Handle(r) ==
    \/ Receive(r)
    \/ FindTransaction(r)
    \/ Validate(r)
    \/ CheckLive(r)
    \/ CheckLimit(r)
    \/ Save(r)
    \/ Poll(r)

Next ==
    \/ \E r \in Request : Handle(r) \/ TimesOut(r)
    \/ \E m \in MetaTxn : Broadcast(m) \/ Cancel(m)
    \/ \E hasAvailableBalance, isGasPriceBelowMax \in BOOLEAN :
          Heartbeat(hasAvailableBalance, isGasPriceBelowMax)
    \/ Tick

Spec == Init /\ [][Next]_vars

\* The queries of a request are answered and its timer fires; nothing is asked
\* of the clients, the watcher or the clock.
FairSpec ==
    /\ Spec
    /\ \A r \in Request : WF_vars(pc[r] # "new" /\ (Handle(r) \/ TimesOut(r)))

-----------------------------------------------------------------------------
\* Besides the types: a request has been answered exactly if it is over, or
\* if the timer has left its polling behind.
TypeInvariant ==
    /\ TypeOK
    /\ \A r \in Request : answer[r].kind # "none" <=> pc[r] \in {"orphan", "done"}

\* The limiters count rows that are inserted only later, so that concurrent
\* requests overshoot a limit: by less than the most that were under way at once.
OvershootIsBounded ==
    \A i \in 1 .. Len(Limiters), s \in Subject :
        LET count == Cardinality(Selected(Limiters[i], s)) IN
        count > 0 => count <= Limiters[i].limit - 1 + peak[s]

\* A meta-transaction is broadcast once, unless two requests for it overlapped,
\* in which case the second save may queue it again.
RelayedOnceUnlessConcurrent ==
    \A m \in MetaTxn : broadcasts[m] > 1 => m \in overlapped

\* A client that is answered with a hash can find its meta-transaction under it:
\* the hash was broadcast, and is the row's unless requests overlapped.
AnswerNamesTheTransaction ==
    \A r \in Request : answer[r].kind = "submitted" =>
        /\ answer[r].hash \in 1 .. broadcasts[TxnOf[r]]
        /\ TxnOf[r] \in overlapped \/ answer[r].hash = RowOf(r).hash

\* A request is let through only if the watcher, another process, reported that
\* it was live, and did so within the window.
LetThroughWhileLive ==
    [][\A r \in Request : pc[r] = "isLive" /\ pc'[r] \in {"limit", "save"} =>
         lastLive # None /\ now - lastLive < LiveWindow]_vars

\* Every request is answered, and a polling loop that its request has outlived
\* ends when the row gets a hash.
RequestsAreAnswered ==
    \A r \in Request :
        /\ pc[r] = "find" ~> answer[r].kind # "none"
        /\ pc[r] = "orphan" /\ RowOf(r).hash # None ~> pc[r] = "done"
=============================================================================

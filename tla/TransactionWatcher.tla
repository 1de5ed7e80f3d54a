------------------------- MODULE TransactionWatcher -------------------------
(***************************************************************************)
(* The transaction watcher and signer of the meta-transaction relay        *)
(* (src/src/services/transaction_watcher_signer_service.ts), its signers   *)
(* (src/src/utils/signer.ts) and the way the runner starts it              *)
(* (src/src/runners/transaction_watcher_signer_service_runner.ts).         *)
(*                                                                         *)
(* The service polls the `transactions' table.  One pass signs and         *)
(* broadcasts the unsubmitted rows, looks up the broadcast ones on the     *)
(* chain, replaces the stuck ones and confirms the included ones.  Every   *)
(* await of the code at which another pass, the API, the chain or a crash  *)
(* may come in between is a boundary between two actions here.             *)
(*                                                                         *)
(* The `from' and `nonce' columns are always written together with         *)
(* `txHash' and are read off the transaction; a row's `expectedAt' is      *)
(* abstracted to whether it has passed.                                    *)
(***************************************************************************)
EXTENDS EthereumNode, FiniteSets

CONSTANTS
    StartupPass,     \* passes started once, when the service is constructed
    IntervalPass,    \* the pass that the polling interval repeats
    KeySets,         \* the signer pools the service may be configured with
    NumBlocksUntilConfirmed,
    SigningEnabled,  \* the setting META_TXN_SIGNING_ENABLED
    RateLimiting,    \* whether a rate limiter is configured
    Faults,          \* the faults of the environment a run allows
    MaxFaults,       \* bound: how many of them happen
    Null             \* SQL's NULL, and JavaScript's undefined

FaultKind == {"crash", "dbError", "readError", "lostReply", "reorg", "forget"}

ASSUME WatcherAssumption ==
    /\ IntervalPass \notin StartupPass
    /\ KeySets \subseteq SUBSET Signer
    /\ KeySets # {} /\ {} \notin KeySets
    /\ NumBlocksUntilConfirmed \in Nat
    /\ SigningEnabled \in BOOLEAN
    /\ RateLimiting \in BOOLEAN
    /\ Faults \subseteq FaultKind
    /\ MaxFaults \in Nat
    /\ Null \notin Tx \cup MetaTxn
    /\ MetaTxn \cap SelfTx = {}

Pass == StartupPass \cup {IntervalPass}

\* The primary key: the meta-transaction's hash or, for a transaction that
\* unsticks another one, its own hash.
Ref == MetaTxn \cup SelfTx

PendingStatus == {"submitted", "mempool", "stuck"}
Status == PendingStatus \cup
    {"unsubmitted", "included", "confirmed", "dropped", "aborted", "cancelled"}

Row == [status : Status \cup {"absent"}, txHash : Tx \cup {Null},
        blockNumber : 0 .. MaxHead, gasPrice : GasPrice]
NoRow == [status |-> "absent", txHash |-> Null,
          blockNumber |-> NotMined, gasPrice |-> 1]

\* A result of find(): the rows as they were when it ran.
Snapshot == [Ref -> Row]
Nothing == [r \in Ref |-> NoRow]

Item == [ref : Ref \cup {Null}, row : Row]
NoItem == [ref |-> Null, row |-> NoRow]

PC == {"idle", "sign", "broadcast", "saveSigned", "track", "saveTracked",
       "saveIncluded", "findSameNonce", "saveAborted", "priceUnstick", "unstick",
       "replace", "saveReplacement", "findIncluded", "confirm", "saveConfirmed",
       "done"}

VARIABLES
    rows,    \* the transactions table
    late,    \* the rows whose expectedAt has passed
    keys,    \* the addresses the running service can sign for
    pc,      \* what each pass does next
    todo,    \* the entities each pass has loaded and not handled yet
    doomed,  \* the entities it has loaded in order to abort them
    item,    \* the entity it is handling
    mark,    \* the latest block number, or the target gas price, it has read
    faults   \* how many faults have happened

watcherVars == <<rows, late, keys, pc, todo, doomed, item, mark, faults>>
vars == <<nodeVars, watcherVars>>

TypeOK ==
    /\ NodeTypeOK
    /\ rows \in [Ref -> Row]
    /\ late \subseteq Ref
    /\ keys \in KeySets
    /\ pc \in [Pass -> PC]
    /\ todo \in [Pass -> Snapshot]
    /\ doomed \in [Pass -> Snapshot]
    /\ item \in [Pass -> Item]
    /\ mark \in [Pass -> 0 .. MaxHead + MaxGasPrice + 1]
    /\ faults \in 0 .. MaxFaults

Init ==
    /\ NodeInit
    /\ rows = Nothing
    /\ late = {}
    /\ keys \in KeySets
    /\ pc = [p \in Pass |-> "idle"]
    /\ todo = [p \in Pass |-> Nothing]
    /\ doomed = [p \in Pass |-> Nothing]
    /\ item = [p \in Pass |-> NoItem]
    /\ mark = [p \in Pass |-> 0]
    /\ faults = 0

FindByStatus(S) ==
    [r \in Ref |-> IF rows[r].status \in S THEN rows[r] ELSE NoRow]
IsLoaded(entities, r) == entities[r].status # "absent"
AllHandled(p) == \A r \in Ref : ~ IsLoaded(todo[p], r)
AllAborted(p) == \A r \in Ref : ~ IsLoaded(doomed[p], r)

Fault(kind) ==
    /\ kind \in Faults
    /\ faults < MaxFaults
    /\ faults' = faults + 1

Goto(p, label) == pc' = [pc EXCEPT ![p] = label]
Load(p, entities) == todo' = [todo EXCEPT ![p] = entities]
Handled(p, r) == todo' = [todo EXCEPT ![p][r] = NoRow]
Hold(p, r, row) == item' = [item EXCEPT ![p] = [ref |-> r, row |-> row]]
LetGo(p) == item' = [item EXCEPT ![p] = NoItem]

\* The entity in the pass's hands is written over the whole row (save upserts).
Save(p, from, to) ==
    /\ pc[p] = from
    /\ rows' = [rows EXCEPT ![item[p].ref] = item[p].row]
    /\ Goto(p, to)
    /\ UNCHANGED <<nodeVars, late, keys, todo, doomed, mark, faults>>

\* web3Wrapper.sendTransactionAsync: the node takes the transaction; or it
\* refuses it; or it takes it and its answer is lost.  The code catches the
\* exceptions of the last two, and knows nothing of the transaction.
Broadcast(p, from, to) ==
    /\ pc[p] = from
    /\ Accepts(item[p].row.txHash)
    /\ Receive(item[p].row.txHash)
    /\ Goto(p, to)
    /\ UNCHANGED <<rows, late, keys, todo, doomed, item, mark, faults>>

Refused(p, from, to) ==
    /\ pc[p] = from
    /\ ~ Accepts(item[p].row.txHash)
    /\ Goto(p, to)
    /\ LetGo(p)
    /\ UNCHANGED <<nodeVars, rows, late, keys, todo, doomed, mark, faults>>

ReplyLost(p, from, to) ==
    /\ pc[p] = from
    /\ Fault("lostReply")
    /\ Accepts(item[p].row.txHash)
    /\ Receive(item[p].row.txHash)
    /\ Goto(p, to)
    /\ LetGo(p)
    /\ UNCHANGED <<rows, late, keys, todo, doomed, mark>>

\* The pass is over, or an exception ends it; only the interval starts another.
EndPass(p) ==
    /\ Goto(p, IF p = IntervalPass THEN "idle" ELSE "done")
    /\ Load(p, Nothing)
    /\ doomed' = [doomed EXCEPT ![p] = Nothing]
    /\ LetGo(p)
    /\ mark' = [mark EXCEPT ![p] = 0]

-----------------------------------------------------------------------------
(* Signing: _cancelOrSignAndBroadcastTransactionsAsync.                    *)

\* Mutant: rows that were submitted are signed again until they are seen.
StartPassWithSubmitted(p) ==
    /\ pc[p] = "idle"
    /\ Goto(p, "sign")
    /\ Load(p, FindByStatus({"unsubmitted", "submitted"}))
    /\ UNCHANGED <<nodeVars, rows, late, keys, doomed, item, mark, faults>>

StartPass(p) ==
    /\ pc[p] = "idle"
    /\ Goto(p, "sign")
    /\ Load(p, FindByStatus({"unsubmitted"}))
    /\ UNCHANGED <<nodeVars, rows, late, keys, doomed, item, mark, faults>>

\* Mutant: rows are never too old to be signed.
CancelOnlyLimited(p, r) ==
    /\ pc[p] = "sign"
    /\ IsLoaded(todo[p], r)
    /\ RateLimiting
    /\ Handled(p, r)
    /\ Hold(p, r, [todo[p][r] EXCEPT !.status = "cancelled"])
    /\ Goto(p, "saveSigned")
    /\ UNCHANGED <<nodeVars, rows, late, keys, doomed, mark, faults>>

\* A row over the rate limit, or unsubmitted past its expectedAt, is cancelled.
Cancel(p, r) ==
    /\ pc[p] = "sign"
    /\ IsLoaded(todo[p], r)
    /\ RateLimiting \/ r \in late
    /\ Handled(p, r)
    /\ Hold(p, r, [todo[p][r] EXCEPT !.status = "cancelled"])
    /\ Goto(p, "saveSigned")
    /\ UNCHANGED <<nodeVars, rows, late, keys, doomed, mark, faults>>

PendingRows(s) ==
    {r \in Ref : /\ rows[r].status \in PendingStatus
                 /\ rows[r].txHash # Null
                 /\ rows[r].txHash.from = s}

\* The signers of the pool with the fewest pending rows.  Ties are broken by
\* the last known balances, which are not modelled.
IsNextSigner(s) ==
    /\ s \in keys
    /\ \A k \in keys : Cardinality(PendingRows(s)) <= Cardinality(PendingRows(k))

\* Line 155 negates a promise, which is never falsy: the row always gets past.
SignerLiveCheck == TRUE

\* A signer is chosen, and its next nonce is read from the node.
PrepareMetaTxn(p, r) ==
    /\ pc[p] = "sign"
    /\ IsLoaded(todo[p], r)
    /\ r \in MetaTxn /\ r \notin late
    /\ SignerLiveCheck
    /\ \E s \in Signer, n \in Nonce :
          /\ IsNextSigner(s)
          /\ IsPendingNonce(s, n)
          /\ LET t == [from |-> s, nonce |-> n, payload |-> r,
                       gasPrice |-> todo[p][r].gasPrice]
             IN  Hold(p, r, [todo[p][r] EXCEPT !.status = "submitted", !.txHash = t])
    /\ Handled(p, r)
    /\ Goto(p, "broadcast")
    /\ UNCHANGED <<nodeVars, rows, late, keys, doomed, mark, faults>>

\* An exception while a row is signed is caught: the row stays unsubmitted and
\* the pass goes on with the next one.  Gas estimation fails whenever the call
\* would revert, so this is no fault of the node.
SigningFails(p, r) ==
    /\ pc[p] = "sign"
    /\ IsLoaded(todo[p], r)
    /\ r \notin late
    /\ Handled(p, r)
    /\ UNCHANGED <<nodeVars, rows, late, keys, pc, doomed, item, mark, faults>>

BroadcastMetaTxn(p) == Broadcast(p, "broadcast", "saveSigned")
BroadcastRefused(p) == Refused(p, "broadcast", "sign")
BroadcastReplyLost(p) == ReplyLost(p, "broadcast", "sign")
SaveSigned(p) == Save(p, "saveSigned", "sign") /\ LetGo(p)

-----------------------------------------------------------------------------
(* Tracking: _syncBroadcastedTransactionStatusAsync.                       *)

\* Mutant: every row is looked up again, not only the pending ones.
FindBroadcastedAnyStatus(p) ==
    /\ pc[p] = "sign"
    /\ AllHandled(p)
    /\ Goto(p, "track")
    /\ Load(p, FindByStatus(PendingStatus \cup {"included", "confirmed"}))
    /\ UNCHANGED <<nodeVars, rows, late, keys, doomed, item, mark, faults>>

FindBroadcasted(p) ==
    /\ pc[p] = "sign"
    /\ AllHandled(p)
    /\ Goto(p, "track")
    /\ Load(p, FindByStatus(PendingStatus))
    /\ UNCHANGED <<nodeVars, rows, late, keys, doomed, item, mark, faults>>

\* Mutants: a known hash counts as mined; an expired row is not looked at closer.
TrackedStatusKnownIsMined(entity, isExpired) ==
    CASE Knows(entity.txHash) -> "included"
      [] ~ Knows(entity.txHash) /\ isExpired -> "dropped"
      [] OTHER -> "none"
TrackedStatusExpiryFirst(entity, isExpired) ==
    CASE isExpired -> IF Knows(entity.txHash) THEN "stuck" ELSE "dropped"
      [] ~ isExpired /\ IsMined(entity.txHash) -> "included"
      [] OTHER -> "none"

\* The status that the node's answer about row r gives it; `none' where the
\* code leaves the row alone.  An unknown hash makes web3Wrapper throw the
\* TypeError that the code takes for "not found".
TrackedStatus(entity, isExpired) ==
    CASE IsMined(entity.txHash) -> "included"
      [] ~ IsMined(entity.txHash) /\ entity.txHash \in pool /\ isExpired -> "stuck"
      [] ~ Knows(entity.txHash) /\ isExpired -> "dropped"
      [] /\ ~ IsMined(entity.txHash) /\ entity.txHash \in pool /\ ~ isExpired
         /\ entity.status # "mempool" -> "mempool"
      [] OTHER -> "none"

\* Mutant: the row is saved whether or not the lookup gave it a status.
TrackUnchecked(p, r) ==
    LET entity == todo[p][r]
        status == TrackedStatus(entity, r \in late)
    IN  /\ pc[p] = "track"
        /\ AllAborted(p)
        /\ IsLoaded(todo[p], r)
        /\ Handled(p, r)
        /\ Hold(p, r, [entity EXCEPT !.status = status])
        /\ Goto(p, IF status = "included" THEN "saveIncluded" ELSE "saveTracked")
        /\ UNCHANGED <<nodeVars, rows, late, keys, doomed, mark, faults>>

Track(p, r) ==
    LET entity == todo[p][r]
        status == TrackedStatus(entity, r \in late)
    IN  /\ pc[p] = "track"
        /\ AllAborted(p)
        /\ IsLoaded(todo[p], r)
        /\ Handled(p, r)
        /\ \/ /\ status = "none"
              /\ UNCHANGED <<pc, item>>
           \/ /\ status \in {"mempool", "stuck", "dropped"}
              /\ Hold(p, r, [entity EXCEPT !.status = status])
              /\ Goto(p, "saveTracked")
           \/ /\ status = "included"
              /\ Hold(p, r, [entity EXCEPT !.status = status,
                                          !.blockNumber = block[entity.txHash]])
              /\ Goto(p, "saveIncluded")
        /\ UNCHANGED <<nodeVars, rows, late, keys, doomed, mark, faults>>

SaveTracked(p) == Save(p, "saveTracked", "track") /\ LetGo(p)
SaveIncluded(p) == Save(p, "saveIncluded", "findSameNonce") /\ UNCHANGED item

\* Mutant: the included row itself is not spared.
FindSameNonceWithIncluded(p) ==
    LET t == item[p].row.txHash
        others == {r \in Ref : rows[r].txHash # Null /\ SameSlot(rows[r].txHash, t)}
    IN  /\ pc[p] = "findSameNonce"
        /\ doomed' = [doomed EXCEPT ![p] =
                         [r \in Ref |-> IF r \in others THEN rows[r] ELSE NoRow]]
        /\ Goto(p, "track")
        /\ LetGo(p)
        /\ UNCHANGED <<nodeVars, rows, late, keys, todo, mark, faults>>

\* _abortTransactionsWithTheSameNonceAsync: every other row with the nonce of
\* the included transaction, whatever its status.
FindSameNonce(p) ==
    LET t == item[p].row.txHash
        others == {r \in Ref : /\ rows[r].txHash # Null
                               /\ rows[r].txHash # t
                               /\ SameSlot(rows[r].txHash, t)}
    IN  /\ pc[p] = "findSameNonce"
        /\ doomed' = [doomed EXCEPT ![p] =
                         [r \in Ref |-> IF r \in others THEN rows[r] ELSE NoRow]]
        /\ Goto(p, "track")
        /\ LetGo(p)
        /\ UNCHANGED <<nodeVars, rows, late, keys, todo, mark, faults>>

Abort(p, r) ==
    /\ pc[p] = "track"
    /\ IsLoaded(doomed[p], r)
    /\ Hold(p, r, [doomed[p][r] EXCEPT !.status = "aborted"])
    /\ doomed' = [doomed EXCEPT ![p][r] = NoRow]
    /\ Goto(p, "saveAborted")
    /\ UNCHANGED <<nodeVars, rows, late, keys, todo, mark, faults>>

SaveAborted(p) == Save(p, "saveAborted", "track") /\ LetGo(p)

-----------------------------------------------------------------------------
(* Unsticking: _checkForStuckTransactionsAsync, _unstickTransactionAsync.  *)

FindStuck(p) ==
    LET stuck == FindByStatus({"stuck"})
    IN  /\ pc[p] = "track"
        /\ AllAborted(p)
        /\ AllHandled(p)
        /\ Goto(p, IF stuck = Nothing THEN "unstick" ELSE "priceUnstick")
        /\ Load(p, stuck)
        /\ UNCHANGED <<nodeVars, rows, late, keys, doomed, item, mark, faults>>

\* One target price for all stuck rows: just above what the gas station asks.
PriceUnstick(p) ==
    /\ pc[p] = "priceUnstick"
    /\ Goto(p, "unstick")
    /\ mark' = [mark EXCEPT ![p] = gasPrice + 1]
    /\ UNCHANGED <<nodeVars, rows, late, keys, todo, doomed, item, faults>>

\* Mutant: a row that pays what the gas station asks is good enough.
PaysTargetWithoutBoost(row, target) == row.gasPrice >= target - 1

PaysTarget(row, targetGasPrice) == row.gasPrice >= targetGasPrice

\* A stuck row that already pays the target price is left alone.
SkipUnstick(p, r) ==
    /\ pc[p] = "unstick"
    /\ IsLoaded(todo[p], r)
    /\ PaysTarget(todo[p][r], mark[p])
    /\ Handled(p, r)
    /\ UNCHANGED <<nodeVars, rows, late, keys, pc, doomed, item, mark, faults>>

\* The row's signer is looked up outside the try: if it is no longer in the
\* pool, the exception ends the whole pass.
UnstickThrows(p, r) ==
    /\ pc[p] = "unstick"
    /\ IsLoaded(todo[p], r)
    /\ ~ PaysTarget(todo[p][r], mark[p])
    /\ todo[p][r].txHash.from \notin keys
    /\ EndPass(p)
    /\ UNCHANGED <<nodeVars, rows, late, keys, faults>>

\* Mutant: the replacement is written to the row of the transaction it replaces.
UnstickInPlace(p, r) ==
    LET t == [from |-> todo[p][r].txHash.from, nonce |-> todo[p][r].txHash.nonce,
              payload |-> SelfTransfer, gasPrice |-> mark[p]]
    IN  /\ pc[p] = "unstick"
        /\ IsLoaded(todo[p], r)
        /\ ~ PaysTarget(todo[p][r], mark[p])
        /\ todo[p][r].txHash.from \in keys
        /\ Handled(p, r)
        /\ Hold(p, r, [todo[p][r] EXCEPT !.status = "submitted", !.txHash = t])
        /\ Goto(p, "replace")
        /\ UNCHANGED <<nodeVars, rows, late, keys, doomed, mark, faults>>

\* A transfer of nothing to the signer itself, with the nonce of the stuck row,
\* and a row of its own for it.  make() sets no blockNumber, so that save keeps
\* the one the table may have.
Unstick(p, r) ==
    LET t == [from |-> todo[p][r].txHash.from, nonce |-> todo[p][r].txHash.nonce,
              payload |-> SelfTransfer, gasPrice |-> mark[p]]
    IN  /\ pc[p] = "unstick"
        /\ IsLoaded(todo[p], r)
        /\ ~ PaysTarget(todo[p][r], mark[p])
        /\ todo[p][r].txHash.from \in keys
        /\ Handled(p, r)
        /\ Hold(p, t, [status |-> "submitted", txHash |-> t,
                       blockNumber |-> rows[t].blockNumber, gasPrice |-> mark[p]])
        /\ Goto(p, "replace")
        /\ UNCHANGED <<nodeVars, rows, late, keys, doomed, mark, faults>>

BroadcastReplacement(p) == Broadcast(p, "replace", "saveReplacement")
ReplacementRefused(p) == Refused(p, "replace", "unstick")
ReplacementReplyLost(p) == ReplyLost(p, "replace", "unstick")

\* The new row is given an expectedAt of its own.
SaveReplacement(p) ==
    /\ pc[p] = "saveReplacement"
    /\ rows' = [rows EXCEPT ![item[p].ref] = item[p].row]
    /\ late' = late \ {item[p].ref}
    /\ Goto(p, "unstick")
    /\ LetGo(p)
    /\ UNCHANGED <<nodeVars, keys, todo, doomed, mark, faults>>

-----------------------------------------------------------------------------
(* Confirming: _checkForConfirmedTransactionsAsync.                        *)

\* The latest block is read first, the rows after that.
ReadLatestBlock(p) ==
    /\ pc[p] = "unstick"
    /\ AllHandled(p)
    /\ Goto(p, "findIncluded")
    /\ mark' = [mark EXCEPT ![p] = head]
    /\ UNCHANGED <<nodeVars, rows, late, keys, todo, doomed, item, faults>>

FindIncluded(p) ==
    /\ pc[p] = "findIncluded"
    /\ Goto(p, "confirm")
    /\ Load(p, FindByStatus({"included"}))
    /\ UNCHANGED <<nodeVars, rows, late, keys, doomed, item, mark, faults>>

\* Mutants: one block short; the operands exchanged.
IsBuriedOneShort(row, latestBlockNumber) ==
    row.blockNumber + NumBlocksUntilConfirmed <= latestBlockNumber
IsBuriedReversed(row, latestBlockNumber) ==
    latestBlockNumber < row.blockNumber + NumBlocksUntilConfirmed

\* The row counts its confirmations from the block number it has stored.
IsBuried(row, latestBlockNumber) ==
    row.blockNumber + NumBlocksUntilConfirmed < latestBlockNumber

\* Back in the mempool after a reorg, confirmed, or left alone.
Confirm(p, r) ==
    LET entity == todo[p][r]
        mined == IsMined(entity.txHash)
    IN  /\ pc[p] = "confirm"
        /\ IsLoaded(todo[p], r)
        /\ Knows(entity.txHash)
        /\ Handled(p, r)
        /\ \/ /\ ~ mined
              /\ Hold(p, r, [entity EXCEPT !.status = "mempool"])
              /\ Goto(p, "saveConfirmed")
           \/ /\ mined /\ IsBuried(entity, mark[p])
              /\ Hold(p, r, [entity EXCEPT !.status = "confirmed"])
              /\ Goto(p, "saveConfirmed")
           \/ /\ mined /\ ~ IsBuried(entity, mark[p])
              /\ UNCHANGED <<pc, item>>
        /\ UNCHANGED <<nodeVars, rows, late, keys, doomed, mark, faults>>

\* For a hash the node does not know web3Wrapper throws a TypeError instead of
\* answering undefined; nothing here catches it.
ConfirmThrows(p, r) ==
    /\ pc[p] = "confirm"
    /\ IsLoaded(todo[p], r)
    /\ ~ Knows(todo[p][r].txHash)
    /\ EndPass(p)
    /\ UNCHANGED <<nodeVars, rows, late, keys, faults>>

SaveConfirmed(p) == Save(p, "saveConfirmed", "confirm") /\ LetGo(p)

FinishPass(p) ==
    /\ pc[p] = "confirm"
    /\ AllHandled(p)
    /\ EndPass(p)
    /\ UNCHANGED <<nodeVars, rows, late, keys, faults>>

-----------------------------------------------------------------------------
(* Failures, and what happens around the service.                          *)

\* A query, or a call of the node or of the gas station, fails.  The exception
\* ends the pass; one of the rate limiter's, for which there is an unsubmitted row
\* left, is caught and ends only the signing stage.
ReadFails(p) ==
    /\ Fault("readError")
    /\ \/ /\ \/ pc[p] \in {"findSameNonce", "priceUnstick", "findIncluded", "confirm"}
             \/ pc[p] = "track" /\ AllAborted(p)
             \/ pc[p] \in {"sign", "unstick"} /\ AllHandled(p)
          /\ EndPass(p)
       \/ /\ pc[p] = "sign" /\ ~ AllHandled(p)
          /\ RateLimiting
          /\ Load(p, Nothing)
          /\ UNCHANGED <<pc, doomed, item, mark>>
    /\ UNCHANGED <<nodeVars, rows, late, keys>>

\* save() fails.  The exception ends the pass, except that the stages which
\* sign and unstick catch it: for the row whose transaction was broadcast, or,
\* when the row was to be cancelled, for the whole of the signing stage.
SaveFails(p) ==
    /\ Fault("dbError")
    /\ \/ /\ pc[p] \in {"saveTracked", "saveIncluded", "saveAborted", "saveConfirmed"}
          /\ EndPass(p)
       \/ /\ pc[p] = "saveSigned" /\ item[p].row.status = "cancelled"
          /\ Goto(p, "sign")
          /\ Load(p, Nothing)
          /\ LetGo(p)
          /\ UNCHANGED <<doomed, mark>>
       \/ /\ pc[p] = "saveSigned" /\ item[p].row.status = "submitted"
          /\ Goto(p, "sign")
          /\ LetGo(p)
          /\ UNCHANGED <<todo, doomed, mark>>
       \/ /\ pc[p] = "saveReplacement"
          /\ Goto(p, "unstick")
          /\ LetGo(p)
          /\ UNCHANGED <<todo, doomed, mark>>
    /\ UNCHANGED <<nodeVars, rows, late, keys>>

\* The process dies and starts again, perhaps with another pool of signers.
Restart ==
    /\ Fault("crash")
    /\ keys' \in KeySets
    /\ pc' = [p \in Pass |-> "idle"]
    /\ todo' = [p \in Pass |-> Nothing]
    /\ doomed' = [p \in Pass |-> Nothing]
    /\ item' = [p \in Pass |-> NoItem]
    /\ mark' = [p \in Pass |-> 0]
    /\ UNCHANGED <<nodeVars, rows, late>>

\* The API's submitZeroExTransactionAsync stores a new row.
SubmitMetaTxn(r) ==
    /\ rows[r].status = "absent"
    /\ rows' = [rows EXCEPT ![r] = [NoRow EXCEPT !.status = "unsubmitted",
                                                 !.gasPrice = gasPrice]]
    /\ UNCHANGED <<nodeVars, late, keys, pc, todo, doomed, item, mark, faults>>

ExpectedAtPasses(r) ==
    /\ IsLoaded(rows, r)
    /\ r \notin late
    /\ late' = late \cup {r}
    /\ UNCHANGED <<nodeVars, rows, keys, pc, todo, doomed, item, mark, faults>>

-----------------------------------------------------------------------------
SignStep(p) ==
    \/ StartPass(p)
    \/ \E r \in Ref : Cancel(p, r) \/ PrepareMetaTxn(p, r) \/ SigningFails(p, r)
    \/ BroadcastMetaTxn(p)
    \/ BroadcastRefused(p)
    \/ SaveSigned(p)

TrackStep(p) ==
    \/ FindBroadcasted(p)
    \/ \E r \in Ref : Track(p, r) \/ Abort(p, r)
    \/ SaveTracked(p)
    \/ SaveIncluded(p)
    \/ FindSameNonce(p)
    \/ SaveAborted(p)

UnstickStep(p) ==
    \/ FindStuck(p)
    \/ PriceUnstick(p)
    \/ \E r \in Ref : SkipUnstick(p, r) \/ UnstickThrows(p, r) \/ Unstick(p, r)
    \/ BroadcastReplacement(p)
    \/ ReplacementRefused(p)
    \/ SaveReplacement(p)

ConfirmStep(p) ==
    \/ ReadLatestBlock(p)
    \/ FindIncluded(p)
    \/ \E r \in Ref : Confirm(p, r) \/ ConfirmThrows(p, r)
    \/ SaveConfirmed(p)
    \/ FinishPass(p)

PassStep(p) == SignStep(p) \/ TrackStep(p) \/ UnstickStep(p) \/ ConfirmStep(p)

PassFault(p) ==
    \/ BroadcastReplyLost(p)
    \/ ReplacementReplyLost(p)
    \/ ReadFails(p)
    \/ SaveFails(p)

NodeFault ==
    \/ \E b \in 1 .. head : \E kept \in SUBSET sent : Fault("reorg") /\ Reorg(b, kept)
    \/ \E t \in pool : Fault("forget") /\ Forget(t)

ChainStep == (\E t \in sent : Mine(t)) \/ MineEmptyBlock

EnvStep ==
    \/ (ChainStep \/ GasPriceMoves) /\ UNCHANGED watcherVars
    \/ NodeFault /\ UNCHANGED <<rows, late, keys, pc, todo, doomed, item, mark>>
    \/ \E r \in MetaTxn : SubmitMetaTxn(r)
    \/ \E r \in Ref : ExpectedAtPasses(r)
    \/ Restart

Next ==
    \/ \E p \in Pass : PassStep(p) \/ PassFault(p)
    \/ EnvStep

Spec == Init /\ [][Next]_vars

\* The event loop runs every continuation, the interval starts pass after pass,
\* the chain grows and time passes.  Nothing else is taken for granted: not that
\* signing succeeds, nor that a transaction is mined.
Fairness ==
    /\ \A p \in Pass : WF_vars(PassStep(p))
    /\ WF_vars(MineEmptyBlock /\ UNCHANGED watcherVars)
    /\ \A r \in Ref : WF_vars(ExpectedAtPasses(r))

FairSpec == Spec /\ Fairness

-----------------------------------------------------------------------------
(* Properties.                                                             *)

\* Every variable keeps its type: what a pass holds, saves and broadcasts is a
\* row of the table's columns and a transaction of a signer, at every await.
TypeInvariant == TypeOK

\* The pass has broadcast the transaction in its hands and is about to save it.
Saving(p, t) ==
    pc[p] \in {"saveSigned", "saveReplacement"} /\ item[p].row.txHash = t

\* Every transaction the relay has put on the network is in the table, or in the
\* hands of a pass that is about to save it: none can be mined behind the
\* watcher's back (_signAndBroadcastMetaTxAsync, _unstickTransactionAsync).
BroadcastIsRecorded ==
    \A t \in sent :
        \/ \E r \in Ref : rows[r].txHash = t
        \/ \E p \in Pass : Saving(p, t)

\* A meta-transaction is put on the network at most once, under one nonce,
\* however often passes, rejections and restarts of the loop come back to its row.
RelayedAtMostOnce ==
    \A t, u \in sent : t.payload \in MetaTxn /\ t.payload = u.payload => t = u

\* A row that says that nothing was submitted (types.ts: "not yet submitted to
\* the network", "in an unsubmitted state for too long") tells the truth, unless
\* a pass is just about to save the contrary.
UnsubmittedIsNotOnNetwork ==
    \A r \in MetaTxn :
        rows[r].status \in {"absent", "unsubmitted", "cancelled"} =>
            \A t \in sent : t.payload = r => \E p \in Pass : Saving(p, t)

\* Without reorgs, an included or confirmed row is mined in the block it names.
IncludedIsMined ==
    \A r \in Ref : rows[r].status \in {"included", "confirmed"} =>
        /\ rows[r].txHash # Null
        /\ block[rows[r].txHash] = rows[r].blockNumber
        /\ rows[r].blockNumber # NotMined

\* Without reorgs, a row is aborted only if another transaction has used up its
\* nonce, so that its own can never be mined: the caller may safely send a new
\* meta-transaction.
AbortedCannotBeMined ==
    \A r \in Ref : rows[r].status = "aborted" =>
        \E t \in sent : /\ IsMined(t)
                        /\ t # rows[r].txHash
                        /\ SameSlot(t, rows[r].txHash)

\* A confirmed row is mined, and deep enough.
ConfirmedIsBuried ==
    \A r \in Ref : rows[r].status = "confirmed" =>
        /\ IsMined(rows[r].txHash)
        /\ block[rows[r].txHash] + NumBlocksUntilConfirmed < head

\* What is cancelled or confirmed stays so, and nothing that was submitted goes
\* back to the queue of unsubmitted rows or changes its transaction.
SettledStaysSettled ==
    [][\A r \in Ref :
        /\ rows[r].status \in {"cancelled", "confirmed"} => rows'[r] = rows[r]
        /\ rows[r].txHash # Null => rows'[r].txHash = rows[r].txHash]_vars

\* Every included row is eventually confirmed, or no longer included.
IncludedIsResolved ==
    \A r \in Ref : rows[r].status = "included" ~> rows[r].status # "included"

\* A row does not stay stuck while it pays less than the going price: a
\* replacement for its nonce is broadcast and recorded.
StuckIsReplaced ==
    \A r \in Ref :
        []<> ~ /\ rows[r].status = "stuck"
               /\ rows[r].gasPrice < gasPrice + 1
               /\ rows[r].txHash.from \in keys
               /\ \A q \in SelfTx : SameSlot(rows[r].txHash, q) => rows[q].status = "absent"

\* The chain's verdict reaches the table: a row whose transaction is mined does
\* not stay among the pending ones.
MinedIsNoticed ==
    \A r \in MetaTxn :
        /\ rows[r].status \in PendingStatus
        /\ rows[r].txHash # Null /\ IsMined(rows[r].txHash)
        ~> rows[r].status \notin PendingStatus

-----------------------------------------------------------------------------
(* What the repository's documents say, and the code does not do.          *)

\* config.ts says of META_TXN_SIGNING_ENABLED: "Should
\* TransactionWatcherSignerService sign transactions".
SigningSwitchObeyed ==
    ~ SigningEnabled => \A t \in sent : t.payload = SelfTransfer
=============================================================================

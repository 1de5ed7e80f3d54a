---------------------------- MODULE OrderWatcher ----------------------------
(***************************************************************************)
(* The order watcher (src/src/services/order_watcher_service.ts), which    *)
(* copies Mesh's orders to the `signed_orders' table: from the events of a *)
(* subscription, and by a sync when it starts or reconnects.               *)
(*                                                                         *)
(* A batch of events is handled by a callback of its own; neither the      *)
(* callbacks nor the sync wait for each other, so that every await of the  *)
(* code is a boundary between two actions.  A callback that has not taken  *)
(* its first step stands for a notification on its way, too.               *)
(***************************************************************************)
EXTENDS MeshClient

CONSTANTS
    Ignored,       \* the orders with an address of MESH_IGNORED_ADDRESSES
    PinnedMaker,   \* the orders of PINNED_MM_ADDRESSES
    PinnedPool,    \* the orders of the makers of PINNED_POOL_IDS
    DeleteChunk,   \* how many rows one DELETE names (999 in the code)
    MayExpire,     \* bound: the orders that expire during a run
    Callback,      \* bound: the callbacks that may run at a time
    Sync,          \* bound: the syncs that may run at a time
    StartSync,     \* the sync that runOrderWatcherServiceAsync starts
    MaxChanges,    \* bound: how often Mesh's orders change
    MaxFaults      \* bound: disconnections, crashes and failing calls

ASSUME OrderWatcherAssumption ==
    /\ Ignored \cup PinnedMaker \cup PinnedPool \cup MayExpire \subseteq Order
    /\ DeleteChunk \in Nat \ {0}
    /\ StartSync \in Sync
    /\ MaxChanges \in Nat
    /\ MaxFaults \in Nat

VARIABLES
    mesh,       \* what Mesh watches
    table,      \* the signed_orders table
    expired,    \* the orders that are not fresh any more (isFreshOrder)
    connected,  \* whether the subscription delivers
    callbacks,  \* the events each callback has still to handle
    sync,       \* the local state of each syncOrderbookAsync
    changes, faults,
    inDoubt     \* history: the orders about which the watcher may be wrong,
                \* because two sources of news about them overlapped or one
                \* was lost, and no undisturbed sync has come since

vars == <<mesh, table, expired, connected, callbacks, sync, changes, faults, inDoubt>>

Classes == {"pin", "doNotPin"}
SyncPC == {"idle", "find", "getOrders", "post", "remove", "save"}

\* `undisturbed' is history: the orders that no callback was handling when the
\* sync began and that have not changed in Mesh since.
SyncState ==
    [pc : SyncPC, rows : SUBSET Order, snapshot : [Order -> Amount],
     pin : SUBSET Order, unanswered : SUBSET Classes,
     accepted : SUBSET Order, rejected : SUBSET Order, undisturbed : SUBSET Order]

NoOrders == [o \in Order |-> 0]
IdleSync ==
    [pc |-> "idle", rows |-> {}, snapshot |-> NoOrders, pin |-> {}, unanswered |-> {},
     accepted |-> {}, rejected |-> {}, undisturbed |-> {}]
StartedSync == [IdleSync EXCEPT !.pc = "find"]

TypeOK ==
    /\ mesh \in [Order -> Amount]
    /\ table \in [Order -> Amount]
    /\ expired \subseteq Order
    /\ connected \in BOOLEAN
    /\ callbacks \in [Callback -> Batches]
    /\ sync \in [Sync -> SyncState]
    /\ changes \in 0 .. MaxChanges
    /\ faults \in 0 .. MaxFaults
    /\ inDoubt \subseteq Order

Init ==
    /\ mesh \in [Order -> Amount]
    /\ table \in [Order -> Amount]
    /\ expired = {}
    /\ connected = TRUE
    /\ callbacks = [c \in Callback |-> NoEvents]
    /\ sync = [s \in Sync |-> IF s = StartSync THEN StartedSync ELSE IdleSync]
    /\ changes = 0
    /\ faults = 0
    /\ inDoubt = Order

Pending == UNION {DOMAIN callbacks[c] : c \in Callback}
\* A callback that is free; which one makes no difference.
FreeCallback ==
    LET free == {c \in Callback : callbacks[c] = NoEvents} IN
    {c \in free : c = CHOOSE d \in free : TRUE}
Running == {s \in Sync : sync[s].pc # "idle"}
HasSnapshot == {s \in Sync : sync[s].pc \in {"post", "remove", "save"}}
MayHaveDeleted(S) ==
    UNION {sync[s].rows : s \in {x \in S : sync[x].pc \in {"remove", "save"}}}

-----------------------------------------------------------------------------
(* Mesh, and the notification it sends.                                    *)

\* Mesh's orders change to `news'; a callback receives the events, unless the
\* connection is lost.  `local' is the state of the syncs after the step.
Notify(news, local) ==
    LET changed == {o \in DOMAIN news : news[o] # mesh[o]} IN
    IF changed = {}
    THEN /\ sync' = local
         /\ UNCHANGED <<mesh, callbacks, changes, inDoubt>>
    ELSE /\ changes < MaxChanges
         /\ changes' = changes + 1
         /\ mesh' = [o \in Order |-> IF o \in changed THEN news[o] ELSE mesh[o]]
         /\ IF connected
            THEN \E c \in FreeCallback, batch \in [changed -> Event] :
                    /\ \A o \in changed :
                          /\ batch[o].amount = news[o]
                          /\ batch[o].endState \in Reported(mesh[o], news[o])
                    /\ callbacks' = [callbacks EXCEPT ![c] = batch]
            ELSE UNCHANGED callbacks
         /\ inDoubt' = inDoubt \cup
               {o \in changed : ~ connected \/ o \in Pending \/ HasSnapshot # {}}
         /\ sync' = [s \in Sync |->
               [local[s] EXCEPT !.undisturbed = @ \ changed]]

MeshChange ==
    /\ \E S \in SUBSET Order \ {{}} : \E news \in [S -> Amount] :
          /\ \A o \in S : news[o] # mesh[o]
          /\ Notify(news, sync)
    /\ UNCHANGED <<table, expired, connected, faults>>

Expire(o) ==
    /\ o \notin expired
    /\ expired' = expired \cup {o}
    /\ UNCHANGED <<mesh, table, connected, callbacks, sync, changes, faults, inDoubt>>

-----------------------------------------------------------------------------
(* _onOrderLifeCycleEventAsync, and the subscription's callback.           *)

Removed(S) == [o \in Order |-> IF o \in S THEN 0 ELSE table[o]]
Saved(S, orders) ==
    [o \in Order |-> IF o \in S \ Ignored THEN orders[o] ELSE table[o]]

IsChunk(chunk, S) ==
    /\ chunk \subseteq S
    /\ Cardinality(chunk) =
          IF Cardinality(S) < DeleteChunk THEN Cardinality(S) ELSE DeleteChunk

\* The callback awaits the deletions, then the updates, then the additions.
Turn(category, batch) ==
    /\ InCategory(batch, category) # {}
    /\ category \in {"updated", "added"} => InCategory(batch, "removed") = {}
    /\ category = "added" => InCategory(batch, "updated") = {}

HandleEvents(c) ==
    LET batch == callbacks[c]
        amounts == [o \in DOMAIN batch |-> batch[o].amount]
        Done(S) == [callbacks EXCEPT ![c] = Restrict(batch, DOMAIN batch \ S)]
    IN
    /\ \E category \in Category :
          LET S == InCategory(batch, category) IN
          /\ Turn(category, batch)
          /\ IF category = "removed"
             THEN \E chunk \in SUBSET S :
                     /\ IsChunk(chunk, S)
                     /\ table' = Removed(chunk)
                     /\ callbacks' = Done(chunk)
             ELSE /\ table' = Saved(S, amounts)
                  /\ callbacks' = Done(S)
    /\ UNCHANGED <<mesh, expired, connected, sync, changes, faults, inDoubt>>

-----------------------------------------------------------------------------
(* syncOrderbookAsync.                                                     *)

Become(s, state) == sync' = [sync EXCEPT ![s] = state]

Find(s) ==
    /\ sync[s].pc = "find"
    /\ Become(s, [sync[s] EXCEPT !.pc = "getOrders",
          !.rows = {o \in Order : table[o] # 0},
          !.undisturbed = IF Running = {s} THEN Order \ Pending ELSE {}])
    /\ UNCHANGED <<mesh, table, expired, connected, callbacks, changes, faults, inDoubt>>

\* splitOrdersByPinningAsync; the query of the staking pools may fail, and is
\* then treated as if there were none.
SplitAllMakersOrders(orders, poolMakers) == PinnedMaker \cup poolMakers
SplitOrdersByPinning(orders, poolMakers) == orders \cap (PinnedMaker \cup poolMakers)

GetOrders(s) ==
    /\ sync[s].pc = "getOrders"
    /\ IF connected
       THEN \E poolMakers \in {{}, PinnedPool} :
               Become(s, [sync[s] EXCEPT !.pc = "post", !.snapshot = mesh,
                     !.pin = SplitOrdersByPinning(sync[s].rows, poolMakers),
                     !.unanswered = Classes])
       ELSE Become(s, IdleSync)
    /\ UNCHANGED <<mesh, table, expired, connected, callbacks, changes, faults, inDoubt>>

Posted(s, class) ==
    IF class = "pin" THEN sync[s].pin ELSE sync[s].rows \ sync[s].pin

\* After the second answer: the expired orders among the accepted ones are
\* removed with the rejected ones.
Answered(s, class, results) ==
    LET unanswered == sync[s].unanswered \ {class}
        accepted == sync[s].accepted \cup results.accepted
        rejected == sync[s].rejected \cup results.rejected
    IN [sync[s] EXCEPT !.unanswered = unanswered, !.accepted = accepted,
          !.rejected = IF unanswered = {} THEN rejected \cup (accepted \cap expired)
                       ELSE rejected,
          !.pc = IF unanswered = {} THEN "remove" ELSE "post"]

\* addOrdersAsync: Mesh may start to watch an order it did not watch before.
\* A websocket call fails with the connection; a chunk of HTTP may be lost.
Post(s, class) ==
    LET posted == Posted(s, class) IN
    /\ sync[s].pc = "post"
    /\ class \in sync[s].unanswered
    /\ connected \/ UsesHttp(posted) \/ posted = {}
    /\ \E news \in [{o \in posted : mesh[o] = 0} -> Amount],
          lost \in SUBSET posted :
          LET watched == {o \in posted : mesh[o] # 0}
                         \cup {o \in DOMAIN news : news[o] # 0}
          IN /\ lost # {} => UsesHttp(posted) /\ faults < MaxFaults
             /\ faults' = IF lost = {} THEN faults ELSE faults + 1
             /\ Notify(news, [sync EXCEPT ![s] =
                   Answered(s, class, ValidationResults(posted, watched, lost))])
    /\ UNCHANGED <<table, expired, connected>>

RemoveRejected(s) ==
    /\ sync[s].pc = "remove"
    /\ \E chunk \in SUBSET sync[s].rejected :
          /\ IsChunk(chunk, sync[s].rejected)
          /\ table' = Removed(chunk)
          /\ Become(s, [sync[s] EXCEPT !.rejected = @ \ chunk,
                !.pc = IF @ = "remove" /\ sync[s].rejected = chunk THEN "save" ELSE @])
    /\ UNCHANGED <<mesh, expired, connected, callbacks, changes, faults, inDoubt>>

FreshOf(orders) == {o \in Order : orders[o] # 0} \ expired

SaveMeshOrders(s) ==
    /\ sync[s].pc = "save"
    /\ table' = Saved(FreshOf(sync[s].snapshot), sync[s].snapshot)
    /\ inDoubt' = inDoubt \ sync[s].undisturbed
    /\ Become(s, IdleSync)
    /\ UNCHANGED <<mesh, expired, connected, callbacks, changes, faults>>

-----------------------------------------------------------------------------
(* Faults.                                                                 *)

Fault == faults < MaxFaults /\ faults' = faults + 1

\* The websocket's calls fail with the connection.
OnWebsocket(s) ==
    \/ sync[s].pc = "getOrders"
    \/ \E class \in sync[s].unanswered :
          Posted(s, class) # {} /\ ~ UsesHttp(Posted(s, class))

Disconnect ==
    /\ connected
    /\ Fault
    /\ connected' = FALSE
    /\ sync' = [s \in Sync |-> IF OnWebsocket(s) THEN IdleSync ELSE sync[s]]
    /\ UNCHANGED <<mesh, table, expired, callbacks, changes, inDoubt>>

\* The process dies; starting it again is a Connect.
Crash ==
    /\ Fault
    /\ connected' = FALSE
    /\ callbacks' = [c \in Callback |-> NoEvents]
    /\ sync' = [s \in Sync |-> IdleSync]
    /\ inDoubt' = inDoubt \cup Pending \cup MayHaveDeleted(Sync)
    /\ UNCHANGED <<mesh, table, expired, changes>>

\* onReconnected's callback, or a restart.
ConnectWithoutSync ==
    /\ ~ connected
    /\ connected' = TRUE
    /\ UNCHANGED <<mesh, table, expired, callbacks, sync, changes, faults, inDoubt>>

Connect ==
    /\ ~ connected
    /\ connected' = TRUE
    /\ \E s \in Sync \ Running : Become(s, StartedSync)
    /\ UNCHANGED <<mesh, table, expired, callbacks, changes, faults, inDoubt>>

\* The database throws: the rest of the callback, or of the sync, is skipped.
CallbackFails(c) ==
    /\ callbacks[c] # NoEvents
    /\ Fault
    /\ callbacks' = [callbacks EXCEPT ![c] = NoEvents]
    /\ inDoubt' = inDoubt \cup DOMAIN callbacks[c]
    /\ UNCHANGED <<mesh, table, expired, connected, sync, changes>>

SyncFails(s) ==
    /\ s \in Running
    /\ Fault
    /\ Become(s, IdleSync)
    /\ inDoubt' = inDoubt \cup MayHaveDeleted({s})
    /\ UNCHANGED <<mesh, table, expired, connected, callbacks, changes>>

-----------------------------------------------------------------------------
SyncStep(s) ==
    \/ Find(s)
    \/ GetOrders(s)
    \/ \E class \in Classes : Post(s, class)
    \/ RemoveRejected(s)
    \/ SaveMeshOrders(s)

Next ==
    \/ MeshChange
    \/ \E o \in MayExpire : Expire(o)
    \/ \E c \in Callback : HandleEvents(c)
    \/ \E s \in Sync : SyncStep(s)
    \/ Disconnect
    \/ Crash
    \/ Connect
    \/ \E c \in Callback : CallbackFails(c)
    \/ \E s \in Sync : SyncFails(s)

Spec == Init /\ [][Next]_vars

\* The event loop runs every callback and every continuation; the websocket
\* client keeps trying to reconnect.
FairSpec ==
    /\ Spec
    /\ \A c \in Callback : WF_vars(HandleEvents(c))
    /\ \A s \in Sync : WF_vars(SyncStep(s))
    /\ WF_vars(Connect)

-----------------------------------------------------------------------------
\* Besides the types: what a sync posts, and what it is answered, is about the
\* rows it found, and it removes only orders that were answered.
TypeInvariant ==
    /\ TypeOK
    /\ \A s \in Sync :
          sync[s].pin \cup sync[s].accepted \cup sync[s].rejected \subseteq sync[s].rows

Undecided(o) == o \in inDoubt \cup expired \cup Ignored \cup Pending
Quiet == Running = {} /\ Pending = {}

\* Once its events are handled and no sync is running, the row of an order says
\* what Mesh says of it, whatever the table held before, unless the order's
\* news overlapped or were lost and no undisturbed sync has followed.
MirrorsMesh ==
    Running = {} => \A o \in Order : ~ Undecided(o) => table[o] = mesh[o]

\* While nothing fails, the row of a fresh order that Mesh watches is deleted
\* only on overtaken news: by a sync, if the order has changed since the sync
\* began; by a callback, if other news of the order overlapped.
LiveRowsAreKept ==
    [][\A o \in Order \ expired :
         table[o] # 0 /\ table'[o] = 0 /\ mesh[o] # 0 /\ faults = 0 =>
            \/ callbacks' # callbacks /\ o \in inDoubt
            \/ \E s \in Sync : sync'[s] # sync[s] /\ o \notin sync[s].undisturbed]_vars

\* When the connection is lost and Mesh's orders then stay as they are, the sync
\* that follows the reconnection brings the table back in line with Mesh.
RepairedByReconnecting ==
    (~ connected /\ Quiet /\ changes = MaxChanges /\ faults = MaxFaults)
        ~> (Quiet /\ \A o \in Order \ (Ignored \cup expired) : table[o] = mesh[o])

\* What the comment on runOrderWatcherServiceAsync says of the watcher, that it
\* persists the orders which Mesh's events discover and syncs the database with Mesh
\* on start: when nothing has failed, a watcher at rest has a row for every order that
\* Mesh watches.
WatchedOrdersAreStored ==
    Quiet /\ faults = 0 =>
        \A o \in Order \ (Ignored \cup expired) : mesh[o] # 0 => table[o] # 0
=============================================================================

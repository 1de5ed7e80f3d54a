-------------------------- MODULE OrderWatcherProofs --------------------------
(***************************************************************************)
(* Theorems about OrderWatcher, for any orders, amounts and batches, any   *)
(* number of callbacks and of syncs that overlap, and any bounds.          *)
(***************************************************************************)
EXTENDS OrderWatcher, FiniteSetTheorems, TLAPS

(***************************************************************************)
(* The inductive invariant.  MirrorsMesh speaks of a watcher at rest; what *)
(* follows says how every piece of news that is still on its way, in a     *)
(* callback or in the hands of a sync, relates to Mesh and to the table.   *)
(***************************************************************************)

\* Mesh reports an order with amount 0 exactly by the end states that the
\* watcher takes for removals.
EventsFit ==
    \A c \in Callback : \A o \in DOMAIN callbacks[c] :
        CategoryOf(callbacks[c][o]) = "removed" <=> callbacks[c][o].amount = 0

\* What a sync holds at each of its awaits.
LocalOK ==
    \A s \in Sync :
        /\ sync[s].pin \cup sync[s].accepted \cup sync[s].rejected \subseteq sync[s].rows
        /\ sync[s].pc \in {"idle", "find"} =>
              sync[s].rows = {} /\ sync[s].undisturbed = {}
        /\ sync[s].pc \in {"idle", "find", "getOrders"} =>
              sync[s].pin = {} /\ sync[s].accepted = {} /\ sync[s].rejected = {}
        /\ sync[s].unanswered # {} => sync[s].pc = "post"

\* No news of an order out of doubt is contradicted by other news on its way.
NewsAgree ==
    \A o \in Order \ inDoubt :
        /\ \A c, d \in Callback :
              o \in DOMAIN callbacks[c] /\ o \in DOMAIN callbacks[d] => c = d
        /\ \A c \in Callback : o \in DOMAIN callbacks[c] => callbacks[c][o].amount = mesh[o]
        /\ \A s \in HasSnapshot : sync[s].snapshot[o] = mesh[o]

\* A row without news on its way is right, or a sync has deleted it and will
\* write it again.
RowsFit ==
    \A o \in Order \ (inDoubt \cup Pending \cup Ignored \cup expired) :
        \/ table[o] = mesh[o]
        \/ table[o] = 0 /\ o \in MayHaveDeleted(Sync)

\* An order that nothing has disturbed since sync s began: the row is the one
\* the sync knows of, or right, and if Mesh does not watch the order then the
\* sync learns so and deletes the row.
Rejects(s, o) ==
    /\ sync[s].pc = "post" => \A class \in Classes \ sync[s].unanswered :
          o \in Posted(s, class) => o \in sync[s].rejected
    /\ sync[s].pc = "remove" => o \in sync[s].rejected \/ table[o] = 0
    /\ sync[s].pc = "save" => table[o] = 0

Follows(s, o) ==
    /\ o \notin Pending
    /\ \A t \in HasSnapshot : sync[t].snapshot[o] = mesh[o]
    /\ o \in sync[s].rows \/ table[o] \in {0, mesh[o]}
    /\ o \in sync[s].rows /\ mesh[o] = 0 => Rejects(s, o)
    /\ faults = 0 /\ o \in sync[s].rejected => mesh[o] = 0 \/ o \in expired

UndisturbedFit == \A s \in Sync : \A o \in sync[s].undisturbed : Follows(s, o)

IInv ==
    /\ TypeOK
    /\ EventsFit
    /\ LocalOK
    /\ NewsAgree
    /\ RowsFit
    /\ UndisturbedFit

-----------------------------------------------------------------------------
LEMMA Constants ==
    /\ NoEvents \in Batches /\ DOMAIN NoEvents = {}
    /\ NoOrders \in [Order -> Amount]
    /\ IdleSync \in SyncState /\ StartedSync \in SyncState
    /\ IdleSync.pc = "idle" /\ StartedSync.pc = "find"
    /\ \A x \in {IdleSync, StartedSync} :
          /\ x.rows = {} /\ x.pin = {} /\ x.unanswered = {} /\ x.accepted = {}
          /\ x.rejected = {} /\ x.undisturbed = {}
<1>1. NoEvents \in [{} -> Event] /\ {} \in SUBSET Order
  BY DEF NoEvents
<1>2. NoEvents \in Batches /\ DOMAIN NoEvents = {}
  BY <1>1 DEF Batches
<1>3. NoOrders \in [Order -> Amount]
  BY MeshAssumption DEF NoOrders, Amount
<1>4. IdleSync \in SyncState /\ StartedSync \in SyncState
  BY <1>3 DEF IdleSync, StartedSync, SyncState, SyncPC
<1> QED BY <1>2, <1>3, <1>4 DEF IdleSync, StartedSync

LEMMA PendingIs == \A o : o \in Pending <=> \E c \in Callback : o \in DOMAIN callbacks[c]
BY DEF Pending

LEMMA MayHaveDeletedIs ==
    \A S, o : o \in MayHaveDeleted(S) <=>
        \E s \in S : sync[s].pc \in {"remove", "save"} /\ o \in sync[s].rows
BY DEF MayHaveDeleted

LEMMA InitInvariant == Init => IInv
<1> SUFFICES ASSUME Init PROVE IInv
    OBVIOUS
<1>1. TypeOK
  BY Constants, MeshAssumption, OrderWatcherAssumption DEF Init, TypeOK
<1>2. \A c \in Callback : DOMAIN callbacks[c] = {}
  BY Constants DEF Init
<1>3. \A s \in Sync : sync[s] \in {IdleSync, StartedSync}
  BY DEF Init
<1>4. EventsFit
  BY <1>2 DEF EventsFit
<1>5. LocalOK
  BY <1>3, Constants DEF LocalOK
<1>6. NewsAgree /\ RowsFit
  BY DEF Init, NewsAgree, RowsFit
<1>7. UndisturbedFit
  BY <1>3, Constants DEF UndisturbedFit
<1> QED BY <1>1, <1>4, <1>5, <1>6, <1>7 DEF IInv

-----------------------------------------------------------------------------
(***************************************************************************)
(* Expirations, disconnections, crashes and failing calls, and the start    *)
(* of a sync, have this in common: neither Mesh nor the table changes, and *)
(* the news that a callback or a sync drops are in doubt afterwards.       *)
(***************************************************************************)
Loss ==
    /\ UNCHANGED <<mesh, table>>
    /\ expired \subseteq expired'
    /\ inDoubt \subseteq inDoubt'
    /\ faults' = 0 => faults = 0
    /\ \A c \in Callback :
          \/ callbacks'[c] = callbacks[c]
          \/ callbacks'[c] = NoEvents /\ DOMAIN callbacks[c] \subseteq inDoubt'
    /\ \A s \in Sync :
          \/ sync'[s] = sync[s]
          \/ /\ sync'[s] \in {IdleSync, StartedSync}
             /\ sync[s].pc \in {"remove", "save"} => sync[s].rows \subseteq inDoubt'

LEMMA LossKeepsInvariant ==
    ASSUME IInv, Loss, TypeOK'
    PROVE  IInv'
<1> USE DEF Loss
<1>1. \A c \in Callback : DOMAIN callbacks'[c] \subseteq DOMAIN callbacks[c]
  BY Constants
<1>2. Pending' \subseteq Pending /\ Pending \subseteq Pending' \cup inDoubt'
  BY <1>1 DEF Pending
<1>3. \A c \in Callback : \A o \in DOMAIN callbacks'[c] : callbacks'[c] = callbacks[c]
  BY Constants
<1>4. ASSUME NEW s \in HasSnapshot'
      PROVE  s \in HasSnapshot /\ sync'[s] = sync[s]
  BY Constants DEF HasSnapshot
<1>5. EventsFit'
  BY <1>3 DEF IInv, EventsFit
<1>6. LocalOK'
  BY Constants DEF IInv, LocalOK
<1>7. NewsAgree'
  BY <1>1, <1>3, <1>4 DEF IInv, NewsAgree
<1>8. RowsFit'
  <2> SUFFICES ASSUME NEW o \in Order \ (inDoubt \cup Pending \cup Ignored \cup expired)',
                      table[o] # mesh[o]
               PROVE  table[o] = 0 /\ o \in MayHaveDeleted(Sync)'
      BY DEF RowsFit
  <2>1. o \in Order \ (inDoubt \cup Pending \cup Ignored \cup expired)
    BY <1>2
  <2>2. table[o] = 0 /\ o \in MayHaveDeleted(Sync)
    BY <2>1 DEF IInv, RowsFit
  <2>3. PICK s \in Sync : sync[s].pc \in {"remove", "save"} /\ o \in sync[s].rows
    BY <2>2, MayHaveDeletedIs
  <2>4. sync'[s] = sync[s]
    BY <2>3
  <2> QED BY <2>2, <2>3, <2>4 DEF MayHaveDeleted
<1>9. UndisturbedFit'
  <2> SUFFICES ASSUME NEW s \in Sync, NEW o \in sync'[s].undisturbed
               PROVE  Follows(s, o)'
      BY DEF UndisturbedFit
  <2>1. sync'[s] = sync[s]
    BY Constants
  <2>2. Follows(s, o)
    BY <2>1 DEF IInv, UndisturbedFit
  <2>3. Rejects(s, o) => Rejects(s, o)'
    BY <2>1 DEF Rejects, Posted
  <2> QED BY <1>2, <1>4, <2>1, <2>2, <2>3 DEF Follows
<1> QED BY <1>5, <1>6, <1>7, <1>8, <1>9 DEF IInv

\* The states in which a disconnection aborts a sync come before its deletions.
LEMMA OnWebsocketIsEarly ==
    ASSUME LocalOK, NEW s \in Sync, OnWebsocket(s)
    PROVE  sync[s].pc \notin {"remove", "save"}
BY DEF OnWebsocket, LocalOK

LEMMA FaultTyped ==
    ASSUME TypeOK, Fault
    PROVE  faults' \in 0 .. MaxFaults /\ faults' # 0
BY OrderWatcherAssumption DEF TypeOK, Fault

LEMMA LossSteps ==
    ASSUME IInv,
           \/ \E o \in MayExpire : Expire(o)
           \/ Disconnect
           \/ Crash
           \/ Connect
           \/ \E c \in Callback : CallbackFails(c)
           \/ \E s \in Sync : SyncFails(s)
    PROVE  Loss /\ TypeOK'
<1> USE DEF IInv
<1>1. CASE \E o \in MayExpire : Expire(o)
  BY <1>1, OrderWatcherAssumption DEF Expire, TypeOK, Loss
<1>2. CASE Disconnect
  <2>1. TypeOK'
    BY <1>2, Constants, FaultTyped DEF Disconnect, TypeOK
  <2>2. \A s \in Sync : \/ sync'[s] = sync[s]
                       \/ (sync'[s] = IdleSync /\ sync[s].pc \notin {"remove", "save"})
    BY <1>2, OnWebsocketIsEarly DEF Disconnect
  <2> QED BY <1>2, <2>1, <2>2, FaultTyped DEF Disconnect, Loss
<1>3. CASE Crash
  <2>1. TypeOK'
    <3>1. Pending \subseteq Order
      BY PendingIs DEF TypeOK, Batches
    <3>2. MayHaveDeleted(Sync) \subseteq Order
      BY MayHaveDeletedIs DEF TypeOK, SyncState
    <3> QED BY <1>3, <3>1, <3>2, Constants, FaultTyped DEF Crash, TypeOK
  <2>2. \A c \in Callback : callbacks'[c] = NoEvents /\ DOMAIN callbacks[c] \subseteq inDoubt'
    BY <1>3, PendingIs DEF Crash
  <2>3. \A s \in Sync : /\ sync'[s] = IdleSync
                       /\ sync[s].pc \in {"remove", "save"} => sync[s].rows \subseteq inDoubt'
    BY <1>3, MayHaveDeletedIs DEF Crash
  <2> QED BY <1>3, <2>1, <2>2, <2>3, FaultTyped DEF Crash, Loss
<1>4. CASE Connect
  <2>1. PICK s \in Sync \ Running : Become(s, StartedSync)
    BY <1>4 DEF Connect
  <2>2. sync[s].pc = "idle"
    BY <2>1 DEF Running
  <2>3. TypeOK'
    BY <1>4, <2>1, Constants DEF Connect, Become, TypeOK
  <2>4. \A t \in Sync : sync'[t] = sync[t] \/ (t = s /\ sync'[t] = StartedSync)
    BY <2>1 DEF Become, TypeOK
  <2> QED BY <1>4, <2>2, <2>3, <2>4 DEF Connect, Loss
<1>5. ASSUME NEW c \in Callback, CallbackFails(c) PROVE Loss /\ TypeOK'
  <2>1. DOMAIN callbacks[c] \subseteq Order
    BY DEF TypeOK, Batches
  <2>2. TypeOK'
    BY <1>5, <2>1, Constants, FaultTyped DEF CallbackFails, TypeOK
  <2> QED BY <1>5, <2>2, FaultTyped DEF CallbackFails, TypeOK, Loss
<1>6. ASSUME NEW s \in Sync, SyncFails(s) PROVE Loss /\ TypeOK'
  <2>1. MayHaveDeleted({s}) \subseteq Order
    BY MayHaveDeletedIs DEF TypeOK, SyncState
  <2>2. TypeOK'
    BY <1>6, <2>1, Constants, FaultTyped DEF SyncFails, Become, TypeOK
  <2>3. \A t \in Sync : sync'[t] = sync[t] \/ (t = s /\ sync'[t] = IdleSync)
    BY <1>6 DEF SyncFails, Become, TypeOK
  <2>4. sync[s].pc \in {"remove", "save"} => sync[s].rows \subseteq inDoubt'
    BY <1>6, MayHaveDeletedIs DEF SyncFails
  <2> QED BY <1>6, <2>2, <2>3, <2>4, FaultTyped DEF SyncFails, Loss
<1> QED BY <1>1, <1>2, <1>3, <1>4, <1>5, <1>6

-----------------------------------------------------------------------------
(***************************************************************************)
(* The callbacks.                                                          *)
(***************************************************************************)

\* A callback that has handled some of its events has the others left.
LEMMA RestrictedBatch ==
    ASSUME NEW batch \in Batches, NEW S
    PROVE  /\ Restrict(batch, DOMAIN batch \ S) \in Batches
           /\ DOMAIN Restrict(batch, DOMAIN batch \ S) = DOMAIN batch \ S
           /\ \A o \in DOMAIN batch \ S :
                 Restrict(batch, DOMAIN batch \ S)[o] = batch[o]
<1> DEFINE rest == Restrict(batch, DOMAIN batch \ S)
<1>1. PICK D \in SUBSET Order : batch \in [D -> Event]
  BY DEF Batches
<1>2. rest = [o \in D \ S |-> batch[o]]
  BY <1>1 DEF Restrict
<1>3. rest \in [D \ S -> Event] /\ D \ S \in SUBSET Order
  BY <1>1, <1>2
<1>4. rest \in Batches
  BY <1>3 DEF Batches
<1> QED BY <1>1, <1>2, <1>4

\* One await of a callback: the events of S are written to the table, S being
\* all of removals or of other events, and are not pending any more.
HandlesSome(c, S) ==
    /\ S # {} /\ S \subseteq DOMAIN callbacks[c]
    /\ callbacks' = [callbacks EXCEPT ![c] = Restrict(callbacks[c], DOMAIN callbacks[c] \ S)]
    /\ \/ /\ \A o \in S : CategoryOf(callbacks[c][o]) = "removed"
          /\ table' = Removed(S)
       \/ /\ \A o \in S : CategoryOf(callbacks[c][o]) # "removed"
          /\ table' = Saved(S, [o \in DOMAIN callbacks[c] |-> callbacks[c][o].amount])
    /\ UNCHANGED <<mesh, expired, connected, sync, changes, faults, inDoubt>>

LEMMA ChunkIsNotEmpty ==
    ASSUME NEW S, IsFiniteSet(S), S # {}, NEW chunk, IsChunk(chunk, S)
    PROVE  chunk # {}
<1>1. Cardinality(S) # 0
  BY FS_EmptySet
<1>2. Cardinality(chunk) # 0
  BY <1>1, OrderWatcherAssumption DEF IsChunk
<1> QED BY <1>2, FS_EmptySet

LEMMA HandleEventsHandlesSome ==
    ASSUME TypeOK, NEW c \in Callback, HandleEvents(c)
    PROVE  \E S \in SUBSET DOMAIN callbacks[c] : HandlesSome(c, S)
<1> DEFINE batch == callbacks[c]
<1>1. PICK category \in Category :
         /\ Turn(category, batch)
         /\ IF category = "removed"
            THEN \E chunk \in SUBSET InCategory(batch, category) :
                    /\ IsChunk(chunk, InCategory(batch, category))
                    /\ table' = Removed(chunk)
                    /\ callbacks' = [callbacks EXCEPT ![c] =
                          Restrict(batch, DOMAIN batch \ chunk)]
            ELSE /\ table' = Saved(InCategory(batch, category),
                                   [o \in DOMAIN batch |-> batch[o].amount])
                 /\ callbacks' = [callbacks EXCEPT ![c] =
                       Restrict(batch, DOMAIN batch \ InCategory(batch, category))]
  BY DEF HandleEvents
<1>2. UNCHANGED <<mesh, expired, connected, sync, changes, faults, inDoubt>>
  BY DEF HandleEvents
<1>3. InCategory(batch, category) # {}
  BY <1>1 DEF Turn
<1>4. CASE category = "removed"
  <2>1. PICK chunk \in SUBSET InCategory(batch, category) :
           /\ IsChunk(chunk, InCategory(batch, category))
           /\ table' = Removed(chunk)
           /\ callbacks' = [callbacks EXCEPT ![c] = Restrict(batch, DOMAIN batch \ chunk)]
    BY <1>1, <1>4
  <2>2. IsFiniteSet(InCategory(batch, category))
    <3>1. InCategory(batch, category) \subseteq Order
      BY DEF InCategory, TypeOK, Batches
    <3> QED BY <3>1, FS_Subset, MeshAssumption
  <2>3. chunk # {}
    BY <1>3, <2>1, <2>2, ChunkIsNotEmpty
  <2>4. \A o \in chunk : o \in DOMAIN batch /\ CategoryOf(batch[o]) = "removed"
    BY <1>4, <2>1 DEF InCategory
  <2> QED BY <1>2, <2>1, <2>3, <2>4 DEF HandlesSome
<1>5. CASE category # "removed"
  <2> DEFINE S == InCategory(batch, category)
  <2>1. \A o \in S : o \in DOMAIN batch /\ CategoryOf(batch[o]) # "removed"
    BY <1>5 DEF InCategory
  <2>2. /\ table' = Saved(S, [o \in DOMAIN batch |-> batch[o].amount])
        /\ callbacks' = [callbacks EXCEPT ![c] = Restrict(batch, DOMAIN batch \ S)]
    BY <1>1, <1>5
  <2>3. HandlesSome(c, S)
    BY <1>2, <1>3, <2>1, <2>2 DEF HandlesSome
  <2> HIDE DEF S
  <2> QED BY <2>1, <2>3
<1> QED BY <1>4, <1>5

\* For an order that the watcher follows, either branch of a callback's await
\* leaves in the table the amount of the event.
LEMMA EventIsWritten ==
    ASSUME IInv, NEW c \in Callback, NEW S \in SUBSET DOMAIN callbacks[c], HandlesSome(c, S)
    PROVE  /\ table' \in [Order -> Amount]
           /\ \A o \in Order \ S : table'[o] = table[o]
           /\ \A o \in S : o \notin Ignored \/ table'[o] # table[o] =>
                 table'[o] = callbacks[c][o].amount
<1>1. TypeOK /\ S \subseteq Order /\ \A o \in S : callbacks[c][o].amount \in Amount
  BY DEF IInv, TypeOK, Batches, Event
<1>2. 0 \in Amount
  BY MeshAssumption DEF Amount
<1>3. CASE /\ \A o \in S : CategoryOf(callbacks[c][o]) = "removed"
           /\ table' = Removed(S)
  <2>1. \A o \in S : callbacks[c][o].amount = 0
    BY <1>3 DEF IInv, EventsFit
  <2> QED BY <1>1, <1>2, <1>3, <2>1 DEF Removed, TypeOK
<1>4. CASE table' = Saved(S, [o \in DOMAIN callbacks[c] |-> callbacks[c][o].amount])
  <2> DEFINE amounts == [o \in DOMAIN callbacks[c] |-> callbacks[c][o].amount]
  <2>1. \A o \in S : amounts[o] = callbacks[c][o].amount
    OBVIOUS
  <2> HIDE DEF amounts
  <2> QED BY <1>1, <1>4, <2>1 DEF Saved, TypeOK, amounts
<1> QED BY <1>3, <1>4 DEF HandlesSome

LEMMA HandleEventsKeepsInvariant ==
    ASSUME IInv, NEW c \in Callback, HandleEvents(c)
    PROVE  IInv'
<1>1. PICK S \in SUBSET DOMAIN callbacks[c] : HandlesSome(c, S)
  BY HandleEventsHandlesSome DEF IInv
<1>2. UNCHANGED <<mesh, expired, connected, sync, changes, faults, inDoubt>>
  BY <1>1 DEF HandlesSome
<1>3. /\ callbacks' \in [Callback -> Batches]
      /\ DOMAIN callbacks'[c] = DOMAIN callbacks[c] \ S
      /\ \A d \in Callback \ {c} : callbacks'[d] = callbacks[d]
      /\ \A d \in Callback : \A o \in DOMAIN callbacks'[d] :
            o \in DOMAIN callbacks[d] /\ callbacks'[d][o] = callbacks[d][o]
  <2>1. callbacks \in [Callback -> Batches]
    BY DEF IInv, TypeOK
  <2> DEFINE rest == Restrict(callbacks[c], DOMAIN callbacks[c] \ S)
  <2>2. callbacks' = [callbacks EXCEPT ![c] = rest]
    BY <1>1 DEF HandlesSome
  <2>3. /\ rest \in Batches
        /\ DOMAIN rest = DOMAIN callbacks[c] \ S
        /\ \A o \in DOMAIN callbacks[c] \ S : rest[o] = callbacks[c][o]
    <3>1. callbacks[c] \in Batches
      BY <2>1
    <3> QED BY <3>1, RestrictedBatch
  <2> HIDE DEF rest
  <2> QED BY <2>1, <2>2, <2>3
<1>4. Pending \subseteq Pending' \cup S /\ Pending' \subseteq Pending
  BY <1>3 DEF Pending
<1>5. S \subseteq Order /\ S \subseteq Pending
  BY DEF IInv, TypeOK, Batches, Pending
<1>6. TypeOK'
  BY <1>1, <1>2, <1>3, EventIsWritten DEF IInv, TypeOK
<1>7. EventsFit'
  BY <1>3 DEF IInv, EventsFit
<1>8. LocalOK'
  BY <1>2 DEF IInv, LocalOK
<1>9. NewsAgree'
  BY <1>2, <1>3 DEF IInv, NewsAgree, HasSnapshot
<1>10. RowsFit'
  <2> SUFFICES ASSUME NEW o \in Order \ (inDoubt \cup Pending' \cup Ignored \cup expired)
               PROVE  \/ table'[o] = mesh[o]
                      \/ table'[o] = 0 /\ o \in MayHaveDeleted(Sync)
      BY <1>2 DEF RowsFit, MayHaveDeleted
  <2>1. CASE o \in S
    BY <1>1, <2>1, EventIsWritten DEF IInv, NewsAgree
  <2>2. CASE o \notin S
    BY <1>1, <1>4, <2>2, EventIsWritten DEF IInv, RowsFit
  <2> QED BY <2>1, <2>2
<1>11. UndisturbedFit'
  <2> SUFFICES ASSUME NEW s \in Sync, NEW o \in sync[s].undisturbed
               PROVE  Follows(s, o)'
      BY <1>2 DEF UndisturbedFit
  <2>1. Follows(s, o)
    BY DEF IInv, UndisturbedFit
  <2>2. o \in Order \ S
    BY <1>5, <2>1 DEF Follows, IInv, TypeOK, SyncState
  <2>3. table'[o] = table[o]
    BY <1>1, <2>2, EventIsWritten
  <2> QED BY <1>2, <1>4, <2>1, <2>3 DEF Follows, Rejects, Posted, HasSnapshot
<1> QED BY <1>6, <1>7, <1>8, <1>9, <1>10, <1>11 DEF IInv

-----------------------------------------------------------------------------
(***************************************************************************)
(* The syncs.                                                              *)
(***************************************************************************)
\* A step of sync s leaves the other syncs alone.
OnlySync(s) == \A t \in Sync \ {s} : sync'[t] = sync[t]

LEMMA FindKeepsInvariant ==
    ASSUME IInv, NEW s \in Sync, Find(s)
    PROVE  IInv'
<1>1. UNCHANGED <<mesh, table, expired, connected, callbacks, changes, faults, inDoubt>>
  BY DEF Find
<1>2. /\ sync' \in [Sync -> SyncState] /\ OnlySync(s)
      /\ sync[s].pc = "find" /\ sync'[s].pc = "getOrders"
      /\ sync'[s].rows = {o \in Order : table[o] # 0}
      /\ sync'[s].undisturbed = IF Running = {s} THEN Order \ Pending ELSE {}
      /\ sync'[s].pin = sync[s].pin /\ sync'[s].unanswered = sync[s].unanswered
      /\ sync'[s].accepted = sync[s].accepted /\ sync'[s].rejected = sync[s].rejected
  <2> DEFINE undisturbed == IF Running = {s} THEN Order \ Pending ELSE {}
             state == [sync[s] EXCEPT !.pc = "getOrders",
                         !.rows = {o \in Order : table[o] # 0}, !.undisturbed = undisturbed]
  <2>1. /\ sync[s].pc = "find" /\ sync' = [sync EXCEPT ![s] = state]
        /\ sync \in [Sync -> SyncState] /\ sync[s] \in SyncState
    BY DEF Find, Become, IInv, TypeOK
  <2>2. undisturbed \in SUBSET Order
    OBVIOUS
  <2> HIDE DEF undisturbed
  <2>3. /\ state \in SyncState /\ state.pc = "getOrders"
        /\ state.rows = {o \in Order : table[o] # 0} /\ state.undisturbed = undisturbed
        /\ state.pin = sync[s].pin /\ state.unanswered = sync[s].unanswered
        /\ state.accepted = sync[s].accepted /\ state.rejected = sync[s].rejected
    BY <2>1, <2>2 DEF SyncState, SyncPC
  <2> HIDE DEF state
  <2>4. sync' \in [Sync -> SyncState] /\ sync'[s] = state /\ OnlySync(s)
    BY <2>1, <2>3 DEF OnlySync
  <2> QED BY <2>1, <2>3, <2>4 DEF undisturbed
<1>3. HasSnapshot' = HasSnapshot /\ \A t \in HasSnapshot : sync'[t] = sync[t]
  BY <1>2 DEF HasSnapshot, OnlySync
<1>4. \A o : o \in MayHaveDeleted(Sync) <=> o \in MayHaveDeleted(Sync)'
  BY <1>2 DEF MayHaveDeleted, OnlySync
<1>5. Pending' = Pending
  BY <1>1 DEF Pending
<1>6. TypeOK'
  BY <1>1, <1>2 DEF IInv, TypeOK
<1>7. EventsFit'
  BY <1>1 DEF IInv, EventsFit
<1>8. LocalOK'
  BY <1>2 DEF IInv, LocalOK, OnlySync
<1>9. NewsAgree'
  BY <1>1, <1>3 DEF IInv, NewsAgree
<1>10. RowsFit'
  BY <1>1, <1>4, <1>5 DEF IInv, RowsFit
<1>11. UndisturbedFit'
  <2>1. ASSUME NEW o \in sync'[s].undisturbed PROVE Follows(s, o)'
    <3>1. Running = {s} /\ o \in Order \ Pending
      BY <1>2, <2>1
    <3>2. HasSnapshot = {}
      BY <1>2, <3>1 DEF HasSnapshot, Running
    <3>3. sync'[s].rejected = {}
      BY <1>2 DEF IInv, LocalOK
    <3> QED BY <1>1, <1>2, <1>3, <1>5, <3>1, <3>2, <3>3 DEF Follows, Rejects
  <2>2. ASSUME NEW t \in Sync \ {s}, NEW o \in sync'[t].undisturbed PROVE Follows(t, o)'
    <3>1. sync'[t] = sync[t] /\ Follows(t, o)
      BY <1>2, <2>2 DEF IInv, UndisturbedFit, OnlySync
    <3> QED BY <1>1, <1>3, <1>5, <3>1 DEF Follows, Rejects, Posted
  <2> QED BY <2>1, <2>2 DEF UndisturbedFit
<1> QED BY <1>6, <1>7, <1>8, <1>9, <1>10, <1>11 DEF IInv

LEMMA GetOrdersKeepsInvariant ==
    ASSUME IInv, NEW s \in Sync, GetOrders(s)
    PROVE  IInv'
<1>1. UNCHANGED <<mesh, table, expired, connected, callbacks, changes, faults, inDoubt>>
  BY DEF GetOrders
<1>2. CASE ~ connected
  <2>1. sync' = [sync EXCEPT ![s] = IdleSync] /\ sync[s].pc = "getOrders"
    BY <1>2 DEF GetOrders, Become
  <2>2. \A t \in Sync : sync'[t] = sync[t] \/ (t = s /\ sync'[t] = IdleSync)
    BY <2>1 DEF IInv, TypeOK
  <2>3. TypeOK'
    BY <1>1, <2>1, Constants DEF IInv, TypeOK
  <2> QED BY <1>1, <2>1, <2>2, <2>3, LossKeepsInvariant DEF Loss
<1>3. CASE connected
  <2>1. PICK poolMakers \in {{}, PinnedPool} :
           sync' = [sync EXCEPT ![s] =
              [sync[s] EXCEPT !.pc = "post", !.snapshot = mesh,
                 !.pin = SplitOrdersByPinning(sync[s].rows, poolMakers),
                 !.unanswered = Classes]]
    BY <1>3 DEF GetOrders, Become
  <2> DEFINE state == [sync[s] EXCEPT !.pc = "post", !.snapshot = mesh,
                         !.pin = SplitOrdersByPinning(sync[s].rows, poolMakers),
                         !.unanswered = Classes]
  <2>2. /\ state \in SyncState
        /\ state.pc = "post" /\ state.snapshot = mesh /\ state.unanswered = Classes
        /\ state.pin \subseteq sync[s].rows
        /\ state.rows = sync[s].rows /\ state.undisturbed = sync[s].undisturbed
        /\ state.accepted = sync[s].accepted /\ state.rejected = sync[s].rejected
    <3>1. sync[s] \in SyncState /\ mesh \in [Order -> Amount]
      BY DEF IInv, TypeOK
    <3> QED BY <3>1 DEF SyncState, SyncPC, SplitOrdersByPinning
  <2> HIDE DEF state
  <2>3. sync[s].pc = "getOrders"
    BY DEF GetOrders
  <2>4. sync' \in [Sync -> SyncState] /\ OnlySync(s) /\ sync'[s] = state
    BY <2>1, <2>2 DEF state, OnlySync, IInv, TypeOK
  <2>5. \A t \in HasSnapshot' : \/ (t = s /\ sync'[t].snapshot = mesh)
                              \/ (t \in HasSnapshot /\ sync'[t] = sync[t])
    BY <2>2, <2>4 DEF HasSnapshot, OnlySync
  <2>6. \A o : o \in MayHaveDeleted(Sync) <=> o \in MayHaveDeleted(Sync)'
    BY <2>2, <2>3, <2>4 DEF MayHaveDeleted, OnlySync
  <2>7. Pending' = Pending
    BY <1>1 DEF Pending
  <2>8. TypeOK'
    BY <1>1, <2>4 DEF IInv, TypeOK
  <2>9. EventsFit'
    BY <1>1 DEF IInv, EventsFit
  <2>10. LocalOK'
    BY <2>2, <2>3, <2>4 DEF IInv, LocalOK, OnlySync
  <2>11. NewsAgree'
    BY <1>1, <2>5 DEF IInv, NewsAgree
  <2>12. RowsFit'
    BY <1>1, <2>6, <2>7 DEF IInv, RowsFit
  <2>13. UndisturbedFit'
    <3> SUFFICES ASSUME NEW t \in Sync, NEW o \in sync'[t].undisturbed
                 PROVE  Follows(t, o)'
        BY DEF UndisturbedFit
    <3>1. Follows(t, o)
      BY <2>2, <2>4 DEF IInv, UndisturbedFit, OnlySync
    <3>2. Rejects(t, o) => Rejects(t, o)'
      BY <1>1, <2>2, <2>4 DEF Rejects, Posted, OnlySync
    <3>3. sync'[t].rows = sync[t].rows /\ sync'[t].rejected = sync[t].rejected
      BY <2>2, <2>4 DEF OnlySync
    <3> QED BY <1>1, <2>5, <2>7, <3>1, <3>2, <3>3 DEF Follows
  <2> QED BY <2>8, <2>9, <2>10, <2>11, <2>12, <2>13 DEF IInv
<1> QED BY <1>2, <1>3

LEMMA RemoveRejectedKeepsInvariant ==
    ASSUME IInv, NEW s \in Sync, RemoveRejected(s)
    PROVE  IInv'
<1>1. UNCHANGED <<mesh, expired, connected, callbacks, changes, faults, inDoubt>>
  BY DEF RemoveRejected
<1>2. PICK chunk \in SUBSET sync[s].rejected :
         /\ table' = Removed(chunk)
         /\ sync' = [sync EXCEPT ![s] = [sync[s] EXCEPT !.rejected = @ \ chunk,
               !.pc = IF @ = "remove" /\ sync[s].rejected = chunk THEN "save" ELSE @]]
  BY DEF RemoveRejected, Become
<1>3. sync[s].pc = "remove" /\ sync[s] \in SyncState
  BY DEF RemoveRejected, IInv, TypeOK
<1> DEFINE state == [sync[s] EXCEPT !.rejected = @ \ chunk,
               !.pc = IF @ = "remove" /\ sync[s].rejected = chunk THEN "save" ELSE @]
<1>4. /\ state \in SyncState
      /\ state.pc = IF sync[s].rejected = chunk THEN "save" ELSE "remove"
      /\ state.rejected = sync[s].rejected \ chunk
      /\ state.snapshot = sync[s].snapshot /\ state.unanswered = sync[s].unanswered
      /\ state.rows = sync[s].rows /\ state.undisturbed = sync[s].undisturbed
      /\ state.pin = sync[s].pin /\ state.accepted = sync[s].accepted
  BY <1>3 DEF SyncState, SyncPC
<1>5. sync' \in [Sync -> SyncState] /\ OnlySync(s) /\ sync'[s] = state
  BY <1>2, <1>4 DEF OnlySync, IInv, TypeOK
<1> HIDE DEF state
<1>6. chunk \subseteq sync[s].rows /\ chunk \subseteq Order
  BY <1>2, <1>3 DEF IInv, LocalOK, SyncState
<1>7. /\ table' \in [Order -> Amount]
      /\ \A o \in chunk : table'[o] = 0
      /\ \A o \in Order \ chunk : table'[o] = table[o]
  BY <1>2, <1>6, MeshAssumption DEF Removed, IInv, TypeOK, Amount
<1>8. \A t \in HasSnapshot' : t \in HasSnapshot /\ sync'[t].snapshot = sync[t].snapshot
  BY <1>3, <1>4, <1>5 DEF HasSnapshot, OnlySync
<1>9. \A o : o \in MayHaveDeleted(Sync) \/ o \in chunk => o \in MayHaveDeleted(Sync)'
  <2>1. \A t \in Sync : sync[t].pc \in {"remove", "save"} =>
           sync'[t].pc \in {"remove", "save"} /\ sync'[t].rows = sync[t].rows
    BY <1>4, <1>5 DEF OnlySync
  <2> QED BY <1>3, <1>6, <2>1 DEF MayHaveDeleted
<1>10. Pending' = Pending
  BY <1>1 DEF Pending
<1>11. TypeOK'
  BY <1>1, <1>5, <1>7 DEF IInv, TypeOK
<1>12. EventsFit'
  BY <1>1 DEF IInv, EventsFit
<1>13. LocalOK'
  BY <1>3, <1>4, <1>5 DEF IInv, LocalOK, OnlySync
<1>14. NewsAgree'
  BY <1>1, <1>8 DEF IInv, NewsAgree
<1>15. RowsFit'
  <2> SUFFICES ASSUME NEW o \in Order \ (inDoubt \cup Pending \cup Ignored \cup expired)
               PROVE  \/ table'[o] = mesh[o]
                      \/ table'[o] = 0 /\ o \in MayHaveDeleted(Sync)'
      BY <1>1, <1>10 DEF RowsFit
  <2> QED BY <1>7, <1>9 DEF IInv, RowsFit
<1>16. UndisturbedFit'
  <2> SUFFICES ASSUME NEW t \in Sync, NEW o \in sync'[t].undisturbed
               PROVE  Follows(t, o)'
      BY DEF UndisturbedFit
  <2>1. Follows(t, o) /\ o \in Order
    BY <1>4, <1>5 DEF IInv, UndisturbedFit, OnlySync, TypeOK, SyncState
  <2>2. table'[o] \in {0, table[o]}
    BY <1>7, <2>1
  <2>3. Rejects(t, o) => Rejects(t, o)'
    <3>1. CASE t = s
      BY <1>3, <1>4, <1>5, <1>7, <2>1, <3>1 DEF Rejects
    <3>2. CASE t # s
      BY <1>1, <1>5, <2>2, <3>2 DEF Rejects, Posted, OnlySync
    <3> QED BY <3>1, <3>2
  <2>4. sync'[t].rows = sync[t].rows /\ sync'[t].rejected \subseteq sync[t].rejected
    BY <1>4, <1>5 DEF OnlySync
  <2> QED BY <1>1, <1>8, <1>10, <2>1, <2>2, <2>3, <2>4 DEF Follows
<1> QED BY <1>11, <1>12, <1>13, <1>14, <1>15, <1>16 DEF IInv

LEMMA SaveMeshOrdersKeepsInvariant ==
    ASSUME IInv, NEW s \in Sync, SaveMeshOrders(s)
    PROVE  IInv'
<1>1. UNCHANGED <<mesh, expired, connected, callbacks, changes, faults>>
  BY DEF SaveMeshOrders
<1>2. inDoubt' = inDoubt \ sync[s].undisturbed
  BY DEF SaveMeshOrders
<1>3. /\ sync[s].pc = "save" /\ sync[s] \in SyncState
      /\ s \in HasSnapshot
  BY DEF SaveMeshOrders, IInv, TypeOK, HasSnapshot
<1>4. sync' \in [Sync -> SyncState] /\ OnlySync(s) /\ sync'[s] = IdleSync
  BY Constants DEF SaveMeshOrders, Become, OnlySync, IInv, TypeOK
<1>5. /\ table' \in [Order -> Amount]
      /\ \A o \in Order :
            table'[o] = IF /\ sync[s].snapshot[o] # 0
                           /\ o \notin expired
                           /\ o \notin Ignored
                        THEN sync[s].snapshot[o]
                        ELSE table[o]
  <2>1. table' = Saved(FreshOf(sync[s].snapshot), sync[s].snapshot)
    BY DEF SaveMeshOrders
  <2> QED BY <1>3, <2>1 DEF Saved, FreshOf, SyncState, IInv, TypeOK
<1>6. \A t \in HasSnapshot' : t \in HasSnapshot /\ sync'[t] = sync[t]
  BY <1>4, Constants DEF HasSnapshot, OnlySync
<1>7. Pending' = Pending
  BY <1>1 DEF Pending
<1>8. TypeOK'
  BY <1>1, <1>2, <1>4, <1>5 DEF IInv, TypeOK
<1>9. EventsFit'
  BY <1>1 DEF IInv, EventsFit
<1>10. LocalOK'
  BY <1>4, Constants DEF IInv, LocalOK, OnlySync
<1>11. ASSUME NEW o \in sync[s].undisturbed PROVE Follows(s, o)
  BY <1>11 DEF IInv, UndisturbedFit
<1>12. NewsAgree'
  <2> SUFFICES ASSUME NEW o \in Order, o \notin inDoubt \/ o \in sync[s].undisturbed
               PROVE  /\ \A c, d \in Callback :
                           o \in DOMAIN callbacks[c] /\ o \in DOMAIN callbacks[d] => c = d
                      /\ \A c \in Callback :
                           o \in DOMAIN callbacks[c] => callbacks[c][o].amount = mesh[o]
                      /\ \A t \in HasSnapshot : sync[t].snapshot[o] = mesh[o]
      BY <1>1, <1>2, <1>6 DEF NewsAgree
  <2>1. CASE o \notin inDoubt
    BY <2>1 DEF IInv, NewsAgree
  <2>2. CASE o \in sync[s].undisturbed
    BY <1>11, <2>2, PendingIs DEF Follows
  <2> QED BY <2>1, <2>2
<1>13. RowsFit'
  <2> SUFFICES ASSUME NEW o \in Order \ (Pending \cup Ignored \cup expired),
                      o \notin inDoubt \/ o \in sync[s].undisturbed
               PROVE  table'[o] = mesh[o]
      BY <1>1, <1>2, <1>7 DEF RowsFit
  <2>1. CASE o \in sync[s].undisturbed
    BY <1>3, <1>5, <1>11, <2>1 DEF Follows, Rejects
  <2>2. CASE o \notin inDoubt
    <3>1. sync[s].snapshot[o] = mesh[o]
      BY <1>3, <2>2 DEF IInv, NewsAgree
    <3>2. table[o] \in {0, mesh[o]}
      BY <2>2 DEF IInv, RowsFit
    <3> QED BY <1>5, <3>1, <3>2
  <2> QED BY <2>1, <2>2
<1>14. UndisturbedFit'
  <2> SUFFICES ASSUME NEW t \in Sync, NEW o \in sync'[t].undisturbed
               PROVE  Follows(t, o)'
      BY DEF UndisturbedFit
  <2>1. t # s /\ sync'[t] = sync[t]
    BY <1>4, Constants DEF OnlySync
  <2>2. Follows(t, o) /\ o \in Order
    BY <2>1 DEF IInv, UndisturbedFit, TypeOK, SyncState
  <2>3. sync[s].snapshot[o] = mesh[o]
    BY <1>3, <2>2 DEF Follows
  <2>4. table'[o] \in {table[o], mesh[o]}
    BY <1>5, <2>2, <2>3
  <2>5. mesh[o] = 0 => table'[o] = table[o]
    BY <1>5, <2>2, <2>3
  <2>6. mesh[o] = 0 /\ Rejects(t, o) => Rejects(t, o)'
    BY <2>1, <2>5 DEF Rejects, Posted
  <2> QED BY <1>1, <1>6, <1>7, <2>1, <2>2, <2>4, <2>6 DEF Follows
<1> QED BY <1>8, <1>9, <1>10, <1>12, <1>13, <1>14 DEF IInv

-----------------------------------------------------------------------------
(***************************************************************************)
(* News of Mesh: its orders change, of themselves or because a sync posts  *)
(* orders to it, and a callback receives the events if the connection is up. *)
(***************************************************************************)
IsNewsOf(c, changed) ==
    /\ callbacks[c] = NoEvents
    /\ DOMAIN callbacks'[c] = changed
    /\ \A o \in changed :
          /\ callbacks'[c][o].amount = mesh'[o]
          /\ CategoryOf(callbacks'[c][o]) = "removed" <=> mesh'[o] = 0

NewsArrive(changed) ==
    /\ mesh' \in [Order -> Amount]
    /\ changed \subseteq Order
    /\ \A o \in Order : o \in changed <=> mesh'[o] # mesh[o]
    /\ callbacks' \in [Callback -> Batches]
    /\ \/ callbacks' = callbacks /\ changed \subseteq inDoubt'
       \/ \E c \in Callback :
             /\ IsNewsOf(c, changed)
             /\ \A d \in Callback \ {c} : callbacks'[d] = callbacks[d]
    /\ inDoubt \subseteq inDoubt' /\ inDoubt' \subseteq Order
    /\ changed \cap Pending \subseteq inDoubt'
    /\ HasSnapshot # {} => changed \subseteq inDoubt'
    /\ changes' \in 0 .. MaxChanges

Disturbs(local, changed) ==
    \/ changed = {} /\ sync' = local
    \/ sync' = [s \in Sync |-> [local[s] EXCEPT !.undisturbed = @ \ changed]]

LEMMA ReportedFits ==
    ASSUME NEW before, NEW after, NEW event,
           event.endState \in Reported(before, after)
    PROVE  CategoryOf(event) = "removed" <=> after = 0
BY DEF Reported, CategoryOf, RemovedState

LEMMA NotifyBringsNews ==
    ASSUME TypeOK, NEW S \in SUBSET Order, NEW news \in [S -> Amount], NEW local,
           Notify(news, local)
    PROVE  \E changed \in SUBSET S :
              /\ NewsArrive(changed)
              /\ \A o \in S : mesh'[o] = news[o]
              /\ Disturbs(local, changed)
<1> DEFINE changed == {o \in S : news[o] # mesh[o]}
<1>1. changed = {o \in DOMAIN news : news[o] # mesh[o]}
  OBVIOUS
<1>2. CASE changed = {}
  <2>1. sync' = local /\ UNCHANGED <<mesh, callbacks, changes, inDoubt>>
    BY <1>1, <1>2 DEF Notify
  <2>2. NewsArrive(changed)
    BY <1>2, <2>1 DEF NewsArrive, TypeOK
  <2> QED BY <1>2, <2>1, <2>2 DEF Disturbs
<1>3. CASE changed # {}
  <2>1. /\ changes < MaxChanges /\ changes' = changes + 1
        /\ mesh' = [o \in Order |-> IF o \in changed THEN news[o] ELSE mesh[o]]
        /\ IF connected
           THEN \E c \in FreeCallback : \E batch \in [changed -> Event] :
                   /\ \A o \in changed :
                         /\ batch[o].amount = news[o]
                         /\ batch[o].endState \in Reported(mesh[o], news[o])
                   /\ callbacks' = [callbacks EXCEPT ![c] = batch]
           ELSE UNCHANGED callbacks
        /\ inDoubt' = inDoubt \cup
              {o \in changed : ~ connected \/ o \in Pending \/ HasSnapshot # {}}
        /\ sync' = [s \in Sync |-> [local[s] EXCEPT !.undisturbed = @ \ changed]]
    BY <1>1, <1>3 DEF Notify
  <2> HIDE DEF changed
  <2>2. changed \subseteq S /\ \A o \in S : o \in changed <=> news[o] # mesh[o]
    BY DEF changed
  <2>3. /\ mesh' \in [Order -> Amount]
        /\ \A o \in Order : o \in changed <=> mesh'[o] # mesh[o]
        /\ \A o \in S : mesh'[o] = news[o]
    BY <2>1, <2>2 DEF TypeOK
  <2>4. changes' \in 0 .. MaxChanges
    BY <2>1, OrderWatcherAssumption DEF TypeOK
  <2>5. /\ callbacks' \in [Callback -> Batches]
        /\ \/ callbacks' = callbacks /\ changed \subseteq inDoubt'
           \/ \E c \in Callback :
                 /\ IsNewsOf(c, changed)
                 /\ \A d \in Callback \ {c} : callbacks'[d] = callbacks[d]
    <3>1. CASE connected
      <4>1. PICK c \in FreeCallback : \E batch \in [changed -> Event] :
                   /\ \A o \in changed :
                         /\ batch[o].amount = news[o]
                         /\ batch[o].endState \in Reported(mesh[o], news[o])
                   /\ callbacks' = [callbacks EXCEPT ![c] = batch]
        BY <2>1, <3>1
      <4>2. PICK batch \in [changed -> Event] :
                   /\ \A o \in changed :
                         /\ batch[o].amount = news[o]
                         /\ batch[o].endState \in Reported(mesh[o], news[o])
                   /\ callbacks' = [callbacks EXCEPT ![c] = batch]
        BY <4>1
      <4>3. c \in Callback /\ callbacks[c] = NoEvents
        BY DEF FreeCallback
      <4>4. batch \in Batches
        BY <2>2 DEF Batches
      <4>5. \A o \in changed : CategoryOf(batch[o]) = "removed" <=> news[o] = 0
        BY <4>2, ReportedFits
      <4>6. /\ callbacks' \in [Callback -> Batches] /\ callbacks'[c] = batch
            /\ \A d \in Callback \ {c} : callbacks'[d] = callbacks[d]
        BY <4>2, <4>3, <4>4 DEF TypeOK
      <4>7. IsNewsOf(c, changed)
        BY <2>2, <2>3, <4>2, <4>3, <4>5, <4>6 DEF IsNewsOf
      <4> QED BY <4>3, <4>6, <4>7
    <3>2. CASE ~ connected
      BY <2>1, <3>2 DEF TypeOK
    <3> QED BY <3>1, <3>2
  <2>6. /\ inDoubt \subseteq inDoubt' /\ inDoubt' \subseteq Order
        /\ changed \cap Pending \subseteq inDoubt'
        /\ HasSnapshot # {} => changed \subseteq inDoubt'
    BY <2>1, <2>2 DEF TypeOK
  <2>7. NewsArrive(changed)
    BY <2>2, <2>3, <2>4, <2>5, <2>6 DEF NewsArrive
  <2> QED BY <2>1, <2>2, <2>3, <2>7 DEF Disturbs
<1> QED BY <1>2, <1>3

\* What is left to show of a step that brings news: what its sync has learnt.
LEMMA NewsKeepInvariant ==
    ASSUME IInv, NEW changed, NewsArrive(changed), UNCHANGED <<table, expired>>,
           TypeOK', LocalOK',
           HasSnapshot' = HasSnapshot,
           \A t \in Sync :
              /\ sync'[t].rows = sync[t].rows
              /\ sync'[t].snapshot = sync[t].snapshot
              /\ sync'[t].undisturbed = sync[t].undisturbed \ changed
              /\ sync[t].pc \in {"remove", "save"} => sync'[t].pc = sync[t].pc,
           \A t \in Sync : \A o \in sync'[t].undisturbed :
              /\ o \in sync[t].rows /\ mesh[o] = 0 => Rejects(t, o)'
              /\ faults' = 0 /\ o \in sync'[t].rejected => mesh[o] = 0 \/ o \in expired
    PROVE  IInv'
<1>1. ASSUME NEW c \in Callback, NEW o \in DOMAIN callbacks'[c]
      PROVE  \/ o \in DOMAIN callbacks[c] /\ callbacks'[c] = callbacks[c]
             \/ o \in changed /\ IsNewsOf(c, changed)
  BY <1>1 DEF NewsArrive, IsNewsOf
<1>2. \A c \in Callback : DOMAIN callbacks[c] \subseteq DOMAIN callbacks'[c]
  BY Constants DEF NewsArrive, IsNewsOf
<1>3. /\ Pending \subseteq Pending'
      /\ Pending' \subseteq Pending \cup changed
      /\ changed \subseteq Pending' \cup inDoubt'
  <2>1. Pending \subseteq Pending' /\ Pending' \subseteq Pending \cup changed
    BY <1>1, <1>2 DEF Pending
  <2>2. changed \subseteq Pending' \cup inDoubt'
    BY DEF NewsArrive, IsNewsOf, Pending
  <2> QED BY <2>1, <2>2
<1>4. \A o \in Order \ changed : mesh'[o] = mesh[o]
  BY DEF NewsArrive
<1>5. EventsFit'
  BY <1>1 DEF IInv, EventsFit, IsNewsOf
<1>6. NewsAgree'
  <2> SUFFICES ASSUME NEW o \in Order, o \notin inDoubt'
               PROVE  /\ \A c, d \in Callback :
                           o \in DOMAIN callbacks'[c] /\ o \in DOMAIN callbacks'[d] => c = d
                      /\ \A c \in Callback :
                           o \in DOMAIN callbacks'[c] => callbacks'[c][o].amount = mesh'[o]
                      /\ \A t \in HasSnapshot : sync'[t].snapshot[o] = mesh'[o]
      BY DEF NewsAgree
  <2>1. o \notin inDoubt
    BY DEF NewsArrive
  <2>2. CASE o \in changed
    <3>1. o \notin Pending /\ HasSnapshot = {}
      BY <2>2 DEF NewsArrive
    <3>2. PICK c \in Callback :
             /\ IsNewsOf(c, changed)
             /\ \A d \in Callback \ {c} : callbacks'[d] = callbacks[d]
      BY <2>2 DEF NewsArrive
    <3> QED BY <2>2, <3>1, <3>2, PendingIs DEF IsNewsOf
  <2>3. CASE o \notin changed
    <3>1. mesh'[o] = mesh[o]
      BY <1>4, <2>3
    <3>2. \A c \in Callback : o \in DOMAIN callbacks'[c] =>
             o \in DOMAIN callbacks[c] /\ callbacks'[c] = callbacks[c]
      BY <1>1, <2>3
    <3>3. \A t \in HasSnapshot : sync'[t].snapshot[o] = sync[t].snapshot[o]
      BY DEF HasSnapshot
    <3> QED BY <2>1, <3>1, <3>2, <3>3 DEF IInv, NewsAgree
  <2> QED BY <2>2, <2>3
<1>7. RowsFit'
  <2> SUFFICES ASSUME NEW o \in Order,
                      o \notin inDoubt' \cup Pending' \cup Ignored \cup expired,
                      table[o] # mesh'[o]
               PROVE  table[o] = 0 /\ o \in MayHaveDeleted(Sync)'
      BY DEF RowsFit
  <2>1. o \notin changed /\ o \notin Pending /\ o \notin inDoubt
    BY <1>3 DEF NewsArrive
  <2>2. table[o] = 0 /\ o \in MayHaveDeleted(Sync)
    BY <1>4, <2>1 DEF IInv, RowsFit
  <2> QED BY <2>2 DEF MayHaveDeleted
<1>8. UndisturbedFit'
  <2> SUFFICES ASSUME NEW t \in Sync, NEW o \in sync'[t].undisturbed
               PROVE  Follows(t, o)'
      BY DEF UndisturbedFit
  <2>1. o \in sync[t].undisturbed /\ o \notin changed
    OBVIOUS
  <2>2. Follows(t, o) /\ o \in Order
    BY <2>1 DEF IInv, UndisturbedFit, TypeOK, SyncState
  <2>3. mesh'[o] = mesh[o]
    BY <1>4, <2>1, <2>2
  <2>4. o \notin Pending'
    BY <1>3, <2>1, <2>2 DEF Follows
  <2>5. \A u \in HasSnapshot : sync'[u].snapshot[o] = mesh'[o]
    BY <2>2, <2>3 DEF Follows, HasSnapshot
  <2> QED BY <2>2, <2>3, <2>4, <2>5 DEF Follows
<1> QED BY <1>5, <1>6, <1>7, <1>8 DEF IInv

\* The news that arrive during a step take the changed orders from each sync's
\* undisturbed ones.
LEMMA UndisturbedOnly ==
    ASSUME NEW local \in [Sync -> SyncState], NEW changed, Disturbs(local, changed)
    PROVE  /\ sync' \in [Sync -> SyncState]
           /\ \A t \in Sync :
                 /\ sync'[t].undisturbed = local[t].undisturbed \ changed
                 /\ sync'[t].pc = local[t].pc /\ sync'[t].rows = local[t].rows
                 /\ sync'[t].snapshot = local[t].snapshot /\ sync'[t].pin = local[t].pin
                 /\ sync'[t].unanswered = local[t].unanswered
                 /\ sync'[t].accepted = local[t].accepted
                 /\ sync'[t].rejected = local[t].rejected
<1>1. CASE changed = {} /\ sync' = local
  <2>1. \A t \in Sync : local[t].undisturbed = local[t].undisturbed \ changed
    BY <1>1
  <2> QED BY <1>1, <2>1
<1>2. CASE sync' = [s \in Sync |-> [local[s] EXCEPT !.undisturbed = @ \ changed]]
  <2>1. ASSUME NEW t \in Sync
        PROVE  /\ sync'[t] \in SyncState
               /\ sync'[t] = [local[t] EXCEPT !.undisturbed = @ \ changed]
               /\ local[t] \in SyncState
    BY <1>2 DEF SyncState
  <2>2. sync' \in [Sync -> SyncState]
    BY <1>2, <2>1
  <2> QED BY <2>1, <2>2 DEF SyncState
<1> QED BY <1>1, <1>2 DEF Disturbs

LEMMA MeshChangeKeepsInvariant ==
    ASSUME IInv, MeshChange
    PROVE  IInv'
<1>1. UNCHANGED <<table, expired, connected, faults>>
  BY DEF MeshChange
<1>2. PICK S \in SUBSET Order : \E news \in [S -> Amount] : Notify(news, sync)
  BY DEF MeshChange
<1>3. PICK news \in [S -> Amount] : Notify(news, sync)
  BY <1>2
<1>4. TypeOK
  BY DEF IInv
<1>5. PICK changed \in SUBSET S :
         NewsArrive(changed) /\ Disturbs(sync, changed)
  BY <1>3, <1>4, NotifyBringsNews
<1>6. /\ sync' \in [Sync -> SyncState]
      /\ \A t \in Sync :
            /\ sync'[t].undisturbed = sync[t].undisturbed \ changed
            /\ sync'[t].pc = sync[t].pc /\ sync'[t].rows = sync[t].rows
            /\ sync'[t].snapshot = sync[t].snapshot /\ sync'[t].pin = sync[t].pin
            /\ sync'[t].unanswered = sync[t].unanswered
            /\ sync'[t].accepted = sync[t].accepted
            /\ sync'[t].rejected = sync[t].rejected
  <2>1. sync \in [Sync -> SyncState]
    BY <1>4 DEF TypeOK
  <2> QED BY <1>5, <2>1, UndisturbedOnly
<1>7. TypeOK'
  BY <1>1, <1>4, <1>5, <1>6 DEF NewsArrive, TypeOK
<1>8. LocalOK'
  BY <1>6 DEF IInv, LocalOK
<1>9. HasSnapshot' = HasSnapshot
  BY <1>6 DEF HasSnapshot
<1>10. ASSUME NEW t \in Sync, NEW o \in sync'[t].undisturbed
       PROVE  /\ o \in sync[t].rows /\ mesh[o] = 0 => Rejects(t, o)'
              /\ faults' = 0 /\ o \in sync'[t].rejected => mesh[o] = 0 \/ o \in expired
  <2>1. Follows(t, o)
    BY <1>6, <1>10 DEF IInv, UndisturbedFit
  <2>2. Rejects(t, o) => Rejects(t, o)'
    BY <1>1, <1>6 DEF Rejects, Posted
  <2> QED BY <1>1, <1>6, <2>1, <2>2 DEF Follows
<1> QED BY <1>1, <1>5, <1>6, <1>7, <1>8, <1>9, <1>10, NewsKeepInvariant

\* What a sync learns from one of the two posts: of the posted orders that Mesh
\* does not watch, S, it hears which ones it has not begun to watch now.
Learns(s, class, local, S, news) ==
    /\ Notify(news, local)
    /\ \A t \in Sync \ {s} : local[t] = sync[t]
    /\ local[s].rows = sync[s].rows /\ local[s].snapshot = sync[s].snapshot
    /\ local[s].pin = sync[s].pin /\ local[s].undisturbed = sync[s].undisturbed
    /\ local[s].unanswered = sync[s].unanswered \ {class}
    /\ local[s].pc = IF local[s].unanswered = {} THEN "remove" ELSE "post"
    /\ local[s].accepted \subseteq sync[s].rows
    /\ sync[s].rejected \subseteq local[s].rejected
    /\ local[s].rejected \subseteq sync[s].rows
    /\ S = {o \in Posted(s, class) : mesh[o] = 0}
    /\ \A o \in S : news[o] = 0 => o \in local[s].rejected
    /\ faults' = 0 => \A o \in local[s].rejected \ sync[s].rejected :
          \/ o \in expired
          \/ o \in S /\ news[o] = 0
    /\ faults' = 0 => faults = 0
    /\ faults' \in 0 .. MaxFaults

LEMMA PostLearns ==
    ASSUME TypeOK, LocalOK, NEW s \in Sync, NEW class \in Classes, Post(s, class)
    PROVE  \E local \in [Sync -> SyncState] : \E S \in SUBSET Order :
              \E news \in [S -> Amount] : Learns(s, class, local, S, news)
<1> DEFINE posted == Posted(s, class)
           S == {o \in posted : mesh[o] = 0}
<1>1. sync[s] \in SyncState /\ sync[s].pc = "post" /\ class \in sync[s].unanswered
  BY DEF Post, TypeOK
<1>2. posted \subseteq sync[s].rows /\ sync[s].rows \subseteq Order
  BY <1>1 DEF Posted, LocalOK, SyncState
<1>3. PICK news \in [S -> Amount] : \E lost \in SUBSET posted :
         LET watched == {o \in posted : mesh[o] # 0}
                        \cup {o \in DOMAIN news : news[o] # 0}
         IN /\ lost # {} => UsesHttp(posted) /\ faults < MaxFaults
            /\ faults' = IF lost = {} THEN faults ELSE faults + 1
            /\ Notify(news, [sync EXCEPT ![s] =
                  Answered(s, class, ValidationResults(posted, watched, lost))])
  BY DEF Post
<1> DEFINE watched == {o \in posted : mesh[o] # 0} \cup {o \in DOMAIN news : news[o] # 0}
<1>4. PICK lost \in SUBSET posted :
         /\ lost # {} => UsesHttp(posted) /\ faults < MaxFaults
         /\ faults' = IF lost = {} THEN faults ELSE faults + 1
         /\ Notify(news, [sync EXCEPT ![s] =
               Answered(s, class, ValidationResults(posted, watched, lost))])
  BY <1>3
<1>5. watched = {o \in posted : mesh[o] # 0 \/ news[o] # 0}
  <2>1. watched = {o \in posted : mesh[o] # 0} \cup {o \in S : news[o] # 0}
    OBVIOUS
  <2> QED BY <2>1
<1> HIDE DEF watched
<1> DEFINE results == ValidationResults(posted, watched, lost)
<1>6. /\ results.accepted \subseteq posted /\ results.rejected \subseteq posted
      /\ posted \ watched \subseteq results.rejected
      /\ lost = {} => results.rejected = posted \ watched
  BY DEF ValidationResults
<1> HIDE DEF results, posted
<1> DEFINE state == Answered(s, class, results)
<1>7. /\ state \in SyncState
      /\ state.rows = sync[s].rows /\ state.snapshot = sync[s].snapshot
      /\ state.pin = sync[s].pin /\ state.undisturbed = sync[s].undisturbed
      /\ state.unanswered = sync[s].unanswered \ {class}
      /\ state.pc = IF state.unanswered = {} THEN "remove" ELSE "post"
      /\ state.accepted = sync[s].accepted \cup results.accepted
      /\ state.rejected \subseteq sync[s].rejected \cup results.rejected
                               \cup (state.accepted \cap expired)
      /\ sync[s].rejected \cup results.rejected \subseteq state.rejected
  <2>1. /\ sync[s].accepted \subseteq Order /\ sync[s].rejected \subseteq Order
        /\ results.accepted \subseteq Order /\ results.rejected \subseteq Order
    BY <1>1, <1>2, <1>6 DEF SyncState
  <2> QED BY <1>1, <2>1 DEF Answered, SyncState, SyncPC
<1> HIDE DEF state
<1> DEFINE local == [sync EXCEPT ![s] = state]
<1>8. /\ local \in [Sync -> SyncState] /\ local[s] = state
      /\ \A t \in Sync \ {s} : local[t] = sync[t]
  BY <1>7 DEF TypeOK
<1>9. Notify(news, local)
  BY <1>4 DEF state, results
<1> HIDE DEF local
<1>10. S \in SUBSET Order /\ S = {o \in Posted(s, class) : mesh[o] = 0}
  BY <1>2 DEF posted
<1>11. \A o \in S : news[o] = 0 => o \in state.rejected
  BY <1>5, <1>6, <1>7
<1>12. faults' \in 0 .. MaxFaults /\ (faults' = 0 => faults = 0 /\ lost = {})
  BY <1>4, OrderWatcherAssumption DEF TypeOK
<1>13. faults' = 0 => \A o \in state.rejected \ sync[s].rejected :
          o \in expired \/ (o \in S /\ news[o] = 0)
  BY <1>5, <1>6, <1>7, <1>12
<1>14. /\ state.accepted \subseteq sync[s].rows
       /\ state.rejected \subseteq sync[s].rows
  BY <1>1, <1>2, <1>6, <1>7 DEF LocalOK
<1> HIDE DEF S
<1>15. Learns(s, class, local, S, news)
  BY <1>7, <1>8, <1>9, <1>10, <1>11, <1>12, <1>13, <1>14 DEF Learns
<1> QED BY <1>8, <1>10, <1>15

LEMMA PostKeepsInvariant ==
    ASSUME IInv, NEW s \in Sync, NEW class \in Classes, Post(s, class)
    PROVE  IInv'
<1> USE DEF IInv
<1>1. UNCHANGED <<table, expired, connected>> /\ sync[s].pc = "post"
  BY DEF Post
<1>2. PICK local \in [Sync -> SyncState] : \E S \in SUBSET Order :
         \E news \in [S -> Amount] : Learns(s, class, local, S, news)
  BY PostLearns
<1>3. PICK S \in SUBSET Order : \E news \in [S -> Amount] : Learns(s, class, local, S, news)
  BY <1>2
<1>4. PICK news \in [S -> Amount] : Learns(s, class, local, S, news)
  BY <1>3
<1>5. PICK changed \in SUBSET S :
              /\ NewsArrive(changed)
              /\ \A o \in S : mesh'[o] = news[o]
              /\ Disturbs(local, changed)
  BY <1>4, NotifyBringsNews DEF Learns
<1>6. /\ sync' \in [Sync -> SyncState]
      /\ \A t \in Sync :
            /\ sync'[t].undisturbed = local[t].undisturbed \ changed
            /\ sync'[t].pc = local[t].pc /\ sync'[t].rows = local[t].rows
            /\ sync'[t].snapshot = local[t].snapshot /\ sync'[t].pin = local[t].pin
            /\ sync'[t].unanswered = local[t].unanswered
            /\ sync'[t].accepted = local[t].accepted
            /\ sync'[t].rejected = local[t].rejected
  BY <1>5, UndisturbedOnly
<1>7. /\ sync'[s].pc = IF sync'[s].unanswered = {} THEN "remove" ELSE "post"
      /\ sync'[s].unanswered = sync[s].unanswered \ {class}
      /\ sync'[s].pin = sync[s].pin
  BY <1>4, <1>6 DEF Learns
<1>8. \A t \in Sync :
         /\ sync'[t].rows = sync[t].rows
         /\ sync'[t].snapshot = sync[t].snapshot
         /\ sync'[t].undisturbed = sync[t].undisturbed \ changed
         /\ sync[t].pc \in {"remove", "save"} => sync'[t].pc = sync[t].pc
  BY <1>1, <1>4, <1>6 DEF Learns
<1>9. HasSnapshot' = HasSnapshot
  BY <1>1, <1>4, <1>6 DEF HasSnapshot, Learns
<1>10. TypeOK'
  BY <1>1, <1>4, <1>5, <1>6 DEF NewsArrive, TypeOK, Learns
<1>11. LocalOK'
  <2>1. ASSUME NEW t \in Sync \ {s}
        PROVE  /\ sync'[t].pc = sync[t].pc /\ sync'[t].unanswered = sync[t].unanswered
               /\ sync'[t].pin = sync[t].pin /\ sync'[t].rows = sync[t].rows
               /\ sync'[t].accepted = sync[t].accepted
               /\ sync'[t].rejected = sync[t].rejected
               /\ sync'[t].undisturbed \subseteq sync[t].undisturbed
    BY <1>4, <1>6 DEF Learns
  <2>2. sync'[s].accepted \subseteq sync[s].rows /\ sync'[s].rejected \subseteq sync[s].rows
    BY <1>4, <1>6 DEF Learns
  <2>3. sync'[s].pc \in {"post", "remove"} /\ (sync'[s].unanswered # {} => sync'[s].pc = "post")
    BY <1>7
  <2>4. sync[s].pin \subseteq sync[s].rows
    BY DEF LocalOK
  <2> QED BY <1>7, <1>8, <2>1, <2>2, <2>3, <2>4 DEF LocalOK
<1>12. ASSUME NEW t \in Sync, NEW o \in sync'[t].undisturbed
       PROVE  /\ o \in sync[t].rows /\ mesh[o] = 0 => Rejects(t, o)'
              /\ faults' = 0 /\ o \in sync'[t].rejected => mesh[o] = 0 \/ o \in expired
  <2>1. Follows(t, o) /\ o \notin changed
    BY <1>8, <1>12 DEF UndisturbedFit
  <2>2. CASE t # s
    <3>1. /\ sync'[t].pc = sync[t].pc /\ sync'[t].unanswered = sync[t].unanswered
          /\ sync'[t].rows = sync[t].rows /\ sync'[t].pin = sync[t].pin
          /\ sync'[t].rejected = sync[t].rejected
      BY <1>4, <1>6, <2>2 DEF Learns
    <3>2. Rejects(t, o) => Rejects(t, o)'
      BY <1>1, <3>1 DEF Rejects, Posted
    <3> QED BY <1>1, <1>4, <2>1, <3>1, <3>2 DEF Follows, Learns
  <2>3. CASE t = s
    <3>1. ASSUME o \in sync[s].rows, mesh[o] = 0
          PROVE  Rejects(s, o)'
      <4>1. ASSUME NEW k \in Classes \ sync'[s].unanswered, o \in Posted(s, k)
            PROVE  o \in sync'[s].rejected
        <5>1. CASE k = class
          <6>1. o \in S
            BY <1>4, <3>1, <4>1, <5>1 DEF Learns
          <6>2. news[o] = 0
            BY <1>5, <2>1, <3>1, <6>1 DEF NewsArrive
          <6> QED BY <1>4, <1>6, <6>1, <6>2 DEF Learns
        <5>2. CASE k # class
          <6>1. k \in Classes \ sync[s].unanswered
            BY <1>7, <4>1, <5>2
          <6>2. o \in sync[s].rejected
            BY <1>1, <2>1, <2>3, <3>1, <4>1, <6>1 DEF Follows, Rejects
          <6> QED BY <1>4, <1>6, <6>2 DEF Learns
        <5> QED BY <5>1, <5>2
      <4>2. \A k \in Classes : Posted(s, k)' = Posted(s, k)
        BY <1>7, <1>8 DEF Posted
      <4>3. \E k \in Classes : o \in Posted(s, k)
        BY <3>1 DEF Posted, Classes
      <4>4. sync'[s].pc = "remove" => o \in sync'[s].rejected
        BY <1>7, <4>1, <4>3
      <4>5. sync'[s].pc # "save"
        BY <1>7
      <4> QED BY <4>1, <4>2, <4>4, <4>5 DEF Rejects
    <3>2. ASSUME faults' = 0, o \in sync'[s].rejected
          PROVE  mesh[o] = 0 \/ o \in expired
      <4>1. CASE o \in sync[s].rejected
        BY <1>4, <2>1, <2>3, <3>2, <4>1 DEF Follows, Learns
      <4>2. CASE o \notin sync[s].rejected
        BY <1>4, <1>6, <3>2, <4>2 DEF Learns
      <4> QED BY <4>1, <4>2
    <3> QED BY <2>3, <3>1, <3>2
  <2> QED BY <2>2, <2>3
<1> QED BY <1>1, <1>5, <1>8, <1>9, <1>10, <1>11, <1>12, NewsKeepInvariant

-----------------------------------------------------------------------------
LEMMA NextKeepsInvariant ==
    ASSUME IInv, [Next]_vars
    PROVE  IInv'
<1>1. CASE MeshChange
  BY <1>1, MeshChangeKeepsInvariant
<1>2. CASE \/ \E o \in MayExpire : Expire(o)
           \/ Disconnect
           \/ Crash
           \/ Connect
           \/ \E c \in Callback : CallbackFails(c)
           \/ \E s \in Sync : SyncFails(s)
  BY <1>2, LossSteps, LossKeepsInvariant
<1>3. ASSUME NEW c \in Callback, HandleEvents(c) PROVE IInv'
  BY <1>3, HandleEventsKeepsInvariant
<1>4. ASSUME NEW s \in Sync, SyncStep(s) PROVE IInv'
  BY <1>4, FindKeepsInvariant, GetOrdersKeepsInvariant, PostKeepsInvariant,
     RemoveRejectedKeepsInvariant, SaveMeshOrdersKeepsInvariant DEF SyncStep
<1>5. CASE UNCHANGED vars
  <2>1. Loss /\ TypeOK'
    BY <1>5 DEF vars, Loss, IInv, TypeOK
  <2> QED BY <2>1, LossKeepsInvariant
<1> QED BY <1>1, <1>2, <1>3, <1>4, <1>5 DEF Next

\* However many syncs and callbacks overlap, and whatever fails, the watcher's
\* state keeps its type, the news on their way and the table agree with Mesh
\* for every order out of doubt, and a sync learns of every undisturbed order
\* whether Mesh watches it.
THEOREM NewsStayConsistent == Spec => []IInv
<1>1. Init => IInv
  BY InitInvariant
<1>2. IInv /\ [Next]_vars => IInv'
  BY NextKeepsInvariant
<1> QED BY <1>1, <1>2, PTL DEF Spec

\* Type correctness; a sync posts, and removes, only rows that it has found
\* (syncOrderbookAsync).
THEOREM SyncsAreAboutRowsFound == Spec => []TypeInvariant
<1>1. IInv => TypeInvariant
  BY DEF IInv, LocalOK, TypeInvariant
<1> QED BY <1>1, NewsStayConsistent, PTL

\* When no sync is running, every order that is out of doubt, fresh, followed
\* and without news on its way has in the table the amount that Mesh gives it
\* (_onOrderLifeCycleEventAsync and syncOrderbookAsync together).
THEOREM TableMirrorsMesh == Spec => []MirrorsMesh
<1>1. IInv => MirrorsMesh
  <2> SUFFICES ASSUME IInv, Running = {}, NEW o \in Order, ~ Undecided(o)
               PROVE  table[o] = mesh[o]
      BY DEF MirrorsMesh
  <2>1. o \notin MayHaveDeleted(Sync)
    BY MayHaveDeletedIs DEF Running
  <2> QED BY <2>1 DEF IInv, RowsFit, Undecided
<1> QED BY <1>1, NewsStayConsistent, PTL

\* While nothing fails, the row of a fresh order that Mesh watches is deleted
\* only on overtaken news: a callback deletes it because other news of the
\* order overlapped, a sync because the order changed after the sync began.
THEOREM LiveRowsAreDeletedOnlyOnOvertakenNews == Spec => LiveRowsAreKept
<1> DEFINE Kept(o) ==
        table[o] # 0 /\ table'[o] = 0 /\ mesh[o] # 0 /\ faults = 0 =>
            \/ callbacks' # callbacks /\ o \in inDoubt
            \/ \E s \in Sync : sync'[s] # sync[s] /\ o \notin sync[s].undisturbed
<1>1. ASSUME IInv, Next PROVE \A o \in Order \ expired : Kept(o)
  <2> SUFFICES ASSUME NEW o \in Order \ expired,
                      table[o] # 0, table'[o] = 0, mesh[o] # 0, faults = 0
               PROVE  \/ callbacks' # callbacks /\ o \in inDoubt
                      \/ \E s \in Sync : sync'[s] # sync[s] /\ o \notin sync[s].undisturbed
      OBVIOUS
  <2>1. ASSUME NEW c \in Callback, HandleEvents(c)
        PROVE  callbacks' # callbacks /\ o \in inDoubt
    <3>1. PICK S \in SUBSET DOMAIN callbacks[c] : HandlesSome(c, S)
      BY <1>1, <2>1, HandleEventsHandlesSome DEF IInv
    <3>2. o \in S /\ callbacks[c][o].amount = 0
      BY <1>1, <3>1, EventIsWritten
    <3>3. o \in inDoubt
      BY <1>1, <3>2 DEF IInv, NewsAgree
    <3>4. o \in DOMAIN callbacks[c] /\ callbacks[c] \in Batches
      BY <1>1, <3>2 DEF IInv, TypeOK
    <3>5. o \notin DOMAIN callbacks'[c]
      <4> DEFINE rest == Restrict(callbacks[c], DOMAIN callbacks[c] \ S)
      <4>1. callbacks' = [callbacks EXCEPT ![c] = rest] /\ callbacks \in [Callback -> Batches]
        BY <1>1, <3>1 DEF HandlesSome, IInv, TypeOK
      <4>2. o \notin DOMAIN rest
        <5>1. DOMAIN rest = DOMAIN callbacks[c] \ S
          BY <3>4, RestrictedBatch
        <5> QED BY <3>2, <5>1
      <4> HIDE DEF rest
      <4> QED BY <4>1, <4>2
    <3> QED BY <3>3, <3>4, <3>5
  <2>2. ASSUME NEW s \in Sync, RemoveRejected(s)
        PROVE  sync'[s] # sync[s] /\ o \notin sync[s].undisturbed
    <3>1. PICK chunk \in SUBSET sync[s].rejected :
             /\ table' = Removed(chunk)
             /\ sync' = [sync EXCEPT ![s] = [sync[s] EXCEPT !.rejected = @ \ chunk,
                   !.pc = IF @ = "remove" /\ sync[s].rejected = chunk THEN "save" ELSE @]]
      BY <2>2 DEF RemoveRejected, Become
    <3>2. o \in chunk
      BY <3>1 DEF Removed
    <3>3. sync[s] \in SyncState /\ sync \in [Sync -> SyncState]
      BY <1>1 DEF IInv, TypeOK
    <3>4. sync'[s].rejected = sync[s].rejected \ chunk
      BY <3>1, <3>3 DEF SyncState
    <3>5. o \in sync[s].undisturbed => Follows(s, o)
      BY <1>1 DEF IInv, UndisturbedFit
    <3> QED BY <3>1, <3>2, <3>4, <3>5 DEF Follows
  <2>3. ASSUME NEW s \in Sync, SaveMeshOrders(s)
        PROVE  FALSE
    <3>1. table' = Saved(FreshOf(sync[s].snapshot), sync[s].snapshot)
      BY <2>3 DEF SaveMeshOrders
    <3> QED BY <3>1 DEF Saved, FreshOf
  <2>4. ASSUME table' = table PROVE FALSE
    BY <2>4
  <2>5. \/ table' = table
        \/ \E c \in Callback : HandleEvents(c)
        \/ \E s \in Sync : RemoveRejected(s) \/ SaveMeshOrders(s)
    BY <1>1 DEF Next, MeshChange, Expire, SyncStep, Find, GetOrders, Post, Disconnect,
                Crash, Connect, CallbackFails, SyncFails
  <2> QED BY <2>1, <2>2, <2>3, <2>4, <2>5
<1>2. IInv /\ [Next]_vars => [\A o \in Order \ expired : Kept(o)]_vars
  BY <1>1
<1>3. QED
  BY <1>2, NewsStayConsistent, PTL DEF Spec, LiveRowsAreKept
=============================================================================

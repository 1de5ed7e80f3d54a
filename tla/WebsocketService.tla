-------------------------- MODULE WebsocketService --------------------------
(***************************************************************************)
(* The websocket server of the standard relayer API                        *)
(* (src/src/services/websocket_service.ts): clients subscribe under a      *)
(* request id of their choice and are sent the order events of Mesh that   *)
(* match the subscription.                                                 *)
(*                                                                         *)
(* Every handler is synchronous, so that each is one action; the sockets   *)
(* (the library ws) are external: a socket that is terminated, or that its *)
(* peer closes, emits its close event later.                               *)
(***************************************************************************)
EXTENDS Integers, FiniteSets

CONSTANTS
    Client,
    RequestId,
    Order,         \* records with the asset data of both sides
    Ignored,       \* the orders with an address of MESH_IGNORED_ADDRESSES
    ProxyId,       \* the asset proxy of each asset datum
    Token,         \* the token address in each asset datum
    Nested,        \* the asset data inside each asset datum
    Payload,       \* the subscription payloads that clients send
    MayVanish,     \* bound: the clients that may be cut off
    MaxUpdate,     \* bound: how many orders one Mesh notification carries
    None           \* an absent field, or an absent entry of a map

All == [traderAssetData |-> None, makerAssetData |-> None, takerAssetData |-> None,
        makerAssetAddress |-> None, takerAssetAddress |-> None]
AssetData == DOMAIN ProxyId

ASSUME WebsocketAssumption ==
    /\ Ignored \subseteq Order
    /\ MayVanish \subseteq Client
    /\ Order \subseteq [maker : AssetData, taker : AssetData]
    /\ None \notin Client \cup Payload \cup AssetData
    /\ MaxUpdate \in Nat

VARIABLES
    socket,      \* the state of each client's socket
    peerGone,    \* the clients that vanished without closing their socket
    isAlive,     \* ws.isAlive
    requestIds,  \* ws.requestIds
    idToSocket,  \* _requestIdToSocket
    idToOpts,    \* _requestIdToSubscriptionOpts
    running,     \* until destroyAsync
    outbox,      \* what the last step sent
    wanted       \* history: the last payload of each client under each id

vars == <<socket, peerGone, isAlive, requestIds, idToSocket, idToOpts, running,
          outbox, wanted>>

SocketState == {"new", "open", "closing", "closed"}

TypeOK ==
    /\ socket \in [Client -> SocketState]
    /\ peerGone \subseteq Client
    /\ isAlive \in [Client -> BOOLEAN]
    /\ requestIds \in [Client -> SUBSET RequestId]
    /\ idToSocket \in [RequestId -> Client \cup {None}]
    /\ idToOpts \in [RequestId -> Payload \cup {None}]
    /\ running \in BOOLEAN
    /\ outbox \subseteq [to : Client, requestId : RequestId, order : Order]
    /\ wanted \in [Client -> [RequestId -> Payload \cup {None}]]

Init ==
    /\ socket = [c \in Client |-> "new"]
    /\ peerGone = {}
    /\ isAlive = [c \in Client |-> FALSE]
    /\ requestIds = [c \in Client |-> {}]
    /\ idToSocket = [id \in RequestId |-> None]
    /\ idToOpts = [id \in RequestId |-> None]
    /\ running = TRUE
    /\ outbox = {}
    /\ wanted = [c \in Client |-> [id \in RequestId |-> None]]

\* _server.clients: ws forgets a socket when its close event is emitted.
Clients == {c \in Client : socket[c] \in {"open", "closing"}}

Opaque == {"MultiAsset", "StaticCall"}

\* _decodedContractAndAssetData: the datum, its token and what it contains.
Decoded(assetData) ==
    LET parts == {assetData} \cup Nested[assetData] IN
    parts \cup {Token[a] : a \in {x \in parts : ProxyId[x] \notin Opaque}}

\* _matchesOrdersChannelSubscription.
Matches(order, opts) ==
    LET sides == {order.maker, order.taker} IN
    \/ opts = All
    \/ opts.traderAssetData \in sides
    \/ {opts.makerAssetData, opts.takerAssetData} \subseteq sides
    \/ /\ None \notin {opts.makerAssetAddress, opts.takerAssetAddress}
       /\ {ProxyId[order.maker], ProxyId[order.taker]} \cap Opaque = {}
       /\ opts.makerAssetAddress \in Decoded(order.maker)
       /\ opts.takerAssetAddress \in Decoded(order.taker)

-----------------------------------------------------------------------------
Connect(c) ==
    /\ running
    /\ socket[c] = "new"
    /\ socket' = [socket EXCEPT ![c] = "open"]
    /\ isAlive' = [isAlive EXCEPT ![c] = TRUE]
    /\ outbox' = {}
    /\ UNCHANGED <<peerGone, requestIds, idToSocket, idToOpts, running, wanted>>

Listens(c) == running /\ socket[c] = "open" /\ c \notin peerGone

\* _processMessage, for a valid subscription; it takes the request id over from
\* whoever has used it before.
SubscribeOncePerId(c, id, payload) ==
    /\ Listens(c)
    /\ requestIds' = [requestIds EXCEPT ![c] = @ \cup {id}]
    /\ idToOpts' = [idToOpts EXCEPT ![id] = IF @ = None THEN payload ELSE @]
    /\ idToSocket' = [idToSocket EXCEPT ![id] = c]
    /\ wanted' = [wanted EXCEPT ![c][id] = payload]
    /\ outbox' = {}
    /\ UNCHANGED <<socket, peerGone, isAlive, running>>

Subscribe(c, id, payload) ==
    /\ Listens(c)
    /\ requestIds' = [requestIds EXCEPT ![c] = @ \cup {id}]
    /\ idToOpts' = [idToOpts EXCEPT ![id] = payload]
    /\ idToSocket' = [idToSocket EXCEPT ![id] = c]
    /\ wanted' = [wanted EXCEPT ![c][id] = payload]
    /\ outbox' = {}
    /\ UNCHANGED <<socket, peerGone, isAlive, running>>

\* _processError: malformed JSON, a message that fails the schema or a type
\* other than subscribe ends the connection.
BadMessage(c) ==
    /\ Listens(c)
    /\ socket' = [socket EXCEPT ![c] = "closing"]
    /\ outbox' = {}
    /\ UNCHANGED <<peerGone, isAlive, requestIds, idToSocket, idToOpts, running, wanted>>

\* _closeHandler.
CloseKeepingOpts(c) ==
    /\ socket[c] = "closing"
    /\ socket' = [socket EXCEPT ![c] = "closed"]
    /\ idToSocket' =
          [id \in RequestId |-> IF id \in requestIds[c] THEN None ELSE idToSocket[id]]
    /\ outbox' = {}
    /\ UNCHANGED <<peerGone, isAlive, requestIds, idToOpts, running, wanted>>

Close(c) ==
    /\ socket[c] = "closing"
    /\ socket' = [socket EXCEPT ![c] = "closed"]
    /\ idToSocket' =
          [id \in RequestId |-> IF id \in requestIds[c] THEN None ELSE idToSocket[id]]
    /\ idToOpts' =
          [id \in RequestId |-> IF id \in requestIds[c] THEN None ELSE idToOpts[id]]
    /\ outbox' = {}
    /\ UNCHANGED <<peerGone, isAlive, requestIds, running, wanted>>

\* _pongHandler: the answer to a ping of the last cleanup.
Pong(c) ==
    /\ Listens(c)
    /\ ~ isAlive[c]
    /\ isAlive' = [isAlive EXCEPT ![c] = TRUE]
    /\ outbox' = {}
    /\ UNCHANGED <<socket, peerGone, requestIds, idToSocket, idToOpts, running, wanted>>

CleanupOnlyPings ==
    /\ running
    /\ outbox' = {}
    /\ UNCHANGED <<socket, peerGone, isAlive, requestIds, idToSocket, idToOpts, running,
                   wanted>>

\* _cleanupConnections, at every pong interval.
CleanupConnections ==
    /\ running
    /\ socket' = [c \in Client |->
          IF c \in Clients /\ ~ isAlive[c] THEN "closing" ELSE socket[c]]
    /\ isAlive' = [c \in Client |-> isAlive[c] /\ c \notin Clients]
    /\ outbox' = {}
    /\ UNCHANGED <<peerGone, requestIds, idToSocket, idToOpts, running, wanted>>

OrderUpdateUnfiltered(orders) ==
    /\ running
    /\ outbox' =
          {m \in [to : Clients, requestId : RequestId, order : orders] :
             /\ idToSocket[m.requestId] = m.to
             /\ socket[m.to] = "open"
             /\ Matches(m.order, idToOpts[m.requestId])}
    /\ UNCHANGED <<socket, peerGone, isAlive, requestIds, idToSocket, idToOpts, running,
                   wanted>>

\* orderUpdate.  ws drops what is sent on a socket that is not open.
OrderUpdate(orders) ==
    /\ running
    /\ outbox' =
          {m \in [to : Clients, requestId : RequestId, order : orders \ Ignored] :
             /\ idToSocket[m.requestId] = m.to
             /\ socket[m.to] = "open"
             /\ Matches(m.order, idToOpts[m.requestId])}
    /\ UNCHANGED <<socket, peerGone, isAlive, requestIds, idToSocket, idToOpts, running,
                   wanted>>

\* destroyAsync.
Destroy ==
    /\ running
    /\ running' = FALSE
    /\ socket' = [c \in Client |-> IF c \in Clients THEN "closing" ELSE socket[c]]
    /\ idToSocket' = [id \in RequestId |-> None]
    /\ idToOpts' = [id \in RequestId |-> None]
    /\ outbox' = {}
    /\ UNCHANGED <<peerGone, isAlive, requestIds, wanted>>

-----------------------------------------------------------------------------
\* The clients' side: a client closes its socket, or is cut off.
PeerCloses(c) ==
    /\ Listens(c)
    /\ socket' = [socket EXCEPT ![c] = "closing"]
    /\ outbox' = {}
    /\ UNCHANGED <<peerGone, isAlive, requestIds, idToSocket, idToOpts, running, wanted>>

PeerVanishes(c) ==
    /\ Listens(c)
    /\ peerGone' = peerGone \cup {c}
    /\ outbox' = {}
    /\ UNCHANGED <<socket, isAlive, requestIds, idToSocket, idToOpts, running, wanted>>

Updates == {S \in SUBSET Order : Cardinality(S) <= MaxUpdate}

Next ==
    \/ \E c \in Client :
          \/ Connect(c)
          \/ \E id \in RequestId, payload \in Payload : Subscribe(c, id, payload)
          \/ BadMessage(c)
          \/ Close(c)
          \/ Pong(c)
          \/ PeerCloses(c)
    \/ \E c \in MayVanish : PeerVanishes(c)
    \/ CleanupConnections
    \/ \E orders \in Updates : OrderUpdate(orders)
    \/ Destroy

Spec == Init /\ [][Next]_vars

\* The interval timer fires, and sockets that are terminated emit close.
FairSpec ==
    /\ Spec
    /\ WF_vars(CleanupConnections)
    /\ \A c \in Client : WF_vars(Close(c))

-----------------------------------------------------------------------------
Users(id) == {c \in Client : id \in requestIds[c]}

\* The two maps have the same keys: a subscription whose socket or whose options
\* are missing would be filtered for ever, or silently dropped.
MapsAgree ==
    \A id \in RequestId : idToSocket[id] = None <=> idToOpts[id] = None

\* The maps hold no entry of a socket that is gone, and an entry is what its
\* client last asked for under that id, although other clients may have
\* subscribed, and closed, under the same id.
EntriesAreCurrent ==
    \A id \in RequestId : idToSocket[id] # None =>
        LET c == idToSocket[id] IN
        /\ c \in Clients
        /\ id \in requestIds[c]
        /\ idToOpts[id] = wanted[c][id]

TypeInvariant == TypeOK /\ MapsAgree

\* A client whose request id no other client has used is sent exactly the orders
\* that match its latest subscription under that id, as long as it is open;
\* a client whose id others use as well is sent no order it did not ask for.
RelevantOrdersAreSent ==
    [][\A orders \in Updates : OrderUpdate(orders) =>
         \A c \in Client, id \in RequestId, o \in orders :
            LET isSent == [to |-> c, requestId |-> id, order |-> o] \in outbox'
                isRelevant == /\ socket[c] = "open"
                              /\ o \notin Ignored
                              /\ wanted[c][id] # None
                              /\ Matches(o, wanted[c][id])
            IN /\ isSent => isRelevant
               /\ Users(id) = {c} => (isRelevant => isSent)]_vars

\* A client that vanished is dropped, and its subscriptions with it, unless the
\* server is stopped before.
VanishedIsDropped ==
    \A c \in Client :
        c \in peerGone ~> socket[c] = "closed" /\ \A id \in RequestId : idToSocket[id] # c
=============================================================================

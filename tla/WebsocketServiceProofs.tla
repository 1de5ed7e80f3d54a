------------------------ MODULE WebsocketServiceProofs ------------------------
(***************************************************************************)
(* Theorems about WebsocketService, for any number of clients, request     *)
(* ids, orders and subscription payloads.                                  *)
(***************************************************************************)
EXTENDS WebsocketService, TLAPS

(***************************************************************************)
(* EntriesAreCurrent is inductive together with the types.  For the        *)
(* converse, that a subscription has an entry as long as nobody else uses  *)
(* its id, three facts are needed: what was asked for is recorded at the   *)
(* socket, a socket that is new has asked for nothing, and only a client's *)
(* own close and the end of the server remove the entry of its only user.  *)
(***************************************************************************)

WantedIsRecorded ==
    \A c \in Client, id \in RequestId : wanted[c][id] # None => id \in requestIds[c]

NewHasNoIds == \A c \in Client : socket[c] = "new" => requestIds[c] = {}

SoleUserHasEntry ==
    \A c \in Client, id \in RequestId :
        id \in requestIds[c] /\ (\A d \in Client : id \in requestIds[d] => d = c)
          /\ socket[c] = "open" => idToSocket[id] = c

EntryInv ==
    /\ TypeOK /\ MapsAgree
    /\ EntriesAreCurrent
    /\ WantedIsRecorded
    /\ NewHasNoIds
    /\ SoleUserHasEntry

-----------------------------------------------------------------------------

LEMMA InitEntryInv == Init => EntryInv
BY WebsocketAssumption
DEF Init, EntryInv, TypeOK, MapsAgree, EntriesAreCurrent, WantedIsRecorded, NewHasNoIds,
    SoleUserHasEntry, SocketState

\* A subscription is the only step that adds an entry: it is what its client
\* asked for last, whoever had the id before.
LEMMA SubscribeKeepsEntryInv ==
    ASSUME EntryInv, NEW c \in Client, NEW id \in RequestId, NEW payload \in Payload,
           Subscribe(c, id, payload)
    PROVE  EntryInv'
<1> USE WebsocketAssumption DEF EntryInv, Subscribe, Listens, Clients
<1>1. TypeOK'
    BY DEF TypeOK
<1>2. MapsAgree'
    BY DEF TypeOK, MapsAgree
<1>3. EntriesAreCurrent'
    BY DEF TypeOK, EntriesAreCurrent
<1>4. WantedIsRecorded'
    BY DEF TypeOK, WantedIsRecorded
<1>5. NewHasNoIds'
    BY DEF TypeOK, NewHasNoIds
<1>6. SoleUserHasEntry'
    BY DEF TypeOK, SoleUserHasEntry
<1> QED
    BY <1>1, <1>2, <1>3, <1>4, <1>5, <1>6

\* A close removes the entries under all ids that its client has ever used, also
\* those that others have taken over: no entry of the client is left behind.
LEMMA CloseKeepsEntryInv ==
    ASSUME EntryInv, NEW c \in Client, Close(c)
    PROVE  EntryInv'
<1> USE WebsocketAssumption DEF EntryInv, Close, Clients
<1>1. TypeOK'
    BY DEF TypeOK, SocketState
<1>2. MapsAgree'
    BY DEF TypeOK, MapsAgree
<1>3. EntriesAreCurrent'
    BY DEF TypeOK, EntriesAreCurrent
<1>4. WantedIsRecorded'
    BY DEF TypeOK, WantedIsRecorded
<1>5. NewHasNoIds'
    BY DEF TypeOK, NewHasNoIds
<1>6. SoleUserHasEntry'
    <2> SUFFICES ASSUME NEW d \in Client, NEW id \in RequestId,
                        (id \in requestIds[d])', (socket[d] = "open")',
                        (\A e \in Client : id \in requestIds[e] => e = d)'
                 PROVE  (idToSocket[id] = d)'
        BY DEF SoleUserHasEntry
    <2>1. d # c /\ id \notin requestIds[c]
        BY DEF TypeOK
    <2> QED
        BY <2>1 DEF TypeOK, SoleUserHasEntry
<1> QED
    BY <1>1, <1>2, <1>3, <1>4, <1>5, <1>6

LEMMA DestroyKeepsEntryInv ==
    ASSUME EntryInv, Destroy
    PROVE  EntryInv'
BY WebsocketAssumption
DEF EntryInv, Destroy, Clients, TypeOK, SocketState, MapsAgree, EntriesAreCurrent,
    WantedIsRecorded, NewHasNoIds, SoleUserHasEntry

\* The other steps leave the maps alone, and a socket at most open or on its way
\* out.
LEMMA SocketStepKeepsEntryInv ==
    ASSUME EntryInv,
           UNCHANGED <<requestIds, idToSocket, idToOpts, wanted>>,
           TypeOK',
           \A c \in Client :
              \/ socket'[c] = socket[c]
              \/ socket[c] = "new" /\ socket'[c] = "open"
              \/ socket[c] \in {"open", "closing"} /\ socket'[c] = "closing"
    PROVE  EntryInv'
<1> USE DEF EntryInv
<1>1. EntriesAreCurrent'
    BY WebsocketAssumption DEF TypeOK, EntriesAreCurrent, Clients
<1>2. MapsAgree' /\ WantedIsRecorded' /\ NewHasNoIds'
    BY DEF MapsAgree, WantedIsRecorded, NewHasNoIds
<1>3. SoleUserHasEntry'
    BY DEF SoleUserHasEntry, NewHasNoIds
<1> QED
    BY <1>1, <1>2, <1>3

LEMMA NextKeepsEntryInv ==
    ASSUME EntryInv, [Next]_vars
    PROVE  EntryInv'
<1>1. ASSUME NEW c \in Client,
             Connect(c) \/ BadMessage(c) \/ Pong(c) \/ PeerCloses(c)
      PROVE  EntryInv'
    <2>1. TypeOK'
        BY <1>1 DEF EntryInv, TypeOK, SocketState, Connect, BadMessage, Pong, PeerCloses
    <2>2. \A d \in Client :
              \/ socket'[d] = socket[d]
              \/ socket[d] = "new" /\ socket'[d] = "open"
              \/ socket[d] \in {"open", "closing"} /\ socket'[d] = "closing"
        BY <1>1 DEF EntryInv, TypeOK, Connect, BadMessage, Pong, PeerCloses, Listens
    <2> QED
        BY <1>1, <2>1, <2>2, SocketStepKeepsEntryInv
        DEF Connect, BadMessage, Pong, PeerCloses
<1>2. ASSUME NEW c \in MayVanish, PeerVanishes(c)
      PROVE  EntryInv'
    <2>1. TypeOK'
        BY <1>2, WebsocketAssumption DEF EntryInv, TypeOK, PeerVanishes
    <2> QED
        BY <1>2, <2>1, SocketStepKeepsEntryInv DEF PeerVanishes
<1>3. CASE CleanupConnections
    <2>1. TypeOK'
        BY <1>3 DEF EntryInv, TypeOK, SocketState, CleanupConnections
    <2> QED
        BY <1>3, <2>1, SocketStepKeepsEntryInv DEF CleanupConnections, Clients
<1>4. ASSUME NEW orders \in Updates, OrderUpdate(orders)
      PROVE  EntryInv'
    <2>1. TypeOK'
        BY <1>4 DEF EntryInv, TypeOK, OrderUpdate, Updates, Clients
    <2> QED
        BY <1>4, <2>1, SocketStepKeepsEntryInv DEF OrderUpdate
<1>5. CASE UNCHANGED vars
    <2>1. TypeOK'
        BY <1>5 DEF EntryInv, TypeOK, vars
    <2> QED
        BY <1>5, <2>1, SocketStepKeepsEntryInv DEF vars
<1> QED
    BY <1>1, <1>2, <1>3, <1>4, <1>5, SubscribeKeepsEntryInv, CloseKeepsEntryInv,
       DestroyKeepsEntryInv
    DEF Next

\* Spec is EntryInv, always.
LEMMA EntryInvariant == Spec => []EntryInv
BY InitEntryInv, NextKeepsEntryInv, PTL DEF Spec

-----------------------------------------------------------------------------

\* All variables keep their types, and the two maps of the service have the same
\* keys at any time (websocket_service.ts:198-260).
THEOREM TypeCorrect == Spec => []TypeInvariant
<1>1. EntryInv => TypeInvariant
    BY DEF EntryInv, TypeInvariant
<1> QED
    BY <1>1, EntryInvariant, PTL

\* However clients share request ids, an entry of the maps belongs to a socket
\* that is still there, and is what this client asked for last.
THEOREM EntriesStayCurrent == Spec => []EntriesAreCurrent
<1>1. EntryInv => EntriesAreCurrent
    BY DEF EntryInv
<1> QED
    BY <1>1, EntryInvariant, PTL

\* No client is sent an order it did not ask for, and a client that shares its id
\* with no other is sent all those it asked for (websocket_service.ts:154-190).
THEOREM OnlyRelevantOrdersAreSent == Spec => RelevantOrdersAreSent
<1> DEFINE Sound ==
        \A orders \in Updates : OrderUpdate(orders) =>
         \A c \in Client, id \in RequestId, o \in orders :
            LET isSent == [to |-> c, requestId |-> id, order |-> o] \in outbox'
                isRelevant == /\ socket[c] = "open"
                              /\ o \notin Ignored
                              /\ wanted[c][id] # None
                              /\ Matches(o, wanted[c][id])
            IN /\ isSent => isRelevant
               /\ Users(id) = {c} => (isRelevant => isSent)
<1>1. EntryInv => Sound
    <2> SUFFICES ASSUME EntryInv,
                        NEW orders \in Updates, OrderUpdate(orders),
                        NEW c \in Client, NEW id \in RequestId, NEW o \in orders
                 PROVE  LET isSent == [to |-> c, requestId |-> id, order |-> o] \in outbox'
                            isRelevant == /\ socket[c] = "open"
                                          /\ o \notin Ignored
                                          /\ wanted[c][id] # None
                                          /\ Matches(o, wanted[c][id])
                        IN /\ isSent => isRelevant
                           /\ Users(id) = {c} => (isRelevant => isSent)
        OBVIOUS
    <2> DEFINE m == [to |-> c, requestId |-> id, order |-> o]
    <2>1. m \in outbox' <=> /\ c \in Clients /\ o \notin Ignored
                            /\ idToSocket[id] = c
                            /\ socket[c] = "open"
                            /\ Matches(o, idToOpts[id])
        BY DEF OrderUpdate
    <2>2. ASSUME idToSocket[id] = c
          PROVE  idToOpts[id] = wanted[c][id] /\ wanted[c][id] # None
        BY <2>2, WebsocketAssumption DEF EntryInv, EntriesAreCurrent, MapsAgree, TypeOK
    <2>3. ASSUME Users(id) = {c}, socket[c] = "open"
          PROVE  idToSocket[id] = c /\ c \in Clients
        BY <2>3 DEF EntryInv, SoleUserHasEntry, Users, Clients
    <2> QED
        BY <2>1, <2>2, <2>3
<1>2. Spec => [][Sound]_vars
    BY <1>1, EntryInvariant, PTL DEF Spec
<1> QED
    BY <1>2 DEF RelevantOrdersAreSent
=============================================================================

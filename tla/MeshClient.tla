----------------------------- MODULE MeshClient -----------------------------
(***************************************************************************)
(* The 0x Mesh node as the order watcher sees it, and the two modules      *)
(* through which it does: src/src/utils/mesh_client.ts (posting orders in  *)
(* chunks) and src/src/utils/mesh_utils.ts (sorting order events).  The    *)
(* node itself is external to the repository.                              *)
(*                                                                         *)
(* An order's data is abstracted to its fillable amount, 0 standing for an *)
(* order that Mesh does not watch (and, in the database, for no row).      *)
(***************************************************************************)
EXTENDS Integers, FiniteSets, Functions

CONSTANTS
    Order,
    MaxAmount,    \* bound: fillable amounts are 1 .. MaxAmount
    Emitted,      \* the end states of order events a run enumerates
    BatchSize,    \* MESH_ORDERS_BATCH_SIZE: above it, orders go over HTTP
    HttpURI       \* whether an HTTP endpoint of Mesh is configured

RemovedState ==
    {"Invalid", "Cancelled", "Expired", "FullyFilled", "StoppedWatching", "Unfunded"}
UpdatedState == {"Unexpired", "FillabilityIncreased", "Filled"}
EndState == {"Added"} \cup RemovedState \cup UpdatedState
Category == {"removed", "updated", "added"}

Amount == 0 .. MaxAmount
Event == [endState : EndState, amount : Amount]
NoEvents == [o \in {} |-> 0]

\* A notification of Mesh: at most one event for an order.
Batches == UNION {[S -> Event] : S \in SUBSET Order}

ASSUME MeshAssumption ==
    /\ IsFiniteSet(Order)
    /\ MaxAmount \in Nat \ {0}
    /\ Emitted \subseteq EndState
    /\ BatchSize \in Nat \ {0}
    /\ HttpURI \in BOOLEAN

\* The end states with which Mesh may report that an amount has changed.
Reported(before, after) ==
    Emitted \cap
    ( IF after = 0 THEN RemovedState
      ELSE IF before = 0 THEN {"Added", "Unexpired"}
      ELSE IF after < before THEN {"Filled"}
      ELSE {"FillabilityIncreased"} )

\* meshUtils.calculateAddedRemovedUpdated.
CategoryOfUnexpiredRemoved(event) ==
    IF event.endState = "Added" THEN "added"
    ELSE IF event.endState \in RemovedState \cup {"Unexpired"} THEN "removed"
    ELSE "updated"

CategoryOf(event) ==
    IF event.endState = "Added" THEN "added"
    ELSE IF event.endState \in RemovedState THEN "removed"
    ELSE "updated"

InCategory(batch, category) ==
    {o \in DOMAIN batch : CategoryOf(batch[o]) = category}

\* MeshClient.addOrdersAsync: how the orders travel, and what it answers when
\* `watched' are the orders Mesh accepts and `lost' those of the HTTP chunks
\* that failed.  One failed chunk makes the client report all orders rejected.
UsesHttp(posted) == HttpURI /\ Cardinality(posted) > BatchSize
ValidationResultsAllOrNone(posted, watched, lost) ==
    [accepted |-> (posted \cap watched) \ lost,
     rejected |-> IF posted \subseteq watched \ lost THEN {} ELSE posted]
ValidationResults(posted, watched, lost) ==
    [accepted |-> (posted \cap watched) \ lost,
     rejected |-> IF lost = {} THEN posted \ watched ELSE posted]
=============================================================================

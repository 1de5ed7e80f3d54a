---------------------------- MODULE ApiRequests ----------------------------
(***************************************************************************)
(* The endpoints of the API process that keep nothing in the database:     *)
(* swap quotes, the caches behind them, reads of the orderbook, the market *)
(* depth, and the chunks in which orders are passed on to Mesh.  A         *)
(* behaviour exercises one of them.  While swaps are exercised the clock   *)
(* stands still: how caches age is explored with callers that come and go. *)
(***************************************************************************)
EXTENDS SwapService, OrderbookService, MarketDepth, Chunks

CONSTANTS
    Filters,   \* the conditions of requests for orders
    Exercised  \* the endpoints a run exercises

VARIABLE endpoint

vars == <<endpoint, cacheVars, swapVars, orderbookVars, depthVars, chunking>>

\* An endpoint that is not exercised starts in one of its states and stays there.
Of(e, S) == IF endpoint = e THEN S ELSE {CHOOSE x \in S : TRUE}

Init ==
    /\ endpoint \in Exercised
    /\ SwapInit(Of("swap", Ask))
    /\ OrderbookInit(Of("orderbook", SUBSET Order), Of("orderbook", Endpoint),
                     Of("orderbook", Filters), Of("orderbook", PerPage))
    /\ DepthInit(Of("depth", DepthSides), Of("depth", {"Sell", "Buy"}))
    /\ ChunksInit(Of("chunks", 0 .. MaxItems))

Swap == endpoint = "swap" /\ SwapNext
              /\ UNCHANGED <<endpoint, orderbookVars, depthVars, chunking>>
Cache == endpoint = "cache" /\ CacheNext({"GST"})
              /\ UNCHANGED <<endpoint, swapVars, orderbookVars, depthVars, chunking>>
Orders == endpoint = "orderbook" /\ OrderbookNext
              /\ UNCHANGED <<endpoint, cacheVars, swapVars, depthVars, chunking>>
Depth == endpoint = "depth" /\ CalculateDepth
              /\ UNCHANGED <<endpoint, cacheVars, swapVars, orderbookVars, chunking>>
Chunk == endpoint = "chunks" /\ ChunksNext
              /\ UNCHANGED <<endpoint, cacheVars, swapVars, orderbookVars, depthVars>>

Next == Swap \/ Cache \/ Orders \/ Depth \/ Chunk
Spec == Init /\ [][Next]_vars

TypeInvariant ==
    /\ endpoint \in Exercised
    /\ SwapTypeOK /\ OrderbookTypeOK /\ DepthTypeOK
    /\ chunking.length \in 0 .. MaxLength
=============================================================================

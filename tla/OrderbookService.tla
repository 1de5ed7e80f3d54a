-------------------------- MODULE OrderbookService --------------------------
(***************************************************************************)
(* The read endpoints of the orderbook (src/src/services/                  *)
(* orderbook_service.ts, src/src/utils/order_utils.ts,                     *)
(* src/src/utils/pagination_utils.ts): a client walks through the pages of *)
(* an answer while the order watcher writes the table and time passes.     *)
(*                                                                         *)
(* An asset stands for its asset data.  No query has an ORDER BY: each     *)
(* finds its rows in any order.                                            *)
(***************************************************************************)
EXTENDS Integers, FiniteSets, SequencesExt

CONSTANTS
    Order,
    Asset,
    Trader,
    Terms,       \* makerAsset, takerAsset, makerAmount, takerAmount, takerFee,
                 \* expiration and maker of each order
    BaseAsset, QuoteAsset, \* the pair whose book is asked for
    SraBuffer,   \* SRA_ORDER_EXPIRATION_BUFFER_SECONDS
    MaxPerPage,  \* MAX_PER_PAGE
    PerPage,     \* the page sizes clients ask for
    MaxClock,    \* bound: the clock runs over 0 .. MaxClock
    MaxWrites    \* bound: how often the order watcher writes

ASSUME OrderbookAssumption ==
    /\ IsFiniteSet(Order)
    /\ Terms \in [Order -> [makerAsset : Asset, takerAsset : Asset,
                            makerAmount : Nat \ {0}, takerAmount : Nat \ {0},
                            takerFee : Nat, expiration : Nat, maker : Trader]]
    /\ BaseAsset \in Asset /\ QuoteAsset \in Asset /\ BaseAsset # QuoteAsset
    /\ SraBuffer \in Nat /\ MaxPerPage \in Nat
    /\ PerPage \subseteq Nat \ {0} /\ PerPage # {}
    /\ MaxClock \in Nat /\ MaxWrites \in Nat

VARIABLES
    table,    \* signed_orders
    clock,
    writes,
    listing   \* what a client has asked for and got so far

orderbookVars == <<table, clock, writes, listing>>

\* The conditions of a request for orders: a condition that is not given allows
\* everything.
Filter == [makerAssets : SUBSET Asset, takerAssets : SUBSET Asset, makers : SUBSET Trader]
Endpoint == {"orderbook", "orders", "asset_pairs"}
Lists == {"bids", "asks", "records"}
OrderbookTypeOK ==
    /\ table \subseteq Order
    /\ clock \in 0 .. MaxClock
    /\ writes \in 0 .. MaxWrites
    /\ listing.endpoint \in Endpoint
    /\ DOMAIN listing.got = Lists
    /\ \A l \in Lists : Len(listing.got[l]) <= listing.page * listing.perPage
    /\ listing.rejected => listing.page = 0

OrderbookInit(tables, endpoints, filters, sizes) ==
    /\ table \in tables
    /\ clock = 0
    /\ writes = 0
    /\ listing \in [endpoint : endpoints, filter : filters, perPage : sizes,
                    page : {0}, got : {[l \in Lists |-> <<>>]},
                    total : {[l \in Lists |-> 0]}, steady : {TRUE}, rejected : {FALSE}]

-----------------------------------------------------------------------------
(* order_utils and pagination_utils                                        *)

\* Mutant: an order is listed until it expires.
IsFreshOrderUnbuffered(o, buffer) == Terms[o].expiration > clock

IsFreshOrder(o, buffer) == Terms[o].expiration > clock + buffer

\* .filter(orderUtils.isFreshOrder): the function's second argument, the buffer,
\* is the element's index.
FreshByIndex(rows) ==
    {rows[i] : i \in {k \in DOMAIN rows : IsFreshOrder(rows[k], k - 1)}}

MakerAmount(o) == Terms[o].makerAmount
TakerAmount(o) == Terms[o].takerAmount
TakerFee(o) == Terms[o].takerFee

\* Numerators and denominators of the ratios that are compared.
AskPrice(o) == <<TakerAmount(o), MakerAmount(o)>>
BidPrice(o) == <<MakerAmount(o), TakerAmount(o)>>
FeeRatio(o) == <<TakerFee(o), TakerAmount(o)>>
Exceeds(x, y) == x[1] * y[2] > y[1] * x[2]
Equals(x, y) == x[1] * y[2] = y[1] * x[2]

\* compareOrderByFeeRatio: not after.
ByFeeRatio(a, b) ==
    \/ Exceeds(FeeRatio(a), FeeRatio(b))
    \/ Equals(FeeRatio(a), FeeRatio(b)) /\ Terms[a].expiration <= Terms[b].expiration

CompareAsk(a, b) ==
    \/ Exceeds(AskPrice(b), AskPrice(a))
    \/ Equals(AskPrice(a), AskPrice(b)) /\ ByFeeRatio(a, b)

\* Mutant: bids are sorted like asks.
CompareBidLowestFirst(a, b) ==
    \/ Exceeds(BidPrice(b), BidPrice(a))
    \/ Equals(BidPrice(a), BidPrice(b)) /\ ByFeeRatio(a, b)

CompareBid(a, b) ==
    \/ Exceeds(BidPrice(a), BidPrice(b))
    \/ Equals(BidPrice(a), BidPrice(b)) /\ ByFeeRatio(a, b)

\* Array.prototype.sort, which leaves what compares as equal in the order of the rows.
Compare(l, a, b) == IF l = "bids" THEN CompareBid(a, b) ELSE CompareAsk(a, b)
Sorted(orders, rows, l) ==
    {s \in SetToSeqs(orders) :
        \A i, j \in DOMAIN s : i < j =>
            /\ Compare(l, s[i], s[j])
            /\ Compare(l, s[j], s[i]) =>
                  \E m, n \in DOMAIN rows : m < n /\ rows[m] = s[i] /\ rows[n] = s[j]}

\* Mutant: the end of a page is taken as inclusive.
PaginateInclusive(collection, page, perPage) ==
    SubSeq(collection, (page - 1) * perPage + 1,
           IF page * perPage < Len(collection) THEN page * perPage + 1 ELSE Len(collection))

Paginate(collection, page, perPage) ==
    SubSeq(collection, (page - 1) * perPage + 1,
           IF page * perPage < Len(collection) THEN page * perPage ELSE Len(collection))

-----------------------------------------------------------------------------
(* The queries.                                                            *)

IsBid(o) == Terms[o].takerAsset = BaseAsset /\ Terms[o].makerAsset = QuoteAsset
IsAsk(o) == Terms[o].takerAsset = QuoteAsset /\ Terms[o].makerAsset = BaseAsset

\* getOrdersAsync's pre- and post-filters, and getBatchOrdersAsync's.
Passes(o, filter) ==
    /\ Terms[o].makerAsset \in filter.makerAssets
    /\ Terms[o].takerAsset \in filter.takerAssets
    /\ Terms[o].maker \in filter.makers

PairOf(o) == <<Terms[o].makerAsset, Terms[o].takerAsset>>

\* getAssetPairsAsync: a pair is asked for in either direction.
PairPasses(p, filter) ==
    \/ p[1] \in filter.makerAssets /\ p[2] \in filter.takerAssets
    \/ p[2] \in filter.makerAssets /\ p[1] \in filter.takerAssets

\* What an endpoint makes of the table, whose rows the query returns in any order:
\* the possible lists before pagination.
Collections ==
    CASE listing.endpoint = "orderbook" ->
           {[bids |-> b, asks |-> a, records |-> <<>>] :
                b \in UNION {Sorted(FreshByIndex(rows), rows, "bids") :
                                rows \in SetToSeqs({o \in table : IsBid(o)})},
                a \in UNION {Sorted(FreshByIndex(rows), rows, "asks") :
                                rows \in SetToSeqs({o \in table : IsAsk(o)})}}
      [] listing.endpoint = "orders" ->
           {[bids |-> <<>>, asks |-> <<>>, records |-> s] :
                s \in SetToSeqs({o \in table : Passes(o, listing.filter)
                                                 /\ IsFreshOrder(o, SraBuffer)})}
      [] listing.endpoint = "asset_pairs" ->
           {[bids |-> <<>>, asks |-> <<>>, records |-> s] :
                s \in SetToSeqs({p \in {PairOf(o) : o \in table} :
                                     PairPasses(p, listing.filter)})}

\* A client asks for the next page as long as there is one.
AskPage ==
    /\ ~listing.rejected
    /\ listing.page = 0 \/ \E l \in Lists : listing.total[l] > listing.page * listing.perPage
    /\ IF listing.perPage > MaxPerPage
       THEN listing' = [listing EXCEPT !.rejected = TRUE]
       ELSE \E c \in Collections :
              listing' = [listing EXCEPT
                  !.page = @ + 1,
                  !.got = [l \in Lists |->
                             @[l] \o Paginate(c[l], listing.page + 1, listing.perPage)],
                  !.total = [l \in Lists |-> Len(c[l])],
                  !.steady = @ \/ listing.page = 0]
    /\ UNCHANGED <<table, clock, writes>>

\* The order watcher saves or removes an order.
TableWrite ==
    /\ writes < MaxWrites
    /\ \E o \in Order : table' = IF o \in table THEN table \ {o} ELSE table \cup {o}
    /\ writes' = writes + 1
    /\ listing' = [listing EXCEPT !.steady = FALSE]
    /\ UNCHANGED clock

ClockTick ==
    /\ clock < MaxClock
    /\ clock' = clock + 1
    /\ listing' = [listing EXCEPT !.steady = FALSE]
    /\ UNCHANGED <<table, writes>>

OrderbookNext == AskPage \/ TableWrite \/ ClockTick

-----------------------------------------------------------------------------

Complete ==
    /\ listing.page > 0
    /\ \A l \in Lists : listing.total[l] <= listing.page * listing.perPage

BookOf(l) == {o \in table : IF l = "bids" THEN IsBid(o) ELSE IsAsk(o)}
BetterPrice(l, a, b) ==
    IF l = "bids" THEN MakerAmount(a) * TakerAmount(b) > MakerAmount(b) * TakerAmount(a)
    ELSE TakerAmount(a) * MakerAmount(b) < TakerAmount(b) * MakerAmount(a)
HigherFee(a, b) == TakerFee(a) * TakerAmount(b) > TakerFee(b) * TakerAmount(a)
NotAfter(l, a, b) ==
    /\ ~BetterPrice(l, b, a)
    /\ BetterPrice(l, a, b) \/ ~HigherFee(b, a)
    /\ \/ BetterPrice(l, a, b) \/ HigherFee(a, b)
       \/ Terms[a].expiration <= Terms[b].expiration

\* Nothing but the order of the rows could tell two requests apart: no two orders
\* tie, and each has expired or is fresh by the buffer and by any row's index.
OutlivesBuffer(o) == Terms[o].expiration > clock + SraBuffer
OutlivesIndices(o) == Terms[o].expiration > clock + Cardinality(table)
IsSettled(l) ==
    /\ \A a, b \in BookOf(l) : NotAfter(l, a, b) /\ NotAfter(l, b, a) => a = b
    /\ \A o \in BookOf(l) :
           Terms[o].expiration > clock => OutlivesBuffer(o) /\ OutlivesIndices(o)

\* Walking through the pages of a book gives each live order of the pair once,
\* best price first, then highest fee, then earliest expiration -- provided that
\* nothing changes on the way, and that the database's order of the rows makes no
\* difference (orderbook_service.ts:68-100, pagination_utils.ts:8-16).
PagesPartitionTheBook ==
    listing.endpoint = "orderbook" /\ listing.steady /\ Complete =>
        \A l \in {"bids", "asks"} : IsSettled(l) =>
            LET book == listing.got[l] IN
            /\ ToSet(book) = {o \in BookOf(l) : Terms[o].expiration > clock}
            /\ IsInjective(book)
            /\ \A i, j \in DOMAIN book : i < j => NotAfter(l, book[i], book[j])

\* An answer that fits on one page holds exactly the orders that pass the
\* conditions and outlive the buffer, or the pairs they trade, each once
\* (orderbook_service.ts:30-66, 104-157).
OrdersAnswerIsExact ==
    listing.endpoint # "orderbook" /\ listing.steady /\ listing.page = 1 /\ Complete =>
        LET records == listing.got["records"] IN
        /\ IsInjective(records)
        /\ ToSet(records) =
             IF listing.endpoint = "orders"
             THEN {o \in table : /\ Passes(o, listing.filter)
                                 /\ OutlivesBuffer(o)}
             ELSE {p \in {PairOf(o) : o \in table} : PairPasses(p, listing.filter)}

\* In whatever order the database finds the rows, so that any of their indices may
\* become an order's buffer: a book on one page lists each order once, best price
\* first, none that has expired, and all that outlive the configured buffer as well
\* as the indices (orderbook_service.ts:86-93).  Of those in between it says nothing.
OnePageIsBetween ==
    listing.endpoint = "orderbook" /\ listing.steady /\ listing.page = 1 /\ Complete =>
        \A l \in {"bids", "asks"} :
            LET book == listing.got[l] IN
            /\ ToSet(book) \subseteq {o \in BookOf(l) : Terms[o].expiration > clock}
            /\ {o \in BookOf(l) : OutlivesBuffer(o) /\ OutlivesIndices(o)} \subseteq ToSet(book)
            /\ IsInjective(book)
            /\ \A i, j \in DOMAIN book : i < j => NotAfter(l, book[i], book[j])

\* What a client reads over the pages of an answer is exactly what it asked
\* for: of the orderbook, of the orders, and of the asset pairs.
ListingIsExact == PagesPartitionTheBook /\ OnePageIsBetween /\ OrdersAnswerIsExact
=============================================================================

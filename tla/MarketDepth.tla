---------------------------- MODULE MarketDepth ----------------------------
(***************************************************************************)
(* GET /swap/v1/depth: src/src/utils/market_depth_utils.ts distributes the *)
(* samples that the asset-swapper library takes of each source into        *)
(* buckets of prices.                                                      *)
(*                                                                         *)
(* A sample is what a source gives (output) for an amount (input); samples *)
(* of one sequence are of one pool of one source, with growing inputs.     *)
(* The native orders are a sequence of fills, not of samples.  Prices are  *)
(* rationals; the code rounds them to 18 decimals, the model down to       *)
(* whole multiples of 1/Scale.                                             *)
(***************************************************************************)
EXTENDS Integers, FiniteSets, SequencesExt

CONSTANTS
    Markets,       \* the sources of samples
    DepthSides,    \* what the library may answer
    NumBuckets,    \* numSamples * 2
    Slippage,      \* maxEndSlippagePercentage
    Scale

Sample == [source : Markets, input : Nat \ {0}, output : Nat]

ASSUME DepthAssumption ==
    /\ "Native" \in Markets
    /\ DepthSides \subseteq Seq(Seq(Sample))
    /\ NumBuckets \in Nat \ {0} /\ Slippage \in 0 .. 100 /\ Scale \in Nat \ {0}

VARIABLES
    depthSide,   \* the library's answer
    operation,   \* "Sell" for the asks, "Buy" for the bids
    buckets      \* the response: per bucket the depth of each source

depthVars == <<depthSide, operation, buckets>>

SourceOf(samples) == samples[1].source
IsNative(samples) == SourceOf(samples) = "Native"
NonEmpty(side) == {l \in DOMAIN side : side[l] # <<>>}
AllSources(side) == {SourceOf(side[l]) : l \in NonEmpty(side)}

-----------------------------------------------------------------------------
(* normalizeMarketDepthToSampleOutput                                      *)

DepthSum(s) == SumFunction(s)
Smaller(a, b) == IF a < b THEN a ELSE b

\* Not worse than: an order that gives more for the same, when selling.
BetterFill(side, a, b) ==
    IF side = "Sell" THEN a.output * b.input >= b.output * a.input
    ELSE a.output * b.input <= b.output * a.input

\* The orders that are filled before one of them.  They are sorted in place for
\* each amount in turn, and reversed in place if they are bids: there, every other
\* turn takes orders of one price from the last to the first.
FilledBefore(path, i, side, turn) ==
    {j \in DOMAIN path :
        \/ ~BetterFill(side, path[i], path[j])
        \/ /\ BetterFill(side, path[j], path[i])
           /\ IF side = "Buy" /\ turn % 2 = 1 THEN j > i ELSE j < i}

\* What the best of the orders give for a target amount, and nothing if they do
\* not suffice for it.
SampleNativeOrders(path, target, side, turn) ==
    LET before(i) == DepthSum([j \in FilledBefore(path, i, side, turn) |-> path[j].input])
        input(i) == IF before(i) >= target THEN 0
                    ELSE Smaller(target - before(i), path[i].input)
        output(i) == (2 * input(i) * path[i].output + path[i].input)
                         \div (2 * path[i].input)
    IN IF DepthSum([i \in DOMAIN path |-> path[i].input]) < target THEN 0
       ELSE DepthSum([i \in DOMAIN path |-> output(i)])

\* _.uniqBy: each amount where it occurs first.
Unique(amounts) ==
    LET firsts == {i \in DOMAIN amounts : \A j \in 1 .. i - 1 : amounts[j] # amounts[i]}
        nth(n) == CHOOSE i \in firsts : Cardinality({j \in firsts : j <= i}) = n
    IN [n \in 1 .. Cardinality(firsts) |-> amounts[nth(n)]]

\* The inputs of the first sampled source, or those of the native orders.
SampleAmounts(side) ==
    LET sampled == {l \in NonEmpty(side) : ~IsNative(side[l])}
        inputs(l) == [i \in DOMAIN side[l] |-> side[l][i].input]
    IN IF sampled # {} THEN inputs(Min(sampled)) ELSE Unique(inputs(Min(NonEmpty(side))))

\* The first native orders make way for samples; any others are left out.
Normalize(raw, side) ==
    LET native == {l \in NonEmpty(raw) : IsNative(raw[l])}
        amounts == SampleAmounts(raw)
    IN [l \in DOMAIN raw |->
          IF l \notin native THEN raw[l]
          ELSE IF l # Min(native) THEN <<>>
          ELSE [i \in DOMAIN amounts |->
                  [source |-> "Native", input |-> amounts[i],
                   output |-> SampleNativeOrders(raw[l], amounts[i], side, i)]]]

-----------------------------------------------------------------------------
(* Buckets of prices                                                       *)

Price(sample) == (sample.output * Scale) \div sample.input

Prices(side) ==
    (UNION {{Price(side[i][j]) : j \in {k \in DOMAIN side[i] : side[i][k].output # 0}} :
               i \in DOMAIN side}) \ {0}

\* calculateStartEndBucketPrice
StartPrice(side, op) == IF op = "Sell" THEN Max(Prices(side)) ELSE Min(Prices(side))
EndPrice(side, op) ==
    (StartPrice(side, op) * (IF op = "Sell" THEN 100 - Slippage ELSE 100 + Slippage)) \div 100

\* getBucketPrices, with the distribution base 1.
BucketPrices(start, end) ==
    [i \in 1 .. NumBuckets + 1 |-> start + ((end - start) * (i - 1)) \div NumBuckets]

\* The first bucket that takes a price, 0 if none does.
BucketId(price, prices, op) ==
    LET taking == {i \in DOMAIN prices :
                      IF op = "Sell" THEN price >= prices[i] ELSE price <= prices[i]}
    IN IF taking = {} THEN 0 ELSE Min(taking)

\* Mutant: The first sample of a pool in a bucket counts.
AllocatedFirst(samples, i, prices, op) ==
    LET here == {j \in DOMAIN samples : samples[j].output # 0
                    /\ BucketId(Price(samples[j]), prices, op) = i}
    IN IF here = {} THEN 0 ELSE samples[Min(here)].input

\* distributeSamplesToBuckets, first loop: the latter sample of a pool in a
\* bucket counts, 0 if there is none.
Allocated(samples, i, prices, op) ==
    LET here == {j \in DOMAIN samples : samples[j].output # 0
                    /\ BucketId(Price(samples[j]), prices, op) = i}
    IN IF here = {} THEN 0 ELSE samples[Max(here)].input

\* The pools of a source in a bucket are added up, ...
PoolsTotal(side, source, i, prices, op) ==
    DepthSum([l \in {k \in NonEmpty(side) : SourceOf(side[k]) = source} |->
                 Allocated(side[l], i, prices, op)])

\* ... and the total counts if it exceeds that of the buckets before.
SourceDepth(side, source, i, prices, op) ==
    Max({PoolsTotal(side, source, k, prices, op) : k \in 1 .. i})

Distribute(side, prices, op) ==
    [i \in DOMAIN prices |->
       [price |-> prices[i],
        sources |-> [s \in AllSources(side) |-> SourceDepth(side, s, i, prices, op)]]]

-----------------------------------------------------------------------------

DepthInit(sides, operations) ==
    /\ depthSide \in sides
    /\ operation \in operations
    /\ buckets = <<>>

\* calculateDepthForSide
CalculateDepth ==
    LET side == Normalize(depthSide, operation)
        prices == BucketPrices(StartPrice(side, operation), EndPrice(side, operation))
    IN
    /\ buckets = <<>>
    /\ Prices(side) # {}
    /\ buckets' = Distribute(side, prices, operation)
    /\ UNCHANGED <<depthSide, operation>>

DepthTypeOK ==
    /\ operation \in {"Sell", "Buy"}
    /\ Len(buckets) \in {0, NumBuckets + 1}
    /\ \A i \in DOMAIN buckets : \A s \in DOMAIN buckets[i].sources :
           buckets[i].sources[s] \in Nat

-----------------------------------------------------------------------------

\* The most a pool gives at a bucket's price or a better one.
ReachableOf(samples, price, op) ==
    Max({0} \cup {samples[j].input : j \in
           {k \in DOMAIN samples : samples[k].output # 0
              /\ IF op = "Sell" THEN Price(samples[k]) >= price
                 ELSE Price(samples[k]) <= price}})

Growing(samples) == \A j, k \in DOMAIN samples : j < k => samples[j].input < samples[k].input

\* The depth shown for a source at a price is no less than what the best of its
\* pools gives at this price or a better one, and no more than what all of them
\* give together; for a source with one pool it is exactly that.  Samples are
\* taken for growing amounts; only native orders without any other source come in
\* an order of their own (market_depth_utils.ts:154-240).
DepthIsBetween ==
    \A i \in DOMAIN buckets :
        LET side == Normalize(depthSide, operation)
            pools(s) == {l \in NonEmpty(side) : SourceOf(side[l]) = s}
            reach(l) == ReachableOf(side[l], buckets[i].price, operation)
        IN \A s \in AllSources(side) : (\A l \in pools(s) : Growing(side[l])) =>
             /\ buckets[i].sources[s] >= Max({reach(l) : l \in pools(s)})
             /\ buckets[i].sources[s] <= DepthSum([l \in pools(s) |-> reach(l)])
=============================================================================

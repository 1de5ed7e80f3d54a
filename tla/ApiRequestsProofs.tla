--------------------------- MODULE ApiRequestsProofs ---------------------------
(***************************************************************************)
(* Theorems about ApiRequests, for any number of callers, any expiries,    *)
(* any requests and any results of the library.                            *)
(***************************************************************************)
EXTENDS ApiRequests, SumTheorems, SequenceTheorems

(***************************************************************************)
(* How old the answers of a cache are.  An entry is written at most a      *)
(* refresh after its result was sampled, since no refresh lasts longer,    *)
(* and a hit is at most the expiry younger than its entry.  Which of two   *)
(* overlapping refreshes writes last does not matter.                      *)
(***************************************************************************)

SampledBeforeWritten ==
    \A k \in Key : cache[k] # None => cache[k].timestamp - cache[k].sampledAt <= MaxFetch

FetchingInTime ==
    \A c \in Caller : call[c].state = "fetching" =>
        call[c].key \in Key /\ call[c].asked <= now /\ now - call[c].asked <= MaxFetch

CacheInv ==
    /\ CacheTypeOK
    /\ SampledBeforeWritten /\ FetchingInTime
    /\ ServedIsRecent

LEMMA InitCacheInv == CacheInit => CacheInv
BY CacheAssumption
DEF CacheInit, CacheInv, CacheTypeOK, SampledBeforeWritten, FetchingInTime, ServedIsRecent,
    Call, Idle, Time

LEMMA GetResultKeepsCacheInv ==
    ASSUME CacheInv, NEW c \in Caller, NEW k \in Key, GetResult(c, k)
    PROVE  CacheInv'
<1> USE CacheAssumption DEF CacheInv, CacheTypeOK
<1> DEFINE hit == HasResult(k) /\ ~Expired(k)
           held == IF HasResult(k) THEN cache[k] ELSE None
           r == [state |-> IF hit THEN "returned" ELSE "fetching", key |-> k, asked |-> now,
                 held |-> held, answer |-> IF hit THEN held ELSE None, failed |-> FALSE]
<1>1. call' = [call EXCEPT ![c] = r] /\ UNCHANGED <<now, cache>>
    BY Zenon DEF GetResult
<1>2. held \in Entry \cup {None} /\ r \in Call
    BY DEF HasResult, Call
<1>3. call' \in [Caller -> Call]
    BY <1>1, <1>2
<1>4. call'[c] = r /\ \A q \in Caller \ {c} : call'[q] = call[q]
    BY <1>1
<1>5. now \in Nat /\ MaxFetch \in Nat /\ Expiry[k] \in Nat
    BY DEF Time
<1>6. FetchingInTime'
    <2>1. r.state = "fetching" => r.key \in Key /\ r.asked <= now /\ now - r.asked <= MaxFetch
        BY <1>5
    <2> QED
        BY <1>1, <1>4, <2>1 DEF FetchingInTime
<1>7. ServedIsRecent'
    <2>1. r.state = "returned" => r.answer.sampledAt >= r.asked - Expiry[r.key] - MaxFetch
        <3> SUFFICES ASSUME hit PROVE cache[k].sampledAt >= now - Expiry[k] - MaxFetch
            OBVIOUS
        <3>1. cache[k] \in Entry /\ cache[k] # None
            BY DEF HasResult
        <3>2. cache[k].timestamp \in Int /\ cache[k].sampledAt \in Int
            BY <3>1 DEF Entry, Time
        <3>3. cache[k].timestamp >= now - Expiry[k]
            BY <1>5, <3>2 DEF Expired
        <3>4. cache[k].timestamp - cache[k].sampledAt <= MaxFetch
            BY <3>1 DEF SampledBeforeWritten
        <3> QED
            BY <1>5, <3>2, <3>3, <3>4
    <2> QED
        BY <1>4, <2>1 DEF ServedIsRecent
<1>8. SampledBeforeWritten'
    BY <1>1 DEF SampledBeforeWritten
<1>9. CacheTypeOK'
    BY <1>1, <1>3
<1> QED
    BY <1>6, <1>7, <1>8, <1>9

LEMMA FetchesKeepsCacheInv ==
    ASSUME CacheInv, NEW c \in Caller, Fetches(c)
    PROVE  CacheInv'
<1> USE CacheAssumption DEF CacheInv, CacheTypeOK
<1> DEFINE k == call[c].key
<1>1. /\ call[c] \in Call /\ k \in Key /\ call[c].asked \in Nat /\ now \in Nat
      /\ call[c].asked <= now /\ now - call[c].asked <= MaxFetch
      /\ MaxFetch \in Nat /\ Expiry[k] \in Nat
    <2>1. call[c] \in Call
        OBVIOUS
    <2>2. call[c].asked \in Nat /\ now \in Nat
        BY <2>1 DEF Call, Time
    <2>3. k \in Key /\ call[c].asked <= now /\ now - call[c].asked <= MaxFetch
        BY DEF Fetches, FetchingInTime
    <2>4. MaxFetch \in Nat /\ Expiry[k] \in Nat
        BY <2>3
    <2> QED
        BY <2>1, <2>2, <2>3, <2>4
<1>2. PICK v \in ResultOf[k], t \in call[c].asked .. now :
          LET entry == [timestamp |-> now, result |-> v, sampledAt |-> t] IN
          /\ cache' = [cache EXCEPT ![k] = entry]
          /\ call' = [call EXCEPT ![c].state = "returned", ![c].answer = entry]
    BY DEF Fetches
<1> DEFINE entry == [timestamp |-> now, result |-> v, sampledAt |-> t]
<1>3. entry \in Entry /\ now' = now
    BY <1>1 DEF Fetches, Entry, Results, Time
<1>4. cache' = [cache EXCEPT ![k] = entry] /\ cache' \in [Key -> Entry \cup {None}]
    BY <1>2, <1>3
<1>5. /\ call'[c] \in Call /\ call'[c].state = "returned" /\ call'[c].answer = entry
      /\ call'[c].key = k /\ call'[c].asked = call[c].asked
    BY <1>1, <1>2, <1>3 DEF Call
<1>6. /\ call' \in [Caller -> Call]
      /\ \A q \in Caller \ {c} : call'[q] = call[q]
    BY <1>2, <1>5
<1>7. entry.timestamp - entry.sampledAt <= MaxFetch /\ entry.sampledAt >= call[c].asked
    BY <1>1
<1>8. SampledBeforeWritten'
    BY <1>4, <1>7 DEF SampledBeforeWritten
<1>9. FetchingInTime'
    BY <1>3, <1>5, <1>6 DEF FetchingInTime
<1>10. ServedIsRecent'
    <2>1. call'[c].answer.sampledAt >= call'[c].asked - Expiry[call'[c].key] - MaxFetch
        BY <1>1, <1>5
    <2> QED
        BY <1>6, <2>1 DEF ServedIsRecent
<1> QED
    BY <1>3, <1>4, <1>6, <1>8, <1>9, <1>10

\* A step after which a caller fetches nothing, and was not served by a refresh.
LEMMA LeavingKeepsCacheInv ==
    ASSUME CacheInv, NEW c \in Caller, FetchFails(c) \/ Take(c)
    PROVE  CacheInv'
<1> USE DEF CacheInv, CacheTypeOK
<1>1. /\ call' \in [Caller -> Call] /\ UNCHANGED <<now, cache>>
      /\ \A q \in Caller \ {c} : call'[q] = call[q]
      /\ call'[c].state # "fetching"
      /\ call'[c].state = "returned" => call'[c].failed
    <2>1. CASE FetchFails(c)
        <3>1. call[c] \in Call
            OBVIOUS
        <3> QED
            BY <2>1, <3>1 DEF FetchFails, Call
    <2>2. CASE Take(c)
        <3>1. Idle \in Call /\ Idle.state = "idle"
            BY CacheAssumption DEF Idle, Call, Time
        <3> QED
            BY <2>2, <3>1 DEF Take
    <2> QED
        BY <2>1, <2>2
<1> QED
    BY <1>1 DEF SampledBeforeWritten, FetchingInTime, ServedIsRecent

LEMMA TickKeepsCacheInv ==
    ASSUME CacheInv, CacheTick
    PROVE  CacheInv'
<1> USE CacheAssumption DEF CacheInv, CacheTypeOK
<1>1. now' = now + 1 /\ now' \in Time /\ now \in Nat /\ UNCHANGED <<cache, call>>
    BY DEF CacheTick, Time
<1>2. FetchingInTime'
    <2>1. ASSUME NEW c \in Caller, call[c].state = "fetching"
          PROVE  /\ call[c].key \in Key /\ call[c].asked <= now'
                 /\ now' - call[c].asked <= MaxFetch
        <3>1. call[c].asked \in Nat /\ MaxFetch \in Nat
            BY DEF Call, Time
        <3>2. now - call[c].asked < MaxFetch
            BY <2>1 DEF CacheTick
        <3> QED
            BY <1>1, <2>1, <3>1, <3>2 DEF FetchingInTime
    <2>2. call' = call
        BY <1>1
    <2> QED
        BY <2>1, <2>2, Zenon DEF FetchingInTime
<1> QED
    BY <1>1, <1>2 DEF SampledBeforeWritten, ServedIsRecent

\* The other endpoints touch no cache; swaps ask for keys the cache has.
LEMMA NextIsCacheStep ==
    ASSUME Next, \A r \in Caller : endpoint = "swap" => ask[r] \in Ask
    PROVE  CacheNext(Key) \/ UNCHANGED cacheVars
<1>1. CASE Cache
    <2>1. "GST" \in Key
        BY SwapAssumption
    <2> QED
        BY <1>1, <2>1 DEF Cache, CacheNext
<1>2. CASE Swap
    <2> PICK r \in Caller : SwapStep(r)
        BY <1>2 DEF Swap, SwapNext
    <2>1. CASE Lookup(r)
        <3>1. KeyFor(r) \in Key
            <4>1. ask[r] \in Ask
                BY <1>2 DEF Swap
            <4>2. {AddressOf(ask[r].buy), AddressOf(ask[r].sell)} \subseteq Key
                BY <4>1, SwapAssumption DEF AddressOf
            <4> QED
                BY <2>1, <4>2, SwapAssumption DEF Lookup, KeyFor
        <3> QED
            BY <2>1, <3>1 DEF Lookup, CacheNext
    <2>2. CASE UseBalance(r) \/ UseDecimals(r) \/ ServeQuote(r)
        BY <2>2 DEF UseBalance, UseDecimals, ServeQuote, CacheNext
    <2>3. CASE Receive(r) \/ ServeWeth(r) \/ Quoted(r) \/ QuoterFails(r) \/ EstimateGas(r)
        BY <2>3 DEF Receive, ServeWeth, Quoted, QuoterFails, EstimateGas
    <2> QED
        BY <2>1, <2>2, <2>3 DEF SwapStep
<1>3. CASE Orders \/ Depth \/ Chunk
    BY <1>3 DEF Orders, Depth, Chunk
<1> QED
    BY <1>1, <1>2, <1>3 DEF Next

LEMMA CacheStepKeepsCacheInv ==
    ASSUME CacheInv, CacheNext(Key) \/ UNCHANGED cacheVars
    PROVE  CacheInv'
<1>1. CASE UNCHANGED cacheVars
    BY <1>1
    DEF cacheVars, CacheInv, CacheTypeOK, SampledBeforeWritten, FetchingInTime,
        ServedIsRecent
<1>2. CASE CacheNext(Key)
    BY <1>2, GetResultKeepsCacheInv, FetchesKeepsCacheInv, LeavingKeepsCacheInv,
       TickKeepsCacheInv
    DEF CacheNext
<1> QED
    BY <1>1, <1>2

\* What is asked never changes, and is one of the requests while swaps are exercised.
Asked == endpoint = "swap" => ask \in [Caller -> Ask]

LEMMA SwapStepKeepsAsk ==
    ASSUME NEW r \in Caller, SwapStep(r)
    PROVE  UNCHANGED ask
BY DEF SwapStep, Receive, ServeWeth, Quoted, QuoterFails, Lookup, UseBalance, EstimateGas,
       UseDecimals, ServeQuote, swapVars

LEMMA NextKeepsAsked == Asked /\ [Next]_vars => Asked'
<1> SUFFICES ASSUME [Next]_vars PROVE UNCHANGED <<endpoint, ask>>
    BY DEF Asked
<1> QED
    BY SwapStepKeepsAsk DEF Next, vars, swapVars, Swap, SwapNext, Cache, Orders, Depth, Chunk

\* Whatever concurrent callers do, and whichever of their refreshes fail, no
\* answer is older than the expiry and one refresh, but to a caller whose own
\* refresh has just failed.
THEOREM ServedRecently == Spec => []ServedIsRecent
<1>1. Init => CacheInv /\ Asked
    <2>1. Init => CacheInv
        BY InitCacheInv DEF Init, SwapInit
    <2>2. Init => Asked
        BY DEF Init, Asked, SwapInit, Of
    <2> QED
        BY <2>1, <2>2
<1>2. CacheInv /\ Asked /\ [Next]_vars => CacheInv'
    BY NextIsCacheStep, CacheStepKeepsCacheInv DEF Asked, vars
<1>3. CacheInv => ServedIsRecent
    BY DEF CacheInv
<1> QED
    BY <1>1, <1>2, <1>3, NextKeepsAsked, PTL DEF Spec

(***************************************************************************)
(* What a buyer is offered.  The library is asked for the amount with the  *)
(* affiliate's fee, rounded down, and the fee is divided out of what it    *)
(* finds, rounded down again.  Both times the percentage is added to 1 as  *)
(* a double: by what this sum is off, the offer is off, and the roundings  *)
(* themselves cancel out.                                                  *)
(***************************************************************************)

LEMMA FactorsCompare ==
    ASSUME NEW x \in Int, NEW y \in Int, NEW z \in Nat \ {0}
    PROVE  /\ x * z \in Int /\ y * z \in Int
           /\ x <= y => x * z <= y * z
           /\ x < y => x * z < y * z
           /\ x * z < y * z => x < y
<1>1. ASSUME NEW m \in Int, NEW n \in Int, m <= n PROVE m * z <= n * z
    <2>1. (n - m) * z >= 0 /\ (n - m) * z = n * z - m * z
        BY <1>1
    <2> QED
        BY <2>1
<1>2. x * z \in Int /\ y * z \in Int
    OBVIOUS
<1>3. x < y => x * z < y * z
    <2>1. x < y => (x + 1) * z <= y * z
        BY <1>1
    <2>2. (x + 1) * z = x * z + z
        OBVIOUS
    <2> QED
        BY <1>2, <2>1, <2>2
<1>4. x * z < y * z => x < y
    <2>1. y <= x => y * z <= x * z
        BY <1>1
    <2> QED
        BY <1>2, <2>1
<1> QED
    BY <1>1, <1>2, <1>3, <1>4

\* An offer o for the amount a: w is a with the fee, and q the fee that is taken,
\* where S stands for the sum of 1 and the fee f, B for 1 and e for the sum's error.
LEMMA RoundingsCancel ==
    ASSUME NEW a \in Nat, NEW f \in Nat, NEW B \in Nat \ {0}, NEW S \in Nat, S >= B,
           NEW w \in Nat, B * w <= a * S, a * S < B * w + B,
           NEW q \in Int, S * q <= w * f, w * f < S * q + S,
           NEW e \in Nat, IF S < B + f THEN e = B + f - S ELSE e = S - B - f
    PROVE  /\ (w - q - a) * B < a * e + B
           /\ (a - (w - q)) * B < a * e + B
<1> DEFINE o == w - q
<1>1. /\ o \in Int /\ a * e \in Nat /\ w * e \in Nat /\ w * B \in Nat /\ a * S \in Nat
      /\ S \in Nat \ {0} /\ o * S \in Int /\ w * B = B * w
    OBVIOUS
\* Of w, the shares without the fee are left over, and less than a unit more.
<1>2. IF S < B + f THEN o * S < w * B - w * e + S /\ w * B - w * e <= o * S
      ELSE o * S < w * B + w * e + S /\ w * B + w * e <= o * S
    <2>1. o * S = w * S - S * q /\ S * q \in Int /\ w * f \in Nat /\ w * S \in Nat
        OBVIOUS
    <2>2. w * S - w * f <= o * S /\ o * S < w * S - w * f + S
        BY <1>1, <2>1
    <2>3. CASE S < B + f
        <3>1. w * S = w * (B + f - e)
            BY <2>3
        <3>2. w * (B + f - e) = w * B + w * f - w * e
            OBVIOUS
        <3> QED
            BY <1>1, <2>1, <2>2, <2>3, <3>1, <3>2
    <2>4. CASE ~(S < B + f)
        <3>1. w * S = w * (B + f + e)
            BY <2>4
        <3>2. w * (B + f + e) = w * B + w * f + w * e
            OBVIOUS
        <3> QED
            BY <1>1, <2>1, <2>2, <2>4, <3>1, <3>2
    <2> QED
        BY <2>3, <2>4
<1> HIDE DEF o
<1>3. (w * e) * B <= (a * e) * S /\ (w * e) * B \in Int /\ (a * e) * S \in Int
    <2>1. CASE e = 0
        BY <2>1
    <2>2. CASE e # 0
        <3>1. (w * B) * e <= (a * S) * e
            BY <1>1, <2>2, FactorsCompare
        <3>2. (w * B) * e = (w * e) * B /\ (a * S) * e = (a * e) * S
            OBVIOUS
        <3> QED
            BY <1>1, <3>1, <3>2
    <2> QED
        BY <2>1, <2>2
<1>4. (o - a) * B < a * e + B
    <2> DEFINE m == o - a - 1
    <2>1. m \in Int /\ m * S = o * S - a * S - S /\ (o - a) * B = m * B + B
        BY <1>1
    <2> HIDE DEF m
    <2>2. m * B \in Int /\ m * S \in Int
        BY <1>1, <2>1
    <2>3. CASE S < B + f
        <3>1. m * S < 0 * S
            BY <1>1, <1>2, <2>1, <2>3
        <3>2. m < 0
            BY <1>1, <2>1, <3>1, FactorsCompare
        <3>3. m * B < 0 * B
            BY <2>1, <3>2, FactorsCompare
        <3> QED
            BY <1>1, <2>1, <2>2, <3>3
    <2>4. CASE ~(S < B + f)
        <3>1. m * S < w * e
            BY <1>1, <1>2, <2>1, <2>4
        <3>2. (m * S) * B < (w * e) * B
            BY <1>1, <2>2, <3>1, FactorsCompare
        <3>3. (m * S) * B = (m * B) * S /\ (m * S) * B \in Int
            BY <1>1, <2>1, <2>2
        <3>4. (m * B) * S < (a * e) * S
            BY <1>3, <3>2, <3>3
        <3>5. m * B < a * e
            BY <1>1, <2>2, <3>4, FactorsCompare
        <3> QED
            BY <1>1, <2>1, <2>2, <3>5
    <2> QED
        BY <2>3, <2>4
<1>5. (a - o) * B < a * e + B
    <2> DEFINE n == a - o
    <2>1. n \in Int /\ n * S = a * S - o * S
        BY <1>1
    <2> HIDE DEF n
    <2>2. n * B \in Int /\ n * S \in Int
        BY <1>1, <2>1
    <2>3. CASE S < B + f
        <3>1. n * S < w * e + B
            BY <1>1, <1>2, <2>1, <2>3
        <3>2. (n * S) * B < (w * e + B) * B
            BY <1>1, <2>2, <3>1, FactorsCompare
        <3>3. (w * e + B) * B = (w * e) * B + B * B
            BY <1>1
        <3>4. B * B <= S * B /\ B * B \in Int /\ S * B = B * S /\ B * S \in Int
            BY FactorsCompare
        <3>5. (a * e + B) * S = (a * e) * S + B * S
            BY <1>1
        <3>6. (n * S) * B = (n * B) * S /\ (n * S) * B \in Int
            BY <1>1, <2>1, <2>2
        <3>7. (n * B) * S < (a * e + B) * S
            BY <1>3, <3>2, <3>3, <3>4, <3>5, <3>6
        <3>8. a * e + B \in Int
            BY <1>1
        <3>9. n * B < a * e + B
            BY <1>1, <2>2, <3>7, <3>8, FactorsCompare
        <3> QED
            BY <3>9 DEF n
    <2>4. CASE ~(S < B + f)
        <3>1. n * S < 1 * S
            BY <1>1, <1>2, <2>1, <2>4
        <3>2. n < 1
            BY <1>1, <2>1, <3>1, FactorsCompare
        <3>3. n * B <= 0 * B
            BY <2>1, <3>2, FactorsCompare
        <3>4. n * B < a * e + B
            BY <1>1, <2>2, <3>3
        <3> QED
            BY <3>4 DEF n
    <2> QED
        BY <2>3, <2>4
<1> QED
    BY <1>4, <1>5 DEF o

\* What is left of the scaled amount after the fee.
Offered(a, f) == BuyAmountScaled(a, f) - BuyTokenFeeAmount(BuyAmountScaled(a, f), f)

LEMMA FeesAreTyped ==
    /\ FeeBase \in Nat \ {0} /\ MaxSumError \in Nat
    /\ \A f \in Fees : /\ f \in Nat /\ OnePlus[f] \in Nat \ {0} /\ OnePlus[f] >= FeeBase
                       /\ SumError(f) \in Nat
<1>1. \A f \in Fees : f \in Nat
    BY SwapAssumption DEF Fees
<1>2. FeeBase \in Nat \ {0} /\ MaxSumError \in Nat
    BY FeeAssumption
<1>3. \A f \in Fees : OnePlus[f] \in Nat /\ OnePlus[f] >= FeeBase
    BY FeeAssumption
<1> QED
    BY <1>1, <1>2, <1>3 DEF SumError

LEMMA FeeIsRoundedAlike ==
    ASSUME NEW a \in Nat, NEW f \in Fees
    PROVE  IsWithin(Offered(a, f), a, SumError(f))
<1> DEFINE B == FeeBase
           S == OnePlus[f]
           w == (a * S) \div B
           q == (w * f) \div S
           e == SumError(f)
<1>1. B \in Nat \ {0} /\ S \in Nat \ {0} /\ S >= B /\ f \in Nat /\ e \in Nat
    BY FeesAreTyped
<1>2. IF S < B + f THEN e = B + f - S ELSE e = S - B - f
    BY DEF SumError
<1>3. Offered(a, f) = w - q
    BY DEF Offered, BuyAmountScaled, BuyTokenFeeAmount
<1> HIDE DEF B, S, e
<1>4. a * S \in Nat
    BY <1>1
<1>5. w \in Nat /\ B * w <= a * S /\ a * S < B * w + B
    BY <1>1, <1>4
<1> HIDE DEF w
<1>6. w * f \in Nat
    BY <1>1, <1>5
<1>7. q \in Int /\ S * q <= w * f /\ w * f < S * q + S
    BY <1>1, <1>6
<1> HIDE DEF q
<1>8. /\ (w - q - a) * B < a * e + B
      /\ (a - (w - q)) * B < a * e + B
    BY <1>1, <1>2, <1>5, <1>7, RoundingsCancel
<1> QED
    BY <1>3, <1>8 DEF IsWithin, B, e

LEMMA OfferIsInt ==
    ASSUME NEW a \in Nat, NEW f \in Fees
    PROVE  /\ BuyAmountScaled(a, f) \in Nat
           /\ \A maker \in Nat : BuyTokenFeeAmount(maker, f) \in Nat
<1>1. FeeBase \in Nat \ {0} /\ OnePlus[f] \in Nat \ {0} /\ f \in Nat
    BY FeesAreTyped
<1>2. \A x \in Nat, d \in Nat \ {0} : x \div d \in Nat
    OBVIOUS
<1>3. a * OnePlus[f] \in Nat /\ \A maker \in Nat : maker * f \in Nat
    BY <1>1
<1> QED
    BY <1>1, <1>2, <1>3 DEF BuyAmountScaled, BuyTokenFeeAmount

\* What BuyerGetsWhatWasAsked says of one offer.
IsFair(offered, a, f) ==
    /\ SumError(f) = 0 => offered = a
    /\ IsWithin(offered, a, MaxSumError)

LEMMA OffersAreFair ==
    ASSUME NEW a \in Nat, NEW f \in Fees, f <= FeeBase
    PROVE  IsFair(Offered(a, f), a, f)
<1> DEFINE o == Offered(a, f)
           e == SumError(f)
<1>1. /\ FeeBase \in Nat \ {0} /\ MaxSumError \in Nat /\ e \in Nat /\ e <= MaxSumError
    BY FeesAreTyped, FeeAssumption
<1>2. o \in Int
    BY OfferIsInt DEF Offered
<1>3. (o - a) * FeeBase < a * e + FeeBase /\ (a - o) * FeeBase < a * e + FeeBase
    BY FeeIsRoundedAlike DEF IsWithin
<1> HIDE DEF o, e
<1>4. a * e <= a * MaxSumError /\ a * e \in Nat /\ a * MaxSumError \in Nat
    <2>1. a * (MaxSumError - e) >= 0 /\ a * (MaxSumError - e) = a * MaxSumError - a * e
        BY <1>1
    <2> QED
        BY <1>1, <2>1
<1>5. (o - a) * FeeBase \in Int /\ (a - o) * FeeBase \in Int
    BY <1>1, <1>2
<1>6. IsWithin(o, a, MaxSumError)
    BY <1>1, <1>3, <1>4, <1>5 DEF IsWithin
<1>7. e = 0 => o = a
    <2>1. e = 0 => (o - a) * FeeBase < 1 * FeeBase /\ (a - o) * FeeBase < 1 * FeeBase
        BY <1>1, <1>3
    <2>2. e = 0 => o - a < 1 /\ a - o < 1
        BY <1>1, <1>2, <2>1, FactorsCompare
    <2> QED
        BY <1>2, <2>2
<1> QED
    BY <1>6, <1>7 DEF IsFair, o, e

LEMMA ExactIsFair ==
    ASSUME NEW a \in Nat, NEW f PROVE IsFair(a, a, f)
<1>1. FeeBase \in Nat \ {0} /\ a * MaxSumError \in Nat
    BY FeesAreTyped
<1>2. (a - a) * FeeBase = 0
    BY <1>1
<1> QED
    BY <1>1, <1>2 DEF IsFair, IsWithin

\* A quote that is on its way was found for the amount that its request asks for.
QuotedForRequest ==
    \A r \in Caller :
        pc[r] \notin {"new", "quoter", "done"} /\ ask[r].side = "buy" =>
            LET scaled == BuyAmountScaled(ask[r].amount, FeeOf(ask[r])) IN
            quote[r].bestMaker = scaled /\ quote[r].worstMaker = scaled

\* Requests with larger fees have been refused.
FeesAreChecked == \A r \in Caller : pc[r] \notin {"new", "done"} => ask[r].fee <= FeeBase

SwapInv ==
    /\ Asked
    /\ pc \in [Caller -> RequestPC]
    /\ DOMAIN quote = Caller /\ DOMAIN answer = Caller
    /\ quote = [r \in Caller |-> quote[r]] /\ answer = [r \in Caller |-> answer[r]]
    /\ QuotedForRequest /\ FeesAreChecked /\ BuyerGetsWhatWasAsked

LEMMA InitSwapInv == Init => SwapInv
<1>1. Init => Asked
    BY DEF Init, Asked, SwapInit, Of
<1> QED
    BY <1>1
    DEF Init, SwapInit, SwapInv, RequestPC, Unanswered, QuotedForRequest,
        FeesAreChecked, BuyerGetsWhatWasAsked, IsServed

LEMMA SwapStepKeepsSwapInv ==
    ASSUME SwapInv, endpoint = "swap", NEW r \in Caller, SwapStep(r),
           UNCHANGED endpoint, UNCHANGED ask
    PROVE  SwapInv'
<1> USE DEF SwapInv
<1>1. ask[r] \in Ask /\ ask[r].amount \in Nat /\ FeeOf(ask[r]) \in Fees
    BY SwapAssumption DEF Asked, FeeOf, Fees
<1>2. Asked'
    BY DEF Asked
<1>3. ASSUME NEW where \in RequestPC, Goes(r, where), UNCHANGED quote,
             where \notin {"new", "quoter", "done"} => pc[r] \notin {"new", "quoter", "done"},
             where # "done" => ask[r].fee <= FeeBase
      PROVE  SwapInv'
    <2>1. QuotedForRequest' /\ FeesAreChecked'
        BY <1>3 DEF Goes, QuotedForRequest, FeesAreChecked
    <2>2. BuyerGetsWhatWasAsked'
        BY <1>3 DEF Goes, BuyerGetsWhatWasAsked, IsServed
    <2> QED
        BY <1>2, <1>3, <2>1, <2>2 DEF Goes
<1>4. ASSUME NEW response, Answered(r, response), UNCHANGED quote,
             response.kind = "quote" /\ ask[r].side = "buy" =>
                 IsFair(response.buyAmount, ask[r].amount, FeeOf(ask[r]))
      PROVE  SwapInv'
    <2>1. QuotedForRequest' /\ FeesAreChecked'
        BY <1>4 DEF Answered, QuotedForRequest, FeesAreChecked
    <2>2. BuyerGetsWhatWasAsked'
        BY <1>4 DEF Answered, BuyerGetsWhatWasAsked, IsServed, IsFair
    <2> QED
        BY <1>2, <1>4, <2>1, <2>2 DEF Answered, RequestPC
<1>5. \A kind \in Errors : Error(kind).kind # "quote"
    BY DEF Error, Errors
<1>6. CASE Receive(r)
    BY <1>3, <1>4, <1>5, <1>6 DEF Receive, ValidRequest, Errors, RequestPC
<1>7. CASE ServeWeth(r)
    <2>1. IsFair(ask[r].amount, ask[r].amount, FeeOf(ask[r]))
        BY <1>1, ExactIsFair
    <2> QED
        BY <1>4, <1>7, <2>1 DEF ServeWeth
<1>8. CASE Quoted(r)
    <2>1. /\ pc' = [pc EXCEPT ![r] = "balance"] /\ answer' = answer
          /\ \A c \in Caller \ {r} : quote'[c] = quote[c]
          /\ DOMAIN quote' = Caller /\ quote' = [c \in Caller |-> quote'[c]]
        BY <1>8 DEF Quoted, Goes
    <2>2. ask[r].side = "buy" =>
              LET scaled == BuyAmountScaled(ask[r].amount, FeeOf(ask[r])) IN
              quote'[r].bestMaker = scaled /\ quote'[r].worstMaker = scaled
        BY <1>8 DEF Quoted
    <2>3. pc[r] = "quoter"
        BY <1>8 DEF Quoted
    <2>4. QuotedForRequest' /\ FeesAreChecked'
        BY <2>1, <2>2, <2>3 DEF QuotedForRequest, FeesAreChecked
    <2>5. BuyerGetsWhatWasAsked'
        BY <2>1 DEF BuyerGetsWhatWasAsked, IsServed
    <2> QED
        BY <1>2, <2>1, <2>4, <2>5 DEF RequestPC
<1>9. CASE QuoterFails(r)
    <2>1. PICK kind \in {"validation", "internal"} : Answered(r, Error(kind))
        BY <1>9 DEF QuoterFails
    <2> QED
        BY <1>4, <1>5, <1>9, <2>1 DEF QuoterFails, Errors
<1>10. CASE Lookup(r)
    BY <1>2, <1>10
    DEF Lookup, swapVars, QuotedForRequest, FeesAreChecked, BuyerGetsWhatWasAsked, IsServed
<1>11. CASE UseBalance(r)
    <2>1. PICK where \in {"estimate", "buyDecimals"} : Goes(r, where)
        BY <1>11 DEF UseBalance
    <2> QED
        BY <1>3, <1>11, <2>1 DEF UseBalance, FeesAreChecked, RequestPC
<1>12. CASE EstimateGas(r)
    <2>1. \/ Goes(r, "buyDecimals")
          \/ \E kind \in Errors : Answered(r, Error(kind))
        BY <1>12 DEF EstimateGas, Errors
    <2> QED
        BY <1>3, <1>4, <1>5, <1>12, <2>1 DEF EstimateGas, FeesAreChecked, RequestPC
<1>13. CASE UseDecimals(r)
    BY <1>3, <1>13 DEF UseDecimals, FeesAreChecked, RequestPC
<1>14. CASE ServeQuote(r)
    <2>1. /\ Answered(r, Response(ask[r], quote[r], gas[r])) /\ UNCHANGED quote
          /\ pc[r] = "sellDecimals"
        BY <1>14 DEF ServeQuote
    <2>2. ask[r].side = "buy" =>
              Response(ask[r], quote[r], gas[r]).buyAmount = Offered(ask[r].amount, FeeOf(ask[r]))
        BY <2>1 DEF Response, QuotedForRequest, Offered
    <2>3. FeeOf(ask[r]) <= FeeBase
        BY <2>1, FeesAreTyped DEF FeesAreChecked, FeeOf
    <2>4. IsFair(Offered(ask[r].amount, FeeOf(ask[r])), ask[r].amount, FeeOf(ask[r]))
        BY <1>1, <2>3, OffersAreFair
    <2> QED
        BY <1>4, <2>1, <2>2, <2>4
<1> QED
    BY <1>6, <1>7, <1>8, <1>9, <1>10, <1>11, <1>12, <1>13, <1>14 DEF SwapStep

\* Whoever asks for an exact amount is offered it, up to the share by which the
\* program's sum of 1 and the fee is off and less than one unit more, and exactly it
\* where this sum is exact: for every amount, every fee and every such error.
THEOREM BuyersGetWhatTheyAsk == Spec => []BuyerGetsWhatWasAsked
<1>1. ASSUME SwapInv, UNCHANGED <<endpoint, swapVars>>
      PROVE  SwapInv'
    BY <1>1
    DEF swapVars, SwapInv, Asked, QuotedForRequest, FeesAreChecked, BuyerGetsWhatWasAsked,
        IsServed
<1>2. ASSUME SwapInv, Swap
      PROVE  SwapInv'
    <2>1. UNCHANGED <<endpoint, ask>>
        BY <1>2, SwapStepKeepsAsk DEF Swap, SwapNext
    <2> QED
        BY <1>2, <2>1, SwapStepKeepsSwapInv DEF Swap, SwapNext
<1>3. SwapInv /\ [Next]_vars => SwapInv'
    BY <1>1, <1>2 DEF Next, vars, Cache, Orders, Depth, Chunk
<1>4. SwapInv => BuyerGetsWhatWasAsked
    BY DEF SwapInv
<1> QED
    BY <1>3, <1>4, InitSwapInv, PTL DEF Spec

(***************************************************************************)
(* That a quote can be executed by who asked for it.  The numbers of an    *)
(* answer are fixed in several steps from what the library, the cache of   *)
(* gas tokens and the node have answered; the cache is shared, so that a   *)
(* request has to be handed the entry it has asked for.                    *)
(***************************************************************************)

EntryFits(k, entry) == entry \in Entry /\ entry.result \in ResultOf[k]

\* The results of a key are of that key, also those that a caller holds.
ResultsFit ==
    /\ \A k \in Key : cache[k] # None => EntryFits(k, cache[k])
    /\ \A c \in Caller : call[c].state = "fetching" /\ call[c].held # None =>
           EntryFits(call[c].key, call[c].held)
    /\ \A c \in Caller : call[c].state = "returned" => EntryFits(call[c].key, call[c].answer)

LEMMA InitResultsFit == CacheInit => ResultsFit
BY DEF CacheInit, ResultsFit, Idle

LEMMA GetResultKeepsResultsFit ==
    ASSUME CacheInv, ResultsFit, NEW c \in Caller, NEW k \in Key, GetResult(c, k)
    PROVE  ResultsFit'
<1> USE DEF CacheInv, CacheTypeOK
<1> DEFINE hit == HasResult(k) /\ ~Expired(k)
           held == IF HasResult(k) THEN cache[k] ELSE None
           r == [state |-> IF hit THEN "returned" ELSE "fetching", key |-> k, asked |-> now,
                 held |-> held, answer |-> IF hit THEN held ELSE None, failed |-> FALSE]
<1>1. call' = [call EXCEPT ![c] = r] /\ UNCHANGED <<now, cache>>
    BY Zenon DEF GetResult
<1>2. call'[c] = r /\ \A q \in Caller \ {c} : call'[q] = call[q]
    BY <1>1
<1>3. held # None => EntryFits(k, held)
    BY DEF HasResult, ResultsFit
<1>4. hit => EntryFits(k, held)
    BY DEF HasResult, ResultsFit
<1>5. /\ r.state = "fetching" /\ r.held # None => EntryFits(r.key, r.held)
      /\ r.state = "returned" => EntryFits(r.key, r.answer)
    BY <1>3, <1>4
<1> QED
    BY <1>1, <1>2, <1>5 DEF ResultsFit

LEMMA FetchesKeepsResultsFit ==
    ASSUME CacheInv, ResultsFit, NEW c \in Caller, Fetches(c)
    PROVE  ResultsFit'
<1> USE DEF CacheInv, CacheTypeOK
<1> DEFINE k == call[c].key
<1>1. call[c] \in Call /\ k \in Key
    BY DEF Fetches, FetchingInTime
<1>2. PICK v \in ResultOf[k], t \in call[c].asked .. now :
          LET entry == [timestamp |-> now, result |-> v, sampledAt |-> t] IN
          /\ cache' = [cache EXCEPT ![k] = entry]
          /\ call' = [call EXCEPT ![c].state = "returned", ![c].answer = entry]
    BY DEF Fetches
<1> DEFINE entry == [timestamp |-> now, result |-> v, sampledAt |-> t]
<1>3. EntryFits(k, entry)
    <2>1. t \in Time /\ now \in Time
        <3>1. call[c].asked \in Time /\ now \in Time
            BY <1>1 DEF Call
        <3> QED
            BY <3>1, CacheAssumption DEF Time
    <2> QED
        BY <1>1, <2>1 DEF EntryFits, Entry, Results
<1>4. \A q \in Key : cache'[q] # None => EntryFits(q, cache'[q])
    BY <1>1, <1>2, <1>3 DEF ResultsFit
<1>5. call'[c].state = "returned" /\ call'[c].key = k /\ call'[c].answer = entry
    <2> DEFINE e == entry
    <2>1. call' = [call EXCEPT ![c].state = "returned", ![c].answer = e]
        BY <1>2
    <2> HIDE DEF e
    <2>2. call'[c].state = "returned" /\ call'[c].key = k /\ call'[c].answer = e
        BY <1>1, <2>1 DEF Call
    <2> QED
        BY <2>2 DEF e
<1>6. \A q \in Caller \ {c} : call'[q] = call[q]
    BY <1>2
<1> QED
    BY <1>3, <1>4, <1>5, <1>6 DEF ResultsFit

LEMMA LeavingKeepsResultsFit ==
    ASSUME CacheInv, ResultsFit, NEW c \in Caller, FetchFails(c) \/ Take(c)
    PROVE  ResultsFit'
<1> USE DEF CacheInv, CacheTypeOK
<1>1. cache' = cache /\ \A q \in Caller \ {c} : call'[q] = call[q]
    BY DEF FetchFails, Take
<1>2. /\ call'[c].state # "fetching"
      /\ call'[c].state = "returned" => EntryFits(call'[c].key, call'[c].answer)
    <2>1. CASE FetchFails(c)
        <3>1. call[c] \in Call /\ call[c].state = "fetching"
            BY <2>1 DEF FetchFails
        <3>2. /\ call'[c].state = IF call[c].held # None THEN "returned" ELSE "threw"
              /\ call'[c].key = call[c].key /\ call'[c].answer = call[c].held
            BY <2>1, <3>1 DEF FetchFails, Call
        <3> QED
            BY <3>1, <3>2 DEF ResultsFit
    <2>2. CASE Take(c)
        BY <2>2 DEF Take, Idle
    <2> QED
        BY <2>1, <2>2
<1> QED
    BY <1>1, <1>2 DEF ResultsFit

LEMMA CacheStepKeepsResultsFit ==
    ASSUME CacheInv, ResultsFit, CacheNext(Key) \/ UNCHANGED cacheVars
    PROVE  ResultsFit'
<1>1. CASE UNCHANGED cacheVars \/ CacheTick
    BY <1>1 DEF cacheVars, CacheTick, ResultsFit
<1>2. CASE CacheNext(Key)
    BY <1>1, <1>2, GetResultKeepsResultsFit, FetchesKeepsResultsFit, LeavingKeepsResultsFit
    DEF CacheNext
<1> QED
    BY <1>1, <1>2

\* A caller of the cache is a request at the lookup of the key it has asked for.
LookupFits(a, where, asking) ==
    asking.state # "idle" =>
        \/ where = "balance" /\ asking.key = "GST"
        \/ where = "buyDecimals" /\ asking.key = AddressOf(a.buy)
        \/ where = "sellDecimals" /\ asking.key = AddressOf(a.sell)

LookupsFit == endpoint = "swap" => \A r \in Caller : LookupFits(ask[r], pc[r], call[r])

\* The request is to be executed by the node before it is answered.
Validated(a) == a.from /\ a.endpoint = "quote" /\ ~a.skip

\* What QuoteIsSound says of one request, with the quote `q', the response `s' and
\* the `outcome' of the node's execution.
SoundFor(a, q, s, outcome) ==
    /\ Validated(a) => outcome = "ok"
    /\ q.rfqtTaker # None => q.rfqtTaker = (CASE s.extension = "exchangeProxy" -> "flashWallet"
                                              [] s.extension = "forwarder" -> "forwarder"
                                              [] s.extension = "none" -> "from")
    /\ s.value >= s.protocolFee + (IF a.sell = "ETH" THEN s.sellAmount ELSE 0)
    /\ (s.value > s.protocolFee) => (s.allowanceTarget = "none")
    /\ s.minimumProtocolFee <= s.protocolFee
    /\ s.estimatedGas <= s.gas /\ s.refund <= Rounded(s.estimatedGas, 2)
    /\ \A i \in 1 .. Len(q.fills) : q.fills[i] \notin ParsedExcluded(a)

QuoteFits(a, q) ==
    /\ q \in Quote
    /\ q.rfqtTaker = RfqtTaker(a)
    /\ q.bestTaker <= q.worstTaker
    /\ \A i \in 1 .. Len(q.fills) : q.fills[i] \notin ParsedExcluded(a)

\* A request, by how far it has come.
RequestFits(a, where, q, g, outcome, s) ==
    /\ where \in RequestPC
    /\ q = None \/ q \in Quote
    /\ g \in [estimate : Nat, refund : Nat]
    /\ outcome \in {"none", "ok"} \cup Errors
    /\ s \in Served \/ s \in {Unanswered} \cup Refusals
    /\ (where = "done") = (s # Unanswered)
    /\ where \notin {"new", "quoter", "done"} => QuoteFits(a, q)
    /\ where \in {"buyDecimals", "sellDecimals"} /\ Validated(a) => outcome = "ok"
    /\ s.kind = "quote" /\ s.extension # "weth" => SoundFor(a, q, s, outcome)

RequestsFit ==
    /\ ask \in [Caller -> Ask]
    /\ pc = [r \in Caller |-> pc[r]] /\ quote = [r \in Caller |-> quote[r]]
    /\ gas = [r \in Caller |-> gas[r]] /\ simulated = [r \in Caller |-> simulated[r]]
    /\ answer = [r \in Caller |-> answer[r]]
    /\ \A r \in Caller :
           RequestFits(ask[r], pc[r], quote[r], gas[r], simulated[r], answer[r])

LEMMA RequestsFitSuffices == CacheInv /\ RequestsFit => SwapTypeOK /\ QuoteIsSound
<1> SUFFICES ASSUME CacheInv, RequestsFit PROVE SwapTypeOK /\ QuoteIsSound
    OBVIOUS
<1>1. SwapTypeOK
    BY DEF CacheInv, RequestsFit, RequestFits, SwapTypeOK
<1>2. QuoteIsSound
    BY DEF RequestsFit, RequestFits, SoundFor, Validated, QuoteIsSound, IsSwap, IsServed
<1> QED
    BY <1>1, <1>2

(* The arithmetic of a response. *)

LEMMA FillsCounted ==
    ASSUME NEW fills \in Routes
    PROVE  /\ Len(fills) \in Nat /\ NativeFills(fills) \in Nat
           /\ NativeFills(fills) <= Len(fills) /\ BridgeFills(fills) \in Nat
<1> DEFINE native == {i \in 1 .. Len(fills) : fills[i] = "Native"}
<1>1. Len(fills) \in Nat
    BY SwapAssumption
<1>2. IsFiniteSet(1 .. Len(fills)) /\ Cardinality(1 .. Len(fills)) = Len(fills)
    BY <1>1, FS_Interval, SMTT(40)
<1>3. /\ IsFiniteSet(native) /\ Cardinality(native) <= Cardinality(1 .. Len(fills))
      /\ Cardinality(native) \in Nat
    <2>1. native \subseteq 1 .. Len(fills)
        OBVIOUS
    <2> QED
        BY <1>2, <2>1, FS_Subset, FS_CardinalityType
<1> QED
    BY <1>1, <1>2, <1>3 DEF NativeFills, BridgeFills

LEMMA ProductIsNat == ASSUME NEW x \in Nat, NEW y \in Nat PROVE x * y \in Nat
OBVIOUS

LEMMA QuotientIsBetween ==
    ASSUME NEW x \in Nat, NEW d \in Nat \ {0}
    PROVE  x \div d \in Nat /\ d * (x \div d) <= x /\ x < d * (x \div d) + d
OBVIOUS

LEMMA ProtocolFees ==
    ASSUME NEW fills \in Routes
    PROVE  /\ LibraryProtocolFee(fills) \in Nat /\ ProtocolFee * NativeFills(fills) \in Nat
BY FillsCounted, ProductIsNat, SwapAssumption DEF LibraryProtocolFee

\* More than is asked for is never less, after rounding.
LEMMA RoundedUp ==
    ASSUME NEW e \in Nat
    PROVE  Rounded(e * BufferNum, BufferDen) \in Nat /\ e <= Rounded(e * BufferNum, BufferDen)
<1> DEFINE N == BufferNum  D == BufferDen  p == (2 * (e * N) + D) \div (2 * D)
<1>1. D \in Nat \ {0} /\ N \in Nat /\ N >= D
    BY SwapAssumption
<1> HIDE DEF N, D
<1>2. e * N \in Nat /\ e * D \in Nat /\ e * N >= e * D
    <2>1. N - D \in Nat
        BY <1>1
    <2>2. e * N = e * D + e * (N - D)
        BY <1>1
    <2> QED
        BY <1>1, <2>1, <2>2, ProductIsNat
<1>3. /\ p \in Nat /\ 2 * (e * N) + D < (2 * D) * p + 2 * D
      /\ 2 * (e * N) + D \in Nat /\ 2 * D \in Nat \ {0}
    <2>1. 2 * (e * N) + D \in Nat /\ 2 * D \in Nat \ {0}
        BY <1>1, <1>2
    <2> QED
        BY <2>1, QuotientIsBetween
<1> HIDE DEF p
<1>4. ~(p + 1 <= e)
    <2> SUFFICES ASSUME p + 1 <= e PROVE FALSE
        OBVIOUS
    <2>1. D * p + D = D * (p + 1) /\ D * e = e * D /\ D * (e - (p + 1)) \in Nat
        BY <1>1, <1>3, ProductIsNat
    <2>2. D * (e - (p + 1)) = D * e - D * (p + 1)
        BY <1>1, <1>3
    <2>3. D * p \in Nat /\ (2 * D) * p = 2 * (D * p)
        BY <1>1, <1>3, ProductIsNat
    <2> QED
        BY <1>1, <1>2, <1>3, <2>1, <2>2, <2>3
<1> QED
    BY <1>3, <1>4 DEF Rounded, p, N, D

LEMMA ResponseIsSound ==
    ASSUME NEW a \in Ask, NEW q, NEW g \in [estimate : Nat, refund : Nat], NEW outcome,
           QuoteFits(a, q), Validated(a) => outcome = "ok"
    PROVE  Response(a, q, g) \in Served /\ SoundFor(a, q, Response(a, q, g), outcome)
<1> DEFINE s == Response(a, q, g)
<1>1. /\ q \in Quote /\ q.fills \in Routes /\ q.bestTaker \in Nat /\ q.worstTaker \in Nat
      /\ q.bestMaker \in Nat /\ q.worstMaker \in Nat /\ q.bestTaker <= q.worstTaker
      /\ g.estimate \in Nat /\ g.refund \in Nat
    BY DEF QuoteFits, Quote
<1>2. /\ LibraryProtocolFee(q.fills) \in Nat /\ AdjustedProtocolFee(a, q.fills) \in Nat
      /\ AdjustedValue(a, q) = AdjustedProtocolFee(a, q.fills)
                                + (IF a.sell = "ETH" THEN q.worstTaker ELSE 0)
      /\ AdjustedValue(a, q) \in Nat
    <2>1. LibraryProtocolFee(q.fills) \in Nat /\ AdjustedProtocolFee(a, q.fills) \in Nat
        BY <1>1, ProtocolFees DEF AdjustedProtocolFee
    <2> QED
        BY <1>1, <2>1 DEF AdjustedValue
<1>3. /\ s.gas \in Nat /\ s.estimatedGas = g.estimate /\ g.estimate <= s.gas
    BY <1>1, RoundedUp DEF Response
<1>4. s.refund \in Nat /\ s.refund <= Rounded(g.estimate, 2)
    <2>1. s.refund = Rounded(Least(g.estimate, 2 * g.refund), 2)
        BY DEF Response
    <2>2. Least(g.estimate, 2 * g.refund) \in Nat /\ Least(g.estimate, 2 * g.refund) <= g.estimate
        BY <1>1 DEF Least
    <2>3. \A x, y \in Nat : x <= y => Rounded(x, 2) \in Nat /\ Rounded(x, 2) <= Rounded(y, 2)
        BY DEF Rounded
    <2> QED
        BY <1>1, <2>1, <2>2, <2>3
<1>5. /\ s.kind = "quote" /\ s.sellAmount = q.bestTaker /\ s.value = AdjustedValue(a, q)
      /\ s.protocolFee = AdjustedProtocolFee(a, q.fills)
      /\ s.minimumProtocolFee = Least(AdjustedProtocolFee(a, q.fills),
                                      LibraryProtocolFee(q.fills))
      /\ s.allowanceTarget = AllowanceTarget(a) /\ s.extension = Extension(a)
      /\ s.buyAmount = q.bestMaker - BuyTokenFeeAmount(q.worstMaker, FeeOf(a))
    BY DEF Response
<1>6. s.minimumProtocolFee \in Nat /\ s.minimumProtocolFee <= s.protocolFee
    BY <1>2, <1>5 DEF Least
<1>7. s.buyAmount \in Int
    <2>1. FeeOf(a) \in Fees
        BY DEF FeeOf, Fees
    <2>2. BuyTokenFeeAmount(q.worstMaker, FeeOf(a)) \in Nat
        BY <1>1, <2>1, OfferIsInt
    <2> QED
        BY <1>1, <1>5, <2>2
<1>8. s \in Served
    <2>1. /\ AllowanceTarget(a) \in {"none", "erc20Proxy", "exchangeProxyAllowanceTarget"}
          /\ Extension(a) \in {"none", "forwarder", "exchangeProxy", "weth"}
        BY DEF AllowanceTarget, Extension
    <2>2. s = [kind |-> s.kind, buyAmount |-> s.buyAmount, sellAmount |-> s.sellAmount,
               gas |-> s.gas, estimatedGas |-> s.estimatedGas, refund |-> s.refund,
               protocolFee |-> s.protocolFee, minimumProtocolFee |-> s.minimumProtocolFee,
               value |-> s.value, allowanceTarget |-> s.allowanceTarget,
               extension |-> s.extension]
        BY Zenon DEF Response
    <2> HIDE DEF s
    <2> QED
        BY <1>1, <1>2, <1>3, <1>4, <1>5, <1>6, <1>7, <2>1, <2>2 DEF Served
<1>9. q.rfqtTaker # None =>
          q.rfqtTaker = (CASE s.extension = "exchangeProxy" -> "flashWallet"
                           [] s.extension = "forwarder" -> "forwarder"
                           [] s.extension = "none" -> "from")
    <2>1. q.rfqtTaker = RfqtTaker(a) /\ s.extension = Extension(a)
        BY <1>5 DEF QuoteFits
    <2> HIDE DEF s
    <2> QED
        BY <2>1 DEF RfqtTaker, Extension
<1>10. s.value >= s.protocolFee + (IF a.sell = "ETH" THEN s.sellAmount ELSE 0)
    BY <1>1, <1>2, <1>5
<1>11. s.value > s.protocolFee => s.allowanceTarget = "none"
    BY <1>2, <1>5 DEF AllowanceTarget
<1>12. \A i \in 1 .. Len(q.fills) : q.fills[i] \notin ParsedExcluded(a)
    BY DEF QuoteFits
<1> HIDE DEF s
<1>13. SoundFor(a, q, s, outcome)
    BY <1>3, <1>4, <1>6, <1>9, <1>10, <1>11, <1>12, Zenon DEF SoundFor
<1> QED
    BY <1>8, <1>13 DEF s

\* What the gas of a quote is put together from.
LEMMA GasIsNat ==
    ASSUME NEW fills \in Routes, NEW balance \in Nat
    PROVE  LibraryGas(fills) \in Nat /\ UsedGasTokens(fills, balance) \in Nat
<1>1. Len(fills) \in Nat /\ BridgeFills(fills) \in Nat
    BY FillsCounted
<1>2. LibraryGas(fills) \in Nat
    BY <1>1, ProductIsNat, SwapAssumption DEF LibraryGas
<1> DEFINE cost == BridgeFills(fills) * (BridgeGas + SStoreCost) + SStoreInitCost
<1>3. cost \in Nat
    <2>1. BridgeGas + SStoreCost \in Nat /\ SStoreInitCost \in Nat
        BY SwapAssumption
    <2>2. BridgeFills(fills) * (BridgeGas + SStoreCost) \in Nat
        BY <1>1, <2>1, ProductIsNat
    <2> QED
        BY <2>1, <2>2
<1>4. (cost + GstInteractionCost) \div GstDivisor \in Nat
    <2>1. cost + GstInteractionCost \in Nat /\ GstDivisor \in Nat \ {0}
        BY <1>3, SwapAssumption
    <2> HIDE DEF cost
    <2> QED
        BY <2>1, QuotientIsBetween
<1> QED
    BY <1>2, <1>4 DEF UsedGasTokens, Least

(* The steps of a request. *)

LEMMA SwapStepFrame ==
    ASSUME RequestsFit, NEW r \in Caller, SwapStep(r)
    PROVE  /\ ask' = ask
           /\ pc' = [c \in Caller |-> pc'[c]] /\ quote' = [c \in Caller |-> quote'[c]]
           /\ gas' = [c \in Caller |-> gas'[c]]
           /\ simulated' = [c \in Caller |-> simulated'[c]]
           /\ answer' = [c \in Caller |-> answer'[c]]
           /\ \A c \in Caller \ {r} :
                  /\ pc'[c] = pc[c] /\ quote'[c] = quote[c] /\ gas'[c] = gas[c]
                  /\ simulated'[c] = simulated[c] /\ answer'[c] = answer[c]
<1>1. \/ pc' = pc
      \/ \E where : pc' = [pc EXCEPT ![r] = where]
    BY DEF SwapStep, Receive, ServeWeth, Quoted, QuoterFails, Lookup, UseBalance,
           EstimateGas, UseDecimals, ServeQuote, swapVars, Goes, Answered
<1>2. \/ answer' = answer
      \/ \E response : answer' = [answer EXCEPT ![r] = response]
    BY DEF SwapStep, Receive, ServeWeth, Quoted, QuoterFails, Lookup, UseBalance,
           EstimateGas, UseDecimals, ServeQuote, swapVars, Goes, Answered
<1>3. \/ quote' = quote
      \/ \E q : quote' = [quote EXCEPT ![r] = q]
    BY DEF SwapStep, Receive, ServeWeth, Quoted, QuoterFails, Lookup, UseBalance,
           EstimateGas, UseDecimals, ServeQuote, swapVars
<1>4. \/ gas' = gas
      \/ \E g : gas' = [gas EXCEPT ![r] = g]
    BY DEF SwapStep, Receive, ServeWeth, Quoted, QuoterFails, Lookup, UseBalance,
           EstimateGas, UseDecimals, ServeQuote, swapVars
<1>5. \/ simulated' = simulated
      \/ \E outcome : simulated' = [simulated EXCEPT ![r] = outcome]
    BY DEF SwapStep, Receive, ServeWeth, Quoted, QuoterFails, Lookup, UseBalance,
           EstimateGas, UseDecimals, ServeQuote, swapVars
<1>6. ask' = ask
    BY SwapStepKeepsAsk
<1> QED
    BY <1>1, <1>2, <1>3, <1>4, <1>5, <1>6 DEF RequestsFit

LEMMA RefusalFits ==
    ASSUME NEW a, NEW q, NEW g, NEW outcome, NEW kind \in Errors, q = None \/ q \in Quote,
           g \in [estimate : Nat, refund : Nat], outcome \in {"none", "ok"} \cup Errors
    PROVE  RequestFits(a, "done", q, g, outcome, Error(kind))
<1>1. Error(kind) \in Refusals /\ Error(kind).kind = kind
    BY DEF Refusals, Error
<1>2. Error(kind).kind # "quote" /\ Error(kind) # Unanswered
    BY <1>1 DEF Errors, Unanswered
<1> HIDE DEF Error
<1> QED
    BY <1>1, <1>2 DEF RequestFits, RequestPC

\* A request that is not answered, and not refused, only moves on.
LEMMA MovedOnFits ==
    ASSUME NEW a, NEW where, NEW next \in RequestPC, NEW q, NEW g, NEW h, NEW outcome, NEW s,
           RequestFits(a, where, q, g, outcome, s), where # "done", next # "done",
           h \in [estimate : Nat, refund : Nat],
           next \notin {"new", "quoter"} => QuoteFits(a, q),
           next \in {"buyDecimals", "sellDecimals"} /\ Validated(a) => outcome = "ok"
    PROVE  RequestFits(a, next, q, h, outcome, s)
BY DEF RequestFits, QuoteFits, Unanswered

LEMMA StepFits ==
    ASSUME CacheInv, ResultsFit, LookupsFit, RequestsFit, endpoint = "swap",
           NEW r \in Caller, SwapStep(r)
    PROVE  RequestFits(ask[r], pc'[r], quote'[r], gas'[r], simulated'[r], answer'[r])
<1> DEFINE Fits(where, q, g, outcome, s) == RequestFits(ask[r], where, q, g, outcome, s)
<1>1. /\ Fits(pc[r], quote[r], gas[r], simulated[r], answer[r])
      /\ ask[r] \in Ask
      /\ pc[r] # "done" => answer[r] = Unanswered
    BY DEF RequestsFit, RequestFits
<1>2. /\ quote[r] = None \/ quote[r] \in Quote
      /\ gas[r] \in [estimate : Nat, refund : Nat]
      /\ simulated[r] \in {"none", "ok"} \cup Errors
      /\ pc[r] \notin {"new", "quoter", "done"} => QuoteFits(ask[r], quote[r])
      /\ pc[r] \in {"buyDecimals", "sellDecimals"} /\ Validated(ask[r]) => simulated[r] = "ok"
    BY <1>1 DEF RequestFits
<1>3. /\ \A where : pc' = [pc EXCEPT ![r] = where] => pc'[r] = where
      /\ \A s : answer' = [answer EXCEPT ![r] = s] => answer'[r] = s
      /\ \A q : quote' = [quote EXCEPT ![r] = q] => quote'[r] = q
      /\ \A g : gas' = [gas EXCEPT ![r] = g] => gas'[r] = g
      /\ \A outcome : simulated' = [simulated EXCEPT ![r] = outcome] => simulated'[r] = outcome
    BY DEF RequestsFit
<1> HIDE DEF Fits
<1>4. CASE Receive(r)
    <2>1. quote' = quote /\ gas' = gas /\ simulated' = simulated /\ pc[r] = "new"
        BY <1>4 DEF Receive
    <2>2. CASE Answered(r, Error("validation"))
        <3>1. pc'[r] = "done" /\ answer'[r] = Error("validation")
            BY <1>3, <2>2 DEF Answered
        <3> QED
            BY <1>2, <2>1, <3>1, RefusalFits DEF Errors
    <2>3. CASE Goes(r, "quoter")
        <3>1. pc'[r] = "quoter" /\ answer' = answer
            BY <1>3, <2>3 DEF Goes
        <3> QED
            BY <1>1, <1>2, <2>1, <3>1, MovedOnFits DEF RequestPC, Fits
    <2> QED
        BY <1>4, <2>2, <2>3 DEF Receive
<1>5. CASE ServeWeth(r)
    <2> DEFINE a == ask[r]
               value == IF IsUnwrap(a) THEN 0 ELSE a.amount
               s == [kind |-> "quote", buyAmount |-> a.amount, sellAmount |-> a.amount,
                     gas |-> WrapGas, estimatedGas |-> WrapGas, refund |-> 0,
                     protocolFee |-> 0, minimumProtocolFee |-> 0, value |-> value,
                     allowanceTarget |-> "none", extension |-> "weth"]
    <2>1. pc'[r] = "done" /\ answer'[r] = s /\ UNCHANGED <<quote, gas, simulated>>
        BY <1>3, <1>5 DEF ServeWeth, Answered
    <2>2. a.amount \in Nat /\ WrapGas \in Nat /\ value \in Nat
        BY <1>1, SwapAssumption
    <2> HIDE DEF value
    <2>3. s \in Served /\ s.extension = "weth" /\ s # Unanswered
        BY <2>2 DEF Served, Unanswered
    <2> HIDE DEF s
    <2> QED
        BY <1>2, <2>1, <2>3 DEF RequestFits, RequestPC
<1>6. CASE Quoted(r)
    <2> DEFINE a == ask[r]
               excluded == DetermineExcluded(a) \cup ExcludedSources
               Found(fills, worst, best) ==
                [fills |-> fills, rfqtTaker |-> RfqtTaker(a),
                 bestMaker |-> IF a.side = "sell" THEN worst
                               ELSE BuyAmountScaled(a.amount, FeeOf(a)),
                 worstMaker |-> IF a.side = "sell" THEN best
                                ELSE BuyAmountScaled(a.amount, FeeOf(a)),
                 bestTaker |-> IF a.side = "sell" THEN a.amount ELSE best,
                 worstTaker |-> IF a.side = "sell" THEN a.amount ELSE worst]
    <2>1. PICK fills \in Routes, worst \in Amounts, best \in Amounts :
              /\ \A i \in 1 .. Len(fills) : fills[i] \notin excluded
              /\ best <= worst
              /\ quote' = [quote EXCEPT ![r] = Found(fills, worst, best)]
        BY <1>6 DEF Quoted
    <2> DEFINE q == Found(fills, worst, best)
    <2>2. /\ pc'[r] = "balance" /\ quote'[r] = q /\ UNCHANGED <<gas, simulated, answer>>
          /\ pc[r] = "quoter"
        BY <1>3, <1>6, <2>1 DEF Quoted, Goes
    <2>3. /\ a.amount \in Nat /\ BuyAmountScaled(a.amount, FeeOf(a)) \in Nat
          /\ worst \in Nat /\ best \in Nat
        <3>1. a.amount \in Nat /\ FeeOf(a) \in Fees
            BY <1>1, SwapAssumption DEF FeeOf, Fees
        <3> QED
            BY <3>1, OfferIsInt, SwapAssumption
    <2>4. /\ q.fills = fills /\ q.rfqtTaker = RfqtTaker(a) /\ q.bestTaker <= q.worstTaker
          /\ q \in Quote
        BY <2>1, <2>3 DEF Quote, RfqtTaker
    <2> HIDE DEF q
    <2>5. QuoteFits(a, q)
        BY <2>1, <2>4 DEF QuoteFits, DetermineExcluded
    <2>6. answer[r] = Unanswered /\ Unanswered.kind = "none"
        BY <1>1, <2>2 DEF Unanswered
    <2>7. /\ pc'[r] = "balance" /\ quote'[r] = q /\ gas'[r] = gas[r]
          /\ simulated'[r] = simulated[r] /\ answer'[r] = Unanswered
        BY <2>2, <2>6
    <2> QED
        BY <1>2, <2>4, <2>5, <2>6, <2>7 DEF RequestFits, RequestPC
<1>7. CASE QuoterFails(r)
    <2>1. PICK kind \in {"validation", "internal"} : Answered(r, Error(kind))
        BY <1>7 DEF QuoterFails
    <2>2. pc'[r] = "done" /\ answer'[r] = Error(kind) /\ UNCHANGED <<quote, gas, simulated>>
        BY <1>3, <1>7, <2>1 DEF Answered, QuoterFails
    <2> QED
        BY <1>2, <2>2, RefusalFits DEF Errors
<1>8. CASE Lookup(r)
    BY <1>1, <1>8 DEF Lookup, swapVars, Fits
<1>9. CASE UseBalance(r)
    <2> DEFINE q == quote[r]
               fee == BuyTokenFeeAmount(q.worstMaker, FeeOf(ask[r]))
               balance == IF call[r].state = "threw" THEN 0 ELSE call[r].answer.result
               used == UsedGasTokens(q.fills, balance)
               g == [estimate |-> LibraryGas(q.fills) + used * GasBurnCost
                         + (IF fee = 0 THEN 0 ELSE AffiliateFeeGas)
                         + (IF ask[r].version = "V1" THEN BaseGasV1 ELSE 0),
                     refund |-> used * GasBurnRefund]
    <2>1. balance \in Nat
        <3>1. call[r].state \in {"returned", "threw"} /\ pc[r] = "balance"
            BY <1>9 DEF UseBalance, Take
        <3>2. call[r].key = "GST"
            BY <3>1 DEF LookupsFit, LookupFits
        <3>3. call[r].state = "returned" => call[r].answer.result \in ResultOf["GST"]
            BY <3>2 DEF ResultsFit, EntryFits
        <3> QED
            BY <3>1, <3>3, SwapAssumption
    <2>2. pc[r] = "balance" /\ QuoteFits(ask[r], q) /\ q.fills \in Routes
        BY <1>2, <1>9 DEF UseBalance, QuoteFits, Quote
    <2> HIDE DEF balance, q
    <2>3. LibraryGas(q.fills) \in Nat /\ used \in Nat
        BY <2>1, <2>2, GasIsNat
    <2> HIDE DEF used, fee
    <2>4. g \in [estimate : Nat, refund : Nat]
        <3>1. used * GasBurnCost \in Nat /\ used * GasBurnRefund \in Nat
            BY <2>3, ProductIsNat, SwapAssumption
        <3>2. AffiliateFeeGas \in Nat /\ BaseGasV1 \in Nat
            BY SwapAssumption
        <3> QED
            BY <2>3, <3>1, <3>2
    <2>5. gas' = [gas EXCEPT ![r] = g]
        BY <1>9 DEF UseBalance, g, used, fee, balance, q
    <2> HIDE DEF g
    <2>6. gas'[r] = g /\ UNCHANGED <<quote, simulated, answer>>
        BY <1>3, <1>9, <2>5 DEF UseBalance, Goes
    <2>7. \/ pc'[r] = "estimate"
          \/ pc'[r] = "buyDecimals" /\ ~Validated(ask[r])
        BY <1>3, <1>9 DEF UseBalance, Goes, Validated
    <2> QED
        BY <1>1, <2>2, <2>4, <2>6, <2>7, MovedOnFits DEF Fits, RequestPC, q
<1>10. CASE EstimateGas(r)
    <2>1. PICK outcome \in {"ok", "insufficientFunds", "revert", "internal"},
               estimate \in Estimates :
           /\ simulated' = [simulated EXCEPT ![r] = outcome]
           /\ IF outcome = "ok"
              THEN /\ gas' = [gas EXCEPT ![r].estimate = Greatest(estimate, @)]
                   /\ Goes(r, "buyDecimals")
              ELSE Answered(r, Error(outcome)) /\ UNCHANGED gas
        BY <1>10 DEF EstimateGas
    <2>2. simulated'[r] = outcome /\ pc[r] = "estimate" /\ quote' = quote
        BY <1>3, <1>10, <2>1 DEF EstimateGas
    <2>3. CASE outcome = "ok"
        <3> DEFINE g == [gas[r] EXCEPT !.estimate = Greatest(estimate, @)]
        <3>1. gas' = [gas EXCEPT ![r] = g] /\ pc'[r] = "buyDecimals" /\ answer' = answer
            BY <1>3, <2>1, <2>3 DEF Goes
        <3>2. g \in [estimate : Nat, refund : Nat]
            BY <1>2, SwapAssumption DEF Greatest
        <3> HIDE DEF g
        <3>3. gas'[r] = g
            BY <1>3, <3>1
        <3>4. QuoteFits(ask[r], quote[r])
            BY <1>2, <2>2
        <3> QED
            BY <1>1, <1>2, <2>2, <2>3, <3>1, <3>2, <3>3, <3>4
            DEF Fits, RequestFits, RequestPC, Unanswered
    <2>4. CASE outcome # "ok"
        BY <1>2, <1>3, <2>1, <2>2, <2>4, RefusalFits, SMTT(40) DEF Answered, Errors
    <2> QED
        BY <2>3, <2>4
<1>11. CASE UseDecimals(r)
    <2>1. /\ pc[r] = "buyDecimals" /\ pc'[r] = "sellDecimals"
          /\ UNCHANGED <<quote, gas, simulated, answer>>
        BY <1>3, <1>11 DEF UseDecimals, Goes
    <2> QED
        BY <1>1, <1>2, <2>1, MovedOnFits DEF Fits, RequestPC
<1>12. CASE ServeQuote(r)
    <2> DEFINE s == Response(ask[r], quote[r], gas[r])
    <2>1. /\ pc[r] = "sellDecimals" /\ pc'[r] = "done" /\ answer'[r] = s
          /\ UNCHANGED <<quote, gas, simulated>>
        BY <1>3, <1>12 DEF ServeQuote, Answered
    <2>2. s \in Served /\ SoundFor(ask[r], quote[r], s, simulated[r])
        BY <1>1, <1>2, <2>1, ResponseIsSound
    <2> HIDE DEF s
    <2>3. s # Unanswered
        BY <2>2 DEF Served, Unanswered
    <2> QED
        BY <1>2, <2>1, <2>2, <2>3 DEF RequestFits, RequestPC
<1> QED
    BY <1>4, <1>5, <1>6, <1>7, <1>8, <1>9, <1>10, <1>11, <1>12 DEF SwapStep

LEMMA StepKeepsRequestsFit ==
    ASSUME CacheInv, ResultsFit, LookupsFit, RequestsFit, endpoint = "swap",
           NEW r \in Caller, SwapStep(r)
    PROVE  RequestsFit'
<1>1. RequestFits(ask[r], pc'[r], quote'[r], gas'[r], simulated'[r], answer'[r])
    BY StepFits
<1>2. \A c \in Caller :
          RequestFits(ask[c], pc'[c], quote'[c], gas'[c], simulated'[c], answer'[c])
    BY <1>1, SwapStepFrame DEF RequestsFit
<1> QED
    BY <1>2, SwapStepFrame DEF RequestsFit

\* Only a request that is looking something up is a caller of the cache.
LEMMA StepKeepsLookupsFit ==
    ASSUME CacheInv, LookupsFit, RequestsFit, endpoint = "swap", UNCHANGED endpoint,
           NEW r \in Caller, SwapStep(r)
    PROVE  LookupsFit'
<1> USE DEF CacheInv, CacheTypeOK
<1>1. /\ \A where : pc' = [pc EXCEPT ![r] = where] => pc'[r] = where
      /\ \A asking : call' = [call EXCEPT ![r] = asking] => call'[r] = asking
      /\ LookupFits(ask[r], pc[r], call[r])
    BY DEF RequestsFit, LookupsFit
<1>2. \A c \in Caller \ {r} : call'[c] = call[c]
    BY DEF SwapStep, Receive, ServeWeth, Quoted, QuoterFails, Lookup, UseBalance, EstimateGas,
           UseDecimals, ServeQuote, cacheVars, GetResult, Fetches, FetchFails, Take
<1>3. LookupFits(ask[r], pc'[r], call'[r])
    <2>1. CASE UseBalance(r) \/ UseDecimals(r) \/ ServeQuote(r)
        <3>1. call'[r] = Idle
            BY <1>1, <2>1 DEF UseBalance, UseDecimals, ServeQuote, Take
        <3> QED
            BY <3>1 DEF LookupFits, Idle
    <2>2. CASE Receive(r) \/ ServeWeth(r) \/ Quoted(r) \/ QuoterFails(r) \/ EstimateGas(r)
        <3>1. call' = call /\ pc[r] \in {"new", "quoter", "estimate"}
            BY <2>2 DEF Receive, ServeWeth, Quoted, QuoterFails, EstimateGas, cacheVars
        <3>2. call[r].state = "idle"
            BY <1>1, <3>1 DEF LookupFits
        <3> QED
            BY <3>1, <3>2 DEF LookupFits
    <2>3. CASE Lookup(r)
        <3>1. pc' = pc /\ pc[r] \in {"balance", "buyDecimals", "sellDecimals"}
            BY <2>3 DEF Lookup, swapVars
        <3>2. CASE GetResult(r, KeyFor(r))
            <4>1. call'[r].key = KeyFor(r)
                BY <1>1, <3>2 DEF GetResult
            <4> QED
                BY <3>1, <4>1 DEF KeyFor, LookupFits
        <3>3. CASE Fetches(r) \/ FetchFails(r)
            <4>1. call[r] \in Call /\ call[r].state = "fetching"
                BY <3>3 DEF Fetches, FetchFails
            <4>2. call'[r].key = call[r].key
                BY <3>3, <4>1 DEF Fetches, FetchFails, Call
            <4> QED
                BY <1>1, <3>1, <4>1, <4>2 DEF LookupFits
        <3> QED
            BY <2>3, <3>2, <3>3 DEF Lookup
    <2> QED
        BY <2>1, <2>2, <2>3 DEF SwapStep
<1>4. \A c \in Caller : LookupFits(ask[c], pc'[c], call'[c])
    BY <1>2, <1>3, SwapStepFrame DEF LookupsFit
<1> QED
    BY <1>4, SwapStepFrame DEF LookupsFit

QuoteInv == CacheInv /\ ResultsFit /\ LookupsFit /\ RequestsFit

LEMMA InitQuoteInv == Init => QuoteInv
<1> SUFFICES ASSUME Init PROVE QuoteInv
    OBVIOUS
<1>1. CacheInit /\ CacheInv /\ ResultsFit
    BY InitCacheInv, InitResultsFit DEF Init, SwapInit
<1>2. LookupsFit
    BY <1>1 DEF CacheInit, LookupsFit, LookupFits, Idle
<1>3. ask \in [Caller -> Ask]
    <2>1. Of("swap", Ask) \subseteq Ask
        BY SwapAssumption DEF Of
    <2> QED
        BY <2>1 DEF Init, SwapInit
<1>4. RequestsFit
    BY <1>3
    DEF Init, SwapInit, RequestsFit, RequestFits, RequestPC, Unanswered
<1> QED
    BY <1>1, <1>2, <1>4 DEF QuoteInv

LEMMA NextKeepsQuoteInv == QuoteInv /\ [Next]_vars => QuoteInv'
<1> SUFFICES ASSUME QuoteInv, [Next]_vars PROVE QuoteInv'
    OBVIOUS
<1> USE DEF QuoteInv
<1>1. CacheInv' /\ ResultsFit'
    <2>1. CacheNext(Key) \/ UNCHANGED cacheVars
        BY NextIsCacheStep DEF RequestsFit, vars
    <2> QED
        BY <2>1, CacheStepKeepsCacheInv, CacheStepKeepsResultsFit
<1>2. CASE Swap
    BY <1>1, <1>2, StepKeepsRequestsFit, StepKeepsLookupsFit DEF Swap, SwapNext
<1>3. CASE Cache
    BY <1>1, <1>3 DEF Cache, swapVars, LookupsFit, RequestsFit
<1>4. CASE Orders \/ Depth \/ Chunk \/ UNCHANGED vars
    BY <1>1, <1>4
    DEF Orders, Depth, Chunk, vars, swapVars, cacheVars, LookupsFit, RequestsFit
<1> QED
    BY <1>2, <1>3, <1>4 DEF Next

\* Whatever the library, the caches and the node answer, a quote is one that its
\* taker can execute: executed by the node where it was asked to be, filled by the
\* contract the market makers have quoted for, paid for, approved, and free of the
\* sources the client has excluded.
THEOREM QuotesAreSound == Spec => []QuoteIsSound
<1>1. QuoteInv => QuoteIsSound
    BY RequestsFitSuffices DEF QuoteInv
<1> QED
    BY <1>1, InitQuoteInv, NextKeepsQuoteInv, PTL DEF Spec

\* The state of the swap service and its cache keeps its types; in particular, all
\* amounts of gas, fees and ether are natural numbers.
THEOREM SwapsAreTypeCorrect == Spec => []SwapTypeOK
<1>1. QuoteInv => SwapTypeOK
    BY RequestsFitSuffices DEF QuoteInv
<1> QED
    BY <1>1, InitQuoteInv, NextKeepsQuoteInv, PTL DEF Spec

(***************************************************************************)
(* What FlattenSeq, which is defined by recursion, makes of a longer       *)
(* sequence.                                                               *)
(***************************************************************************)

\* g holds what the first i of the sequences ss make together.
IsFlat(ss, n, g) == g = [i \in 1 .. n |-> IF i = 1 THEN ss[i] ELSE g[i - 1] \o ss[i]]

LEMMA FlatAt ==
    ASSUME NEW ss, NEW n, NEW g, IsFlat(ss, n, g), NEW i \in 1 .. n
    PROVE  g[i] = IF i = 1 THEN ss[i] ELSE g[i - 1] \o ss[i]
<1> DEFINE h == [k \in 1 .. n |-> IF k = 1 THEN ss[k] ELSE g[k - 1] \o ss[k]]
<1>1. g = h
    BY DEF IsFlat
<1>2. h[i] = IF i = 1 THEN ss[i] ELSE g[i - 1] \o ss[i]
    OBVIOUS
<1> HIDE DEF h
<1> QED
    BY <1>1, <1>2

LEMMA FlatExists == ASSUME NEW ss PROVE \A n \in Nat : \E g : IsFlat(ss, n, g)
<1> DEFINE P == {n \in Nat : \E g : IsFlat(ss, n, g)}
<1>1. 0 \in P
    <2>1. IsFlat(ss, 0, <<>>)
        BY DEF IsFlat
    <2> QED
        BY <2>1
<1>2. ASSUME NEW n \in Nat, n \in P PROVE n + 1 \in P
    <2>1. PICK g : IsFlat(ss, n, g)
        BY <1>2
    <2> DEFINE h == [i \in 1 .. n + 1 |->
                        IF i <= n THEN g[i] ELSE IF i = 1 THEN ss[i] ELSE g[n] \o ss[i]]
    <2>2. ASSUME NEW i \in 1 .. n + 1
          PROVE  h[i] = IF i = 1 THEN ss[i] ELSE h[i - 1] \o ss[i]
        <3>1. CASE i <= n
            <4>1. g[i] = IF i = 1 THEN ss[i] ELSE g[i - 1] \o ss[i]
                BY <2>1, <3>1, FlatAt
            <4>2. i # 1 => h[i - 1] = g[i - 1]
                BY <3>1
            <4> QED
                BY <3>1, <4>1, <4>2
        <3>2. CASE ~(i <= n)
            <4>1. i = n + 1 /\ (i # 1 => i - 1 = n /\ i - 1 \in 1 .. n + 1 /\ i - 1 <= n)
                BY <3>2
            <4>2. i # 1 => h[i - 1] = g[n]
                BY <4>1
            <4> QED
                BY <3>2, <4>2
        <3> QED
            BY <3>1, <3>2
    <2>3. h = [i \in 1 .. n + 1 |-> h[i]]
        OBVIOUS
    <2> HIDE DEF h
    <2>4. h = [i \in 1 .. n + 1 |-> IF i = 1 THEN ss[i] ELSE h[i - 1] \o ss[i]]
        BY <2>2, <2>3
    <2>5. IsFlat(ss, n + 1, h)
        BY <2>4, Zenon DEF IsFlat
    <2> QED
        BY <2>5
<1> HIDE DEF P
<1>3. \A n \in Nat : n \in P
    BY <1>1, <1>2, NaturalInduction
<1> QED
    BY <1>3 DEF P

\* The first n entries of two functions are the same.
SameUpTo(f, g, n) == \A i \in 1 .. n : f[i] = g[i]

LEMMA FlatsAgree ==
    ASSUME NEW ss, NEW tt, NEW n \in Nat, NEW m \in Nat, n <= m, NEW g, NEW h,
           IsFlat(ss, n, g), IsFlat(tt, m, h), SameUpTo(ss, tt, n)
    PROVE  SameUpTo(g, h, n)
<1> DEFINE P == {k \in Nat : k \in 1 .. n => g[k] = h[k]}
<1>1. 0 \in P
    OBVIOUS
<1>2. ASSUME NEW k \in Nat, k \in P PROVE k + 1 \in P
    <2>1. SUFFICES ASSUME k + 1 \in 1 .. n PROVE g[k + 1] = h[k + 1]
        OBVIOUS
    <2>2. k + 1 \in 1 .. m /\ ss[k + 1] = tt[k + 1]
        BY <2>1 DEF SameUpTo
    <2>3. /\ g[k + 1] = IF k = 0 THEN ss[k + 1] ELSE g[k] \o ss[k + 1]
          /\ h[k + 1] = IF k = 0 THEN tt[k + 1] ELSE h[k] \o tt[k + 1]
        BY <2>1, <2>2, FlatAt
    <2>4. k # 0 => g[k] = h[k]
        BY <1>2, <2>1
    <2> QED
        BY <2>2, <2>3, <2>4
<1> HIDE DEF P
<1>3. \A k \in Nat : k \in P
    BY <1>1, <1>2, NaturalInduction
<1> QED
    BY <1>3 DEF P, SameUpTo

LEMMA FlattenIsFlat ==
    ASSUME NEW ss, NEW g, Len(ss) \in Nat \ {0}, IsFlat(ss, Len(ss), g)
    PROVE  FlattenSeq(ss) = g[Len(ss)]
<1>1. IsFlat(ss, Len(ss), CHOOSE f : IsFlat(ss, Len(ss), f))
    OBVIOUS
<1>2. FlattenSeq(ss) = (CHOOSE f : IsFlat(ss, Len(ss), f))[Len(ss)]
    BY DEF FlattenSeq, IsFlat
<1> DEFINE c == CHOOSE f : IsFlat(ss, Len(ss), f)
<1> HIDE DEF c
<1>3. c[Len(ss)] = g[Len(ss)]
    <2>1. IsFlat(ss, Len(ss), c)
        BY <1>1 DEF c
    <2>2. SameUpTo(ss, ss, Len(ss))
        BY DEF SameUpTo
    <2>3. SameUpTo(c, g, Len(ss))
        BY <2>1, <2>2, FlatsAgree
    <2> QED
        BY <2>3 DEF SameUpTo
<1> QED
    BY <1>2, <1>3 DEF c

LEMMA FlattenOfAppended ==
    ASSUME NEW S, NEW ss \in Seq(Seq(S)), NEW s \in Seq(S)
    PROVE  FlattenSeq(Append(ss, s)) = FlattenSeq(ss) \o s
<1> DEFINE n == Len(ss)  tt == Append(ss, s)
<1>1. n \in Nat /\ Len(tt) = n + 1 /\ (\A i \in 1 .. n : tt[i] = ss[i]) /\ tt[n + 1] = s
    BY AppendProperties, LenProperties
<1> HIDE DEF n, tt
<1> DEFINE m == n + 1
<1>0. m \in Nat \ {0} /\ Len(tt) = m /\ n <= m /\ n \in Nat /\ m - 1 = n /\ m \in 1 .. m
    BY <1>1
<1> HIDE DEF m
<1>2. PICK h : IsFlat(tt, m, h)
    BY <1>0, FlatExists
<1>3. FlattenSeq(tt) = h[m]
    BY <1>0, <1>2, FlattenIsFlat
<1>4. h[m] = IF n = 0 THEN s ELSE h[n] \o s
    <2>1. h[m] = IF m = 1 THEN tt[m] ELSE h[m - 1] \o tt[m]
        BY <1>0, <1>2, FlatAt
    <2> QED
        BY <1>0, <1>1, <2>1 DEF m
<1>5. CASE n = 0
    <2>1. ss = <<>>
        <3>1. PICK U : U = Seq(S)
            OBVIOUS
        <3>2. ss \in Seq(U) /\ Len(ss) = 0
            BY <1>5, <3>1 DEF n
        <3> QED
            BY <3>2, EmptySeq
    <2>2. FlattenSeq(ss) = ss
        BY <1>5 DEF FlattenSeq, n
    <2> QED
        BY <1>3, <1>4, <1>5, <2>1, <2>2, ConcatEmptySeq DEF tt
<1>6. CASE n # 0
    <2>1. PICK g : IsFlat(ss, n, g)
        BY <1>0, FlatExists
    <2>2. FlattenSeq(ss) = g[n]
        BY <1>1, <1>6, <2>1, FlattenIsFlat DEF n
    <2>3. SameUpTo(g, h, n)
        <3>1. n \in Nat /\ m \in Nat /\ n <= m /\ SameUpTo(ss, tt, n)
            BY <1>0, <1>1 DEF SameUpTo
        <3> QED
            BY <1>2, <2>1, <3>1, FlatsAgree
    <2>4. g[n] = h[n]
        BY <1>0, <1>6, <2>3 DEF SameUpTo
    <2> QED
        BY <1>3, <1>4, <1>6, <2>2, <2>4 DEF tt
<1> QED
    BY <1>5, <1>6

(***************************************************************************)
(* Chunks.  What has been closed, the current chunk and what is left are   *)
(* the items, in their order; the length that is counted is the current    *)
(* chunk's; and if every item fits, the current chunk is never empty when  *)
(* it is closed.                                                           *)
(***************************************************************************)

\* An item: its position and its length.
Item == Nat \X Nat

LEMMA BytesOfNothing == ByteLength(<<>>) = 0
<1>1. DOMAIN [i \in DOMAIN <<>> |-> <<>>[i][2]] = {}
    OBVIOUS
<1> QED
    BY <1>1, SumOfNothing DEF ByteLength, SumFunction

LEMMA BytesOfAppended ==
    ASSUME NEW c \in Seq(Item), NEW x \in Item
    PROVE  ByteLength(Append(c, x)) = ByteLength(c) + x[2] /\ ByteLength(c) \in Nat
<1> DEFINE n == Len(c)  a == Append(c, x)
           f == [i \in DOMAIN a |-> a[i][2]]  g == [i \in DOMAIN c |-> c[i][2]]
<1>1. /\ n \in Nat /\ DOMAIN c = 1 .. n /\ DOMAIN a = 1 .. n + 1
      /\ (\A i \in 1 .. n : a[i] = c[i] /\ c[i] \in Item) /\ a[n + 1] = x
    <2>1. c \in [1 .. n -> Item] /\ n \in Nat /\ DOMAIN c = 1 .. n
        BY LenProperties
    <2>2. Append(c, x) \in Seq(Item) /\ Len(Append(c, x)) = n + 1
          /\ (\A i \in 1 .. n : Append(c, x)[i] = c[i]) /\ Append(c, x)[n + 1] = x
        BY AppendProperties
    <2>3. DOMAIN a = 1 .. n + 1
        BY <2>2, LenProperties
    <2> QED
        BY <2>1, <2>2, <2>3
<1> HIDE DEF n, a
<1>2. /\ DOMAIN f = 1 .. n + 1 /\ DOMAIN g = 1 .. n
      /\ (\A i \in 1 .. n : g[i] = f[i] /\ g[i] \in Nat) /\ f[n + 1] = x[2] /\ x[2] \in Nat
      /\ \A i \in 1 .. n + 1 : f[i] \in Int
    BY <1>1 DEF Item
<1>3. ByteLength(c) = SumFunctionOnSet(g, 1 .. n)
    BY <1>2 DEF ByteLength, SumFunction
<1>4. ByteLength(a) = SumFunctionOnSet(f, 1 .. n + 1)
    BY <1>2 DEF ByteLength, SumFunction
<1> HIDE DEF f, g
<1>5. PICK m : m = n + 1
    OBVIOUS
<1>6. m \in Int /\ m \in 1 .. m /\ (1 .. m) \ {m} = 1 .. n
    BY <1>1, <1>5
<1>7. IsFiniteSet(1 .. n) /\ IsFiniteSet(1 .. m)
    BY <1>1, <1>6, FS_Interval
<1>8. \A i \in 1 .. m : f[i] \in Int
    BY <1>2, <1>5
<1>9. PICK S, T : S = 1 .. m /\ T = 1 .. n
    OBVIOUS
<1>10. SumFunctionOnSet(f, S) = f[m] + SumFunctionOnSet(f, S \ {m})
    BY <1>6, <1>7, <1>8, <1>9, SumWithout
<1>11. SumFunctionOnSet(f, T) = SumFunctionOnSet(g, T) /\ SumFunctionOnSet(g, T) \in Nat
    <2>1. IsFiniteSet(T) /\ \A i \in T : f[i] = g[i] /\ g[i] \in Nat
        BY <1>2, <1>7, <1>9
    <2>2. SumFunctionOnSet(f, T) = SumFunctionOnSet(g, T)
        BY <2>1, SumOfEquals
    <2>3. SumFunctionOnSet(g, T) \in Nat
        BY <2>1, SumIsNatural
    <2> QED
        BY <2>2, <2>3
<1>12. ByteLength(a) = x[2] + ByteLength(c) /\ ByteLength(c) \in Nat
    BY <1>2, <1>3, <1>4, <1>5, <1>6, <1>9, <1>10, <1>11
<1> QED
    BY <1>2, <1>12 DEF a

\* Each item fits into a chunk.
Fit(items) == \A i \in DOMAIN items : items[i][2] <= MaxLength

\* The state of the chunking between two turns of its loop.
ChunkInv ==
    /\ chunking \in [items : Seq(Item), left : Seq(Item), chunks : Seq(Seq(Item)),
                     current : Seq(Item), length : Nat, done : BOOLEAN]
    /\ ByteLength(chunking.current) <= MaxLength /\ chunking.length <= MaxLength
    /\ IF chunking.done THEN chunking.left = <<>>
       ELSE chunking.length = ByteLength(chunking.current)
    /\ FlattenSeq(chunking.chunks) \in Seq(Item)
    /\ FlattenSeq(chunking.chunks) \o (chunking.current \o chunking.left) = chunking.items
    /\ \A i \in DOMAIN chunking.chunks : ByteLength(chunking.chunks[i]) <= MaxLength
    /\ Fit(chunking.items) =>
         /\ Fit(chunking.left)
         /\ \A i \in DOMAIN chunking.chunks : chunking.chunks[i] # <<>>

LEMMA ChunkInvSuffices ==
    ChunkInv => ChunksPartitionTheItems /\ chunking.length \in 0 .. MaxLength
<1> SUFFICES ASSUME ChunkInv PROVE ChunksPartitionTheItems /\ chunking.length \in 0 .. MaxLength
    OBVIOUS
<1> DEFINE f == FlattenSeq(chunking.chunks)
<1>1. f \in Seq(Item) /\ chunking.current \in Seq(Item) /\ chunking.left \in Seq(Item)
    BY DEF ChunkInv
<1>2. f \o (chunking.current \o chunking.left) = (f \o chunking.current) \o chunking.left
    <2>1. PICK u \in Seq(Item), s \in Seq(Item), l \in Seq(Item) :
              u = f /\ s = chunking.current /\ l = chunking.left
        BY <1>1
    <2>2. (u \o s) \o l = u \o (s \o l)
        BY ConcatAssociative
    <2> QED
        BY <2>1, <2>2
<1>3. (f \o chunking.current) \o chunking.left = chunking.items
    BY <1>2 DEF ChunkInv
<1>4. chunking.length \in 0 .. MaxLength
    BY ChunksAssumption DEF ChunkInv
<1> QED
    BY <1>3, <1>4 DEF ChunkInv, ChunksPartitionTheItems, Fit

LEMMA InitChunkInv == ASSUME NEW sizes \in SUBSET Nat, ChunksInit(sizes) PROVE ChunkInv
<1>0. PICK n \in sizes : \E s \in [1 .. n -> Lengths] :
          chunking \in [items : {[i \in DOMAIN s |-> <<i, s[i]>>]},
                        left : {[i \in DOMAIN s |-> <<i, s[i]>>]},
                        chunks : {<<>>}, current : {<<>>}, length : {0}, done : {FALSE}]
    <2> DEFINE S == UNION {[1 .. n -> Lengths] : n \in sizes}
               R(s) == [items : {[i \in DOMAIN s |-> <<i, s[i]>>]},
                        left : {[i \in DOMAIN s |-> <<i, s[i]>>]},
                        chunks : {<<>>}, current : {<<>>}, length : {0}, done : {FALSE}]
    <2>1. chunking \in UNION {R(s) : s \in S}
        BY DEF ChunksInit
    <2> HIDE DEF R, S
    <2>2. PICK s \in S : chunking \in R(s)
        BY <2>1
    <2>3. PICK n \in sizes : s \in [1 .. n -> Lengths]
        BY DEF S
    <2> QED
        BY <2>2, <2>3 DEF R
<1>1. PICK s \in [1 .. n -> Lengths] :
          chunking \in [items : {[i \in DOMAIN s |-> <<i, s[i]>>]},
                        left : {[i \in DOMAIN s |-> <<i, s[i]>>]},
                        chunks : {<<>>}, current : {<<>>}, length : {0}, done : {FALSE}]
    BY <1>0
<1> DEFINE items == [i \in DOMAIN s |-> <<i, s[i]>>]
<1>2. items \in Seq(Item)
    <2>0. n \in Nat /\ DOMAIN s = 1 .. n /\ \A i \in 1 .. n : i \in Nat /\ s[i] \in Nat
        <3>1. n \in Nat /\ DOMAIN s = 1 .. n
            OBVIOUS
        <3>2. \A i \in 1 .. n : s[i] \in Lengths
            OBVIOUS
        <3>3. \A i \in 1 .. n : i \in Nat
            BY <3>1
        <3>4. \A l \in Lengths : l \in Nat
            BY ChunksAssumption
        <3> QED
            BY <3>1, <3>2, <3>3, <3>4, Zenon
    <2>1. items \in [1 .. n -> Item]
        BY <2>0 DEF Item
    <2> HIDE DEF items
    <2> QED
        BY <2>0, <2>1, SeqDef
<1>3. /\ chunking.items = items /\ chunking.left = items /\ chunking.chunks = <<>>
      /\ chunking.current = <<>> /\ chunking.length = 0 /\ chunking.done = FALSE
      /\ chunking \in [items : {items}, left : {items},
                       chunks : {<<>>}, current : {<<>>}, length : {0}, done : {FALSE}]
    BY <1>1
<1> HIDE DEF items
<1>4. <<>> \in Seq(Item) /\ <<>> \in Seq(Seq(Item)) /\ FlattenSeq(<<>>) = <<>>
    BY EmptySeq DEF FlattenSeq
<1>5. <<>> \o (<<>> \o items) = items
    <2>1. <<>> \o items = items
        BY <1>2, ConcatEmptySeq
    <2> QED
        BY <2>1
<1>6. chunking \in [items : Seq(Item), left : Seq(Item), chunks : Seq(Seq(Item)),
                    current : Seq(Item), length : Nat, done : BOOLEAN]
    <2>1. chunking = [items |-> items, left |-> items, chunks |-> <<>>, current |-> <<>>,
                      length |-> 0, done |-> FALSE]
        BY <1>3
    <2> QED
        BY <1>2, <1>4, <2>1
<1> QED
    BY <1>3, <1>4, <1>5, <1>6, BytesOfNothing, ChunksAssumption DEF ChunkInv

\* The current chunk is closed.
LEMMA ClosedChunk ==
    ASSUME ChunkInv, Fit(chunking.items) => chunking.current # <<>>
    PROVE  LET chunks == Append(chunking.chunks, chunking.current) IN
           /\ chunks \in Seq(Seq(Item)) /\ FlattenSeq(chunks) \in Seq(Item)
           /\ FlattenSeq(chunks) \o (<<>> \o chunking.left) = chunking.items
           /\ \A i \in DOMAIN chunks : ByteLength(chunks[i]) <= MaxLength
           /\ Fit(chunking.items) => \A i \in DOMAIN chunks : chunks[i] # <<>>
<1> DEFINE c == chunking.chunks  s == chunking.current  l == chunking.left  f == FlattenSeq(c)
<1>1. c \in Seq(Seq(Item)) /\ s \in Seq(Item) /\ l \in Seq(Item) /\ f \in Seq(Item)
    BY DEF ChunkInv
<1>2. /\ f \o (s \o l) = chunking.items /\ ByteLength(s) <= MaxLength
      /\ \A i \in DOMAIN c : ByteLength(c[i]) <= MaxLength
      /\ Fit(chunking.items) => s # <<>> /\ \A i \in DOMAIN c : c[i] # <<>>
    BY DEF ChunkInv
<1>3. FlattenSeq(Append(c, s)) = f \o s
    BY <1>1, FlattenOfAppended
<1> HIDE DEF c, s, l, f
<1>4. f \o s \in Seq(Item) /\ (f \o s) \o (<<>> \o l) = f \o (s \o l)
    <2>1. f \o s \in Seq(Item)
        BY <1>1, ConcatProperties
    <2>2. <<>> \o l = l
        BY <1>1, ConcatEmptySeq
    <2>3. (f \o s) \o l = f \o (s \o l)
        BY <1>1, ConcatAssociative
    <2> QED
        BY <2>1, <2>2, <2>3
<1>5. /\ Append(c, s) \in Seq(Seq(Item))
      /\ DOMAIN c = 1 .. Len(c) /\ DOMAIN Append(c, s) = 1 .. Len(c) + 1
      /\ \A i \in 1 .. Len(c) : Append(c, s)[i] = c[i]
      /\ Append(c, s)[Len(c) + 1] = s /\ Len(c) \in Nat
    BY <1>1, AppendProperties, LenProperties
<1>6. \A i \in DOMAIN Append(c, s) :
          (i \in DOMAIN c /\ Append(c, s)[i] = c[i]) \/ Append(c, s)[i] = s
    BY <1>5
<1>7. \A i \in DOMAIN Append(c, s) : ByteLength(Append(c, s)[i]) <= MaxLength
    BY <1>2, <1>6
<1>8. Fit(chunking.items) => \A i \in DOMAIN Append(c, s) : Append(c, s)[i] # <<>>
    BY <1>2, <1>6
<1> QED
    BY <1>2, <1>3, <1>4, <1>5, <1>7, <1>8 DEF c, s, l

LEMMA ChunkItemKeepsInv == ASSUME ChunkInv, ChunkItem PROVE ChunkInv'
<1> DEFINE c == chunking  h == Head(c.left)
<1>1. /\ c.items \in Seq(Item) /\ c.left \in Seq(Item) /\ c.left # <<>>
      /\ c.current \in Seq(Item) /\ c.length \in Nat /\ c.length = ByteLength(c.current) /\ ~c.done
      /\ c.chunks \in Seq(Seq(Item)) /\ c.done \in BOOLEAN
      /\ c \in [items : Seq(Item), left : Seq(Item), chunks : Seq(Seq(Item)),
                current : Seq(Item), length : Nat, done : BOOLEAN]
    BY DEF ChunkInv, ChunkItem
<1>2. h \in Item /\ Tail(c.left) \in Seq(Item) /\ h[2] \in Nat /\ h = c.left[1] /\ 1 \in DOMAIN c.left
    <2>1. Head(c.left) \in Item /\ Tail(c.left) \in Seq(Item) /\ Len(c.left) \in Nat \ {0}
        BY <1>1, HeadTailProperties, EmptySeq
    <2> QED
        BY <1>1, <2>1, LenProperties DEF Item
<1>3. CASE c.length + h[2] > MaxLength
    <2> DEFINE chunks == Append(c.chunks, c.current)
    <2>1. chunking' = [c EXCEPT !.chunks = chunks, !.current = <<>>, !.length = 0]
        BY <1>3 DEF ChunkItem
    <2>2. Fit(c.items) => c.current # <<>>
        <3>1. SUFFICES ASSUME Fit(c.items), c.current = <<>> PROVE FALSE
            OBVIOUS
        <3>2. c.length = 0
            BY <1>1, <3>1, BytesOfNothing
        <3>3. h[2] <= MaxLength
            BY <1>2, <3>1 DEF ChunkInv, Fit
        <3> QED
            BY <1>2, <1>3, <3>2, <3>3, ChunksAssumption
    <2>3. /\ chunks \in Seq(Seq(Item)) /\ FlattenSeq(chunks) \in Seq(Item)
          /\ FlattenSeq(chunks) \o (<<>> \o c.left) = c.items
          /\ \A i \in DOMAIN chunks : ByteLength(chunks[i]) <= MaxLength
          /\ Fit(c.items) => \A i \in DOMAIN chunks : chunks[i] # <<>>
        BY <2>2, ClosedChunk
    <2> HIDE DEF chunks
    <2>4. /\ c'.items = c.items /\ c'.left = c.left /\ c'.chunks = chunks
          /\ c'.current = <<>> /\ c'.length = 0 /\ c'.done = c.done
          /\ c' \in [items : Seq(Item), left : Seq(Item), chunks : Seq(Seq(Item)),
                     current : Seq(Item), length : Nat, done : BOOLEAN]
        <3>1. <<>> \in Seq(Item)
            BY EmptySeq
        <3> QED
            BY <1>1, <2>1, <2>3, <3>1
    <2>5. Fit(c.items) => Fit(c.left)
        BY DEF ChunkInv
    <2>6. ~c'.done /\ ByteLength(c'.current) = 0 /\ 0 <= MaxLength
        BY <1>1, <2>4, BytesOfNothing, ChunksAssumption
    <2>7. FlattenSeq(c'.chunks) \in Seq(Item)
          /\ FlattenSeq(c'.chunks) \o (c'.current \o c'.left) = c'.items
        BY <2>3, <2>4
    <2>8. /\ \A i \in DOMAIN c'.chunks : ByteLength(c'.chunks[i]) <= MaxLength
          /\ Fit(c'.items) => Fit(c'.left) /\ \A i \in DOMAIN c'.chunks : c'.chunks[i] # <<>>
        BY <2>3, <2>4, <2>5
    <2> QED
        BY <2>4, <2>6, <2>7, <2>8 DEF ChunkInv, Fit
<1>4. CASE ~(c.length + h[2] > MaxLength)
    <2> DEFINE current == Append(c.current, h)
    <2>1. chunking' = [c EXCEPT !.left = Tail(@), !.current = current, !.length = c.length + h[2]]
        BY <1>4 DEF ChunkItem
    <2>2. current \in Seq(Item) /\ c.length + h[2] \in Nat
          /\ ByteLength(current) = c.length + h[2] /\ c.length + h[2] <= MaxLength
        <3>1. Append(c.current, Head(c.left)) \in Seq(Item)
            BY <1>1, <1>2, AppendProperties
        <3>2. ByteLength(Append(c.current, Head(c.left))) = c.length + h[2]
            BY <1>1, <1>2, BytesOfAppended
        <3> QED
            BY <1>1, <1>2, <1>4, <3>1, <3>2, ChunksAssumption
    <2>3. current \o Tail(c.left) = c.current \o c.left
        <3>1. PICK s \in Seq(Item), l \in Seq(Item), x \in Item :
                  s = c.current /\ l = c.left /\ l # <<>> /\ x = Head(l)
            BY <1>1, <1>2
        <3>2. Append(s, x) = s \o <<x>> /\ <<x>> \in Seq(Item) /\ Tail(l) \in Seq(Item)
            BY <3>1, AppendIsConcat, HeadTailProperties
        <3>3. (s \o <<x>>) \o Tail(l) = s \o (<<x>> \o Tail(l))
            BY <3>2, ConcatAssociative
        <3>4. <<x>> \o Tail(l) = l
            BY <3>1, <3>2
        <3> QED
            BY <3>1, <3>2, <3>3, <3>4
    <2> HIDE DEF current
    <2>4. /\ c'.items = c.items /\ c'.left = Tail(c.left) /\ c'.chunks = c.chunks
          /\ c'.current = current /\ c'.length = c.length + h[2] /\ c'.done = c.done
          /\ c' \in [items : Seq(Item), left : Seq(Item), chunks : Seq(Seq(Item)),
                     current : Seq(Item), length : Nat, done : BOOLEAN]
        BY <1>1, <1>2, <2>1, <2>2
    <2>5. Fit(c.items) => Fit(Tail(c.left))
        <3>1. /\ \A i \in DOMAIN Tail(c.left) : i + 1 \in DOMAIN c.left
                                              /\ Tail(c.left)[i] = c.left[i + 1]
            BY <1>1, HeadTailProperties, LenProperties
        <3> QED
            BY <3>1 DEF ChunkInv, Fit
    <2>6. ~c'.done /\ ByteLength(c'.current) = c'.length /\ c'.length <= MaxLength
        BY <1>1, <2>2, <2>4
    <2>7. FlattenSeq(c'.chunks) \in Seq(Item)
          /\ FlattenSeq(c'.chunks) \o (c'.current \o c'.left) = c'.items
        BY <2>3, <2>4 DEF ChunkInv
    <2>8. /\ \A i \in DOMAIN c'.chunks : ByteLength(c'.chunks[i]) <= MaxLength
          /\ Fit(c'.items) => Fit(c'.left) /\ \A i \in DOMAIN c'.chunks : c'.chunks[i] # <<>>
        BY <2>4, <2>5 DEF ChunkInv
    <2> QED
        BY <2>4, <2>6, <2>7, <2>8 DEF ChunkInv, Fit
<1> QED
    BY <1>3, <1>4

LEMMA LastChunkKeepsInv == ASSUME ChunkInv, LastChunk PROVE ChunkInv'
<1> DEFINE c == chunking
<1>1. /\ c \in [items : Seq(Item), left : Seq(Item), chunks : Seq(Seq(Item)),
                current : Seq(Item), length : Nat, done : BOOLEAN]
      /\ Fit(c.items) => Fit(c.left)
      /\ c.left = <<>>
    BY DEF ChunkInv, LastChunk
<1>2. CASE c.current = <<>>
    <2>1. chunking' = [c EXCEPT !.current = <<>>, !.done = TRUE]
        BY <1>1, <1>2 DEF LastChunk
    <2>2. /\ c'.items = c.items /\ c'.left = c.left /\ c'.chunks = c.chunks
          /\ c'.current = c.current /\ c'.length = c.length
          /\ c' \in [items : Seq(Item), left : Seq(Item), chunks : Seq(Seq(Item)),
                     current : Seq(Item), length : Nat, done : BOOLEAN]
        BY <1>1, <1>2, <2>1
    <2>3. c'.done
        BY <1>1, <2>1
    <2> QED
        BY <1>1, <2>2, <2>3 DEF ChunkInv
<1>3. CASE c.current # <<>>
    <2> DEFINE chunks == Append(c.chunks, c.current)
    <2>1. chunking' = [c EXCEPT !.chunks = chunks, !.current = <<>>, !.done = TRUE]
        BY <1>3 DEF LastChunk
    <2>2. /\ chunks \in Seq(Seq(Item)) /\ FlattenSeq(chunks) \in Seq(Item)
          /\ FlattenSeq(chunks) \o (<<>> \o c.left) = c.items
          /\ \A i \in DOMAIN chunks : ByteLength(chunks[i]) <= MaxLength
          /\ Fit(c.items) => \A i \in DOMAIN chunks : chunks[i] # <<>>
        BY <1>3, ClosedChunk
    <2> HIDE DEF chunks
    <2>3. /\ c'.items = c.items /\ c'.left = <<>> /\ c'.chunks = chunks
          /\ c'.current = <<>> /\ c'.length = c.length /\ c'.done
          /\ c' \in [items : Seq(Item), left : Seq(Item), chunks : Seq(Seq(Item)),
                     current : Seq(Item), length : Nat, done : BOOLEAN]
        <3>1. <<>> \in Seq(Item)
            BY EmptySeq
        <3> QED
            BY <1>1, <2>1, <2>2, <3>1
    <2>4. c.length <= MaxLength
        BY DEF ChunkInv
    <2> QED
        BY <1>1, <2>2, <2>3, <2>4, BytesOfNothing, ChunksAssumption DEF ChunkInv
<1> QED
    BY <1>2, <1>3

(***************************************************************************)
(* Facts about extrema and finite sets of numbers.                         *)
(***************************************************************************)

LEMMA MaxIsGreatest ==
    ASSUME NEW S, IsFiniteSet(S), S # {}, S \subseteq Int
    PROVE  Max(S) \in S /\ \A y \in S : Max(S) >= y
<1>1. \E x \in S : \A y \in S : x >= y
    BY HasGreatest
<1> QED
    BY <1>1 DEF Max

LEMMA MinIsLeast ==
    ASSUME NEW S, IsFiniteSet(S), S # {}, S \subseteq Int
    PROVE  Min(S) \in S /\ \A y \in S : Min(S) <= y
<1> DEFINE neg == [x \in S |-> 0 - x]  N == {neg[x] : x \in S}
<1>1. IsFiniteSet(N)
    <2> HIDE DEF neg
    <2> QED
        BY ImageIsFinite
<1>2. N # {} /\ N \subseteq Int
    <2>1. \A x \in S : neg[x] = 0 - x /\ neg[x] \in Int
        OBVIOUS
    <2> HIDE DEF neg
    <2> QED
        BY <2>1
<1>3. PICK x \in N : \A y \in N : x >= y
    <2> HIDE DEF N
    <2> QED
        BY <1>1, <1>2, HasGreatest
<1>4. PICK z \in S : x = 0 - z
    OBVIOUS
<1>5. \A y \in S : z <= y
    <2>1. ASSUME NEW y \in S PROVE z <= y
        <3>1. neg[y] \in N /\ neg[y] = 0 - y /\ y \in Int /\ z \in Int
            OBVIOUS
        <3>2. x >= 0 - y
            BY <1>3, <3>1
        <3> QED
            BY <1>4, <3>1, <3>2
    <2> QED
        BY <2>1
<1> QED
    BY <1>4, <1>5 DEF Min

\* The members of a finite set of integers can be counted upwards.
LEMMA HasNth ==
    ASSUME NEW S, IsFiniteSet(S), S \subseteq Int, NEW n \in 1 .. Cardinality(S)
    PROVE  \E i \in S : Cardinality({j \in S : j <= i}) = n
<1> DEFINE Upto == [i \in S |-> {j \in S : j <= i}]
           G == {i \in S : Cardinality(Upto[i]) >= n}
<1>1. Cardinality(S) \in Nat /\ n \in Nat \ {0} /\ S # {}
    BY FS_CardinalityType, FS_EmptySet
<1>2. \A i \in S : /\ Upto[i] = {j \in S : j <= i} /\ Upto[i] \subseteq S
                   /\ i \in Upto[i]
    OBVIOUS
<1>3. \A i \in S : i \in G <=> Cardinality(Upto[i]) >= n
    OBVIOUS
<1>4. G \subseteq S
    OBVIOUS
<1> HIDE DEF Upto, G
<1>5. G # {} /\ IsFiniteSet(G) /\ G \subseteq Int
    <2>1. PICK x \in S : \A y \in S : x >= y
        BY <1>1, HasGreatest
    <2>2. Upto[x] = S
        BY <1>2, <2>1
    <2>3. x \in G
        BY <1>1, <1>3, <2>2
    <2>4. IsFiniteSet(G)
        BY <1>4, FS_Subset
    <2> QED
        BY <1>4, <2>3, <2>4
<1>6. PICK i \in G : \A y \in G : i <= y
    BY <1>5, MinIsLeast
<1>7. i \in S /\ IsFiniteSet(Upto[i]) /\ Cardinality(Upto[i]) \in Nat /\ Cardinality(Upto[i]) >= n
    BY <1>2, <1>3, <1>4, FS_Subset, FS_CardinalityType
<1>8. ~(Cardinality(Upto[i]) > n)
    <2>1. SUFFICES ASSUME Cardinality(Upto[i]) > n PROVE FALSE
        OBVIOUS
    <2> DEFINE B == Upto[i] \ {i}
    <2>2. IsFiniteSet(B) /\ Cardinality(B) = Cardinality(Upto[i]) - 1
        BY <1>2, <1>7, FS_RemoveElement
    <2>0. Upto[i] = {j \in S : j <= i} /\ i \in Int /\ \A j \in S : j \in Int
        BY <1>2, <1>7
    <2>3. B \subseteq S /\ B \subseteq Int /\ \A j \in B : j < i
        <3>1. \A j \in B : j \in S /\ j # i /\ j <= i
            BY <2>0
        <3>2. \A j \in S : j # i /\ j <= i => j < i
            BY <2>0
        <3> QED
            BY <2>0, <3>1, <3>2
    <2>4. B # {}
        BY <1>1, <1>7, <2>1, <2>2, FS_EmptySet
    <2>5. \A j \in S : j < i => j \in B
        <3>1. \A x, y \in Int : x < y => x # y /\ x <= y
            OBVIOUS
        <3> QED
            BY <2>0, <3>1
    <2> HIDE DEF B
    <2>6. PICK k \in B : \A y \in B : k >= y
        <3>1. IsFiniteSet(B) /\ B # {} /\ B \subseteq Int
            BY <2>2, <2>3, <2>4
        <3> QED
            BY <3>1, HasGreatest, Zenon
    <2>7. k \in S /\ k < i /\ i \in Int /\ k \in Int
        BY <1>7, <2>3, <2>6
    <2>8. Upto[k] = B
        <3>1. \A j \in S : j \in Upto[k] <=> j <= k
            BY <1>2, <2>7
        <3>2. \A j \in S : j <= k => j \in B
            BY <2>5, <2>7
        <3>3. \A j \in B : j <= k
            BY <2>3, <2>6
        <3>4. Upto[k] \subseteq S
            BY <1>2, <2>7
        <3> QED
            BY <2>3, <3>1, <3>2, <3>3, <3>4
    <2>9. k \in G
        BY <1>1, <1>3, <1>7, <2>1, <2>2, <2>7, <2>8
    <2> QED
        BY <1>6, <2>7, <2>9
<1>9. Cardinality(Upto[i]) = n
    BY <1>1, <1>7, <1>8
<1> QED
    BY <1>2, <1>7, <1>9

(***************************************************************************)
(* Market depth.  Normalized sides: the samples that stand for the native  *)
(* orders are samples.                                                     *)
(***************************************************************************)

Amount == Nat \ {0}

LEMMA UniqueAmounts ==
    ASSUME NEW amounts \in Seq(Amount) PROVE Unique(amounts) \in Seq(Amount)
<1> DEFINE firsts == {i \in DOMAIN amounts : \A j \in 1 .. i - 1 : amounts[j] # amounts[i]}
           nth(n) == CHOOSE i \in firsts : Cardinality({j \in firsts : j <= i}) = n
           N == Cardinality(firsts)
           u == [n \in 1 .. N |-> amounts[nth(n)]]
<1>1. Unique(amounts) = u
    BY DEF Unique
<1>2. DOMAIN amounts = 1 .. Len(amounts) /\ Len(amounts) \in Nat
      /\ \A i \in DOMAIN amounts : amounts[i] \in Amount
    BY LenProperties
<1>3. firsts \subseteq 1 .. Len(amounts) /\ IsFiniteSet(1 .. Len(amounts)) /\ firsts \subseteq Int
    BY <1>2, FS_Interval
<1>4. firsts \subseteq DOMAIN amounts
    OBVIOUS
<1> HIDE DEF firsts
<1>5. IsFiniteSet(firsts) /\ N \in Nat
    BY <1>3, FS_Subset, FS_CardinalityType
<1>6. \A n \in 1 .. N : nth(n) \in firsts
    BY <1>3, <1>5, HasNth
<1> HIDE DEF nth, N
<1>7. \A n \in 1 .. N : amounts[nth(n)] \in Amount
    BY <1>2, <1>4, <1>6
<1>8. u \in [1 .. N -> Amount]
    BY <1>7
<1> HIDE DEF u
<1> QED
    BY <1>1, <1>5, <1>8, SeqDef

LEMMA FunctionIsSeq == ASSUME NEW S, NEW n \in Nat, NEW f \in [1 .. n -> S] PROVE f \in Seq(S)
BY SeqDef

LEMMA SamplesAreTyped ==
    ASSUME NEW path \in Seq(Sample)
    PROVE  /\ DOMAIN path = 1 .. Len(path) /\ IsFiniteSet(DOMAIN path) /\ DOMAIN path \subseteq Int
           /\ \A i \in DOMAIN path : /\ path[i] \in Sample /\ path[i].input \in Nat \ {0}
                                     /\ path[i].output \in Nat
<1>1. DOMAIN path = 1 .. Len(path) /\ Len(path) \in Nat /\ \A i \in DOMAIN path : path[i] \in Sample
    BY LenProperties
<1>2. IsFiniteSet(1 .. Len(path)) /\ 1 .. Len(path) \subseteq Int
    BY <1>1, FS_Interval
<1>3. \A x \in Sample : x.input \in Nat \ {0} /\ x.output \in Nat
    BY DEF Sample
<1> QED
    BY <1>1, <1>2, <1>3

LEMMA DepthSumIsNatural ==
    ASSUME NEW f, IsFiniteSet(DOMAIN f), \A x \in DOMAIN f : f[x] \in Nat
    PROVE  DepthSum(f) = SumFunctionOnSet(f, DOMAIN f) /\ DepthSum(f) \in Nat
BY SumIsNatural DEF DepthSum, SumFunction

LEMMA NativeOutputIsNatural ==
    ASSUME NEW path \in Seq(Sample), NEW target \in Amount, NEW side, NEW turn
    PROVE  SampleNativeOrders(path, target, side, turn) \in Nat
<1> DEFINE before(i) == DepthSum([j \in FilledBefore(path, i, side, turn) |-> path[j].input])
           input(i) == IF before(i) >= target THEN 0
                       ELSE Smaller(target - before(i), path[i].input)
           output(i) == (2 * input(i) * path[i].output + path[i].input)
                            \div (2 * path[i].input)
           out == [i \in DOMAIN path |-> output(i)]
<1>1. SampleNativeOrders(path, target, side, turn)
          = IF DepthSum([i \in DOMAIN path |-> path[i].input]) < target THEN 0 ELSE DepthSum(out)
    BY DEF SampleNativeOrders
<1>2. ASSUME NEW i \in DOMAIN path PROVE output(i) \in Nat
    <2>1. before(i) \in Nat
        <3> DEFINE F == FilledBefore(path, i, side, turn)  f == [j \in F |-> path[j].input]
        <3>1. F \subseteq DOMAIN path
            BY DEF FilledBefore
        <3>2. IsFiniteSet(F) /\ \A j \in F : path[j].input \in Nat
            BY <3>1, SamplesAreTyped, FS_Subset
        <3> HIDE DEF F
        <3>3. IsFiniteSet(DOMAIN f) /\ \A j \in DOMAIN f : f[j] \in Nat
            BY <3>2
        <3> HIDE DEF f
        <3>4. DepthSum(f) \in Nat
            BY <3>3, DepthSumIsNatural
        <3> QED
            BY <3>4 DEF f, F
    <2>2. path[i].input \in Nat \ {0} /\ path[i].output \in Nat
        BY SamplesAreTyped
    <2> HIDE DEF before
    <2>3. input(i) \in Nat
        BY <2>1, <2>2 DEF Smaller, Amount
    <2> HIDE DEF input
    <2>4. PICK a \in Nat, b \in Nat, c \in Nat \ {0} :
              a = input(i) /\ b = path[i].output /\ c = path[i].input
        BY <2>2, <2>3
    <2>5. 2 * a * b + c \in Nat /\ 2 * c \in Nat \ {0}
        BY ProductIsNat
    <2>6. (2 * a * b + c) \div (2 * c) \in Nat
        BY <2>5, QuotientIsBetween
    <2> QED
        BY <2>4, <2>6
<1>3. IsFiniteSet(DOMAIN out) /\ \A i \in DOMAIN out : out[i] \in Nat
    <2>1. DOMAIN out = DOMAIN path
        OBVIOUS
    <2>2. \A i \in DOMAIN path : out[i] = output(i)
        OBVIOUS
    <2> HIDE DEF out, output
    <2> QED
        BY <1>2, <2>1, <2>2, SamplesAreTyped
<1> HIDE DEF out
<1>4. DepthSum(out) \in Nat
    BY <1>3, DepthSumIsNatural
<1> QED
    BY <1>1, <1>4

LEMMA LinesAreTyped ==
    ASSUME NEW raw \in Seq(Seq(Sample))
    PROVE  /\ DOMAIN raw = 1 .. Len(raw) /\ Len(raw) \in Nat /\ IsFiniteSet(DOMAIN raw)
           /\ \A l \in DOMAIN raw : raw[l] \in Seq(Sample)
           /\ \A S \in SUBSET DOMAIN raw : S # {} => Min(S) \in S
<1>1. DOMAIN raw = 1 .. Len(raw) /\ Len(raw) \in Nat /\ \A i \in DOMAIN raw : raw[i] \in Seq(Sample)
    BY LenProperties
<1>2. IsFiniteSet(DOMAIN raw) /\ DOMAIN raw \subseteq Int
    BY <1>1, FS_Interval
<1>3. ASSUME NEW S \in SUBSET DOMAIN raw, S # {} PROVE Min(S) \in S
    BY <1>2, <1>3, FS_Subset, MinIsLeast
<1> QED
    BY <1>1, <1>2, <1>3

LEMMA InputsAreAmounts ==
    ASSUME NEW path \in Seq(Sample)
    PROVE  [i \in DOMAIN path |-> path[i].input] \in Seq(Amount)
<1> DEFINE f == [i \in DOMAIN path |-> path[i].input]
<1>1. Len(path) \in Nat
    BY LenProperties
<1>2. f \in [1 .. Len(path) -> Amount]
    BY SamplesAreTyped DEF Amount
<1> HIDE DEF f
<1>3. f \in Seq(Amount)
    BY <1>1, <1>2, SeqDef
<1> QED
    BY <1>3 DEF f

LEMMA AmountsAreTyped ==
    ASSUME NEW raw \in Seq(Seq(Sample)), NonEmpty(raw) # {}
    PROVE  SampleAmounts(raw) \in Seq(Amount)
<1> DEFINE sampled == {l \in NonEmpty(raw) : ~IsNative(raw[l])}
           inputs(l) == [i \in DOMAIN raw[l] |-> raw[l][i].input]
<1>1. SampleAmounts(raw)
        = IF sampled # {} THEN inputs(Min(sampled)) ELSE Unique(inputs(Min(NonEmpty(raw))))
    BY DEF SampleAmounts
<1>2. \A l \in DOMAIN raw : inputs(l) \in Seq(Amount)
    BY LinesAreTyped, InputsAreAmounts
<1>3. sampled \subseteq DOMAIN raw /\ NonEmpty(raw) \subseteq DOMAIN raw
    BY DEF NonEmpty
<1> HIDE DEF sampled, inputs
<1>4. Min(NonEmpty(raw)) \in DOMAIN raw /\ (sampled # {} => Min(sampled) \in DOMAIN raw)
    BY <1>3, LinesAreTyped
<1> QED
    BY <1>1, <1>2, <1>4, UniqueAmounts

LEMMA NativeSample ==
    ASSUME NEW a \in Amount, NEW o \in Nat
    PROVE  [source |-> "Native", input |-> a, output |-> o] \in Sample
BY DepthAssumption DEF Sample, Amount

LEMMA NormalizedIsTyped ==
    ASSUME NEW raw \in Seq(Seq(Sample)), NEW side
    PROVE  Normalize(raw, side) \in Seq(Seq(Sample))
<1> DEFINE native == {l \in NonEmpty(raw) : IsNative(raw[l])}
           amounts == SampleAmounts(raw)
           line(l) == [i \in DOMAIN amounts |->
                         [source |-> "Native", input |-> amounts[i],
                          output |-> SampleNativeOrders(raw[l], amounts[i], side, i)]]
           norm == [l \in DOMAIN raw |->
                      IF l \notin native THEN raw[l] ELSE IF l # Min(native) THEN <<>> ELSE line(l)]
<1>1. Normalize(raw, side) = norm
    BY DEF Normalize
<1>2. ASSUME NEW l \in DOMAIN raw, l \in native PROVE line(l) \in Seq(Sample)
    <2>1. amounts \in Seq(Amount)
        BY <1>2, AmountsAreTyped
    <2>2. raw[l] \in Seq(Sample)
        BY LinesAreTyped
    <2> HIDE DEF amounts
    <2>3. DOMAIN amounts = 1 .. Len(amounts) /\ Len(amounts) \in Nat
          /\ \A i \in DOMAIN amounts : amounts[i] \in Amount
        BY <2>1, LenProperties
    <2>4. \A i \in DOMAIN amounts : SampleNativeOrders(raw[l], amounts[i], side, i) \in Nat
        BY <2>2, <2>3, NativeOutputIsNatural
    <2>5. \A a \in Amount, o \in Nat :
              [source |-> "Native", input |-> a, output |-> o] \in Sample
        BY NativeSample
    <2>6. \A i \in DOMAIN amounts : line(l)[i] \in Sample
        BY <2>3, <2>4, <2>5
    <2>7. line(l) \in [1 .. Len(amounts) -> Sample]
        BY <2>3, <2>6
    <2> HIDE DEF line
    <2>8. PICK n, f : n = Len(amounts) /\ f = line(l)
        BY <2>3
    <2> QED
        BY <2>3, <2>7, <2>8, FunctionIsSeq
<1>3. <<>> \in Seq(Sample)
    BY EmptySeq
<1>4. DOMAIN norm = DOMAIN raw
    OBVIOUS
<1>5. \A l \in DOMAIN raw :
          norm[l] = IF l \notin native THEN raw[l] ELSE IF l # Min(native) THEN <<>> ELSE line(l)
    OBVIOUS
<1>6. norm = [l \in DOMAIN norm |-> norm[l]]
    OBVIOUS
<1> HIDE DEF norm, line, native
<1>7. \A l \in DOMAIN raw : norm[l] \in Seq(Sample)
    BY <1>2, <1>3, <1>5, LinesAreTyped
<1>8. norm \in [1 .. Len(raw) -> Seq(Sample)] /\ Len(raw) \in Nat
    BY <1>4, <1>6, <1>7, LinesAreTyped
<1>9. PICK n, S : n = Len(raw) /\ S = Seq(Sample)
    BY <1>8
<1>10. norm \in Seq(S)
    BY <1>8, <1>9, FunctionIsSeq
<1> QED
    BY <1>1, <1>9, <1>10

LEMMA PricesAreFinite ==
    ASSUME NEW side \in Seq(Seq(Sample))
    PROVE  IsFiniteSet(Prices(side)) /\ Prices(side) \subseteq Nat \ {0}
<1> DEFINE here(i) == {k \in DOMAIN side[i] : side[i][k].output # 0}
           of == [i \in DOMAIN side |-> {Price(side[i][j]) : j \in here(i)}]
           all == {of[i] : i \in DOMAIN side}
<1>1. Prices(side) = (UNION all) \ {0}
    BY DEF Prices
<1>2. ASSUME NEW i \in DOMAIN side PROVE of[i] \subseteq Nat /\ IsFiniteSet(of[i])
    <2>1. side[i] \in Seq(Sample)
        BY LinesAreTyped
    <2> DEFINE path == side[i]  p == [j \in DOMAIN path |-> Price(path[j])]
    <2> HIDE DEF path
    <2>2. here(i) \subseteq DOMAIN path /\ IsFiniteSet(DOMAIN path)
        BY <2>1, SamplesAreTyped DEF path
    <2>3. ASSUME NEW j \in DOMAIN path PROVE p[j] \in Nat /\ p[j] = Price(path[j])
        <3>1. path[j].output \in Nat /\ path[j].input \in Nat \ {0} /\ Scale \in Nat
            BY <2>1, SamplesAreTyped, DepthAssumption DEF path
        <3>2. path[j].output * Scale \in Nat
            BY <3>1, ProductIsNat
        <3>3. (path[j].output * Scale) \div path[j].input \in Nat
            BY <3>1, <3>2, QuotientIsBetween
        <3> QED
            BY <3>3 DEF Price
    <2>4. of[i] = {Price(path[j]) : j \in here(i)}
        BY DEF path
    <2> HIDE DEF here, p, of
    <2>5. of[i] = {p[j] : j \in here(i)}
        BY <2>2, <2>3, <2>4
    <2>6. IsFiniteSet(here(i))
        BY <2>2, FS_Subset
    <2>7. IsFiniteSet(of[i])
        <3>1. PICK H : H = here(i)
            OBVIOUS
        <3>2. IsFiniteSet({p[j] : j \in H})
            BY <2>6, <3>1, ImageIsFinite
        <3> QED
            BY <2>5, <3>1, <3>2
    <2> QED
        BY <2>2, <2>3, <2>5, <2>7
<1> HIDE DEF of
<1>3. IsFiniteSet(all) /\ \A T \in all : IsFiniteSet(T) /\ T \subseteq Nat
    <2>1. IsFiniteSet(DOMAIN side)
        BY LinesAreTyped
    <2> QED
        BY <1>2, <2>1, ImageIsFinite
<1> HIDE DEF all
<1>4. IsFiniteSet(UNION all) /\ UNION all \subseteq Nat
    BY <1>3, FS_UNION
<1> QED
    BY <1>1, <1>4, FS_Subset

(***************************************************************************)
(* Buckets of prices.                                                      *)
(***************************************************************************)

LEMMA ProductIsMonotone ==
    ASSUME NEW a \in Int, NEW b \in Int, a <= b, NEW n \in Nat PROVE a * n <= b * n
<1>1. b - a \in Nat /\ (b - a) * n \in Nat
    BY ProductIsNat
<1>2. b * n = a * n + (b - a) * n /\ a * n \in Int
    OBVIOUS
<1> QED
    BY <1>1, <1>2

LEMMA QuotientOfInteger ==
    ASSUME NEW x \in Int, NEW d \in Nat \ {0}
    PROVE  x \div d \in Int /\ d * (x \div d) <= x /\ x < d * (x \div d) + d
OBVIOUS

LEMMA QuotientIsMonotone ==
    ASSUME NEW a \in Int, NEW b \in Int, a <= b, NEW d \in Nat \ {0} PROVE a \div d <= b \div d
<1>1. PICK p, q : p = a \div d /\ q = b \div d
    OBVIOUS
<1>2. p \in Int /\ q \in Int /\ d * p <= a /\ b < d * q + d
    BY <1>1, QuotientOfInteger
<1>3. SUFFICES ASSUME q + 1 <= p PROVE FALSE
    BY <1>1, <1>2
<1>4. (q + 1) * d <= p * d
    BY <1>2, <1>3, ProductIsMonotone
<1>5. (q + 1) * d = d * q + d /\ p * d = d * p /\ d * q \in Int /\ d * p \in Int
    BY <1>2
<1> QED
    BY <1>2, <1>4, <1>5

\* A bucket takes prices that are no worse than its own.
Takes(price, i, prices, op) == IF op = "Sell" THEN price >= prices[i] ELSE price <= prices[i]

\* The prices of the buckets do not get better.
Ladder(prices, op) ==
    /\ prices \in [1 .. NumBuckets + 1 -> Int]
    /\ \A i, k \in 1 .. NumBuckets + 1 : i <= k =>
           IF op = "Sell" THEN prices[k] <= prices[i] ELSE prices[i] <= prices[k]

LEMMA LadderOfPrices ==
    ASSUME NEW start \in Int, NEW end \in Int, NEW op \in {"Sell", "Buy"},
           IF op = "Sell" THEN end <= start ELSE start <= end
    PROVE  Ladder(BucketPrices(start, end), op)
<1> DEFINE p == BucketPrices(start, end)  d == end - start
<1>1. d \in Int /\ NumBuckets \in Nat \ {0}
    BY DepthAssumption
<1> HIDE DEF d
<1>2. ASSUME NEW i \in 1 .. NumBuckets + 1
      PROVE  /\ p[i] = start + (d * (i - 1)) \div NumBuckets
             /\ (d * (i - 1)) \in Int /\ (d * (i - 1)) \div NumBuckets \in Int
    <2>1. p[i] = start + (d * (i - 1)) \div NumBuckets
        BY DEF BucketPrices, d
    <2>2. d * (i - 1) \in Int
        BY <1>1
    <2>3. PICK x \in Int : x = d * (i - 1)
        BY <2>2
    <2>4. x \div NumBuckets \in Int
        BY <1>1, QuotientOfInteger
    <2> QED
        BY <2>1, <2>3, <2>4
<1>3. p = [i \in 1 .. NumBuckets + 1 |-> p[i]]
    BY DEF BucketPrices
<1>4. \A i \in 1 .. NumBuckets + 1 : p[i] \in Int
    <2> HIDE DEF p
    <2> QED
        BY <1>2
<1>5. p \in [1 .. NumBuckets + 1 -> Int]
    <2> HIDE DEF p
    <2> QED
        BY <1>3, <1>4
<1>6. ASSUME NEW i \in 1 .. NumBuckets + 1, NEW k \in 1 .. NumBuckets + 1, i <= k
      PROVE  IF op = "Sell" THEN p[k] <= p[i] ELSE p[i] <= p[k]
    <2>1. PICK m \in Nat, n \in Nat : m = i - 1 /\ n = k - 1 /\ m <= n
        BY <1>1, <1>6
    <2>2. PICK x \in Int, y \in Int : x = d * m /\ y = d * n
        BY <1>1
    <2>3. CASE op = "Sell"
        <3>1. 0 - d \in Nat
            BY <1>1, <2>3 DEF d
        <3>2. m * (0 - d) <= n * (0 - d)
            BY <2>1, <3>1, ProductIsMonotone
        <3>3. y <= x
            <4>1. m * (0 - d) = 0 - d * m /\ n * (0 - d) = 0 - d * n
                BY <1>1
            <4> QED
                BY <2>2, <3>2, <4>1
        <3>4. y \div NumBuckets <= x \div NumBuckets
            BY <1>1, <3>3, QuotientIsMonotone
        <3> HIDE DEF p
        <3>5. p[i] = start + x \div NumBuckets /\ p[k] = start + y \div NumBuckets
              /\ x \div NumBuckets \in Int /\ y \div NumBuckets \in Int
            BY <1>2, <2>1, <2>2
        <3> QED
            BY <2>3, <3>4, <3>5
    <2>4. CASE op = "Buy"
        <3>1. d \in Nat
            BY <1>1, <2>4 DEF d
        <3>2. m * d <= n * d
            BY <2>1, <3>1, ProductIsMonotone
        <3>3. x <= y
            BY <1>1, <2>2, <3>2
        <3>4. x \div NumBuckets <= y \div NumBuckets
            BY <1>1, <3>3, QuotientIsMonotone
        <3> HIDE DEF p
        <3>5. p[i] = start + x \div NumBuckets /\ p[k] = start + y \div NumBuckets
              /\ x \div NumBuckets \in Int /\ y \div NumBuckets \in Int
            BY <1>2, <2>1, <2>2
        <3> QED
            BY <2>4, <3>4, <3>5
    <2> QED
        BY <2>3, <2>4
<1> HIDE DEF p
<1>7. Ladder(p, op)
    BY <1>5, <1>6 DEF Ladder
<1> QED
    BY <1>7 DEF p

LEMMA PricesAreALadder ==
    ASSUME NEW side \in Seq(Seq(Sample)), Prices(side) # {}, NEW op \in {"Sell", "Buy"}
    PROVE  Ladder(BucketPrices(StartPrice(side, op), EndPrice(side, op)), op)
<1>1. Prices(side) \subseteq Int /\ Prices(side) \subseteq Nat \ {0} /\ IsFiniteSet(Prices(side))
    BY PricesAreFinite
<1>2. PICK start : start = StartPrice(side, op)
    OBVIOUS
<1>3. start \in Nat
    <2>1. Max(Prices(side)) \in Prices(side) /\ Min(Prices(side)) \in Prices(side)
        BY <1>1, MaxIsGreatest, MinIsLeast
    <2> QED
        BY <1>1, <1>2, <2>1 DEF StartPrice
<1>4. PICK percent : percent = IF op = "Sell" THEN 100 - Slippage ELSE 100 + Slippage
    OBVIOUS
<1>5. percent \in Nat /\ IF op = "Sell" THEN percent <= 100 ELSE 100 <= percent
    BY <1>4, DepthAssumption
<1>6. EndPrice(side, op) = (start * percent) \div 100
    BY <1>2, <1>4 DEF EndPrice
<1>7. PICK x \in Nat : x = start * percent
    BY <1>3, <1>5, ProductIsNat
<1>8. IF op = "Sell" THEN x <= 100 * start ELSE 100 * start <= x
    <2>1. CASE op = "Sell"
        <3>1. percent * start <= 100 * start
            BY <1>3, <1>5, <2>1, ProductIsMonotone
        <3>2. percent * start = start * percent
            BY <1>3, <1>5
        <3> QED
            BY <1>7, <2>1, <3>1, <3>2
    <2>2. CASE op = "Buy"
        <3>1. 100 * start <= percent * start
            BY <1>3, <1>5, <2>2, ProductIsMonotone
        <3>2. percent * start = start * percent
            BY <1>3, <1>5
        <3> QED
            BY <1>7, <2>2, <3>1, <3>2
    <2> QED
        BY <2>1, <2>2
<1>9. x \div 100 \in Int /\ IF op = "Sell" THEN x \div 100 <= start ELSE start <= x \div 100
    BY <1>3, <1>8
<1>10. PICK end \in Int : end = EndPrice(side, op)
    BY <1>6, <1>7, <1>9
<1>11. IF op = "Sell" THEN end <= start ELSE start <= end
    BY <1>6, <1>7, <1>9, <1>10
<1>12. Ladder(BucketPrices(start, end), op)
    BY <1>3, <1>11, LadderOfPrices
<1> QED
    BY <1>2, <1>10, <1>12

LEMMA BucketsOfPrice ==
    ASSUME NEW op, NEW prices, Ladder(prices, op), NEW price \in Int,
           NEW i \in 1 .. NumBuckets + 1
    PROVE  /\ Takes(price, i, prices, op) => BucketId(price, prices, op) \in 1 .. i
           /\ BucketId(price, prices, op) \in 1 .. i => Takes(price, i, prices, op)
<1> DEFINE taking == {k \in DOMAIN prices :
                        IF op = "Sell" THEN price >= prices[k] ELSE price <= prices[k]}
           b == BucketId(price, prices, op)
<1>1. b = IF taking = {} THEN 0 ELSE Min(taking)
    BY DEF BucketId
<1>2. DOMAIN prices = 1 .. NumBuckets + 1 /\ NumBuckets \in Nat /\ \A k \in DOMAIN prices : prices[k] \in Int
    BY DepthAssumption DEF Ladder
<1>3. /\ taking \subseteq 1 .. NumBuckets + 1 /\ taking \subseteq Int
      /\ \A k \in 1 .. NumBuckets + 1 : k \in taking <=> Takes(price, k, prices, op)
    BY <1>2 DEF Takes
<1> HIDE DEF taking
<1>4. taking # {} => Min(taking) \in taking /\ \A y \in taking : Min(taking) <= y
    <2>1. IsFiniteSet(taking)
        <3>1. PICK n \in Int : n = NumBuckets + 1
            BY <1>2
        <3>2. IsFiniteSet(1 .. n) /\ taking \subseteq 1 .. n
            BY <1>3, <3>1, FS_Interval
        <3> QED
            BY <3>2, FS_Subset
    <2> QED
        BY <1>3, <2>1, MinIsLeast
<1> HIDE DEF b
<1>5. ASSUME Takes(price, i, prices, op) PROVE b \in 1 .. i
    <2>1. i \in taking
        BY <1>3, <1>5
    <2>2. b \in taking /\ b <= i
        BY <1>1, <1>4, <2>1
    <2> QED
        BY <1>2, <1>3, <2>2
<1>6. ASSUME b \in 1 .. i PROVE Takes(price, i, prices, op)
    <2>1. b \in taking
        BY <1>1, <1>4, <1>6
    <2>2. b \in 1 .. NumBuckets + 1 /\ Takes(price, b, prices, op) /\ b <= i
        BY <1>3, <1>6, <2>1
    <2>3. IF op = "Sell" THEN prices[i] <= prices[b] ELSE prices[b] <= prices[i]
        BY <2>2 DEF Ladder
    <2> QED
        BY <1>2, <2>2, <2>3 DEF Takes
<1> QED
    BY <1>5, <1>6 DEF b

(***************************************************************************)
(* What is allocated to buckets, and what can be reached.                  *)
(***************************************************************************)

LEMMA PriceIsNatural == ASSUME NEW x \in Sample PROVE Price(x) \in Nat
<1>1. x.output \in Nat /\ x.input \in Nat \ {0} /\ Scale \in Nat
    BY DepthAssumption DEF Sample
<1>2. PICK p \in Nat : p = x.output * Scale
    BY <1>1, ProductIsNat
<1>3. p \div x.input \in Nat
    BY <1>1, QuotientIsBetween
<1> QED
    BY <1>2, <1>3 DEF Price

\* The samples of a pool in a bucket.
In(path, k, prices, op) ==
    {j \in DOMAIN path : path[j].output # 0 /\ BucketId(Price(path[j]), prices, op) = k}

\* The samples of a pool at a bucket's price or a better one.
Reached(path, i, prices, op) ==
    {j \in DOMAIN path : path[j].output # 0 /\ Takes(Price(path[j]), i, prices, op)}

LEMMA ReachedBuckets ==
    ASSUME NEW op, NEW prices, Ladder(prices, op), NEW path \in Seq(Sample),
           NEW i \in 1 .. NumBuckets + 1
    PROVE  /\ \A k \in 1 .. i : In(path, k, prices, op) \subseteq Reached(path, i, prices, op)
           /\ \A j \in Reached(path, i, prices, op) : \E k \in 1 .. i : j \in In(path, k, prices, op)
<1>1. \A j \in DOMAIN path : Price(path[j]) \in Int
    BY SamplesAreTyped, PriceIsNatural
<1>2. ASSUME NEW k \in 1 .. i, NEW j \in In(path, k, prices, op)
      PROVE  j \in Reached(path, i, prices, op)
    BY <1>1, <1>2, BucketsOfPrice DEF In, Reached
<1>3. ASSUME NEW j \in Reached(path, i, prices, op)
      PROVE  \E k \in 1 .. i : j \in In(path, k, prices, op)
    BY <1>1, <1>3, BucketsOfPrice DEF In, Reached
<1> QED
    BY <1>2, <1>3

LEMMA AllocatedIs ==
    ASSUME NEW path \in Seq(Sample), NEW k, NEW prices, NEW op
    PROVE  LET in == In(path, k, prices, op) IN
           IF in = {} THEN Allocated(path, k, prices, op) = 0
           ELSE \E m \in in : /\ \A j \in in : j <= m
                              /\ Allocated(path, k, prices, op) = path[m].input
<1> DEFINE in == In(path, k, prices, op)
<1>1. Allocated(path, k, prices, op) = IF in = {} THEN 0 ELSE path[Max(in)].input
    BY DEF Allocated, In
<1>2. in \subseteq DOMAIN path
    BY DEF In
<1> HIDE DEF in
<1>3. IsFiniteSet(in) /\ in \subseteq Int
    BY <1>2, SamplesAreTyped, FS_Subset
<1>4. in # {} => Max(in) \in in /\ \A j \in in : Max(in) >= j
    BY <1>3, MaxIsGreatest
<1>5. in # {} => \E m \in in : /\ \A j \in in : j <= m
                               /\ Allocated(path, k, prices, op) = path[m].input
    BY <1>1, <1>3, <1>4
<1> QED
    BY <1>1, <1>5 DEF in

LEMMA AllocatedIsNatural ==
    ASSUME NEW path \in Seq(Sample), NEW k, NEW prices, NEW op
    PROVE  Allocated(path, k, prices, op) \in Nat
BY AllocatedIs, SamplesAreTyped DEF In

LEMMA ReachableIs ==
    ASSUME NEW path \in Seq(Sample), NEW i, NEW prices, NEW op
    PROVE  LET reach == ReachableOf(path, prices[i], op)
               reached == Reached(path, i, prices, op) IN
           /\ reach \in Nat /\ \A j \in reached : path[j].input <= reach
           /\ reach = 0 \/ \E j \in reached : reach = path[j].input
<1> DEFINE reach == ReachableOf(path, prices[i], op)
           reached == Reached(path, i, prices, op)
           inputs == {path[j].input : j \in reached}
<1>1. reach = Max({0} \cup inputs)
    BY DEF ReachableOf, Reached, Takes
<1>2. reached \subseteq DOMAIN path
    BY DEF Reached
<1> HIDE DEF reached, reach
<1>3. inputs \subseteq Nat /\ IsFiniteSet(inputs)
    <2> DEFINE f == [j \in DOMAIN path |-> path[j].input]
    <2>1. \A j \in reached : f[j] = path[j].input /\ f[j] \in Nat
        BY <1>2, SamplesAreTyped
    <2>2. IsFiniteSet(reached)
        BY <1>2, SamplesAreTyped, FS_Subset
    <2> HIDE DEF f
    <2>3. IsFiniteSet({f[j] : j \in reached}) /\ inputs = {f[j] : j \in reached}
        BY <2>1, <2>2, ImageIsFinite
    <2> QED
        BY <2>1, <2>3
<1>4. \A j \in reached : path[j].input \in inputs
    OBVIOUS
<1>5. \A x \in inputs : \E j \in reached : x = path[j].input
    OBVIOUS
<1> HIDE DEF inputs
<1>6. PICK S : S = {0} \cup inputs
    OBVIOUS
<1>7. IsFiniteSet(S) /\ S # {} /\ S \subseteq Int /\ S \subseteq Nat
    <2>1. S = inputs \cup {0}
        BY <1>6
    <2>2. IsFiniteSet(S)
        BY <1>3, <2>1, FS_AddElement
    <2> QED
        BY <1>3, <1>6, <2>2
<1>8. reach \in S /\ \A x \in S : reach >= x
    BY <1>1, <1>6, <1>7, MaxIsGreatest
<1>9. reach \in Nat /\ (reach = 0 \/ reach \in inputs) /\ \A x \in inputs : x <= reach
    BY <1>6, <1>7, <1>8
<1> QED
    BY <1>4, <1>5, <1>9 DEF reach, reached

\* No bucket gets more of a pool than can be reached at its price ...
LEMMA AllocatedIsReachable ==
    ASSUME NEW op, NEW prices, Ladder(prices, op), NEW path \in Seq(Sample),
           NEW i \in 1 .. NumBuckets + 1, NEW k \in 1 .. i
    PROVE  Allocated(path, k, prices, op) <= ReachableOf(path, prices[i], op)
<1> DEFINE in == In(path, k, prices, op)  reached == Reached(path, i, prices, op)
           reach == ReachableOf(path, prices[i], op)  a == Allocated(path, k, prices, op)
<1>1. in \subseteq reached
    BY ReachedBuckets
<1>2. reach \in Nat /\ \A j \in reached : path[j].input <= reach
    BY ReachableIs
<1>3. IF in = {} THEN a = 0 ELSE \E m \in in : a = path[m].input
    BY AllocatedIs
<1> HIDE DEF in, reached, reach, a
<1>4. a <= reach
    BY <1>1, <1>2, <1>3
<1> QED
    BY <1>4 DEF reach, a

\* ... and of a pool whose samples grow some bucket up to there gets that much.
LEMMA ReachableIsAllocated ==
    ASSUME NEW op, NEW prices, Ladder(prices, op), NEW path \in Seq(Sample), Growing(path),
           NEW i \in 1 .. NumBuckets + 1
    PROVE  \E k \in 1 .. i : ReachableOf(path, prices[i], op) <= Allocated(path, k, prices, op)
<1> DEFINE in(k) == In(path, k, prices, op)  reached == Reached(path, i, prices, op)
           reach == ReachableOf(path, prices[i], op)  a(k) == Allocated(path, k, prices, op)
<1>1. \A j \in reached : \E k \in 1 .. i : j \in in(k)
    BY ReachedBuckets
<1>2. reach \in Nat /\ (reach = 0 \/ \E j \in reached : reach = path[j].input)
    BY ReachableIs
<1>3. \A k : IF in(k) = {} THEN a(k) = 0
             ELSE \E m \in in(k) : (\A j \in in(k) : j <= m) /\ a(k) = path[m].input
    BY AllocatedIs
<1>4. \A k : a(k) \in Nat
    BY AllocatedIsNatural
<1>5. \A k : in(k) \subseteq DOMAIN path
    BY DEF In
<1> HIDE DEF in, reached, reach, a
<1>6. CASE reach = 0
    <2>1. 1 \in 1 .. i /\ reach <= a(1)
        BY <1>4, <1>6
    <2> QED
        BY <2>1 DEF reach, a
<1>7. CASE reach # 0
    <2>1. PICK j \in reached : reach = path[j].input
        BY <1>2, <1>7
    <2>2. PICK k \in 1 .. i : j \in in(k)
        BY <1>1
    <2>3. PICK m \in in(k) : j <= m /\ a(k) = path[m].input
        BY <1>3, <2>2
    <2>4. j \in DOMAIN path /\ m \in DOMAIN path
        BY <1>5, <2>2, <2>3
    <2>5. path[j].input <= path[m].input
        <3>1. path[j].input \in Nat /\ path[m].input \in Nat /\ j \in Int /\ m \in Int
            BY <2>4, SamplesAreTyped
        <3>2. j < m => path[j].input < path[m].input
            BY <2>4 DEF Growing
        <3> QED
            BY <2>3, <3>1, <3>2
    <2> QED
        BY <2>1, <2>3, <2>5 DEF reach, a
<1> QED
    BY <1>6, <1>7

(***************************************************************************)
(* The depth of a source.                                                  *)
(***************************************************************************)

\* The pools of a source.
Pools(side, s) == {l \in NonEmpty(side) : SourceOf(side[l]) = s}

LEMMA PoolsAreTyped ==
    ASSUME NEW side \in Seq(Seq(Sample)), NEW s
    PROVE  IsFiniteSet(Pools(side, s)) /\ \A l \in Pools(side, s) : side[l] \in Seq(Sample)
<1>1. Pools(side, s) \subseteq DOMAIN side
    BY DEF Pools, NonEmpty
<1> QED
    BY <1>1, LinesAreTyped, FS_Subset

LEMMA TotalIs ==
    ASSUME NEW side \in Seq(Seq(Sample)), NEW s, NEW k, NEW prices, NEW op
    PROVE  \E f : /\ \A l \in Pools(side, s) : /\ f[l] = Allocated(side[l], k, prices, op)
                                               /\ f[l] \in Nat
                  /\ PoolsTotal(side, s, k, prices, op) = SumFunctionOnSet(f, Pools(side, s))
                  /\ PoolsTotal(side, s, k, prices, op) \in Nat
<1> DEFINE P == Pools(side, s)  f == [l \in P |-> Allocated(side[l], k, prices, op)]
<1>1. PoolsTotal(side, s, k, prices, op) = DepthSum(f)
    BY DEF PoolsTotal, Pools
<1>2. IsFiniteSet(P) /\ \A l \in P : side[l] \in Seq(Sample)
    BY PoolsAreTyped
<1> HIDE DEF P
<1>3. \A l \in P : f[l] = Allocated(side[l], k, prices, op) /\ f[l] \in Nat
    BY <1>2, AllocatedIsNatural
<1>4. DOMAIN f = P
    OBVIOUS
<1> HIDE DEF f
<1>5. DepthSum(f) = SumFunctionOnSet(f, P) /\ DepthSum(f) \in Nat
    BY <1>2, <1>3, <1>4, DepthSumIsNatural
<1> QED
    BY <1>1, <1>3, <1>5 DEF P

LEMMA DepthIs ==
    ASSUME NEW side \in Seq(Seq(Sample)), NEW s, NEW i \in 1 .. NumBuckets + 1, NEW prices, NEW op
    PROVE  LET depth == SourceDepth(side, s, i, prices, op) IN
           /\ depth \in Nat
           /\ \E k \in 1 .. i : depth = PoolsTotal(side, s, k, prices, op)
           /\ \A k \in 1 .. i : PoolsTotal(side, s, k, prices, op) <= depth
<1> DEFINE f == [k \in 1 .. i |-> PoolsTotal(side, s, k, prices, op)]
           T == {f[k] : k \in 1 .. i}  depth == SourceDepth(side, s, i, prices, op)
<1>1. \A k \in 1 .. i : f[k] = PoolsTotal(side, s, k, prices, op) /\ f[k] \in Nat
    BY TotalIs
<1> HIDE DEF f
<1>2. depth = Max(T)
    <2>1. T = {PoolsTotal(side, s, k, prices, op) : k \in 1 .. i}
        BY <1>1
    <2> QED
        BY <2>1 DEF SourceDepth
<1>3. i \in Int /\ 1 \in 1 .. i
    OBVIOUS
<1>4. IsFiniteSet(T) /\ T # {} /\ T \subseteq Int
    <2>1. IsFiniteSet(1 .. i)
        BY <1>3, FS_Interval
    <2>2. IsFiniteSet(T)
        BY <2>1, ImageIsFinite
    <2> QED
        BY <1>1, <1>3, <2>2
<1>5. \A k \in 1 .. i : f[k] \in T
    OBVIOUS
<1>6. \A x \in T : \E k \in 1 .. i : x = f[k]
    OBVIOUS
<1> HIDE DEF T, depth
<1>7. depth \in T /\ \A x \in T : depth >= x
    BY <1>2, <1>4, MaxIsGreatest
<1>8. PICK k \in 1 .. i : depth = f[k]
    BY <1>6, <1>7
<1>9. \A n \in 1 .. i : f[n] <= depth
    BY <1>1, <1>5, <1>7, <1>8
<1>10. /\ depth \in Nat /\ \E n \in 1 .. i : depth = PoolsTotal(side, s, n, prices, op)
       /\ \A n \in 1 .. i : PoolsTotal(side, s, n, prices, op) <= depth
    BY <1>1, <1>8, <1>9
<1> QED
    BY <1>10 DEF depth

\* The depth of a source is between what one pool and what all pools give.
LEMMA DepthBounds ==
    ASSUME NEW op, NEW prices, Ladder(prices, op), NEW side \in Seq(Seq(Sample)),
           NEW i \in 1 .. NumBuckets + 1, NEW s \in AllSources(side),
           \A l \in Pools(side, s) : Growing(side[l])
    PROVE  LET reach(l) == ReachableOf(side[l], prices[i], op)
               depth == SourceDepth(side, s, i, prices, op) IN
           /\ depth >= Max({reach(l) : l \in Pools(side, s)})
           /\ depth <= DepthSum([l \in Pools(side, s) |-> reach(l)])
<1> DEFINE P == Pools(side, s)  g == [l \in P |-> ReachableOf(side[l], prices[i], op)]
           depth == SourceDepth(side, s, i, prices, op)
           T == {g[l] : l \in P}
<1>1. IsFiniteSet(P) /\ \A l \in P : side[l] \in Seq(Sample)
    BY PoolsAreTyped
<1>2. P # {}
    BY DEF AllSources, Pools
<1>3. /\ depth \in Nat
      /\ \E k \in 1 .. i : depth = PoolsTotal(side, s, k, prices, op)
      /\ \A k \in 1 .. i : PoolsTotal(side, s, k, prices, op) <= depth
    BY DepthIs
<1> HIDE DEF depth
<1>4. DOMAIN g = P /\ \A l \in P : g[l] = ReachableOf(side[l], prices[i], op) /\ g[l] \in Nat
    <2>1. \A l \in P : ReachableOf(side[l], prices[i], op) \in Nat
        BY <1>1, ReachableIs
    <2> HIDE DEF P
    <2> QED
        BY <2>1
<1>5. {ReachableOf(side[l], prices[i], op) : l \in Pools(side, s)} = T
      /\ [l \in Pools(side, s) |-> ReachableOf(side[l], prices[i], op)] = g
    <2>1. {ReachableOf(side[l], prices[i], op) : l \in P} = T
        <3> HIDE DEF P
        <3> QED
            OBVIOUS
    <2> QED
        BY <2>1
<1> HIDE DEF g
<1>6. ASSUME NEW l \in P PROVE g[l] <= depth
    <2>1. side[l] \in Seq(Sample) /\ Growing(side[l])
        BY <1>1
    <2>2. PICK k \in 1 .. i :
              ReachableOf(side[l], prices[i], op) <= Allocated(side[l], k, prices, op)
        BY <2>1, ReachableIsAllocated
    <2>3. PICK f : /\ \A m \in P : /\ f[m] = Allocated(side[m], k, prices, op)
                                   /\ f[m] \in Nat
                   /\ PoolsTotal(side, s, k, prices, op) = SumFunctionOnSet(f, P)
                   /\ PoolsTotal(side, s, k, prices, op) \in Nat
        BY TotalIs
    <2> HIDE DEF P
    <2>4. SumFunctionOnSet(f, P) = f[l] + SumFunctionOnSet(f, P \ {l})
        <3>1. IsFiniteSet(P) /\ l \in P /\ \A m \in P : f[m] \in Int
            BY <1>1, <1>6, <2>3
        <3> QED
            BY <3>1, SumWithout
    <2>5. SumFunctionOnSet(f, P \ {l}) \in Nat
        <3>1. IsFiniteSet(P \ {l}) /\ \A m \in P \ {l} : f[m] \in Nat
            BY <1>1, <2>3, FS_RemoveElement
        <3>2. PICK Q : Q = P \ {l}
            OBVIOUS
        <3>3. SumFunctionOnSet(f, Q) \in Nat
            BY <3>1, <3>2, SumIsNatural
        <3> QED
            BY <3>2, <3>3
    <2>6. g[l] <= f[l] /\ g[l] \in Nat /\ f[l] \in Nat
        BY <1>4, <2>2, <2>3
    <2>7. PoolsTotal(side, s, k, prices, op) <= depth
        BY <1>3
    <2> QED
        BY <1>3, <2>3, <2>4, <2>5, <2>6, <2>7
<1>7. depth >= Max(T)
    <2>1. T # {} /\ T \subseteq Int /\ \A x \in T : x <= depth
        <3> HIDE DEF P
        <3> QED
            BY <1>2, <1>4, <1>6
    <2>2. IsFiniteSet(T)
        BY <1>1, ImageIsFinite
    <2> HIDE DEF T
    <2>3. Max(T) \in T
        BY <2>1, <2>2, MaxIsGreatest
    <2> QED
        BY <1>3, <2>1, <2>3
<1>8. depth <= DepthSum(g)
    <2>1. PICK k \in 1 .. i : depth = PoolsTotal(side, s, k, prices, op)
        BY <1>3
    <2>2. PICK f : /\ \A l \in P : /\ f[l] = Allocated(side[l], k, prices, op)
                                   /\ f[l] \in Nat
                   /\ PoolsTotal(side, s, k, prices, op) = SumFunctionOnSet(f, P)
        BY TotalIs
    <2>3. \A l \in P : Allocated(side[l], k, prices, op) <= ReachableOf(side[l], prices[i], op)
        BY <1>1, AllocatedIsReachable
    <2> HIDE DEF P
    <2>4. \A l \in P : f[l] \in Nat /\ g[l] \in Nat /\ f[l] <= g[l]
        BY <1>4, <2>2, <2>3
    <2>5. SumFunctionOnSet(f, P) <= SumFunctionOnSet(g, P)
        BY <1>1, <2>4, SumOfNoMore
    <2>6. DepthSum(g) = SumFunctionOnSet(g, P)
        BY <1>4 DEF DepthSum, SumFunction
    <2> QED
        BY <2>1, <2>2, <2>5, <2>6
<1> QED
    BY <1>5, <1>7, <1>8 DEF depth

\* The buckets of a response are those of the sides that the library has returned.
DepthInv ==
    /\ operation \in {"Sell", "Buy"}
    /\ buckets # <<>> =>
         LET side == Normalize(depthSide, operation) IN
         /\ depthSide \in Seq(Seq(Sample)) /\ Prices(side) # {}
         /\ buckets = Distribute(side, BucketPrices(StartPrice(side, operation),
                                                    EndPrice(side, operation)), operation)

LEMMA DepthInvSuffices == DepthInv => DepthIsBetween /\ DepthTypeOK
<1> SUFFICES ASSUME DepthInv PROVE DepthIsBetween /\ DepthTypeOK
    OBVIOUS
<1>1. CASE buckets = <<>>
    <2>1. DOMAIN buckets = {} /\ Len(buckets) = 0
        BY <1>1
    <2> QED
        BY <2>1 DEF DepthIsBetween, DepthTypeOK, DepthInv
<1>2. CASE buckets # <<>>
    <2> DEFINE side == Normalize(depthSide, operation)
               prices == BucketPrices(StartPrice(side, operation), EndPrice(side, operation))
    <2>1. /\ operation \in {"Sell", "Buy"} /\ depthSide \in Seq(Seq(Sample))
          /\ Prices(side) # {} /\ buckets = Distribute(side, prices, operation)
        BY <1>2 DEF DepthInv
    <2>2. side \in Seq(Seq(Sample))
        BY <2>1, NormalizedIsTyped
    <2> HIDE DEF side
    <2>3. Ladder(prices, operation)
        BY <2>1, <2>2, PricesAreALadder
    <2> HIDE DEF prices
    <2>4. DOMAIN prices = 1 .. NumBuckets + 1 /\ NumBuckets \in Nat
        BY <2>3, DepthAssumption DEF Ladder
    <2>5. DOMAIN buckets = 1 .. NumBuckets + 1
        BY <2>1, <2>4 DEF Distribute
    <2>6. \A i \in 1 .. NumBuckets + 1 :
              /\ buckets[i].price = prices[i]
              /\ DOMAIN buckets[i].sources = AllSources(side)
              /\ \A s \in AllSources(side) :
                    buckets[i].sources[s] = SourceDepth(side, s, i, prices, operation)
        BY <2>1, <2>4 DEF Distribute
    <2>7. DepthTypeOK
        <3>1. Len(buckets) = NumBuckets + 1
            <4>1. buckets = [i \in 1 .. NumBuckets + 1 |-> buckets[i]]
                BY <2>1, <2>5 DEF Distribute
            <4>0. PICK n : n = NumBuckets + 1
                OBVIOUS
            <4> DEFINE S == {buckets[i] : i \in 1 .. n}
            <4>2. n \in Nat /\ \A i \in 1 .. n : buckets[i] \in S
                BY <2>4, <4>0
            <4> HIDE DEF S
            <4>3. buckets \in [1 .. n -> S]
                BY <4>0, <4>1, <4>2
            <4>4. buckets \in Seq(S)
                BY <4>2, <4>3, FunctionIsSeq
            <4>5. DOMAIN buckets = 1 .. Len(buckets) /\ Len(buckets) \in Nat
                BY <4>4, LenProperties
            <4>6. Len(buckets) = n
                BY <2>5, <4>0, <4>2, <4>5
            <4> QED
                BY <4>0, <4>6
        <3>2. ASSUME NEW i \in DOMAIN buckets, NEW s \in DOMAIN buckets[i].sources
              PROVE  buckets[i].sources[s] \in Nat
            <4>1. i \in 1 .. NumBuckets + 1 /\ s \in AllSources(side)
                  /\ buckets[i].sources[s] = SourceDepth(side, s, i, prices, operation)
                BY <2>5, <2>6
            <4>2. SourceDepth(side, s, i, prices, operation) \in Nat
                BY <2>2, <4>1, DepthIs
            <4> QED
                BY <4>1, <4>2
        <3> QED
            BY <2>1, <3>1, <3>2 DEF DepthTypeOK
    <2>8. DepthIsBetween
        <3>1. SUFFICES
                ASSUME NEW i \in DOMAIN buckets, NEW s \in AllSources(side),
                       \A l \in Pools(side, s) : Growing(side[l])
                PROVE  /\ buckets[i].sources[s]
                            >= Max({ReachableOf(side[l], buckets[i].price, operation) :
                                        l \in Pools(side, s)})
                       /\ buckets[i].sources[s]
                            <= DepthSum([l \in Pools(side, s) |->
                                            ReachableOf(side[l], buckets[i].price, operation)])
            BY DEF DepthIsBetween, Pools, side
        <3>2. Ladder(prices, operation) /\ side \in Seq(Seq(Sample)) /\ i \in 1 .. NumBuckets + 1
            BY <2>2, <2>3, <2>5
        <3>3. /\ SourceDepth(side, s, i, prices, operation)
                    >= Max({ReachableOf(side[l], prices[i], operation) : l \in Pools(side, s)})
              /\ SourceDepth(side, s, i, prices, operation)
                    <= DepthSum([l \in Pools(side, s) |-> ReachableOf(side[l], prices[i], operation)])
            BY <3>1, <3>2, DepthBounds
        <3>4. buckets[i].price = prices[i]
              /\ buckets[i].sources[s] = SourceDepth(side, s, i, prices, operation)
            BY <2>6, <3>1, <3>2
        <3> QED
            BY <3>3, <3>4
    <2> QED
        BY <2>7, <2>8
<1> QED
    BY <1>1, <1>2

LEMMA CalculateDepthKeepsInv ==
    ASSUME DepthInv, depthSide \in DepthSides, CalculateDepth PROVE DepthInv'
<1>1. depthSide \in Seq(Seq(Sample))
    BY DepthAssumption
<1> QED
    BY <1>1 DEF DepthInv, CalculateDepth

(***************************************************************************)
(* Arrangements of finite sets.                                            *)
(***************************************************************************)

LEMMA ArrangementIs ==
    ASSUME NEW S, IsFiniteSet(S), NEW b \in SetToSeqs(S)
    PROVE  /\ b \in Seq(S) /\ DOMAIN b = 1 .. Cardinality(S) /\ Len(b) = Cardinality(S)
           /\ Cardinality(S) \in Nat
           /\ \A i \in DOMAIN b : b[i] \in S
           /\ \A i, j \in DOMAIN b : b[i] = b[j] => i = j
           /\ \A x \in S : \E i \in DOMAIN b : b[i] = x
           /\ ToSet(b) = S /\ IsInjective(b)
<1> DEFINE n == Cardinality(S)
<1>1. n \in Nat /\ b \in [1 .. n -> S] /\ \A i, j \in 1 .. n : i # j => b[i] # b[j]
    BY FS_CardinalityType DEF SetToSeqs
<1>2. DOMAIN b = 1 .. n /\ \A i \in 1 .. n : b[i] \in S
    BY <1>1
<1>3. b \in Seq(S) /\ Len(b) = n
    <2> HIDE DEF n
    <2>1. b \in Seq(S)
        BY <1>1, FunctionIsSeq
    <2>2. DOMAIN b = 1 .. Len(b) /\ Len(b) \in Nat
        BY <2>1, LenProperties
    <2> QED
        BY <1>1, <1>2, <2>1, <2>2
<1>4. \A x \in S : \E i \in 1 .. n : b[i] = x
    <2>1. IsFiniteSet(1 .. n) /\ Cardinality(1 .. n) = n
        BY <1>1, FS_Interval
    <2>2. b \in Injection(1 .. n, S)
        BY <1>1 DEF Injection, IsInjective
    <2>3. b \in Surjection(1 .. n, S)
        BY <2>1, <2>2, FS_Injection
    <2> QED
        BY <2>3 DEF Surjection
<1> HIDE DEF n
<1>5. \A i, j \in DOMAIN b : b[i] = b[j] => i = j
    BY <1>1, <1>2
<1>6. ToSet(b) = S
    BY <1>2, <1>4 DEF ToSet
<1>7. IsInjective(b)
    BY <1>5 DEF IsInjective
<1> QED
    BY <1>1, <1>2, <1>3, <1>4, <1>5, <1>6, <1>7 DEF n

\* The first n entries of a list.
First(b, n) == SubSeq(b, 1, IF n < Len(b) THEN n ELSE Len(b))

LEMMA FirstOfAll ==
    ASSUME NEW S, NEW b \in Seq(S), NEW n \in Nat, Len(b) <= n PROVE First(b, n) = b
<1>1. Len(b) \in Nat
    BY LenProperties
<1>2. First(b, n) = SubSeq(b, 1, Len(b))
    BY <1>1 DEF First
<1> QED
    BY <1>2, SubSeqFull

\* Page q of n entries follows page p; it begins after and ends with these entries.
Follows(p, q, n, from, end) == q = p + 1 /\ from = p * n /\ end = q * n

LEMMA PageIs ==
    ASSUME NEW S, NEW b \in Seq(S), NEW p \in Nat, NEW n \in Nat \ {0}, NEW q, NEW from, NEW end,
           Follows(p, q, n, from, end)
    PROVE  /\ Paginate(b, q, n) \in Seq(S) /\ Len(Paginate(b, q, n)) <= n
           /\ Len(Paginate(b, q, n)) \in Nat
           /\ First(b, from) \o Paginate(b, q, n) = First(b, end)
           /\ p = 0 => Paginate(b, q, n) = First(b, n)
<1>1. Len(b) \in Nat /\ \A i \in 1 .. Len(b) : b[i] \in S
    BY LenProperties
<1>0. q = p + 1 /\ from = p * n /\ end = q * n
    BY DEF Follows
<1>2. from \in Nat
    BY <1>0, ProductIsNat
<1>3. end = from + n /\ (q - 1) * n = from /\ q * n = from + n
    BY <1>0, <1>2
<1>4. PICK to : to = IF from + n < Len(b) THEN from + n ELSE Len(b)
    OBVIOUS
<1>5. to \in Nat /\ to <= Len(b) /\ to <= from + n
    BY <1>1, <1>2, <1>4
<1>6. Paginate(b, q, n) = SubSeq(b, from + 1, to)
    BY <1>3, <1>4 DEF Paginate
<1>7. First(b, end) = SubSeq(b, 1, to)
    BY <1>3, <1>4 DEF First
<1>8. PICK m \in Int : m = from + 1
    BY <1>2
<1>9. /\ SubSeq(b, m, to) \in Seq(S)
      /\ Len(SubSeq(b, m, to)) = IF m <= to THEN to - m + 1 ELSE 0
    <2>1. \A i \in m .. to : b[i] \in S
        BY <1>1, <1>2, <1>5, <1>8
    <2> QED
        BY <1>5, <2>1, SubSeqProperties
<1>10. Len(SubSeq(b, m, to)) \in Nat /\ Len(SubSeq(b, m, to)) <= n
    BY <1>2, <1>5, <1>8, <1>9
<1>11. First(b, from) \o SubSeq(b, m, to) = SubSeq(b, 1, to)
    <2>1. CASE from < Len(b)
        <3>1. First(b, from) = SubSeq(b, 1, from)
            BY <2>1 DEF First
        <3>2. 1 \in 1 .. Len(b) + 1 /\ from \in 1 - 1 .. Len(b) /\ to \in from .. Len(b)
            BY <1>1, <1>2, <1>4, <1>5, <2>1
        <3>3. SubSeq(b, 1, from) \o SubSeq(b, from + 1, to) = SubSeq(b, 1, to)
            BY <3>2, ConcatAdjacentSubSeq
        <3> QED
            BY <1>8, <3>1, <3>3
    <2>2. CASE ~(from < Len(b))
        <3>1. to = Len(b) /\ to < m
            BY <1>1, <1>2, <1>4, <1>8, <2>2
        <3>2. SubSeq(b, m, to) = <<>>
            BY <1>5, <3>1, SubSeqEmpty
        <3>3. First(b, from) = b
            BY <1>1, <1>2, <2>2, FirstOfAll
        <3>4. SubSeq(b, 1, to) = b
            BY <3>1, SubSeqFull
        <3> QED
            BY <3>2, <3>3, <3>4, ConcatEmptySeq
    <2> QED
        BY <2>1, <2>2
<1>12. p = 0 => SubSeq(b, m, to) = First(b, n)
    <2>1. SUFFICES ASSUME p = 0 PROVE SubSeq(b, m, to) = First(b, n)
        OBVIOUS
    <2>2. from = 0 /\ m = 1
        BY <1>0, <1>8, <2>1
    <2>3. from + n = n
        BY <2>2
    <2> QED
        BY <1>4, <2>2, <2>3 DEF First
<1> QED
    BY <1>2, <1>3, <1>6, <1>7, <1>8, <1>9, <1>10, <1>11, <1>12

(***************************************************************************)
(* Sorting.                                                                *)
(***************************************************************************)

LEMMA OrdersAreTyped ==
    ASSUME NEW o \in Order
    PROVE  /\ MakerAmount(o) \in Nat \ {0} /\ TakerAmount(o) \in Nat \ {0} /\ TakerFee(o) \in Nat
           /\ Terms[o].expiration \in Nat
           /\ Terms[o].makerAsset \in Asset /\ Terms[o].takerAsset \in Asset
<1>1. Terms[o] \in [makerAsset : Asset, takerAsset : Asset, makerAmount : Nat \ {0},
                    takerAmount : Nat \ {0}, takerFee : Nat, expiration : Nat, maker : Trader]
    BY OrderbookAssumption
<1> QED
    BY <1>1 DEF MakerAmount, TakerAmount, TakerFee

LEMMA ComparedBids ==
    ASSUME NEW a \in Order, NEW b \in Order, CompareBid(a, b) PROVE NotAfter("bids", a, b)
<1>1. PICK v, w, x, y : /\ v = MakerAmount(a) * TakerAmount(b) /\ w = MakerAmount(b) * TakerAmount(a)
                        /\ x = TakerFee(a) * TakerAmount(b) /\ y = TakerFee(b) * TakerAmount(a)
    OBVIOUS
<1>2. v \in Nat /\ w \in Nat /\ x \in Nat /\ y \in Nat
    BY <1>1, OrdersAreTyped, ProductIsNat
<1>3. v > w \/ (v = w /\ (x > y \/ (x = y /\ Terms[a].expiration <= Terms[b].expiration)))
    BY <1>1 DEF CompareBid, ByFeeRatio, Exceeds, Equals, BidPrice, FeeRatio
<1>4. NotAfter("bids", a, b) <=>
          /\ ~(w > v) /\ (v > w \/ ~(y > x))
          /\ v > w \/ x > y \/ Terms[a].expiration <= Terms[b].expiration
    BY <1>1 DEF NotAfter, BetterPrice, HigherFee
<1> QED
    BY <1>2, <1>3, <1>4

LEMMA ComparedAsks ==
    ASSUME NEW a \in Order, NEW b \in Order, CompareAsk(a, b) PROVE NotAfter("asks", a, b)
<1>1. PICK v, w, x, y : /\ v = TakerAmount(a) * MakerAmount(b) /\ w = TakerAmount(b) * MakerAmount(a)
                        /\ x = TakerFee(a) * TakerAmount(b) /\ y = TakerFee(b) * TakerAmount(a)
    OBVIOUS
<1>2. v \in Nat /\ w \in Nat /\ x \in Nat /\ y \in Nat
    BY <1>1, OrdersAreTyped, ProductIsNat
<1>3. w > v \/ (v = w /\ (x > y \/ (x = y /\ Terms[a].expiration <= Terms[b].expiration)))
    BY <1>1 DEF CompareAsk, ByFeeRatio, Exceeds, Equals, AskPrice, FeeRatio
<1>4. NotAfter("asks", a, b) <=>
          /\ ~(w < v) /\ (v < w \/ ~(y > x))
          /\ v < w \/ x > y \/ Terms[a].expiration <= Terms[b].expiration
    BY <1>1 DEF NotAfter, BetterPrice, HigherFee
<1> QED
    BY <1>2, <1>3, <1>4

\* The orders of a book that live, and those that live for longer than an index.
Live(l) == {o \in BookOf(l) : Terms[o].expiration > clock}
LongLived(l) == {o \in BookOf(l) : OutlivesIndices(o)}
InOrder(l, b) == \A i, j \in DOMAIN b : i < j => NotAfter(l, b[i], b[j])

LEMMA BooksAreFinite ==
    ASSUME table \subseteq Order, NEW l
    PROVE  /\ IsFiniteSet(table) /\ Cardinality(table) \in Nat
           /\ BookOf(l) \subseteq Order /\ IsFiniteSet(BookOf(l))
           /\ Cardinality(BookOf(l)) \in Nat /\ Cardinality(BookOf(l)) <= Cardinality(table)
<1>1. IsFiniteSet(table) /\ BookOf(l) \subseteq table
    BY OrderbookAssumption, FS_Subset DEF BookOf
<1> QED
    BY <1>1, FS_Subset, FS_CardinalityType

\* The rows that are kept.
LEMMA FreshRows ==
    ASSUME table \subseteq Order, clock \in Nat, NEW l, NEW rows \in SetToSeqs(BookOf(l))
    PROVE  /\ FreshByIndex(rows) \subseteq Live(l) /\ LongLived(l) \subseteq FreshByIndex(rows)
           /\ IsSettled(l) => FreshByIndex(rows) = Live(l)
<1> DEFINE B == BookOf(l)  n == Cardinality(table)
<1>1. /\ IsFiniteSet(B) /\ B \subseteq Order /\ n \in Nat
      /\ Cardinality(B) \in Nat /\ Cardinality(B) <= n
    BY BooksAreFinite
<1>2. /\ DOMAIN rows = 1 .. Cardinality(B) /\ (\A i \in DOMAIN rows : rows[i] \in B)
      /\ \A x \in B : \E i \in DOMAIN rows : rows[i] = x
    BY <1>1, ArrangementIs
<1>3. /\ Live(l) = {o \in B : Terms[o].expiration > clock}
      /\ LongLived(l) = {o \in B : Terms[o].expiration > clock + n}
      /\ IsSettled(l) => \A o \in B : Terms[o].expiration > clock =>
                                         Terms[o].expiration > clock + n
    BY DEF Live, LongLived, IsSettled, OutlivesIndices
<1> HIDE DEF B, n
<1>4. \A o \in B : Terms[o].expiration \in Nat
    BY <1>1, OrdersAreTyped
<1>8. IsSettled(l) => Live(l) \subseteq LongLived(l)
    BY <1>3, <1>4
<1>5. FreshByIndex(rows) =
          {rows[i] : i \in {k \in DOMAIN rows : Terms[rows[k]].expiration > clock + (k - 1)}}
    BY DEF FreshByIndex, IsFreshOrder
<1>6. ASSUME NEW o \in FreshByIndex(rows) PROVE o \in Live(l)
    <2>1. PICK k \in DOMAIN rows : o = rows[k] /\ Terms[rows[k]].expiration > clock + (k - 1)
        BY <1>5
    <2>2. o \in B /\ k \in Nat /\ k >= 1 /\ Terms[o].expiration \in Nat
        BY <1>1, <1>2, <1>4, <2>1
    <2> QED
        BY <1>3, <2>1, <2>2
<1>7. ASSUME NEW o \in LongLived(l) PROVE o \in FreshByIndex(rows)
    <2>1. o \in B /\ Terms[o].expiration > clock + n /\ Terms[o].expiration \in Nat
        BY <1>3, <1>4
    <2>2. PICK k \in DOMAIN rows : rows[k] = o
        BY <1>2, <2>1
    <2>3. k \in Nat /\ k <= n
        BY <1>1, <1>2
    <2>4. Terms[rows[k]].expiration > clock + (k - 1)
        BY <1>1, <2>1, <2>2, <2>3
    <2> QED
        BY <1>5, <2>2, <2>4
<1> QED
    BY <1>6, <1>7, <1>8

(***************************************************************************)
(* The lists of an endpoint before they are cut into pages.  Whichever rows *)
(* the query finds first, a book has all orders that outlive the indices   *)
(* and none that is dead; if the book is settled, it is the only one.      *)
(***************************************************************************)

\* b is the whole book; b is a book without some of the orders that expire soon.
IsBook(l, b) == b \in SetToSeqs(Live(l)) /\ InOrder(l, b)
IsBetween(l, b) == \E S \in SUBSET Live(l) :
    LongLived(l) \subseteq S /\ b \in SetToSeqs(S) /\ InOrder(l, b)

LEMMA BidsAreSorted ==
    ASSUME table \subseteq Order, NEW S \in SUBSET BookOf("bids"), NEW rows,
           NEW b \in Sorted(S, rows, "bids")
    PROVE  b \in SetToSeqs(S) /\ InOrder("bids", b)
<1>1. b \in SetToSeqs(S) /\ \A i, j \in DOMAIN b : i < j => CompareBid(b[i], b[j])
    BY DEF Sorted, Compare
<1>2. IsFiniteSet(S) /\ S \subseteq Order
    BY BooksAreFinite, FS_Subset
<1>3. \A i \in DOMAIN b : b[i] \in Order
    BY <1>1, <1>2, ArrangementIs
<1> QED
    BY <1>1, <1>3, ComparedBids DEF InOrder

LEMMA AsksAreSorted ==
    ASSUME table \subseteq Order, NEW S \in SUBSET BookOf("asks"), NEW rows,
           NEW b \in Sorted(S, rows, "asks")
    PROVE  b \in SetToSeqs(S) /\ InOrder("asks", b)
<1>1. b \in SetToSeqs(S) /\ \A i, j \in DOMAIN b : i < j => CompareAsk(b[i], b[j])
    BY DEF Sorted, Compare
<1>2. IsFiniteSet(S) /\ S \subseteq Order
    BY BooksAreFinite, FS_Subset
<1>3. \A i \in DOMAIN b : b[i] \in Order
    BY <1>1, <1>2, ArrangementIs
<1> QED
    BY <1>1, <1>3, ComparedAsks DEF InOrder

\* A settled book has one order.
LEMMA BookIsUnique ==
    ASSUME table \subseteq Order, NEW l, IsSettled(l), NEW b, IsBook(l, b), NEW c, IsBook(l, c)
    PROVE  b = c
<1> DEFINE S == Live(l)  n == Cardinality(S)
<1>1. S \subseteq BookOf(l) /\ IsFiniteSet(S)
    BY BooksAreFinite, FS_Subset DEF Live
<1>2. b \in SetToSeqs(S) /\ c \in SetToSeqs(S)
    BY DEF IsBook
<1>3. /\ \A i, j \in DOMAIN b : i < j => NotAfter(l, b[i], b[j])
      /\ \A i, j \in DOMAIN c : i < j => NotAfter(l, c[i], c[j])
    BY DEF IsBook, InOrder
<1>4. \A x, y \in S : NotAfter(l, x, y) /\ NotAfter(l, y, x) => x = y
    BY <1>1 DEF IsSettled
<1> HIDE DEF S
<1>5. /\ b \in Seq(S) /\ DOMAIN b = 1 .. n /\ Len(b) = n /\ n \in Nat
      /\ \A i \in 1 .. n : b[i] \in S
      /\ \A i, j \in 1 .. n : b[i] = b[j] => i = j
      /\ \A x \in S : \E i \in 1 .. n : b[i] = x
    <2>1. /\ b \in Seq(S) /\ DOMAIN b = 1 .. n /\ Len(b) = n /\ n \in Nat
          /\ \A i \in DOMAIN b : b[i] \in S
          /\ \A i, j \in DOMAIN b : b[i] = b[j] => i = j
          /\ \A x \in S : \E i \in DOMAIN b : b[i] = x
        BY <1>1, <1>2, ArrangementIs
    <2> HIDE DEF n
    <2> QED
        BY <2>1
<1>6. /\ c \in Seq(S) /\ DOMAIN c = 1 .. n /\ Len(c) = n
      /\ \A i \in 1 .. n : c[i] \in S
      /\ \A i, j \in 1 .. n : c[i] = c[j] => i = j
      /\ \A x \in S : \E i \in 1 .. n : c[i] = x
    <2>1. /\ c \in Seq(S) /\ DOMAIN c = 1 .. n /\ Len(c) = n /\ n \in Nat
          /\ \A i \in DOMAIN c : c[i] \in S
          /\ \A i, j \in DOMAIN c : c[i] = c[j] => i = j
          /\ \A x \in S : \E i \in DOMAIN c : c[i] = x
        BY <1>1, <1>2, ArrangementIs
    <2> HIDE DEF n
    <2> QED
        BY <2>1
<1> HIDE DEF n
<1>7. \A i \in 1 .. n : b[i] = c[i]
    <2> DEFINE D == {i \in 1 .. n : b[i] # c[i]}
    <2>1. SUFFICES ASSUME D # {} PROVE FALSE
        OBVIOUS
    <2>2. IsFiniteSet(D) /\ D \subseteq Int
        BY <1>5, FS_Interval, FS_Subset
    <2>3. PICK i \in D : \A j \in D : i <= j
        <3> HIDE DEF D
        <3> QED
            BY <2>1, <2>2, MinIsLeast
    <2>4. i \in 1 .. n /\ b[i] # c[i] /\ \A j \in 1 .. n : j < i => b[j] = c[j]
        BY <1>5, <2>3
    <2> HIDE DEF D
    <2>5. PICK j \in 1 .. n : c[j] = b[i]
        BY <1>5, <1>6, <2>4
    <2>6. PICK k \in 1 .. n : b[k] = c[i]
        BY <1>5, <1>6, <2>4
    <2>7. i < j
        <3>1. j # i /\ ~(j < i)
            BY <1>5, <2>4, <2>5
        <3> QED
            BY <1>5, <2>4, <3>1
    <2>8. i < k
        <3>1. k # i /\ ~(k < i)
            BY <1>6, <2>4, <2>6
        <3> QED
            BY <1>5, <2>4, <3>1
    <2>9. NotAfter(l, b[i], b[k]) /\ NotAfter(l, c[i], c[j])
        BY <1>3, <1>5, <1>6, <2>4, <2>7, <2>8
    <2>10. NotAfter(l, b[i], c[i]) /\ NotAfter(l, c[i], b[i]) /\ b[i] \in S /\ c[i] \in S
        BY <1>5, <1>6, <2>4, <2>5, <2>6, <2>9
    <2> QED
        BY <1>4, <2>4, <2>10
<1> QED
    BY <1>5, <1>6, <1>7, SeqEqual

\* What an endpoint without a book lists.
Answer == IF listing.endpoint = "orders"
          THEN {o \in table : Passes(o, listing.filter) /\ Terms[o].expiration > clock + SraBuffer}
          ELSE {p \in {PairOf(o) : o \in table} : PairPasses(p, listing.filter)}

\* All that may be listed.
Listed == Order \cup (Asset \X Asset)

LEMMA AnswerIsFinite ==
    ASSUME table \subseteq Order PROVE IsFiniteSet(Answer) /\ Answer \subseteq Listed
<1>1. IsFiniteSet(table)
    BY BooksAreFinite
<1>2. CASE listing.endpoint = "orders"
    <2>1. Answer \subseteq table
        BY <1>2 DEF Answer
    <2> QED
        BY <1>1, <2>1, FS_Subset DEF Listed
<1>3. CASE listing.endpoint # "orders"
    <2> DEFINE f == [o \in table |-> PairOf(o)]  P == {f[o] : o \in table}
    <2>1. IsFiniteSet(P)
        <3> HIDE DEF f
        <3> QED
            BY <1>1, ImageIsFinite
    <2>2. Answer \subseteq P
        BY <1>3 DEF Answer
    <2>3. \A o \in table : f[o] \in Listed
        BY OrdersAreTyped DEF PairOf, Listed
    <2>4. P \subseteq Listed
        <3> HIDE DEF f
        <3> QED
            BY <2>3
    <2> HIDE DEF P
    <2> QED
        BY <2>1, <2>2, <2>4, FS_Subset
<1> QED
    BY <1>2, <1>3

LEMMA OrderCollections ==
    ASSUME listing.endpoint = "orders"
    PROVE  Collections = {[bids |-> <<>>, asks |-> <<>>, records |-> s] :
               s \in SetToSeqs({o \in table : Passes(o, listing.filter)
                                              /\ IsFreshOrder(o, SraBuffer)})}
BY DEF Collections

LEMMA PairCollections ==
    ASSUME listing.endpoint = "asset_pairs"
    PROVE  Collections = {[bids |-> <<>>, asks |-> <<>>, records |-> s] :
               s \in SetToSeqs({p \in {PairOf(o) : o \in table} : PairPasses(p, listing.filter)})}
BY DEF Collections

\* What an endpoint lists.
LEMMA CollectionsAre ==
    ASSUME table \subseteq Order, clock \in Nat, listing.endpoint \in Endpoint,
           NEW c \in Collections
    PROVE  /\ \A l \in Lists : c[l] \in Seq(Listed)
           /\ listing.endpoint = "orderbook" => \A l \in {"bids", "asks"} :
                IsBetween(l, c[l]) /\ (IsSettled(l) => IsBook(l, c[l]))
           /\ listing.endpoint # "orderbook" => c["records"] \in SetToSeqs(Answer)
<1>1. <<>> \in Seq(Listed)
    BY EmptySeq
<1>2. CASE listing.endpoint = "orderbook"
    <2>1. /\ BookOf("bids") = {o \in table : IsBid(o)}
          /\ BookOf("asks") = {o \in table : IsAsk(o)}
        BY DEF BookOf
    <2>2. PICK b \in UNION {Sorted(FreshByIndex(rows), rows, "bids") :
                               rows \in SetToSeqs(BookOf("bids"))},
               a \in UNION {Sorted(FreshByIndex(rows), rows, "asks") :
                               rows \in SetToSeqs(BookOf("asks"))} :
              c = [bids |-> b, asks |-> a, records |-> <<>>]
        BY <1>2, <2>1 DEF Collections
    <2>3. PICK rb \in SetToSeqs(BookOf("bids")) : b \in Sorted(FreshByIndex(rb), rb, "bids")
        OBVIOUS
    <2>4. PICK ra \in SetToSeqs(BookOf("asks")) : a \in Sorted(FreshByIndex(ra), ra, "asks")
        OBVIOUS
    <2>5. /\ FreshByIndex(rb) \subseteq Live("bids") /\ LongLived("bids") \subseteq FreshByIndex(rb)
          /\ IsSettled("bids") => FreshByIndex(rb) = Live("bids")
        BY FreshRows
    <2>6. /\ FreshByIndex(ra) \subseteq Live("asks") /\ LongLived("asks") \subseteq FreshByIndex(ra)
          /\ IsSettled("asks") => FreshByIndex(ra) = Live("asks")
        BY FreshRows
    <2>7. Live("bids") \subseteq BookOf("bids") /\ Live("asks") \subseteq BookOf("asks")
        BY DEF Live
    <2>8. b \in SetToSeqs(FreshByIndex(rb)) /\ InOrder("bids", b)
        BY <2>3, <2>5, <2>7, BidsAreSorted
    <2>9. a \in SetToSeqs(FreshByIndex(ra)) /\ InOrder("asks", a)
        BY <2>4, <2>6, <2>7, AsksAreSorted
    <2>10. c["bids"] = b /\ c["asks"] = a /\ c["records"] = <<>>
        BY <2>2
    <2>11. IsBetween("bids", b) /\ (IsSettled("bids") => IsBook("bids", b))
        BY <2>5, <2>8 DEF IsBetween, IsBook
    <2>12. IsBetween("asks", a) /\ (IsSettled("asks") => IsBook("asks", a))
        BY <2>6, <2>9 DEF IsBetween, IsBook
    <2>13. b \in Seq(Listed)
        <3>1. PICK S : S = FreshByIndex(rb)
            OBVIOUS
        <3>2. IsFiniteSet(S) /\ S \subseteq Listed
            BY <2>5, <2>7, <3>1, BooksAreFinite, FS_Subset DEF Listed
        <3>3. b \in Seq(S)
            BY <2>8, <3>1, <3>2, ArrangementIs
        <3> QED
            BY <3>2, <3>3, SeqMonotonic
    <2>14. a \in Seq(Listed)
        <3>1. PICK S : S = FreshByIndex(ra)
            OBVIOUS
        <3>2. IsFiniteSet(S) /\ S \subseteq Listed
            BY <2>6, <2>7, <3>1, BooksAreFinite, FS_Subset DEF Listed
        <3>3. a \in Seq(S)
            BY <2>9, <3>1, <3>2, ArrangementIs
        <3> QED
            BY <3>2, <3>3, SeqMonotonic
    <2> QED
        BY <1>1, <1>2, <2>10, <2>11, <2>12, <2>13, <2>14 DEF Lists
<1>3. CASE listing.endpoint # "orderbook"
    <2>1. PICK s \in SetToSeqs(Answer) : c = [bids |-> <<>>, asks |-> <<>>, records |-> s]
        <3>1. CASE listing.endpoint = "orders"
            <4>1. Answer = {o \in table : Passes(o, listing.filter) /\ IsFreshOrder(o, SraBuffer)}
                BY <3>1 DEF Answer, IsFreshOrder
            <4>2. Collections = {[bids |-> <<>>, asks |-> <<>>, records |-> s] :
                                    s \in SetToSeqs(Answer)}
                BY <3>1, <4>1, OrderCollections, Zenon
            <4>3. c \in {[bids |-> <<>>, asks |-> <<>>, records |-> s] : s \in SetToSeqs(Answer)}
                BY <4>2
            <4> QED
                BY <4>3
        <3>2. CASE listing.endpoint = "asset_pairs"
            <4>1. Answer = {p \in {PairOf(o) : o \in table} : PairPasses(p, listing.filter)}
                BY <3>2 DEF Answer
            <4>2. Collections = {[bids |-> <<>>, asks |-> <<>>, records |-> s] :
                                    s \in SetToSeqs(Answer)}
                BY <3>2, <4>1, PairCollections, Zenon
            <4>3. c \in {[bids |-> <<>>, asks |-> <<>>, records |-> s] : s \in SetToSeqs(Answer)}
                BY <4>2
            <4> QED
                BY <4>3
        <3> QED
            BY <1>3, <3>1, <3>2 DEF Endpoint
    <2>2. c["bids"] = <<>> /\ c["asks"] = <<>> /\ c["records"] = s
        BY <2>1
    <2>3. s \in Seq(Listed)
        <3>1. PICK S : S = Answer
            OBVIOUS
        <3>2. IsFiniteSet(S) /\ S \subseteq Listed
            BY <3>1, AnswerIsFinite
        <3>3. s \in Seq(S)
            BY <3>1, <3>2, ArrangementIs
        <3> QED
            BY <3>2, <3>3, SeqMonotonic
    <2> QED
        BY <1>1, <1>3, <2>2, <2>3 DEF Lists
<1> QED
    BY <1>2, <1>3

(***************************************************************************)
(* What a client reads.  As long as nothing has changed, the pages it has  *)
(* got are the first ones of the one settled book, of which each request   *)
(* sees another sorting; after one page they are of some sorting of the    *)
(* rows, whatever their order.                                             *)
(***************************************************************************)

\* What a client has of list l: all of b that is on the pages it has seen.
Shows(l, b) == /\ listing.total[l] = Len(b)
               /\ listing.got[l] = First(b, listing.page * listing.perPage)

\* The types, and how much a client has got at most.
BookTypes ==
    /\ table \subseteq Order /\ clock \in 0 .. MaxClock /\ writes \in 0 .. MaxWrites
    /\ listing \in [endpoint : Endpoint, filter : {listing.filter}, perPage : PerPage,
                    page : Nat, got : [Lists -> Seq(Listed)], total : [Lists -> Nat],
                    steady : BOOLEAN, rejected : BOOLEAN]
    /\ \A l \in Lists : Len(listing.got[l]) <= listing.page * listing.perPage
    /\ listing.rejected => listing.page = 0
    /\ listing.page > 0 => listing.perPage <= MaxPerPage

\* The lists of a book that a client has begun to read.
BookRead ==
    listing.endpoint = "orderbook" /\ listing.steady /\ listing.page > 0 =>
        \A l \in {"bids", "asks"} :
            /\ IsSettled(l) => \E b : IsBook(l, b) /\ Shows(l, b)
            /\ listing.page = 1 => \E b : IsBetween(l, b) /\ Shows(l, b)

\* The first page of any other list.
RecordsRead ==
    listing.endpoint # "orderbook" /\ listing.steady /\ listing.page = 1 =>
        \E b \in SetToSeqs(Answer) : Shows("records", b)

BookInv == BookTypes /\ BookRead /\ RecordsRead

\* A complete list is all of it.
LEMMA ShownInFull ==
    ASSUME BookTypes, Complete, NEW l \in Lists, NEW S, IsFiniteSet(S),
           NEW b \in SetToSeqs(S), Shows(l, b)
    PROVE  listing.got[l] = b /\ ToSet(b) = S /\ IsInjective(b)
<1>1. b \in Seq(S) /\ ToSet(b) = S /\ IsInjective(b)
    BY ArrangementIs
<1>2. listing.perPage \in Nat /\ listing.page \in Nat
    BY OrderbookAssumption DEF BookTypes
<1>3. PICK n \in Nat : n = listing.page * listing.perPage
    BY <1>2, ProductIsNat
<1>4. Len(b) <= n /\ listing.got[l] = First(b, n)
    BY <1>3 DEF Shows, Complete
<1> QED
    BY <1>1, <1>4, FirstOfAll

LEMMA BookInvSuffices ==
    ASSUME BookInv PROVE ListingIsExact /\ OrderbookTypeOK
<1> USE DEF BookInv
<1>1. OrderbookTypeOK
    BY DEF BookTypes, OrderbookTypeOK
<1>2. table \subseteq Order
    BY DEF BookTypes
<1>3. "bids" \in Lists /\ "asks" \in Lists /\ "records" \in Lists
    BY DEF Lists
<1>4. PagesPartitionTheBook
    <2>1. SUFFICES ASSUME listing.endpoint = "orderbook", listing.steady, Complete,
                          NEW l \in {"bids", "asks"}, IsSettled(l)
                   PROVE  /\ ToSet(listing.got[l]) = Live(l)
                          /\ IsInjective(listing.got[l])
                          /\ InOrder(l, listing.got[l])
        BY DEF PagesPartitionTheBook, Live, InOrder
    <2>2. PICK b : IsBook(l, b) /\ Shows(l, b)
        BY <2>1 DEF BookRead, Complete
    <2>3. IsFiniteSet(Live(l))
        BY <1>2, BooksAreFinite, FS_Subset DEF Live
    <2>4. listing.got[l] = b /\ ToSet(b) = Live(l) /\ IsInjective(b)
        BY <1>3, <2>1, <2>2, <2>3, ShownInFull DEF IsBook
    <2> QED
        BY <2>2, <2>4 DEF IsBook
<1>5. OnePageIsBetween
    <2>1. SUFFICES ASSUME listing.endpoint = "orderbook", listing.steady, listing.page = 1,
                          Complete, NEW l \in {"bids", "asks"}
                   PROVE  /\ ToSet(listing.got[l]) \subseteq Live(l)
                          /\ LongLived(l) \subseteq ToSet(listing.got[l])
                          /\ IsInjective(listing.got[l])
                          /\ InOrder(l, listing.got[l])
        BY DEF OnePageIsBetween, Live, LongLived, InOrder
    <2>2. PICK b : IsBetween(l, b) /\ Shows(l, b)
        BY <2>1 DEF BookRead
    <2>3. PICK S \in SUBSET Live(l) :
              LongLived(l) \subseteq S /\ b \in SetToSeqs(S) /\ InOrder(l, b)
        BY <2>2 DEF IsBetween
    <2>4. IsFiniteSet(S)
        <3>1. IsFiniteSet(Live(l))
            BY <1>2, BooksAreFinite, FS_Subset DEF Live
        <3> QED
            BY <3>1, FS_Subset
    <2>5. listing.got[l] = b /\ ToSet(b) = S /\ IsInjective(b)
        BY <1>3, <2>1, <2>2, <2>3, <2>4, ShownInFull
    <2> QED
        BY <2>3, <2>5
<1>6. OrdersAnswerIsExact
    <2>1. SUFFICES ASSUME listing.endpoint # "orderbook", listing.steady, listing.page = 1,
                          Complete
                   PROVE  IsInjective(listing.got["records"]) /\ ToSet(listing.got["records"]) = Answer
        BY DEF OrdersAnswerIsExact, Answer, OutlivesBuffer
    <2>2. PICK b \in SetToSeqs(Answer) : Shows("records", b)
        BY <2>1 DEF RecordsRead
    <2>3. listing.got["records"] = b /\ ToSet(b) = Answer /\ IsInjective(b)
        BY <1>2, <1>3, <2>1, <2>2, AnswerIsFinite, ShownInFull
    <2> QED
        BY <2>3
<1> QED
    BY <1>1, <1>4, <1>5, <1>6 DEF ListingIsExact

LEMMA InitBookInv ==
    ASSUME NEW tables \in SUBSET (SUBSET Order), NEW endpoints \in SUBSET Endpoint, NEW filters,
           NEW sizes \in SUBSET PerPage, OrderbookInit(tables, endpoints, filters, sizes)
    PROVE  BookInv
<1>1. /\ table \in tables /\ clock = 0 /\ writes = 0
      /\ listing \in [endpoint : endpoints, filter : filters, perPage : sizes,
                      page : {0}, got : {[l \in Lists |-> <<>>]},
                      total : {[l \in Lists |-> 0]}, steady : {TRUE}, rejected : {FALSE}]
    BY DEF OrderbookInit
<1>2. /\ listing = [endpoint |-> listing.endpoint, filter |-> listing.filter,
                    perPage |-> listing.perPage, page |-> listing.page, got |-> listing.got,
                    total |-> listing.total, steady |-> listing.steady,
                    rejected |-> listing.rejected]
      /\ listing.endpoint \in Endpoint /\ listing.perPage \in PerPage
      /\ listing.page = 0 /\ listing.got = [l \in Lists |-> <<>>]
      /\ listing.total = [l \in Lists |-> 0] /\ listing.steady = TRUE
      /\ listing.rejected = FALSE
    BY <1>1
<1>3. listing.got \in [Lists -> Seq(Listed)] /\ listing.total \in [Lists -> Nat]
    <2>1. <<>> \in Seq(Listed)
        BY EmptySeq
    <2> QED
        BY <1>2, <2>1
<1>4. \A l \in Lists : Len(listing.got[l]) <= listing.page * listing.perPage
    <2>1. listing.perPage \in Nat
        BY <1>2, OrderbookAssumption
    <2>2. listing.page * listing.perPage = 0
        BY <1>2, <2>1
    <2>3. \A l \in Lists : Len(listing.got[l]) = 0
        BY <1>2, EmptySeq
    <2> QED
        BY <2>2, <2>3
<1>5. listing \in [endpoint : Endpoint, filter : {listing.filter}, perPage : PerPage,
                   page : Nat, got : [Lists -> Seq(Listed)], total : [Lists -> Nat],
                   steady : BOOLEAN, rejected : BOOLEAN]
    <2>1. PICK G : G = [Lists -> Seq(Listed)]
        OBVIOUS
    <2>2. PICK T : T = [Lists -> Nat]
        OBVIOUS
    <2>3. PICK e, f, n, g, t :
              /\ e \in Endpoint /\ n \in PerPage /\ g \in G /\ t \in T /\ f = listing.filter
              /\ listing = [endpoint |-> e, filter |-> f, perPage |-> n, page |-> 0, got |-> g,
                            total |-> t, steady |-> TRUE, rejected |-> FALSE]
        BY <1>2, <1>3, <2>1, <2>2
    <2>4. listing \in [endpoint : Endpoint, filter : {f}, perPage : PerPage, page : Nat,
                       got : G, total : T, steady : BOOLEAN, rejected : BOOLEAN]
        BY <2>3
    <2> QED
        BY <2>1, <2>2, <2>3, <2>4
<1>6. 0 \in 0 .. MaxClock /\ 0 \in 0 .. MaxWrites /\ table \subseteq Order
    BY <1>1, OrderbookAssumption
<1>7. BookTypes
    BY <1>1, <1>2, <1>4, <1>5, <1>6 DEF BookTypes
<1>8. BookRead /\ RecordsRead
    BY <1>2 DEF BookRead, RecordsRead
<1> QED
    BY <1>7, <1>8 DEF BookInv

\* A write or a tick makes the listing unsteady.
LEMMA UnsteadyKeepsInv ==
    ASSUME BookInv, table' \subseteq Order, clock' \in 0 .. MaxClock, writes' \in 0 .. MaxWrites,
           listing' = [listing EXCEPT !.steady = FALSE]
    PROVE  BookInv'
<1>1. listing'.steady = FALSE /\ listing'.page = listing.page /\ listing'.got = listing.got
      /\ listing'.perPage = listing.perPage /\ listing'.rejected = listing.rejected
      /\ listing'.filter = listing.filter
    BY DEF BookInv, BookTypes
<1>2. listing' \in [endpoint : Endpoint, filter : {listing'.filter}, perPage : PerPage,
                    page : Nat, got : [Lists -> Seq(Listed)], total : [Lists -> Nat],
                    steady : BOOLEAN, rejected : BOOLEAN]
    BY <1>1 DEF BookInv, BookTypes
<1>3. BookTypes'
    BY <1>1, <1>2 DEF BookInv, BookTypes
<1>4. BookRead' /\ RecordsRead'
    BY <1>1 DEF BookRead, RecordsRead
<1> QED
    BY <1>3, <1>4 DEF BookInv

(***************************************************************************)
(* A step of the orderbook's endpoints.                                    *)
(***************************************************************************)

LEMMA SameBook ==
    ASSUME table' = table, clock' = clock
    PROVE  \A l, b : /\ IsSettled(l)' <=> IsSettled(l)
                     /\ IsBook(l, b)' <=> IsBook(l, b)
                     /\ IsBetween(l, b)' <=> IsBetween(l, b)
BY DEF IsSettled, IsBook, IsBetween, Live, LongLived, InOrder, BookOf, OutlivesBuffer,
       OutlivesIndices

\* The next page of a list.
LEMMA ShowsMore ==
    ASSUME NEW S, NEW b \in Seq(S), NEW l \in Lists, Shows(l, b),
           listing.page \in Nat, listing.perPage \in Nat \ {0},
           listing'.page = listing.page + 1, listing'.perPage = listing.perPage,
           listing'.got[l] = listing.got[l] \o Paginate(b, listing.page + 1, listing.perPage),
           listing'.total[l] = Len(b)
    PROVE  Shows(l, b)'
<1>1. PICK p \in Nat, n \in Nat \ {0} : p = listing.page /\ n = listing.perPage
    OBVIOUS
<1>2. PICK q, from, end : q = p + 1 /\ from = p * n /\ end = q * n
    OBVIOUS
<1>3. First(b, from) \o Paginate(b, q, n) = First(b, end)
    <2>1. Follows(p, q, n, from, end)
        BY <1>2 DEF Follows
    <2> QED
        BY <2>1, PageIs
<1>4. listing'.page = q /\ listing'.perPage = n /\ listing.page + 1 = q
    BY <1>1, <1>2
<1>5. listing.got[l] = First(b, from)
    BY <1>1, <1>2 DEF Shows
<1>6. listing'.got[l] = First(b, from) \o Paginate(b, q, n)
    BY <1>1, <1>4, <1>5
<1>7. listing'.page * listing'.perPage = end
    BY <1>2, <1>4
<1>8. listing'.got[l] = First(b, listing'.page * listing'.perPage)
    BY <1>3, <1>6, <1>7
<1> QED
    BY <1>8 DEF Shows

\* The first page of a list.
LEMMA ShowsFirst ==
    ASSUME NEW S, NEW b \in Seq(S), NEW l \in Lists,
           listing.page = 0, listing.perPage \in Nat \ {0}, listing.got[l] = <<>>,
           listing'.page = 1, listing'.perPage = listing.perPage,
           listing'.got[l] = listing.got[l] \o Paginate(b, 0 + 1, listing.perPage),
           listing'.total[l] = Len(b)
    PROVE  Shows(l, b)'
<1>1. PICK n \in Nat \ {0} : n = listing.perPage
    OBVIOUS
<1>2. PICK p, q, from, end : p = 0 /\ q = p + 1 /\ from = p * n /\ end = q * n
    OBVIOUS
<1>3. Paginate(b, q, n) = First(b, n) /\ Paginate(b, q, n) \in Seq(S)
    <2>1. Follows(p, q, n, from, end) /\ p = 0
        BY <1>2 DEF Follows
    <2> QED
        BY <2>1, PageIs
<1>4. <<>> \o Paginate(b, q, n) = First(b, n)
    BY <1>3, ConcatEmptySeq
<1>5. q = 0 + 1 /\ 1 * n = n
    BY <1>2
<1> QED
    BY <1>1, <1>4, <1>5 DEF Shows

LEMMA AskPageKeepsInv ==
    ASSUME BookInv, AskPage PROVE BookInv'
<1>1. /\ table' = table /\ clock' = clock /\ writes' = writes
      /\ ~listing.rejected
    BY DEF AskPage
<1>2. /\ table \subseteq Order /\ clock \in Nat /\ listing.endpoint \in Endpoint
      /\ listing.page \in Nat /\ listing.perPage \in PerPage /\ listing.perPage \in Nat \ {0}
      /\ listing.got \in [Lists -> Seq(Listed)] /\ listing.total \in [Lists -> Nat]
      /\ listing.steady \in BOOLEAN /\ MaxPerPage \in Nat
      /\ \A l \in Lists : Len(listing.got[l]) <= listing.page * listing.perPage
      /\ listing.page > 0 => listing.perPage <= MaxPerPage
    BY OrderbookAssumption DEF BookInv, BookTypes
<1>3. CASE listing.perPage > MaxPerPage
    <2>1. listing' = [listing EXCEPT !.rejected = TRUE]
        BY <1>3 DEF AskPage
    <2>2. listing.page = 0
        BY <1>2, <1>3
    <2>3. /\ listing'.page = 0 /\ listing'.got = listing.got /\ listing'.perPage = listing.perPage
          /\ listing'.filter = listing.filter
          /\ listing' \in [endpoint : Endpoint, filter : {listing.filter}, perPage : PerPage,
                           page : Nat, got : [Lists -> Seq(Listed)], total : [Lists -> Nat],
                           steady : BOOLEAN, rejected : BOOLEAN]
        BY <2>1, <2>2 DEF BookInv, BookTypes
    <2>4. \A l \in Lists : Len(listing'.got[l]) <= listing'.page * listing'.perPage
        BY <1>2, <2>2, <2>3
    <2>5. BookTypes'
        BY <1>1, <2>2, <2>3, <2>4 DEF BookInv, BookTypes
    <2>6. BookRead' /\ RecordsRead'
        BY <2>3 DEF BookRead, RecordsRead
    <2> QED
        BY <2>5, <2>6 DEF BookInv
<1>4. CASE ~(listing.perPage > MaxPerPage)
    <2>1. PICK c \in Collections :
              listing' = [listing EXCEPT
                  !.page = @ + 1,
                  !.got = [l \in Lists |->
                             @[l] \o Paginate(c[l], listing.page + 1, listing.perPage)],
                  !.total = [l \in Lists |-> Len(c[l])],
                  !.steady = @ \/ listing.page = 0]
        BY <1>4 DEF AskPage
    <2>2. /\ \A l \in Lists : c[l] \in Seq(Listed)
          /\ listing.endpoint = "orderbook" => \A l \in {"bids", "asks"} :
                IsBetween(l, c[l]) /\ (IsSettled(l) => IsBook(l, c[l]))
          /\ listing.endpoint # "orderbook" => c["records"] \in SetToSeqs(Answer)
        BY <1>2, CollectionsAre
    <2>3. PICK p \in Nat, n \in Nat \ {0} : p = listing.page /\ n = listing.perPage
        BY <1>2
    <2>4. /\ listing'.page = p + 1 /\ listing'.perPage = n
          /\ listing'.endpoint = listing.endpoint /\ listing'.filter = listing.filter
          /\ listing'.rejected = FALSE
          /\ listing'.steady = (listing.steady \/ p = 0)
          /\ listing'.got = [l \in Lists |-> listing.got[l] \o Paginate(c[l], p + 1, n)]
          /\ listing'.total = [l \in Lists |-> Len(c[l])]
        BY <1>1, <2>1, <2>3 DEF BookInv, BookTypes
    <2>5. ASSUME NEW l \in Lists
          PROVE  /\ listing'.got[l] \in Seq(Listed)
                 /\ Len(listing'.got[l]) <= (p + 1) * n
                 /\ listing'.total[l] \in Nat
        <3>1. PICK b \in Seq(Listed) : b = c[l]
            BY <2>2
        <3>2. PICK g \in Seq(Listed) : g = listing.got[l]
            BY <1>2
        <3>3. PICK q : q = Paginate(b, p + 1, n)
            OBVIOUS
        <3>4. q \in Seq(Listed) /\ Len(q) <= n /\ Len(q) \in Nat
            <4>1. PICK k, u, v : k = p + 1 /\ Follows(p, k, n, u, v)
                BY DEF Follows
            <4> QED
                BY <3>3, <4>1, PageIs
        <3>5. Len(g) <= p * n /\ Len(g) \in Nat
            BY <1>2, <2>3, <3>2, LenProperties
        <3>6. g \o q \in Seq(Listed) /\ Len(g \o q) = Len(g) + Len(q)
            BY <3>4, ConcatProperties
        <3>7. listing'.got[l] = g \o q /\ listing'.total[l] = Len(b)
            BY <2>4, <3>1, <3>2, <3>3
        <3>8. p * n \in Nat /\ (p + 1) * n = p * n + n
            BY ProductIsNat
        <3> QED
            BY <3>4, <3>5, <3>6, <3>7, <3>8, LenProperties
    <2>6. listing'.got \in [Lists -> Seq(Listed)] /\ listing'.total \in [Lists -> Nat]
        BY <2>4, <2>5
    <2>7. BookTypes'
        <3>1. listing'.steady \in BOOLEAN
            BY <2>4
        <3>2. listing' = [endpoint |-> listing.endpoint, filter |-> listing.filter,
                          perPage |-> listing.perPage, page |-> p + 1, got |-> listing'.got,
                          total |-> listing'.total, steady |-> listing'.steady,
                          rejected |-> listing.rejected]
            BY <2>1, <2>3 DEF BookInv, BookTypes
        <3>3. listing' \in [endpoint : Endpoint, filter : {listing'.filter}, perPage : PerPage,
                            page : Nat, got : [Lists -> Seq(Listed)], total : [Lists -> Nat],
                            steady : BOOLEAN, rejected : BOOLEAN]
            <4>1. PICK G : G = [Lists -> Seq(Listed)]
                OBVIOUS
            <4>2. PICK T : T = [Lists -> Nat]
                OBVIOUS
            <4>3. PICK e, f, m, q, g, t, d :
                      /\ e \in Endpoint /\ m \in PerPage /\ q \in Nat /\ g \in G /\ t \in T
                      /\ d \in BOOLEAN /\ f = listing'.filter
                      /\ listing' = [endpoint |-> e, filter |-> f, perPage |-> m, page |-> q,
                                     got |-> g, total |-> t, steady |-> d, rejected |-> FALSE]
                <5>1. listing.rejected = FALSE /\ p + 1 \in Nat /\ listing'.filter = listing.filter
                    BY <1>1, <2>1, <2>4 DEF BookInv, BookTypes
                <5> QED
                    BY <1>2, <2>6, <3>1, <3>2, <4>1, <4>2, <5>1
            <4>4. listing' \in [endpoint : Endpoint, filter : {f}, perPage : PerPage, page : Nat,
                                got : G, total : T, steady : BOOLEAN, rejected : BOOLEAN]
                BY <4>3
            <4> QED
                BY <4>1, <4>2, <4>3, <4>4
        <3>4. \A l \in Lists : Len(listing'.got[l]) <= listing'.page * listing'.perPage
            BY <2>4, <2>5
        <3>5. listing'.perPage <= MaxPerPage
            BY <1>2, <1>4, <2>3, <2>4
        <3> QED
            BY <1>1, <2>4, <3>3, <3>4, <3>5 DEF BookInv, BookTypes
    <2>8. p = 0 => \A l \in Lists : listing.got[l] = <<>>
        <3>1. ASSUME p = 0, NEW l \in Lists PROVE listing.got[l] = <<>>
            <4>1. Len(listing.got[l]) <= 0 /\ listing.got[l] \in Seq(Listed)
                BY <1>2, <2>3, <3>1
            <4> QED
                BY <4>1, EmptySeq, LenProperties
        <3> QED
            BY <3>1
    <2>9. ASSUME NEW l \in Lists, p = 0 PROVE Shows(l, c[l])'
        <3>1. /\ listing.page = 0 /\ listing'.page = 1 /\ listing.got[l] = <<>>
              /\ listing'.perPage = listing.perPage
              /\ listing'.got[l] = listing.got[l] \o Paginate(c[l], 0 + 1, listing.perPage)
              /\ listing'.total[l] = Len(c[l])
            <4>1. listing.page = 0 /\ p + 1 = 1 /\ p + 1 = 0 + 1 /\ n = listing.perPage
                BY <2>3, <2>9
            <4>2. listing.got[l] = <<>>
                BY <2>8, <2>9
            <4>3. listing'.got[l] = listing.got[l] \o Paginate(c[l], p + 1, n)
                BY <2>4
            <4>4. listing'.total[l] = Len(c[l])
                BY <2>4
            <4> QED
                BY <2>4, <4>1, <4>2, <4>3, <4>4, Zenon
        <3>2. PICK b \in Seq(Listed) : b = c[l]
            BY <2>2
        <3>3. Shows(l, b)'
            BY <1>2, <3>1, <3>2, ShowsFirst
        <3> QED
            BY <3>2, <3>3
    <2>10. BookRead'
        <3>1. SUFFICES ASSUME listing.endpoint = "orderbook", listing'.steady,
                              NEW l \in {"bids", "asks"}
                       PROVE  /\ IsSettled(l) => \E b : IsBook(l, b) /\ Shows(l, b)'
                              /\ p = 0 => \E b : IsBetween(l, b) /\ Shows(l, b)'
            <4>1. SUFFICES ASSUME listing'.endpoint = "orderbook", listing'.steady,
                                  NEW l \in {"bids", "asks"}
                           PROVE  /\ IsSettled(l)' => \E b : IsBook(l, b)' /\ Shows(l, b)'
                                  /\ listing'.page = 1 => \E b : IsBetween(l, b)' /\ Shows(l, b)'
                BY DEF BookRead
            <4>2. listing'.page = 1 => p = 0
                BY <2>3, <2>4
            <4>3. listing.endpoint = "orderbook"
                BY <2>4, <4>1
            <4>4. /\ IsSettled(l) => \E b : IsBook(l, b) /\ Shows(l, b)'
                  /\ p = 0 => \E b : IsBetween(l, b) /\ Shows(l, b)'
                BY <3>1, <4>1, <4>3
            <4> QED
                BY <1>1, <4>2, <4>4, SameBook
        <3>2. l \in Lists /\ IsBetween(l, c[l]) /\ (IsSettled(l) => IsBook(l, c[l]))
            BY <2>2, <3>1 DEF Lists
        <3>3. p = 0 => Shows(l, c[l])'
            BY <2>9, <3>2
        <3>4. ASSUME IsSettled(l), p # 0 PROVE IsBook(l, c[l]) /\ Shows(l, c[l])'
            <4>1. PICK b : IsBook(l, b) /\ Shows(l, b)
                <5>1. listing.steady /\ listing.page > 0
                    BY <1>2, <2>3, <2>4, <3>1, <3>4
                <5> QED
                    BY <3>1, <3>4, <5>1 DEF BookInv, BookRead
            <4>2. b = c[l]
                BY <1>2, <3>2, <3>4, <4>1, BookIsUnique
            <4>3. b \in Seq(Listed)
                BY <2>2, <3>2, <4>2
            <4>4. /\ listing'.page = listing.page + 1 /\ listing'.perPage = listing.perPage
                  /\ listing'.got[l] = listing.got[l]
                                         \o Paginate(b, listing.page + 1, listing.perPage)
                  /\ listing'.total[l] = Len(b)
                BY <2>3, <2>4, <3>2, <4>2
            <4>5. Shows(l, b)'
                BY <1>2, <3>2, <4>1, <4>3, <4>4, ShowsMore
            <4> QED
                BY <4>1, <4>2, <4>5
        <3> QED
            BY <3>2, <3>3, <3>4
    <2>11. RecordsRead'
        <3>1. SUFFICES ASSUME listing.endpoint # "orderbook", p = 0
                       PROVE  c["records"] \in SetToSeqs(Answer)' /\ Shows("records", c["records"])'
            BY <2>3, <2>4 DEF RecordsRead
        <3>2. Answer' = Answer
            BY <1>1, <2>4 DEF Answer
        <3>3. Shows("records", c["records"])'
            BY <2>9, <3>1 DEF Lists
        <3> QED
            BY <2>2, <3>1, <3>2, <3>3
    <2> QED
        BY <2>7, <2>10, <2>11 DEF BookInv
<1> QED
    BY <1>3, <1>4

LEMMA OrderbookKeepsInv ==
    ASSUME BookInv, OrderbookNext PROVE BookInv'
<1>1. /\ table \subseteq Order /\ clock \in 0 .. MaxClock /\ writes \in 0 .. MaxWrites
      /\ MaxClock \in Nat /\ MaxWrites \in Nat
    BY OrderbookAssumption DEF BookInv, BookTypes
<1>2. CASE AskPage
    BY <1>2, AskPageKeepsInv
<1>3. CASE TableWrite
    <2>1. /\ table' \subseteq Order /\ clock' \in 0 .. MaxClock /\ writes' \in 0 .. MaxWrites
          /\ listing' = [listing EXCEPT !.steady = FALSE]
        BY <1>1, <1>3 DEF TableWrite
    <2> QED
        BY <2>1, UnsteadyKeepsInv
<1>4. CASE ClockTick
    <2>1. /\ table' \subseteq Order /\ clock' \in 0 .. MaxClock /\ writes' \in 0 .. MaxWrites
          /\ listing' = [listing EXCEPT !.steady = FALSE]
        BY <1>1, <1>4 DEF ClockTick
    <2> QED
        BY <2>1, UnsteadyKeepsInv
<1> QED
    BY <1>2, <1>3, <1>4 DEF OrderbookNext

(***************************************************************************)
(* The answers of all endpoints but those of swaps.                        *)
(***************************************************************************)

\* What holds of all that is not the swap service.
AnswersInv ==
    /\ endpoint \in Exercised
    /\ BookInv
    /\ DepthInv /\ (endpoint = "depth" => depthSide \in DepthSides)
    /\ ChunkInv

LEMMA InitAnswersInv == Init => AnswersInv
<1> SUFFICES ASSUME Init PROVE AnswersInv
    OBVIOUS
<1>1. BookInv
    <2>1. /\ Of("orderbook", SUBSET Order) \subseteq SUBSET Order
          /\ Of("orderbook", Endpoint) \subseteq Endpoint
          /\ Of("orderbook", PerPage) \subseteq PerPage
        BY OrderbookAssumption DEF Of, Endpoint
    <2>2. OrderbookInit(Of("orderbook", SUBSET Order), Of("orderbook", Endpoint),
                        Of("orderbook", Filters), Of("orderbook", PerPage))
        BY DEF Init
    <2>3. PICK T, E, F, P : /\ T = Of("orderbook", SUBSET Order) /\ E = Of("orderbook", Endpoint)
                            /\ F = Of("orderbook", Filters) /\ P = Of("orderbook", PerPage)
        OBVIOUS
    <2> QED
        BY <2>1, <2>2, <2>3, InitBookInv
<1>2. DepthInv /\ (endpoint = "depth" => depthSide \in DepthSides)
    BY DEF Init, DepthInit, Of, DepthInv
<1>3. ChunkInv
    <2>1. Of("chunks", 0 .. MaxItems) \subseteq Nat
        BY ChunksAssumption DEF Of
    <2>2. PICK S \in SUBSET Nat : S = Of("chunks", 0 .. MaxItems)
        BY <2>1
    <2> QED
        BY <2>2, InitChunkInv DEF Init
<1> QED
    BY <1>1, <1>2, <1>3 DEF AnswersInv, Init

LEMMA SameBookInv == ASSUME BookInv, UNCHANGED orderbookVars PROVE BookInv'
<1>1. table' = table /\ clock' = clock /\ writes' = writes /\ listing' = listing
    BY DEF orderbookVars
<1>2. BookTypes'
    BY <1>1 DEF BookInv, BookTypes
<1>3. \A l, b : Shows(l, b)' <=> Shows(l, b)
    BY <1>1 DEF Shows
<1>4. BookRead'
    BY <1>1, <1>3, SameBook DEF BookInv, BookRead
<1>5. Answer' = Answer
    BY <1>1 DEF Answer
<1>6. RecordsRead'
    BY <1>1, <1>3, <1>5 DEF BookInv, RecordsRead
<1> QED
    BY <1>2, <1>4, <1>6 DEF BookInv

LEMMA SameDepthInv == ASSUME DepthInv, UNCHANGED depthVars PROVE DepthInv'
BY DEF depthVars, DepthInv

LEMMA NextKeepsAnswersInv == AnswersInv /\ [Next]_vars => AnswersInv'
<1> SUFFICES ASSUME AnswersInv, [Next]_vars PROVE AnswersInv'
    OBVIOUS
<1> USE DEF AnswersInv
<1>1. endpoint' = endpoint
    BY DEF Next, Swap, Cache, Orders, Depth, Chunk, vars
<1>2. BookInv'
    <2>1. Orders \/ UNCHANGED orderbookVars
        BY DEF Next, Swap, Cache, Orders, Depth, Chunk, vars
    <2>2. CASE Orders
        BY <2>2, OrderbookKeepsInv DEF Orders
    <2>3. CASE UNCHANGED orderbookVars
        BY <2>3, SameBookInv
    <2> QED
        BY <2>1, <2>2, <2>3
<1>3. DepthInv' /\ (endpoint' = "depth" => depthSide' \in DepthSides)
    <2>1. Depth \/ UNCHANGED depthVars
        BY DEF Next, Swap, Cache, Orders, Depth, Chunk, vars
    <2>2. CASE Depth
        <3>1. depthSide \in DepthSides /\ depthSide' = depthSide
            BY <2>2 DEF Depth, CalculateDepth
        <3> QED
            BY <2>2, <3>1, CalculateDepthKeepsInv DEF Depth
    <2>3. CASE UNCHANGED depthVars
        BY <1>1, <2>3, SameDepthInv DEF depthVars
    <2> QED
        BY <2>1, <2>2, <2>3
<1>4. ChunkInv'
    <2>1. Chunk \/ UNCHANGED chunking
        BY DEF Next, Swap, Cache, Orders, Depth, Chunk, vars
    <2>2. CASE Chunk
        BY <2>2, ChunkItemKeepsInv, LastChunkKeepsInv DEF Chunk, ChunksNext
    <2>3. CASE UNCHANGED chunking
        BY <2>3 DEF ChunkInv
    <2> QED
        BY <2>1, <2>2, <2>3
<1> QED
    BY <1>1, <1>2, <1>3, <1>4

\* The items of a call are handed on in chunks that fit, in their order, none lost
\* and none twice (utils.ts:50-74).
THEOREM ChunksAreExact == Spec => []ChunksPartitionTheItems
<1>1. AnswersInv => ChunksPartitionTheItems
    BY ChunkInvSuffices DEF AnswersInv
<1> QED
    BY <1>1, InitAnswersInv, NextKeepsAnswersInv, PTL DEF Spec

\* However the library samples the sources and the market makers, the depth shown
\* at a price is no less than what the best pool of a source gives at this price or
\* a better one, and no more than what all its pools give
\* (market_depth_utils.ts:154-240).
THEOREM DepthIsBounded == Spec => []DepthIsBetween
<1>1. AnswersInv => DepthIsBetween
    BY DepthInvSuffices DEF AnswersInv
<1> QED
    BY <1>1, InitAnswersInv, NextKeepsAnswersInv, PTL DEF Spec

\* Whatever orders there are and in whatever order the database finds them, the
\* pages of a book that does not change list each live order once and the best
\* first; a single page lists at least all that outlive their index; and orders and
\* asset pairs are those asked for (orderbook_service.ts:30-157).
THEOREM ListingsAreExact == Spec => []ListingIsExact
<1>1. AnswersInv => ListingIsExact
    BY BookInvSuffices DEF AnswersInv
<1> QED
    BY <1>1, InitAnswersInv, NextKeepsAnswersInv, PTL DEF Spec

\* The state of all endpoints keeps its types: amounts, gas and depths are natural
\* numbers, no chunk is counted past its limit, and no client has got more than
\* its pages hold.
THEOREM TypesAreCorrect == Spec => []TypeInvariant
<1>1. AnswersInv /\ QuoteInv => TypeInvariant
    BY RequestsFitSuffices, BookInvSuffices, DepthInvSuffices, ChunkInvSuffices
    DEF AnswersInv, QuoteInv, TypeInvariant
<1> QED
    BY <1>1, InitAnswersInv, NextKeepsAnswersInv, InitQuoteInv, NextKeepsQuoteInv, PTL DEF Spec
=============================================================================

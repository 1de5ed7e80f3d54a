---------------------------- MODULE SwapService ----------------------------
(***************************************************************************)
(* GET /swap/v0|v1/quote and /price: src/src/handlers/swap_handlers.ts,    *)
(* src/src/services/swap_service.ts, src/src/utils/service_utils.ts and    *)
(* the checks of src/src/utils/parse_utils.ts.                             *)
(*                                                                         *)
(* Requests run concurrently and share the caches of ResultCache.  The     *)
(* asset-swapper library, which finds the orders and encodes the call, and *)
(* the Ethereum node are external.  A token is a name; "ETH" is the        *)
(* pseudo-token.  A percentage is a number of parts of FeeBase, which are  *)
(* as fine as the decimals that numbers are printed with.                  *)
(***************************************************************************)
EXTENDS ResultCache, Sequences, FiniteSets

CONSTANTS
    Ask,             \* the requests that clients make
    Source,          \* ERC20BridgeSource
    ExcludedSources, \* EXCLUDED_SOURCES, the chain's setting
    Whitelisted,     \* RFQT_API_KEY_WHITELIST
    Routes,          \* the fills, as sequences of sources, the library may find
    Amounts,         \* the amounts of the other token it may find for them
    Balances,        \* of gas tokens
    Estimates,       \* the node's answers to eth_estimateGas
    Decimals,        \* of each token
    Mapped,          \* the tokens with known metadata
    DefaultDecimals,
    FeeBase,
    OnePlus,         \* what the program gets for fee + 1, a sum of two doubles
    MaxSumError,     \* bound: how far such a sum is off, for fees up to one
    WrapGas,         \* WRAP_QUOTE_GAS, UNWRAP_QUOTE_GAS
    BridgeGas, SStoreCost, SStoreInitCost, GstInteractionCost, GstDivisor,
    GasBurnRefund, GasBurnCost, AffiliateFeeGas, BaseGasV1,
    ProtocolFee,     \* PROTOCOL_FEE_MULTIPLIER times the gas price
    BufferNum, BufferDen  \* GAS_LIMIT_BUFFER_MULTIPLIER

Token == DOMAIN Decimals
ASSUME SwapAssumption ==
    /\ Key = Token \cup {"GST"} /\ "WETH" \in Token /\ "GST" \notin Token
    /\ {"Native", "LiquidityProvider"} \subseteq Source
    /\ ExcludedSources \subseteq Source
    /\ Balances \subseteq Nat /\ Estimates \subseteq Nat /\ Amounts \subseteq Nat
    /\ GstDivisor \in Nat \ {0} /\ BufferDen \in Nat \ {0}
    /\ {WrapGas, BridgeGas, SStoreCost, SStoreInitCost, GstInteractionCost, GasBurnRefund,
        GasBurnCost, AffiliateFeeGas, BaseGasV1, ProtocolFee} \subseteq Nat
    /\ BufferNum \in Nat /\ BufferNum >= BufferDen
    /\ Routes \subseteq Seq(Source) /\ Ask # {}
    /\ ResultOf["GST"] = Balances
    /\ \A a \in Ask : /\ {a.sell, a.buy} \subseteq Token \cup {"ETH"}
                     /\ a.amount \in Nat /\ a.fee \in Nat
                     /\ {a.recipient, a.from, a.skip} \subseteq BOOLEAN

\* A percentage is parsed as a double (swap_handlers.ts:344), and its sum with 1 is
\* rounded to one; BigNumber reads both as the decimals they print as.  For fees up
\* to one the error of all this is less than 2^-51.  Without a fee there is none.
Fees == {0} \cup {a.fee : a \in Ask}
SumError(fee) ==
    IF OnePlus[fee] < FeeBase + fee THEN FeeBase + fee - OnePlus[fee]
    ELSE OnePlus[fee] - FeeBase - fee
ASSUME FeeAssumption ==
    /\ FeeBase \in Nat \ {0} /\ MaxSumError \in Nat
    /\ OnePlus \in [Fees -> Nat] /\ OnePlus[0] = FeeBase
    /\ \A fee \in Fees : /\ OnePlus[fee] >= FeeBase
                         /\ fee <= FeeBase => SumError(fee) <= MaxSumError

VARIABLES
    ask,      \* what each request asks for
    pc,
    quote,    \* the library's quote
    gas,      \* conservativeBestCaseGasEstimate and gasTokenRefund so far
    simulated,\* history: what the node answered to eth_call
    answer    \* the response, or the error

swapVars == <<ask, pc, quote, gas, simulated, answer>>

RequestPC == {"new", "quoter", "balance", "estimate", "buyDecimals", "sellDecimals", "done"}

-----------------------------------------------------------------------------
(* The checks of a request.                                                *)

IsWrap(a) == a.sell = "ETH" /\ a.buy = "WETH"
IsUnwrap(a) == a.sell = "WETH" /\ a.buy = "ETH"
\* findTokenAddressOrThrowApiError: the pseudo-token stands for WETH.
AddressOf(t) == IF t = "ETH" THEN "WETH" ELSE t
FeeOf(a) == IF a.recipient THEN a.fee ELSE 0

ValidFilter(a) ==
    /\ a.excluded = None \/ a.included = None
    /\ a.included # "other"
    /\ a.included = "RFQT" =>
           /\ a.from
           /\ a.apiKey \in Whitelisted
           /\ a.endpoint = "quote" => a.intent

ParsedExcluded(a) ==
    IF a.excluded # None THEN a.excluded
    ELSE IF a.included = "RFQT" THEN Source \ {"Native"} ELSE {}

DetermineExcluded(a) ==
    ParsedExcluded(a) \cup
        (IF a.apiKey \in Whitelisted THEN {} ELSE {"LiquidityProvider"})

ValidRequest(a) ==
    /\ a.fee <= FeeBase
    /\ ValidFilter(a)
    /\ IsWrap(a) \/ IsUnwrap(a) \/ AddressOf(a.sell) # AddressOf(a.buy)
    /\ a.version = "V0" => /\ a.buy = "ETH" => IsUnwrap(a)
                           /\ FeeOf(a) = 0

IsAllExcluded(a) == Source \subseteq DetermineExcluded(a)

-----------------------------------------------------------------------------
(* The arithmetic.                                                         *)

Rounded(a, b) == (2 * a + b) \div (2 * b)
Least(a, b) == IF a < b THEN a ELSE b
Greatest(a, b) == IF a < b THEN b ELSE a

BuyAmountScaled(amount, fee) == (amount * OnePlus[fee]) \div FeeBase
\* Mutant: The fee is a share of what the library finds, not of what the buyer gets.
BuyTokenFeeAmountOfTotal(maker, fee) == (maker * fee) \div FeeBase

\* That the quotient has 78 decimals only does not lift it to the next integer.
BuyTokenFeeAmount(maker, fee) == (maker * fee) \div OnePlus[fee]

NativeFills(fills) == Cardinality({i \in 1 .. Len(fills) : fills[i] = "Native"})
BridgeFills(fills) == Len(fills) - NativeFills(fills)

UsedGasTokens(fills, balance) ==
    LET cost == BridgeFills(fills) * (BridgeGas + SStoreCost) + SStoreInitCost IN
    IF BridgeFills(fills) = 0 THEN 0
    ELSE Least(balance, (cost + GstInteractionCost) \div GstDivisor)

\* What the library says of a route: protocol fees for every order of it.
LibraryProtocolFee(fills) == ProtocolFee * Len(fills)
LibraryGas(fills) == BridgeGas * Len(fills)

AdjustedProtocolFee(a, fills) ==
    IF a.version = "V0" THEN LibraryProtocolFee(fills)
    ELSE ProtocolFee * NativeFills(fills)

AdjustedValue(a, q) ==
    AdjustedProtocolFee(a, q.fills) + (IF a.sell = "ETH" THEN q.worstTaker ELSE 0)

\* Mutant: The market maker is always asked to quote for the client itself.
RfqtTakerIsFrom(a) ==
    IF a.apiKey = None \/ ~(a.sell = "ETH" \/ a.from) THEN None
    ELSE IF a.version = "V1" THEN "flashWallet" ELSE "from"

\* Whose fill a market maker is asked to quote for.
RfqtTaker(a) ==
    IF a.apiKey = None \/ ~(a.sell = "ETH" \/ a.from) THEN None
    ELSE IF a.version = "V1" THEN "flashWallet"
    ELSE IF a.sell = "ETH" THEN "forwarder" ELSE "from"

\* The contract that the transaction calls, which the library encodes.
Extension(a) ==
    IF a.version = "V1" THEN "exchangeProxy"
    ELSE IF a.sell = "ETH" THEN "forwarder" ELSE "none"

AllowanceTarget(a) ==
    IF a.sell = "ETH" THEN "none"
    ELSE IF a.version = "V0" THEN "erc20Proxy" ELSE "exchangeProxyAllowanceTarget"

-----------------------------------------------------------------------------

Quote == [fills : Routes, bestMaker : Nat, worstMaker : Nat, bestTaker : Nat,
          worstTaker : Nat, rfqtTaker : {None, "flashWallet", "forwarder", "from"}]
Errors == {"validation", "insufficientFunds", "revert", "internal"}
Served == [kind : {"quote"}, buyAmount : Int, sellAmount : Nat, gas : Nat,
           estimatedGas : Nat, refund : Nat, protocolFee : Nat, minimumProtocolFee : Nat,
           value : Nat, allowanceTarget : {"none", "erc20Proxy", "exchangeProxyAllowanceTarget"},
           extension : {"none", "forwarder", "exchangeProxy", "weth"}]
Error(kind) == [kind |-> kind]
Refusals == {Error(e) : e \in Errors}
Unanswered == [kind |-> "none"]

SwapTypeOK ==
    /\ CacheTypeOK
    /\ ask \in [Caller -> Ask]
    /\ pc \in [Caller -> RequestPC]
    /\ \A r \in Caller : quote[r] = None \/ quote[r] \in Quote
    /\ gas \in [Caller -> [estimate : Nat, refund : Nat]]
    /\ simulated \in [Caller -> {"none", "ok"} \cup Errors]
    /\ \A r \in Caller : answer[r] \in Served \/ answer[r] \in {Unanswered} \cup Refusals
    /\ \A r \in Caller : (pc[r] = "done") = (answer[r] # Unanswered)

SwapInit(asks) ==
    /\ CacheInit
    /\ ask \in [Caller -> asks]
    /\ pc = [r \in Caller |-> "new"]
    /\ quote = [r \in Caller |-> None]
    /\ gas = [r \in Caller |-> [estimate |-> 0, refund |-> 0]]
    /\ simulated = [r \in Caller |-> "none"]
    /\ answer = [r \in Caller |-> Unanswered]

Goes(r, where) == pc' = [pc EXCEPT ![r] = where] /\ UNCHANGED answer
Answered(r, response) ==
    /\ pc' = [pc EXCEPT ![r] = "done"]
    /\ answer' = [answer EXCEPT ![r] = response]

-----------------------------------------------------------------------------
(* One request.                                                            *)

Receive(r) ==
    /\ pc[r] = "new"
    /\ IF ~ValidRequest(ask[r]) THEN Answered(r, Error("validation"))
       ELSE IF IsAllExcluded(ask[r]) /\ ~IsWrap(ask[r]) /\ ~IsUnwrap(ask[r])
       THEN Answered(r, Error("validation"))
       ELSE Goes(r, "quoter")
    /\ UNCHANGED <<cacheVars, ask, quote, gas, simulated>>

\* _getSwapQuoteForWethAsync
ServeWeth(r) ==
    LET a == ask[r] IN
    /\ pc[r] = "quoter" /\ (IsWrap(a) \/ IsUnwrap(a))
    /\ Answered(r, [kind |-> "quote", buyAmount |-> a.amount, sellAmount |-> a.amount,
                    gas |-> WrapGas, estimatedGas |-> WrapGas, refund |-> 0,
                    protocolFee |-> 0, minimumProtocolFee |-> 0,
                    value |-> IF IsUnwrap(a) THEN 0 ELSE a.amount,
                    allowanceTarget |-> "none", extension |-> "weth"])
    /\ UNCHANGED <<cacheVars, ask, quote, gas, simulated>>

\* The library finds a route that none of the excluded sources takes part in.
Quoted(r) ==
    LET a == ask[r]
        excluded == DetermineExcluded(a) \cup ExcludedSources
    IN
    /\ pc[r] = "quoter" /\ ~IsWrap(a) /\ ~IsUnwrap(a)
    /\ \E fills \in Routes, worst, best \in Amounts :
           /\ \A i \in 1 .. Len(fills) : fills[i] \notin excluded
           /\ best <= worst
           /\ quote' = [quote EXCEPT ![r] =
                [fills |-> fills, rfqtTaker |-> RfqtTaker(a),
                 bestMaker |-> IF a.side = "sell" THEN worst
                               ELSE BuyAmountScaled(a.amount, FeeOf(a)),
                 worstMaker |-> IF a.side = "sell" THEN best
                                ELSE BuyAmountScaled(a.amount, FeeOf(a)),
                 bestTaker |-> IF a.side = "sell" THEN a.amount ELSE best,
                 worstTaker |-> IF a.side = "sell" THEN a.amount ELSE worst]]
    /\ Goes(r, "balance")
    /\ UNCHANGED <<cacheVars, ask, gas, simulated>>

\* No liquidity or no such asset is the client's error, anything else the
\* server's: also the price of gas that a wrap needs.
QuoterFails(r) ==
    /\ pc[r] = "quoter"
    /\ \E kind \in (IF IsWrap(ask[r]) \/ IsUnwrap(ask[r]) THEN {} ELSE {"validation"})
                   \cup {"internal"} :
           Answered(r, Error(kind))
    /\ UNCHANGED <<cacheVars, ask, quote, gas, simulated>>

KeyFor(r) ==
    CASE pc[r] = "balance" -> "GST"
      [] pc[r] = "buyDecimals" -> AddressOf(ask[r].buy)
      [] pc[r] = "sellDecimals" -> AddressOf(ask[r].sell)

\* Also fetchTokenDecimalsIfRequiredAsync, which swallows its errors: only the
\* lookup of the gas tokens can fail.
Lookup(r) ==
    /\ pc[r] \in {"balance", "buyDecimals", "sellDecimals"}
    /\ \/ GetResult(r, KeyFor(r))
       \/ Fetches(r)
       \/ pc[r] = "balance" /\ FetchFails(r)
    /\ UNCHANGED swapVars

UseBalance(r) ==
    LET q == quote[r]
        fee == BuyTokenFeeAmount(q.worstMaker, FeeOf(ask[r]))
        balance == IF call[r].state = "threw" THEN 0 ELSE call[r].answer.result
        used == UsedGasTokens(q.fills, balance)
    IN
    /\ pc[r] = "balance" /\ Take(r)
    /\ gas' = [gas EXCEPT ![r] =
           [estimate |-> LibraryGas(q.fills) + used * GasBurnCost
                         + (IF fee = 0 THEN 0 ELSE AffiliateFeeGas)
                         + (IF ask[r].version = "V1" THEN BaseGasV1 ELSE 0),
            refund |-> used * GasBurnRefund]]
    /\ Goes(r, IF ask[r].from /\ ~ask[r].skip /\ ask[r].endpoint = "quote"
               THEN "estimate" ELSE "buyDecimals")
    /\ UNCHANGED <<ask, quote, simulated>>

\* _estimateGasOrThrowRevertErrorAsync; a failing estimate counts as the default,
\* which is one of Estimates.
EstimateGas(r) ==
    /\ pc[r] = "estimate"
    /\ \E outcome \in {"ok", "insufficientFunds", "revert", "internal"},
          estimate \in Estimates :
           /\ simulated' = [simulated EXCEPT ![r] = outcome]
           /\ IF outcome = "ok"
              THEN /\ gas' = [gas EXCEPT ![r].estimate = Greatest(estimate, @)]
                   /\ Goes(r, "buyDecimals")
              ELSE Answered(r, Error(outcome)) /\ UNCHANGED gas
    /\ UNCHANGED <<cacheVars, ask, quote>>

UseDecimals(r) ==
    /\ pc[r] = "buyDecimals"
    /\ Take(r)
    /\ Goes(r, "sellDecimals")
    /\ UNCHANGED <<ask, quote, gas, simulated>>

IsUndeterministic(fills) ==
    \E i \in 1 .. Len(fills) : fills[i] \in {"Native", "Kyber", "MultiBridge"}

Response(a, q, g) ==
    [kind |-> "quote",
     buyAmount |-> q.bestMaker - BuyTokenFeeAmount(q.worstMaker, FeeOf(a)),
     sellAmount |-> q.bestTaker,
     gas |-> IF IsUndeterministic(q.fills) THEN Rounded(g.estimate * BufferNum, BufferDen)
             ELSE g.estimate,
     estimatedGas |-> g.estimate,
     refund |-> Rounded(Least(g.estimate, 2 * g.refund), 2),
     protocolFee |-> AdjustedProtocolFee(a, q.fills),
     minimumProtocolFee |-> Least(AdjustedProtocolFee(a, q.fills),
                                  LibraryProtocolFee(q.fills)),
     value |-> AdjustedValue(a, q),
     allowanceTarget |-> AllowanceTarget(a),
     extension |-> Extension(a)]

ServeQuote(r) ==
    /\ pc[r] = "sellDecimals"
    /\ Take(r)
    /\ Answered(r, Response(ask[r], quote[r], gas[r]))
    /\ UNCHANGED <<ask, quote, gas, simulated>>

SwapStep(r) ==
    \/ Receive(r) \/ ServeWeth(r) \/ Quoted(r) \/ QuoterFails(r)
    \/ Lookup(r) \/ UseBalance(r) \/ EstimateGas(r) \/ UseDecimals(r) \/ ServeQuote(r)

SwapNext == \E r \in Caller : SwapStep(r)

-----------------------------------------------------------------------------

IsServed(r) == answer[r].kind = "quote"
IsSwap(r) == IsServed(r) /\ answer[r].extension # "weth"

\* How far an offer may be from what was asked: by the error of the percentage's
\* sum, and by less than one unit more.
IsWithin(offered, amount, error) ==
    /\ (offered - amount) * FeeBase < amount * error + FeeBase
    /\ (amount - offered) * FeeBase < amount * error + FeeBase

\* Whoever asks for an exact amount is offered this amount, whatever the affiliate's
\* fee, up to the share by which the sum fee + 1 is off: the amount that the library
\* is asked for (swap_service.ts:520-522) and the fee taken from what it finds
\* (service_utils.ts:217-227) are rounded apart from each other and never cost a
\* unit by themselves.  Where the sum of doubles is exact, so is the offer.
BuyerGetsWhatWasAsked ==
    \A r \in Caller : IsServed(r) /\ ask[r].side = "buy" =>
        LET fee == FeeOf(ask[r]) IN
        /\ SumError(fee) = 0 => answer[r].buyAmount = ask[r].amount
        /\ IsWithin(answer[r].buyAmount, ask[r].amount, MaxSumError)

\* A quote is one the taker can execute.  If it was to be validated the node has
\* executed it; market makers have quoted for the contract that will fill their
\* orders; the ether sent pays for the protocol fees and what is sold, and
\* nothing of the token is left to be approved when ether is sold; no source the
\* client excluded takes part (swap_service.ts:104-239, 447-572).
QuoteIsSound ==
    \A r \in Caller : IsSwap(r) =>
        LET a == ask[r]  q == quote[r]  s == answer[r] IN
        /\ a.from /\ a.endpoint = "quote" /\ ~a.skip => simulated[r] = "ok"
        /\ q.rfqtTaker # None => q.rfqtTaker = (CASE s.extension = "exchangeProxy" -> "flashWallet"
                                                  [] s.extension = "forwarder" -> "forwarder"
                                                  [] s.extension = "none" -> "from")
        /\ s.value >= s.protocolFee + (IF a.sell = "ETH" THEN s.sellAmount ELSE 0)
        /\ (s.value > s.protocolFee) => (s.allowanceTarget = "none")
        /\ s.minimumProtocolFee <= s.protocolFee
        /\ s.estimatedGas <= s.gas /\ s.refund <= Rounded(s.estimatedGas, 2)
        /\ \A i \in 1 .. Len(q.fills) : q.fills[i] \notin ParsedExcluded(a)
=============================================================================

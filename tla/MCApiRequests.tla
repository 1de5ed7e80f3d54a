--------------------------- MODULE MCApiRequests ---------------------------
EXTENDS ApiRequests

CONSTANTS q1, q2, o1, o2, o3, o4, alice, bob

Callers == {q1, q2}
Sources == {"Native", "LiquidityProvider", "Uniswap_V2", "MultiBridge"}
BuiltInExclusions == {"MultiBridge"}
TokenDecimals == ("WETH" :> 18 @@ "ZRX" :> 18 @@ "TOK" :> 6 @@ "NIL" :> 0)
MappedTokens == {"WETH", "ZRX"}
GasTokens == {0, 3}
Keys == DOMAIN TokenDecimals \cup {"GST"}
ResultsOf == [k \in Keys |-> IF k = "GST" THEN GasTokens
                           ELSE {TokenDecimals[k]} \cup
                                (IF k \in MappedTokens THEN {} ELSE {18})]
ZeroIsFalsy == [k \in Keys |-> IF k = "GST" THEN {} ELSE {0}]
Expiries == [k \in Keys |-> IF k = "GST" THEN 1 ELSE 2]
WhitelistedKeys == {"partner"}
RouteSet == { <<"Native">>, <<"Native", "Uniswap_V2">>, <<"LiquidityProvider">> }
Symmetric == Permutations(Callers)

Basic == [sell |-> "ZRX", buy |-> "WETH", side |-> "sell", amount |-> 7, from |-> TRUE,
          skip |-> FALSE, endpoint |-> "quote", version |-> "V1", fee |-> 0,
          recipient |-> FALSE, excluded |-> None, included |-> None, apiKey |-> None,
          intent |-> FALSE]
Asks ==
    { Basic,
      [Basic EXCEPT !.sell = "ETH", !.buy = "TOK", !.version = "V0", !.apiKey = "partner"],
      [Basic EXCEPT !.buy = "NIL", !.side = "buy", !.amount = 50, !.fee = 13, !.recipient = TRUE,
                    !.from = FALSE],
      [Basic EXCEPT !.buy = "ETH", !.sell = "TOK", !.endpoint = "price", !.side = "buy",
                    !.amount = 40, !.fee = 11, !.recipient = TRUE, !.included = "RFQT",
                    !.apiKey = "partner"],
      [Basic EXCEPT !.sell = "ETH", !.side = "buy", !.amount = 9, !.fee = 12, !.recipient = TRUE],
      [Basic EXCEPT !.sell = "WETH", !.buy = "ETH", !.version = "V0"],
      [Basic EXCEPT !.version = "V0", !.fee = 2, !.recipient = TRUE],
      [Basic EXCEPT !.excluded = {"Native", "Uniswap_V2", "MultiBridge"}] }

\* Doubles of a few bits: a sum with 1 is a multiple of four of a fee's units.
RoundedSums == [fee \in Fees |-> 4 * ((FeeBase + fee + 2) \div 4)]

OrderTerms ==
    ( o1 :> [makerAsset |-> "B", takerAsset |-> "A", makerAmount |-> 2, takerAmount |-> 3,
             takerFee |-> 0, expiration |-> 2, maker |-> alice]
   @@ o2 :> [makerAsset |-> "B", takerAsset |-> "A", makerAmount |-> 4, takerAmount |-> 6,
             takerFee |-> 1, expiration |-> 7, maker |-> bob]
   @@ o3 :> [makerAsset |-> "B", takerAsset |-> "A", makerAmount |-> 5, takerAmount |-> 6,
             takerFee |-> 0, expiration |-> 8, maker |-> alice]
   @@ o4 :> [makerAsset |-> "A", takerAsset |-> "B", makerAmount |-> 3, takerAmount |-> 2,
             takerFee |-> 0, expiration |-> 9, maker |-> bob] )
Assets == {"A", "B"}
FilterSet ==
    { [makerAssets |-> Assets, takerAssets |-> Assets, makers |-> {alice, bob}],
      [makerAssets |-> {"B"}, takerAssets |-> {"A"}, makers |-> {alice, bob}],
      [makerAssets |-> {"B"}, takerAssets |-> Assets, makers |-> {alice}] }

Sampled(source, outputs) ==
    [i \in DOMAIN outputs |->
        [source |-> source, input |-> 2^(i - 1), output |-> outputs[i]]]
Outputs == { <<0, 0, 0>>, <<10, 19, 36>>, <<9, 18, 34>>, <<11, 18, 18>>, <<10, 20, 33>> }
NativeOrders ==
    { <<>>, << [source |-> "Native", input |-> 1, output |-> 11],
               [source |-> "Native", input |-> 3, output |-> 27] >> }
Sides ==
    { << Sampled("Curve", a), Sampled("Curve", b), Sampled("Kyber", c), n >> :
          a \in Outputs, b \in Outputs, c \in Outputs \cup {<<>>}, n \in NativeOrders }
AllEndpoints == {"swap", "cache", "orderbook", "depth", "chunks"}

=============================================================================

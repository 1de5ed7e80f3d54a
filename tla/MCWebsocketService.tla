------------------------- MODULE MCWebsocketService -------------------------
EXTENDS WebsocketService, TLC

CONSTANTS a1, a2, i1, i2, zrx, weth, bundle, zrxToken, wethToken

TwoClients == {a1, a2}
OneClient == {a1}
TwoIds == {i1, i2}
Proxies == (zrx :> "ERC20" @@ weth :> "ERC20" @@ bundle :> "MultiAsset")
Tokens == (zrx :> zrxToken @@ weth :> wethToken @@ bundle :> None)
Contents == (zrx :> {} @@ weth :> {} @@ bundle :> {zrx})
Sell == [maker |-> zrx, taker |-> weth]
Buy == [maker |-> weth, taker |-> zrx]
Bundle == [maker |-> bundle, taker |-> weth]
Orders == {Sell, Buy, Bundle}
IgnoredOrders == {Buy}
Payloads ==
    {All,
     [All EXCEPT !.traderAssetData = zrx],
     [All EXCEPT !.makerAssetData = zrx, !.takerAssetData = weth],
     [All EXCEPT !.makerAssetAddress = zrxToken, !.takerAssetAddress = wethToken]}
=============================================================================

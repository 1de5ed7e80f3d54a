SPECIFICATION FairSpec
CONSTANTS
    a1 = a1
    a2 = a2
    i1 = i1
    i2 = i2
    zrx = zrx
    weth = weth
    bundle = bundle
    zrxToken = zrxToken
    wethToken = wethToken
    None = None
    Client <- TwoClients
    RequestId <- TwoIds
    Order <- Orders
    Ignored <- IgnoredOrders
    ProxyId <- Proxies
    Token <- Tokens
    Nested <- Contents
    Payload <- Payloads
    MayVanish <- OneClient
    MaxUpdate = 1
INVARIANTS
    EntriesAreCurrent
PROPERTIES
    RelevantOrdersAreSent
    VanishedIsDropped
CHECK_DEADLOCK FALSE

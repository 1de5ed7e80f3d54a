SPECIFICATION Spec
CONSTANTS
    q1 = q1
    q2 = q2
    o1 = o1
    o2 = o2
    o3 = o3
    o4 = o4
    alice = alice
    bob = bob
    None = None
    Caller <- Callers
    Key <- Keys
    ResultOf <- ResultsOf
    Falsy <- ZeroIsFalsy
    Expiry <- Expiries
    MaxFetch = 1
    MaxTime = 3
    Ask <- Asks
    Source <- Sources
    ExcludedSources <- BuiltInExclusions
    Whitelisted <- WhitelistedKeys
    Routes <- RouteSet
    Amounts = {4, 5}
    Balances <- GasTokens
    Estimates = {1, 30}
    Decimals <- TokenDecimals
    Mapped <- MappedTokens
    DefaultDecimals = 18
    FeeBase = 40
    OnePlus <- RoundedSums
    MaxSumError = 2
    WrapGas = 2
    BridgeGas = 3
    SStoreCost = 1
    SStoreInitCost = 2
    GstInteractionCost = 1
    GstDivisor = 4
    GasBurnRefund = 5
    GasBurnCost = 1
    AffiliateFeeGas = 2
    BaseGasV1 = 4
    ProtocolFee = 2
    BufferNum = 6
    BufferDen = 5
    Order = {o1, o2, o3, o4}
    Asset <- Assets
    Trader = {alice, bob}
    Terms <- OrderTerms
    BaseAsset = "A"
    QuoteAsset = "B"
    SraBuffer = 2
    MaxPerPage = 5
    PerPage = {1, 2, 5, 6}
    MaxClock = 2
    MaxWrites = 1
    Markets = {"Native", "Curve", "Kyber"}
    DepthSides <- Sides
    NumBuckets = 4
    Slippage = 20
    Scale = 120
    MaxLength = 4
    Lengths = {1, 2, 4}
    MaxItems = 4
    Filters <- FilterSet
    Exercised <- AllEndpoints
SYMMETRY Symmetric
INVARIANTS
    TypeInvariant
    ServedIsRecent
    BuyerGetsWhatWasAsked
    QuoteIsSound
    ListingIsExact
    DepthIsBetween
    ChunksPartitionTheItems
CHECK_DEADLOCK FALSE

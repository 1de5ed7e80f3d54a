SPECIFICATION Spec
CONSTANTS
    p1 = p1
    p2 = p2
    operator = operator
    member = member
    maker = maker
    None = None
    Pool <- Pools
    Staker <- Stakers
    Maker <- Makers
    OperatorOf <- Operators
    Amounts <- One
    Genesis <- TwoEpochs
    RecentBlocks = 1
    Asked <- NoRequests
    MaxEvents = 13
INVARIANTS
    TypeInvariant
    BooksAgree
    AmountsAreCountedOnce
    EventsExplainBalances
PROPERTIES
    NextEpochComesTrue
    EpochsAreSettled
CHECK_DEADLOCK FALSE

SPECIFICATION Spec
CONSTANTS
    p1 = p1
    p2 = p2
    operator = operator
    member = member
    maker = maker
    None = None
    Pool <- Pools
    Staker <- Stakers
    Maker <- Makers
    OperatorOf <- Operators
    Amounts <- One
    Genesis <- Log
    RecentBlocks = 1
    Asked <- AllRequests
    MaxEvents = 9
INVARIANTS
    ListedPoolsHaveStats
    AnswersFitTogether
CHECK_DEADLOCK FALSE

SPECIFICATION Spec
CONSTANTS
    s1 = s1
    s2 = s2
    m1 = m1
    m2 = m2
    interval = interval
    SelfTransfer = SelfTransfer
    Null = Null
    IntervalPass = interval
    Signer <- TwoSigners
    MetaTxn <- OneTxn
    MaxNonce = 1
    MaxGasPrice = 1
    MaxHead = 4
    MaxTxnBlock = 2
    NumBlocksUntilConfirmed = 1
    StartupPass <- OnlyInterval
    KeySets <- RotatedKeys
    SigningEnabled = TRUE
    RateLimiting = TRUE
    Faults <- AllButReorgs
    MaxFaults = 3
INVARIANTS
    IncludedIsMined
    AbortedCannotBeMined
    ConfirmedIsBuried
PROPERTIES
    SettledStaysSettled

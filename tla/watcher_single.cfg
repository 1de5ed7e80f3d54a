SPECIFICATION Spec
CONSTANTS
    s1 = s1
    s2 = s2
    m1 = m1
    m2 = m2
    interval = interval
    SelfTransfer = SelfTransfer
    Null = Null
    IntervalPass = interval
    Signer <- OneSigner
    MetaTxn <- TwoTxns
    MaxNonce = 1
    MaxGasPrice = 1
    MaxHead = 4
    MaxTxnBlock = 2
    NumBlocksUntilConfirmed = 1
    StartupPass <- OnlyInterval
    KeySets <- FixedKeys
    SigningEnabled = TRUE
    RateLimiting = FALSE
    Faults <- AllButCrashes
    MaxFaults = 1
SYMMETRY Symmetric
INVARIANTS
    BroadcastIsRecorded
    RelayedAtMostOnce
    UnsubmittedIsNotOnNetwork

SPECIFICATION Spec
CONSTANTS
    s1 = s1
    s2 = s2
    m1 = m1
    m2 = m2
    interval = interval
    SelfTransfer = SelfTransfer
    Null = Null
    IntervalPass = interval
    Signer <- OneSigner
    MetaTxn <- OneTxn
    MaxNonce = 0
    MaxGasPrice = 1
    MaxHead = 4
    MaxTxnBlock = 2
    NumBlocksUntilConfirmed = 1
    StartupPass <- OnlyInterval
    KeySets <- FixedKeys
    SigningEnabled = FALSE
    RateLimiting = FALSE
    Faults <- NoFaults
    MaxFaults = 0
INVARIANTS
    SigningSwitchObeyed

SPECIFICATION FairSpec
CONSTANTS
    r1 = r1
    r2 = r2
    r3 = r3
    m1 = m1
    m2 = m2
    k1 = k1
    k2 = k2
    alice = alice
    bob = bob
    None = None
    Request <- Requests
    MetaTxn <- Txns
    ApiKey <- Keys
    TxnOf <- Submits
    KeyOf <- Carries
    TakerOf <- Signs
    ValidKey <- OneKey
    Whitelisted <- OneKey
    Limiters <- DailyAndRolling
    SigningEnabled = TRUE
    MetricsEnabled = TRUE
    LiveWindow = 1
    Day = 1
    MaxTime = 1
    MaxHash = 2
INVARIANTS
    OvershootIsBounded
    RelayedOnceUnlessConcurrent
    AnswerNamesTheTransaction
PROPERTIES
    LetThroughWhileLive
    RequestsAreAnswered
CHECK_DEADLOCK FALSE

SPECIFICATION ClientSpec
CONSTANTS
    SafeMethods = {"GET"}
    UnsafeMethods = {"POST"}
    MaxAttempts = 3
    Strategies <- AllStrategies
    Lifetimes = {2, 5}
    Margin = 3
    Delay = 2
    MaxClock = 7
    MaxCalls = 2
CHECK_DEADLOCK FALSE
INVARIANTS
    UnsafeAtMostOnce
    OutcomeIsHonest
    RefreshesAreBounded
    ExpiredIsLate
PROPERTY
    EveryCallReturns

\* Two handlers and two browsers race for two logins in a store of one slot.
CONSTANTS
    Proc = {p1, p2}
    Txn = {t1, t2}
    Binding = {b1, b2}
    Capacity = 1
    Lifetime = 1
    ClockSkew = 1
    ExchangeTimeout = 1
    ValidUntil = 2
    MaxTime = 3
    NoProc = NoProc
    NoTxn = NoTxn
    NoBinding = NoBinding
SPECIFICATION FairSpec
PROPERTIES OnlyBoundBrowserObtains NeverEvictsLive RefusedOnlyForLiveLogins KeepsPromise CallsReturn
CHECK_DEADLOCK FALSE

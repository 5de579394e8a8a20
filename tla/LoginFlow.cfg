\* One login and its access token over a cache with one refresher and one
\* rotation; the issuer's clock is one tick behind, equal or one tick ahead, and
\* a token may become valid only one tick after its issue time.
CONSTANTS
    Refresher = {r1}
    Client = {c1}
    MaxAge = 1
    ClockSkew = 1
    FetchTimeout = 1
    OwnValidity = 3
    MaxTime = 4
    MaxGeneration = 1
    NoRefresher = NoRefresher
    NoKeys = NoKeys
    NoConfiguration = NoConfiguration
    Login = {l1}
    Lifetime = 1
    ExchangeTimeout = 1
    MaxLifetime = 4
    TokenLife = {4}
    NotBeforeDelay = {NoNotBefore, 1}
    NoNotBefore = NoNotBefore
    UnixStart = 2
    AccessLife = 2
    MaxAccessLife = 3
    Overlap = 0
    MaxOffset = 1
    OtherNonce = OtherNonce
    NoToken = NoToken
    NotRevoked = NotRevoked
SPECIFICATION FlowSpec
INVARIANTS SkewedTokenInTime
PROPERTIES KeyTrustBounded SignedForThisLogin ActiveIsRecent
CHECK_DEADLOCK FALSE

\* Two refreshers overlap while the issuer rotates keys and a LoginClient ages.
CONSTANTS
    Refresher = {r1, r2}
    Client = {c1}
    MaxAge = 2
    ClockSkew = 1
    FetchTimeout = 1
    OwnValidity = 4
    MaxTime = 4
    MaxGeneration = 1
    NoRefresher = NoRefresher
    NoKeys = NoKeys
    NoConfiguration = NoConfiguration
SPECIFICATION FairSpec
PROPERTIES NoKeyRollback RefreshReturns

\* Two replicas, two logins, two bindings, two clients; a login lives for one
\* tick on a replica, and a record outlives it in the database.
CONSTANTS
    Replica = {r1, r2}
    Txn = {t1, t2}
    Binding = {b1, b2}
    Client = {c1, c2}
    Lifetime = 1
    ClockSkew = 1
    RowLifetime = 4
    MaxOffset = 1
    MaxTime = 4
    NoTxn = NoTxn
    NoBinding = NoBinding
    NoClient = NoClient
SPECIFICATION Spec
SYMMETRY SealedSymmetry
INVARIANTS OwnClientOnly SkewTolerated
PROPERTIES RedeemedInTime KeepsPromise
CHECK_DEADLOCK FALSE

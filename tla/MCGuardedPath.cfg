\* Two requests and one slot, with a queue and without; handlers may hang,
\* and may send an informational status first.
CONSTANTS
    Request = {q1, q2}
    Maximum = 1
    HandlerStatus = {103, 204, 401, 403}
    NoRequest = NoRequest
    NoCertificate = NoCertificate
    MaxIdentities = 1
    OwnKey = "own"
    Time = {1, 2, 3}
    Deployment <- MCDeployment
    Fetch <- MCFetch
    Leaf <- MCLeaf
    Root <- MCRoot
    Intermediate <- MCIntermediate
SPECIFICATION GuardedFairSpec
INVARIANTS TokensMatchHandlers CountsExact OnlyInformationalWrong CrossOriginHolds ScrapeConsistent CertificateTrust
PROPERTIES QueueEnds

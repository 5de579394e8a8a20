\* Two instances call Apply twice, each time with any of six releases.
CONSTANTS
    Runner = {r1, r2}
    Release <- Releases
    MaxVersion = 3
    MaxCalls = 2
    NoRunner = NoRunner
SPECIFICATION FairSpec
INVARIANTS OnceAndRecorded SuccessMeansApplied
PROPERTIES ApplyReturns
CHECK_DEADLOCK FALSE

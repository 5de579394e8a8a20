\* The slowest pace at which one failed refresh is made good in time.
CONSTANTS
    Interval = 3
    MaxAge = 9
    FetchTimeout = 2
    MaxFailures = 1
SPECIFICATION LoopSpec
INVARIANTS RetryInTime
PROPERTIES RunsUntilCancelled

\* Two lookups; up to three matches exceed the size limit, and four frames are
\* too few for two entries and a referral.
CONSTANTS
    Call = {c1, c2}
    SizeLimit = 2
    MaxFrames = 4
    MaxMatches = 3
    MaxReferrals = 1
SPECIFICATION FairSpec
INVARIANTS AnswerIsComplete ObservedAsReturned
PROPERTIES LookupEnds
CHECK_DEADLOCK FALSE

\* One call and three checks, registered at any time, that may hang.
CONSTANTS
    Name = {n1, n2, n3}
    Call = {c1}
SPECIFICATION FairSpec
INVARIANTS UpMeansAllPassed
PROPERTIES ReadyAnswers ProbesEnd

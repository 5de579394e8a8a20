\* Two requests, a database and one more resource; every way to start.
CONSTANTS
    Request = {q1, q2}
    ResourceCount = 2
    Blank = Blank
    Bad = Bad
    NotGiven = NotGiven
    None = None
    Given <- MCGiven
SPECIFICATION ApplicationSpec
INVARIANTS LayersInOrder StartsOperable ReleaseAfterServing ResourceOrder AnswerTellsOutcome AppendedOnce
PROPERTIES ExitsAfterSignal

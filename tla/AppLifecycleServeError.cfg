\* Serve fails while a request is active.
CONSTANTS
    Request = {q1, q2}
    ResourceCount = 2
SPECIFICATION Spec
INVARIANTS DrainBeforeRelease

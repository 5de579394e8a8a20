\* Metrics outside the standard chain.
CONSTANTS
    Request = {q1, q2}
    Maximum = 1
    HandlerStatus = {404}
    NoRequest = NoRequest
SPECIFICATION Spec
INVARIANTS RouteRecorded

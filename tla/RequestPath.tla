---------------------------- MODULE RequestPath ----------------------------
(***************************************************************************)
(* A request on its way through the HTTP middleware, in the documented     *)
(* order: metrics.Middleware outermost, then Chain (requestID, security    *)
(* headers, accessLog, recoverer), then LimitConcurrency, then the mux and *)
(* its handler.                                                            *)
(*                                                                         *)
(* net/http is external: an informational status is sent at once and is    *)
(* not the response's status, the first other status is, later ones are    *)
(* ignored, and a response without one is a 200.  The mux writes the       *)
(* pattern it matched into the request object it is given.                 *)
(***************************************************************************)
EXTENDS Naturals, FiniteSets

CONSTANTS
    Request,       \* requests
    Maximum,       \* LimitConcurrency(maximum, ...)
    HandlerStatus, \* statuses handlers pass to WriteHeader
    NoRequest      \* registry.mu is free

ASSUME PathAssumption ==
    /\ Maximum \in Nat \ {0}
    /\ HandlerStatus \in SUBSET (Nat \ {0})
    /\ NoRequest \notin Request

\* The statuses net/http sends at once; 101 ends the exchange of HTTP messages
\* and is final.
Informational == (100..199) \ {101}

Status == HandlerStatus \cup {200, 500, 503}
Route == {"pattern", "unmatched"}
Label == Status \X Route

VARIABLES
    at,       \* where each request is
    queueing, \* whether the limiter's queueTimeout is positive
    slots,    \* tokens in the limiter's semaphore channel
    copied,   \* requestID passed on a copy of the request object
    matched,  \* the mux found a route
    noted,    \* status in responseWriter and statusWriter, 0 before the first
    wire,     \* status net/http has sent, 0 before the first
    logged,   \* status and route of the access log entry
    mu,       \* registry.mu
    item,     \* the count observe has read
    data      \* registry.data: requests counted under each label

limiterVars == <<queueing, slots>>
responseVars == <<noted, wire>>
registryVars == <<mu, item, data>>
vars == <<at, limiterVars, copied, matched, responseVars, logged, registryVars>>

Nothing == [status |-> 0, route |-> "unmatched"]

InHandler == {q \in Request : at[q] = "handler"}

-----------------------------------------------------------------------------
(* Conditions and values the middleware computes *)

SlotFree == slots < Maximum

\* Slip: the queue has no timer.
MayRefuseUnqueued == ~queueing /\ ~SlotFree

\* With a queue the timer may win whatever the semaphore; without one the
\* default branch runs only when no token fits.
MayRefuse == queueing \/ ~SlotFree

\* Slip: the token is taken back after next.ServeHTTP, not in a defer.
TakeTokenUnlessPanic(panicking) == slots' = IF panicking THEN slots ELSE slots - 1

\* The deferred receive from the semaphore.
TakeToken(panicking) == slots' = slots - 1

\* Slip: the last status counts.
NoteLast(q, s) == noted' = [noted EXCEPT ![q] = s]

\* WriteHeader of responseWriter and statusWriter, which see the same calls.
Note(q, s) == noted' = [noted EXCEPT ![q] = IF @ = 0 THEN s ELSE @]

\* WriteHeader through both wrappers down to net/http.
WriteHeader(q, s) ==
    /\ Note(q, s)
    /\ wire' = [wire EXCEPT ![q] = IF @ = 0 /\ s \notin Informational THEN s ELSE @]

RecordedStatus(q) == IF noted[q] = 0 THEN 200 ELSE noted[q]

\* r.Pattern, read from the object the mux was given.
InnerRoute(q) == IF matched[q] THEN "pattern" ELSE "unmatched"

\* r.Pattern, read from the object metrics.Middleware was given.
OuterRoute(q) == IF copied[q] THEN "unmatched" ELSE InnerRoute(q)

MetricLabel(q) == <<RecordedStatus(q), OuterRoute(q)>>

\* Slip: observe without the mutex.
RegistryAlwaysFree == TRUE

RegistryFree == mu = NoRequest

Unlock == mu' = NoRequest

-----------------------------------------------------------------------------

Init ==
    /\ at = [q \in Request |-> "new"]
    /\ queueing \in BOOLEAN
    /\ slots = 0
    /\ copied = [q \in Request |-> FALSE]
    /\ matched = [q \in Request |-> FALSE]
    /\ noted = [q \in Request |-> 0]
    /\ wire = [q \in Request |-> 0]
    /\ logged = [q \in Request |-> Nothing]
    /\ mu = NoRequest
    /\ item = [q \in Request |-> 0]
    /\ data = [l \in Label |-> 0]

\* Down to the limiter.  requestID copies the request to attach its identity;
\* without one (no valid header, no randomness) it passes the object on.
Arrive(q, identified) ==
    /\ at[q] = "new"
    /\ at' = [at EXCEPT ![q] = "limit"]
    /\ copied' = [copied EXCEPT ![q] = identified]
    /\ UNCHANGED <<limiterVars, matched, responseVars, logged, registryVars>>

\* The semaphore accepts a token; the mux picks a route, or none.
Admit(q, found) ==
    /\ at[q] = "limit"
    /\ SlotFree
    /\ slots' = slots + 1
    /\ at' = [at EXCEPT ![q] = "handler"]
    /\ matched' = [matched EXCEPT ![q] = found]
    /\ UNCHANGED <<queueing, copied, responseVars, logged, registryVars>>

\* unavailable: queue expiry, or no queue and no token.
Refuse(q) ==
    /\ at[q] = "limit"
    /\ MayRefuse
    /\ at' = [at EXCEPT ![q] = "leave"]
    /\ WriteHeader(q, 503)
    /\ UNCHANGED <<limiterVars, copied, matched, logged, registryVars>>

\* The client goes away while its request is queued.
Abandon(q) ==
    /\ at[q] = "limit"
    /\ queueing
    /\ at' = [at EXCEPT ![q] = "leave"]
    /\ UNCHANGED <<limiterVars, copied, matched, responseVars, logged, registryVars>>

\* The handler calls WriteHeader, or Write, which implies a 200.
Respond(q, s) ==
    /\ at[q] = "handler"
    /\ WriteHeader(q, s)
    /\ UNCHANGED <<at, limiterVars, copied, matched, logged, registryVars>>

Return(q) ==
    /\ at[q] = "handler"
    /\ TakeToken(FALSE)
    /\ at' = [at EXCEPT ![q] = "leave"]
    /\ UNCHANGED <<queueing, copied, matched, responseVars, logged, registryVars>>

\* The handler panics; the token is taken back, recoverer writes a 500.
Panic(q) ==
    /\ at[q] = "handler"
    /\ TakeToken(TRUE)
    /\ at' = [at EXCEPT ![q] = "leave"]
    /\ WriteHeader(q, 500)
    /\ UNCHANGED <<queueing, copied, matched, logged, registryVars>>

\* accessLog writes its entry.
Log(q) ==
    /\ at[q] = "leave"
    /\ at' = [at EXCEPT ![q] = "observe"]
    /\ logged' = [logged EXCEPT ![q] = [status |-> RecordedStatus(q), route |-> InnerRoute(q)]]
    /\ UNCHANGED <<limiterVars, copied, matched, responseVars, registryVars>>

\* observe locks the registry and reads the count.
ObserveRead(q) ==
    /\ at[q] = "observe"
    /\ RegistryFree
    /\ mu' = q
    /\ item' = [item EXCEPT ![q] = data[MetricLabel(q)]]
    /\ at' = [at EXCEPT ![q] = "count"]
    /\ UNCHANGED <<limiterVars, copied, matched, responseVars, logged, data>>

\* observe writes the count and unlocks; net/http completes the response.
ObserveWrite(q) ==
    /\ at[q] = "count"
    /\ data' = [data EXCEPT ![MetricLabel(q)] = item[q] + 1]
    /\ Unlock
    /\ at' = [at EXCEPT ![q] = "done"]
    /\ wire' = [wire EXCEPT ![q] = IF @ = 0 THEN 200 ELSE @]
    /\ UNCHANGED <<limiterVars, copied, matched, noted, logged, item>>

\* The select of the limiter.
Limit(q) == (\E found \in BOOLEAN : Admit(q, found)) \/ Refuse(q)

\* What the middleware does with a request by itself, once it has arrived.
Middleware(q) ==
    \/ Limit(q)
    \/ Log(q)
    \/ ObserveRead(q)
    \/ ObserveWrite(q)

Handler(q) ==
    \/ \E s \in HandlerStatus \cup {200} : Respond(q, s)
    \/ Return(q)
    \/ Panic(q)

Finished == (\A q \in Request : at[q] = "done") /\ UNCHANGED vars

Next ==
    \/ \E q \in Request :
          \/ \E identified \in BOOLEAN : Arrive(q, identified)
          \/ Middleware(q)
          \/ Abandon(q)
          \/ Handler(q)
    \/ Finished

Spec == Init /\ [][Next]_vars

\* The limiter goes on: its timer fires.  Handlers may hang and clients stay.
Fairness == \A q \in Request : WF_vars(Limit(q))

FairSpec == Spec /\ Fairness

-----------------------------------------------------------------------------
(* Properties *)

Counted(l) == {q \in Request : at[q] = "done" /\ MetricLabel(q) = l}

\* Every variable has its type.
TypeOK ==
    /\ at \in [Request -> {"new", "limit", "handler", "leave", "observe", "count", "done"}]
    /\ queueing \in BOOLEAN
    /\ slots \in 0..Maximum
    /\ copied \in [Request -> BOOLEAN]
    /\ matched \in [Request -> BOOLEAN]
    /\ noted \in [Request -> Status \cup {0}]
    /\ wire \in [Request -> Status \cup {0}]
    /\ logged \in [Request -> [status : Status \cup {0}, route : Route]]
    /\ mu \in Request \cup {NoRequest}
    /\ item \in [Request -> Nat]
    /\ data \in [Label -> Nat]

\* The semaphore holds one token for every request inside a handler, whether
\* earlier ones returned or panicked: no slot leaks, and at most Maximum
\* handlers run at once.
TokensMatchHandlers ==
    /\ IsFiniteSet(InHandler)
    /\ slots = Cardinality(InHandler)
    /\ Cardinality(InHandler) <= Maximum

\* Requests that finish together lose no count: each label counts the
\* finished requests that carry it, refused, abandoned and panicked included.
CountsExact == \A l \in Label : IsFiniteSet(Counted(l)) /\ data[l] = Cardinality(Counted(l))

\* The access log and the metrics record the status the client was sent.
FinalStatusRecorded == \A q \in Request : at[q] = "done" => logged[q].status = wire[q]

\* Metrics label a request with the route that served it.
RouteRecorded == \A q \in Request : at[q] = "done" => MetricLabel(q)[2] = logged[q].route

\* The access log and the metrics disagree about the route exactly for the
\* requests that requestID gave an identity and the mux a route.
RouteLostByCopy ==
    \A q \in Request :
        at[q] = "done" => (MetricLabel(q)[2] # logged[q].route <=> copied[q] /\ matched[q])

\* Whatever handlers send, a status is recorded wrongly only if the first one
\* was informational, and then the informational one is recorded.
OnlyInformationalWrong ==
    \A q \in Request :
        at[q] = "done" => logged[q].status = wire[q] \/ logged[q].status \in Informational

\* Without a queue a request is refused only while Maximum handlers run.
RefusedOnlyWhenFull ==
    [][\A q \in Request :
          ~queueing /\ at[q] = "limit" /\ wire'[q] = 503 => Cardinality(InHandler) = Maximum]_vars

\* No request waits for ever at the limiter, even if no handler ever returns.
QueueEnds == \A q \in Request : at[q] = "limit" ~> at[q] # "limit"

-----------------------------------------------------------------------------
(* The inductive invariant *)

\* The registry is locked exactly by the request between observe's two steps,
\* and what that request has read is current.
LockInv ==
    \A q \in Request :
        /\ at[q] = "count" <=> mu = q
        /\ at[q] = "count" => item[q] = data[MetricLabel(q)]

\* Nothing is written behind the access log's back.
LogInv ==
    \A q \in Request :
        at[q] \in {"observe", "count", "done"} =>
            logged[q] = [status |-> RecordedStatus(q), route |-> InnerRoute(q)]

\* Nothing is written before the limiter has decided.
FreshInv == \A q \in Request : at[q] \in {"new", "limit"} => noted[q] = 0 /\ wire[q] = 0

\* Unless the first status was informational, what was noted is what was sent.
StatusInv ==
    \A q \in Request :
        noted[q] \notin Informational =>
            wire[q] = IF at[q] = "done" THEN RecordedStatus(q) ELSE noted[q]

\* The strengthening of the safety properties that every step preserves.
IInv ==
    /\ TypeOK
    /\ TokensMatchHandlers
    /\ LockInv
    /\ LogInv
    /\ FreshInv
    /\ CountsExact
=============================================================================

---------------------------- MODULE AppLifecycle ----------------------------
(***************************************************************************)
(* App.Run and serve (core/app/app.go): listen, serve until the context is *)
(* cancelled or Serve fails, shut down, close the owned resources.         *)
(*                                                                         *)
(* net/http.Server and pgxpool are external and modelled from how Run uses *)
(* them: Serve closes its listener when it returns, but not the            *)
(* connections it has accepted, which bring requests until Shutdown has    *)
(* drained them or Close has dropped them; Shutdown closes the listener    *)
(* and waits until Serve has returned and no request is active, or its     *)
(* context ends; Close drops the connections but not the handlers that run *)
(* on them; closing a resource refuses new users and waits for the         *)
(* handlers that are using it.                                             *)
(***************************************************************************)
EXTENDS Naturals

CONSTANTS
    Request,        \* requests that may arrive
    ResourceCount   \* most resources the application registers with Use

ASSUME AppAssumption == ResourceCount \in Nat

Resource == 1..ResourceCount

VARIABLES
    run,         \* where Run is
    result,      \* what Run will return
    ctxDone,     \* the run context is cancelled
    listening,   \* the listener accepts connections
    serving,     \* the goroutine inside server.Serve
    errorsCh,    \* what Serve returned, while it is in the channel
    inShutdown,  \* server.Shutdown was called
    forced,      \* server.Close dropped the remaining connections
    request,     \* what has become of each request
    using,       \* resources each request's handler has acquired
    resource     \* state of each resource, "none" before Use

runVars == <<run, result>>
serverVars == <<listening, serving, errorsCh>>
stopVars == <<inShutdown, forced>>
handlerVars == <<request, using>>
vars == <<runVars, ctxDone, serverVars, stopVars, handlerVars, resource>>

Active == {q \in Request : request[q] = "active"}

Init ==
    /\ run = "start"
    /\ result = "none"
    /\ ctxDone = FALSE
    /\ listening = FALSE
    /\ serving = "no"
    /\ errorsCh = "empty"
    /\ inShutdown = FALSE
    /\ forced = FALSE
    /\ request = [q \in Request |-> "none"]
    /\ using = [q \in Request |-> {}]
    /\ resource = [r \in Resource |-> "none"]

-----------------------------------------------------------------------------
(* The caller, the clients and the handlers *)

\* Use appends a resource; resources are registered before Run.
Use(r) ==
    /\ run = "start"
    /\ resource[r] = "none"
    /\ \A s \in Resource : s < r => resource[s] # "none"
    /\ resource' = [resource EXCEPT ![r] = "open"]
    /\ UNCHANGED <<runVars, ctxDone, serverVars, stopVars, handlerVars>>

Cancel ==
    /\ ~ctxDone
    /\ ctxDone' = TRUE
    /\ UNCHANGED <<runVars, serverVars, stopVars, handlerVars, resource>>

\* A connection that Serve has accepted may still be open.
Connected == serving # "no" /\ (inShutdown => run = "shutdown")

\* The server begins to read a request from one of its connections.
Arrive(q) ==
    /\ Connected
    /\ request[q] = "none"
    /\ request' = [request EXCEPT ![q] = "active"]
    /\ UNCHANGED <<runVars, ctxDone, serverVars, stopVars, using, resource>>

\* A handler obtains a resource that is not being closed.
Acquire(q, r) ==
    /\ request[q] = "active"
    /\ resource[r] = "open"
    /\ using' = [using EXCEPT ![q] = @ \cup {r}]
    /\ UNCHANGED <<runVars, ctxDone, serverVars, stopVars, request, resource>>

\* A handler gives a resource back before it returns.
Release(q, r) ==
    /\ request[q] = "active"
    /\ r \in using[q]
    /\ using' = [using EXCEPT ![q] = @ \ {r}]
    /\ UNCHANGED <<runVars, ctxDone, serverVars, stopVars, request, resource>>

\* A handler returns; what it acquired goes back.
Finish(q) ==
    /\ request[q] = "active"
    /\ request' = [request EXCEPT ![q] = "done"]
    /\ using' = [using EXCEPT ![q] = {}]
    /\ UNCHANGED <<runVars, ctxDone, serverVars, stopVars, resource>>

-----------------------------------------------------------------------------
(* server.Serve in its goroutine *)

ServeReturns(err) ==
    /\ serving = "yes"
    /\ serving' = "returned"
    /\ listening' = FALSE
    /\ errorsCh' = err
    /\ UNCHANGED <<runVars, ctxDone, stopVars, handlerVars, resource>>

\* Accept fails for good.
ServeFails == ~inShutdown /\ ServeReturns("failed")

ServeCloses == inShutdown /\ ServeReturns("ErrServerClosed")

-----------------------------------------------------------------------------
(* Run *)

\* Run refuses a nil context before it owns anything.
NilContext ==
    /\ run = "start"
    /\ ~ctxDone
    /\ run' = "returned"
    /\ result' = "contextError"
    /\ UNCHANGED <<ctxDone, serverVars, stopVars, handlerVars, resource>>

ListenFails ==
    /\ run = "start"
    /\ run' = "release"
    /\ result' = "listenError"
    /\ UNCHANGED <<ctxDone, serverVars, stopVars, handlerVars, resource>>

ListenSucceeds ==
    /\ run = "start"
    /\ run' = "select"
    /\ listening' = TRUE
    /\ serving' = "yes"
    /\ UNCHANGED <<result, ctxDone, errorsCh, stopVars, handlerVars, resource>>

ServeResult == IF errorsCh = "ErrServerClosed" THEN "nil" ELSE "serveError"

\* The select receives Serve's error: Run goes straight to its resources.
SelectError ==
    /\ run = "select"
    /\ errorsCh # "empty"
    /\ run' = "release"
    /\ result' = ServeResult
    /\ errorsCh' = "empty"
    /\ UNCHANGED <<ctxDone, listening, serving, stopVars, handlerVars, resource>>

\* The select receives the end of the context: Shutdown begins.
SelectDone ==
    /\ run = "select"
    /\ ctxDone
    /\ run' = "shutdown"
    /\ inShutdown' = TRUE
    /\ listening' = FALSE
    /\ UNCHANGED <<result, ctxDone, serving, errorsCh, forced, handlerVars, resource>>

\* Slip: Shutdown is not given time to wait for the requests.
DrainedAlready == serving = "returned"

Drained == serving = "returned" /\ Active = {}

ShutdownDrains ==
    /\ run = "shutdown"
    /\ Drained
    /\ run' = "receive"
    /\ UNCHANGED <<result, ctxDone, serverVars, stopVars, handlerVars, resource>>

\* The shutdown timeout is over: server.Close.
ShutdownTimesOut ==
    /\ run = "shutdown"
    /\ run' = "receive"
    /\ result' = "shutdownError"
    /\ forced' = TRUE
    /\ UNCHANGED <<ctxDone, serverVars, inShutdown, handlerVars, resource>>

\* Run waits for Serve's goroutine.
ReceiveServe ==
    /\ run = "receive"
    /\ errorsCh # "empty"
    /\ run' = "release"
    /\ result' = IF result = "shutdownError" THEN result ELSE ServeResult
    /\ errorsCh' = "empty"
    /\ UNCHANGED <<ctxDone, listening, serving, stopVars, handlerVars, resource>>

Owned(r) == resource[r] \in {"open", "closing"}

\* Slip: resources are closed in the order of their registration.
NextToCloseForward(r) == Owned(r) /\ \A s \in Resource : s < r => ~Owned(s)

NextToClose(r) == Owned(r) /\ \A s \in Resource : s > r => ~Owned(s)

\* closeResources calls Close on the next resource.
CloseBegins(r) ==
    /\ run = "release"
    /\ NextToClose(r)
    /\ resource[r] = "open"
    /\ resource' = [resource EXCEPT ![r] = "closing"]
    /\ UNCHANGED <<runVars, ctxDone, serverVars, stopVars, handlerVars>>

\* Close returns when no handler uses the resource any more.
CloseReturns(r) ==
    /\ resource[r] = "closing"
    /\ \A q \in Request : r \notin using[q]
    /\ resource' = [resource EXCEPT ![r] = "closed"]
    /\ UNCHANGED <<runVars, ctxDone, serverVars, stopVars, handlerVars>>

\* The loop of closeResources is over.
Return ==
    /\ run = "release"
    /\ \A r \in Resource : ~Owned(r)
    /\ run' = "returned"
    /\ UNCHANGED <<result, ctxDone, serverVars, stopVars, handlerVars, resource>>

Run ==
    \/ NilContext \/ ListenFails \/ ListenSucceeds
    \/ SelectError \/ SelectDone
    \/ ShutdownDrains \/ ShutdownTimesOut \/ ReceiveServe
    \/ \E r \in Resource : CloseBegins(r) \/ CloseReturns(r)
    \/ Return

\* Run has returned and every handler has too.
Terminated == run = "returned" /\ Active = {} /\ UNCHANGED vars

Next ==
    \/ Cancel
    \/ \E r \in Resource : Use(r)
    \/ \E q \in Request :
          \/ Arrive(q)
          \/ Finish(q)
          \/ \E r \in Resource : Acquire(q, r) \/ Release(q, r)
    \/ ServeFails \/ ServeCloses
    \/ Run
    \/ Terminated

\* Run's goroutine and Serve's go on; handlers may take for ever.
Spec == Init /\ [][Next]_vars /\ WF_vars(Run) /\ WF_vars(ServeCloses)

-----------------------------------------------------------------------------
(* Properties *)

Released == run \in {"release", "returned"}

\* Every variable has its type.
TypeOK ==
    /\ run \in {"start", "select", "shutdown", "receive", "release", "returned"}
    /\ result \in {"none", "nil", "contextError", "listenError", "serveError", "shutdownError"}
    /\ ctxDone \in BOOLEAN
    /\ listening \in BOOLEAN
    /\ serving \in {"no", "yes", "returned"}
    /\ errorsCh \in {"empty", "failed", "ErrServerClosed"}
    /\ inShutdown \in BOOLEAN
    /\ forced \in BOOLEAN
    /\ request \in [Request -> {"none", "active", "done"}]
    /\ using \in [Request -> SUBSET Resource]
    /\ resource \in [Resource -> {"none", "open", "closing", "closed"}]

\* When Run goes on to its resources no connection is accepted any more, Serve's
\* goroutine is over and its result received, on every path; after a shutdown
\* no request is active or the remaining connections were dropped at the
\* deadline; and nil is the result only of a shutdown that dropped nothing.
ReleaseAfterServing ==
    Released =>
        /\ ~listening /\ serving # "yes" /\ errorsCh = "empty"
        /\ inShutdown => Active = {} \/ forced
        /\ result = "nil" => Active = {} /\ ~forced /\ ctxDone

\* No handler uses a closed resource, a resource is closed only after all those
\* registered after it, which may depend on it, and Run leaves none behind,
\* whether it could listen, serve or shut down in time or not.
ResourceOrder ==
    /\ \A r \in Resource :
          /\ resource[r] = "closed" => \A q \in Request : r \notin using[q]
          /\ resource[r] \in {"closing", "closed"} => \A s \in Resource : s > r => ~Owned(s)
    /\ run = "returned" /\ result # "contextError" => \A r \in Resource : ~Owned(r)

\* The documented order for every way out of serving: the listener stops, the
\* requests get until the deadline, connections are dropped, then resources
\* are released (docs/threat-models/CORE.md).
DrainBeforeRelease == Released => Active = {} \/ forced

\* The one way out of serving that does not follow that order: Serve has failed
\* by itself, and the select took its error before the end of the context.
DrainedUnlessServeFailed ==
    Released => Active = {} \/ forced \/ (result = "serveError" /\ ~inShutdown)

-----------------------------------------------------------------------------
(* The inductive invariant *)

\* What Serve's goroutine has sent is in the channel until Run receives it.
ServeInv ==
    /\ run = "start" => ~listening /\ serving = "no" /\ errorsCh = "empty"
    /\ run \in {"select", "shutdown", "receive"} =>
          /\ serving # "no"
          /\ serving = "yes" <=> errorsCh = "empty"
          /\ listening => serving = "yes" /\ run = "select"
    /\ errorsCh = "ErrServerClosed" => inShutdown

\* How far the shutdown has come, and what the result will be.
ShutdownInv ==
    /\ inShutdown => ctxDone /\ run \notin {"start", "select"}
    /\ forced => inShutdown
    /\ run \in {"start", "select", "shutdown"} => result = "none" /\ ~forced
    /\ run \in {"shutdown", "receive"} => inShutdown
    /\ run = "receive" => \/ result = "none" /\ Active = {} /\ ~forced
                          \/ result = "shutdownError" /\ forced
    /\ Released => result # "none"
    /\ result = "nil" => inShutdown

\* Handlers hold only resources that are not closed, and only while they run;
\* nothing is closed before Run goes on to its resources.
UseInv ==
    /\ \A q \in Request : \A r \in using[q] : Owned(r) /\ request[q] = "active"
    /\ ~Released => \A r \in Resource : resource[r] \in {"none", "open"}
    /\ result = "contextError" => run = "returned"

\* Requests arrive only through Serve, and each error has its cause.
CauseInv ==
    /\ serving = "no" => ~listening /\ Active = {}
    /\ result \in {"listenError", "contextError"} => serving = "no"
    /\ result = "shutdownError" => forced

\* The strengthening of the safety properties that every step preserves.
IInv == TypeOK /\ ServeInv /\ ShutdownInv /\ UseInv /\ ReleaseAfterServing /\ ResourceOrder
=============================================================================

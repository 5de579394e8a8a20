------------------------- MODULE GuardedPathProofs -------------------------
(***************************************************************************)
(* Proofs about requests for any requests, limits, policies, fetches and   *)
(* certificates.  First RequestPath on its own, with any limit and any     *)
(* statuses: cardinalities grow and shrink by one request at a time.  Then *)
(* GuardedPath: a guarded request takes only steps of RequestPath, whose   *)
(* invariants therefore hold; the guards have an invariant of their own.   *)
(***************************************************************************)
EXTENDS GuardedPath, FiniteSetTheorems, TLAPS

-----------------------------------------------------------------------------
(* The middleware chain *)

\* A finite set that gains one new element counts one more.
LEMMA OneMore ==
  ASSUME NEW S, NEW x, IsFiniteSet(S), x \notin S
  PROVE  IsFiniteSet(S \cup {x}) /\ Cardinality(S \cup {x}) = Cardinality(S) + 1
  BY FS_AddElement

\* A finite set that loses one of its elements counts one less.
LEMMA OneLess ==
  ASSUME NEW S, NEW x, IsFiniteSet(S), x \in S
  PROVE  /\ IsFiniteSet(S \ {x})
         /\ Cardinality(S) \in Nat
         /\ Cardinality(S \ {x}) = Cardinality(S) - 1
  BY FS_RemoveElement, FS_CardinalityType

\* Before the first request nothing is held, logged or counted.
LEMMA InitIInv == Init => IInv
  <1> SUFFICES ASSUME Init PROVE IInv
    OBVIOUS
  <1> USE PathAssumption DEF Init
  <1>1. TypeOK
    BY DEF TypeOK, Nothing, Route, Status
  <1>2. InHandler = {} /\ \A l \in Label : Counted(l) = {}
    BY DEF InHandler, Counted
  <1>3. IsFiniteSet({}) /\ Cardinality({}) = 0
    BY FS_EmptySet
  <1>4. TokensMatchHandlers
    BY <1>2, <1>3 DEF TokensMatchHandlers
  <1>5. CountsExact
    BY <1>2, <1>3, ZenonT(60) DEF CountsExact, Label
  <1>6. LockInv /\ LogInv /\ FreshInv
    BY DEF LockInv, LogInv, FreshInv
  <1> QED
    BY <1>1, <1>4, <1>5, <1>6 DEF IInv

\* A status a handler or the middleware writes keeps the types, and touches
\* nothing of a request that is past its handler.
LEMMA WriteHeaderType ==
  ASSUME TypeOK, NEW q \in Request, NEW s \in Status, WriteHeader(q, s)
  PROVE  /\ noted' \in [Request -> Status \cup {0}]
         /\ wire' \in [Request -> Status \cup {0}]
         /\ \A u \in Request : u # q => noted'[u] = noted[u] /\ wire'[u] = wire[u]
  BY DEF TypeOK, WriteHeader, Note

\* The labels of requests are labels of the registry.
LEMMA LabelType ==
  ASSUME TypeOK, NEW q \in Request
  PROVE  /\ RecordedStatus(q) \in Status
         /\ InnerRoute(q) \in Route
         /\ MetricLabel(q) \in Label
  BY DEF TypeOK, RecordedStatus, InnerRoute, OuterRoute, MetricLabel, Label, Route, Status

\* A request whose noted status and route are left alone is recorded as before.
LEMMA OthersKept ==
  ASSUME NEW u \in Request, noted'[u] = noted[u], copied' = copied, matched' = matched
  PROVE  /\ MetricLabel(u)' = MetricLabel(u)
         /\ RecordedStatus(u)' = RecordedStatus(u)
         /\ InnerRoute(u)' = InnerRoute(u)
  BY DEF MetricLabel, OuterRoute, InnerRoute, RecordedStatus

\* A step that completes no request, and leaves the finished ones and the
\* counts alone, keeps the counts exact.
LEMMA CountsKept ==
  ASSUME CountsExact, data' = data,
         \A q \in Request : /\ at'[q] = "done" <=> at[q] = "done"
                            /\ at[q] = "done" => MetricLabel(q)' = MetricLabel(q)
  PROVE  CountsExact'
  <1>1. \A l \in Label : Counted(l)' = Counted(l)
    BY DEF Counted
  <1>2. Label' = Label
    BY DEF Label, Status, Route
  <1> QED
    BY <1>1, <1>2 DEF CountsExact

\* A step that moves a request, but into no handler and out of none, keeps
\* the tokens in line with the handlers.
LEMMA TokensKept ==
  ASSUME TokensMatchHandlers, slots' = slots,
         \A q \in Request : at'[q] = "handler" <=> at[q] = "handler"
  PROVE  TokensMatchHandlers'
  <1>1. InHandler' = InHandler
    BY DEF InHandler
  <1> QED
    BY <1>1 DEF TokensMatchHandlers

\* A request that leaves its handler, returning or panicking, frees one slot.
LEMMA TokenTaken ==
  ASSUME TypeOK, TokensMatchHandlers, NEW q \in Request, at[q] = "handler",
         slots' = slots - 1, at' = [at EXCEPT ![q] = "leave"]
  PROVE  slots' \in 0..Maximum /\ TokensMatchHandlers'
  <1>1. InHandler' = InHandler \ {q} /\ q \in InHandler
    BY DEF InHandler, TypeOK
  <1>2. /\ IsFiniteSet(InHandler \ {q})
        /\ Cardinality(InHandler) \in Nat
        /\ Cardinality(InHandler \ {q}) = Cardinality(InHandler) - 1
    BY <1>1, OneLess DEF TokensMatchHandlers
  <1>3. Cardinality(InHandler \ {q}) \in Nat
    BY <1>2, FS_CardinalityType, ZenonT(60)
  <1> QED
    BY <1>1, <1>2, <1>3, PathAssumption DEF TokensMatchHandlers, TypeOK

\* Every step of the middleware and of a handler preserves the invariant.
LEMMA NextIInv == IInv /\ [Next]_vars => IInv'
  <1> SUFFICES ASSUME IInv, [Next]_vars PROVE IInv'
    OBVIOUS
  <1> USE PathAssumption DEF IInv
  <1>1. ASSUME NEW q \in Request, NEW identified \in BOOLEAN, Arrive(q, identified)
        PROVE  IInv'
    <2> USE <1>1 DEF Arrive, limiterVars, responseVars, registryVars
    <2>1. TypeOK'
      BY DEF TypeOK
    <2>2. TokensMatchHandlers'
      BY TokensKept DEF TypeOK
    <2>3. LockInv' /\ LogInv' /\ FreshInv'
      BY DEF TypeOK, LockInv, LogInv, FreshInv, MetricLabel, OuterRoute, InnerRoute, RecordedStatus
    <2>4. CountsExact'
      BY CountsKept DEF TypeOK, MetricLabel, OuterRoute, InnerRoute, RecordedStatus
    <2> QED
      BY <2>1, <2>2, <2>3, <2>4
  <1>2. ASSUME NEW q \in Request, NEW found \in BOOLEAN, Admit(q, found) PROVE IInv'
    <2> USE <1>2 DEF Admit, SlotFree, limiterVars, responseVars, registryVars
    <2>1. TypeOK'
      BY DEF TypeOK
    <2>2. TokensMatchHandlers'
      <3>1. InHandler' = InHandler \cup {q} /\ q \notin InHandler
        BY DEF InHandler, TypeOK
      <3>2. IsFiniteSet(InHandler \cup {q}) /\ Cardinality(InHandler \cup {q}) = slots + 1
        BY <3>1, OneMore, ZenonT(60) DEF TokensMatchHandlers
      <3> QED
        BY <3>1, <3>2 DEF TokensMatchHandlers, TypeOK
    <2>3. LockInv' /\ LogInv' /\ FreshInv'
      BY DEF TypeOK, LockInv, LogInv, FreshInv, MetricLabel, OuterRoute, InnerRoute, RecordedStatus
    <2>4. CountsExact'
      BY CountsKept DEF TypeOK, MetricLabel, OuterRoute, InnerRoute, RecordedStatus
    <2> QED
      BY <2>1, <2>2, <2>3, <2>4, ZenonT(60)
  <1>3. ASSUME NEW q \in Request, Refuse(q) PROVE IInv'
    <2> USE <1>3 DEF Refuse, limiterVars, registryVars
    <2>1. /\ noted' \in [Request -> Status \cup {0}]
          /\ wire' \in [Request -> Status \cup {0}]
          /\ \A u \in Request : u # q => noted'[u] = noted[u] /\ wire'[u] = wire[u]
      BY WriteHeaderType DEF Status
    <2>2. TypeOK'
      BY <2>1, ZenonT(60) DEF TypeOK
    <2>3. TokensMatchHandlers'
      BY TokensKept DEF TypeOK
    <2>4. LockInv' /\ LogInv' /\ FreshInv'
      <3>1. \A u \in Request : u # q => /\ MetricLabel(u)' = MetricLabel(u)
                                       /\ RecordedStatus(u)' = RecordedStatus(u)
                                       /\ InnerRoute(u)' = InnerRoute(u)
        BY <2>1, OthersKept
      <3>2. at[q] \notin {"observe", "count", "done"} /\ mu # q
        BY DEF LockInv
      <3>3. \A u \in Request : at'[u] = "count" <=> mu' = u
        BY <3>2 DEF LockInv, TypeOK
      <3>4. LockInv'
        BY <3>1, <3>2, <3>3, SMTT(60) DEF LockInv, TypeOK
      <3>5. LogInv'
        BY <3>1, <3>2 DEF LogInv, TypeOK
      <3>6. FreshInv'
        BY <2>1 DEF FreshInv, TypeOK
      <3> QED
        BY <3>4, <3>5, <3>6, ZenonT(60)
    <2>5. CountsExact'
      BY <2>1, OthersKept, CountsKept DEF TypeOK
    <2> QED
      BY <2>2, <2>3, <2>4, <2>5
  <1>4. ASSUME NEW q \in Request, Abandon(q) PROVE IInv'
    <2> USE <1>4 DEF Abandon, limiterVars, responseVars, registryVars
    <2>1. TypeOK'
      BY DEF TypeOK
    <2>2. TokensMatchHandlers'
      BY TokensKept, ZenonT(60) DEF TypeOK
    <2>3. LockInv' /\ LogInv' /\ FreshInv'
      BY DEF TypeOK, LockInv, LogInv, FreshInv, MetricLabel, OuterRoute, InnerRoute, RecordedStatus
    <2>4. CountsExact'
      BY CountsKept DEF TypeOK, MetricLabel, OuterRoute, InnerRoute, RecordedStatus
    <2> QED
      BY <2>1, <2>2, <2>3, <2>4
  <1>5. ASSUME NEW q \in Request, NEW s \in HandlerStatus \cup {200}, Respond(q, s)
        PROVE  IInv'
    <2> USE <1>5 DEF Respond, limiterVars, registryVars
    <2>1. /\ noted' \in [Request -> Status \cup {0}]
          /\ wire' \in [Request -> Status \cup {0}]
          /\ \A u \in Request : u # q => noted'[u] = noted[u] /\ wire'[u] = wire[u]
      BY WriteHeaderType DEF Status
    <2>2. TypeOK'
      BY <2>1 DEF TypeOK
    <2>3. TokensMatchHandlers'
      BY TokensKept
    <2>4. LockInv' /\ LogInv' /\ FreshInv'
      <3>1. \A u \in Request : u # q => /\ MetricLabel(u)' = MetricLabel(u)
                                       /\ RecordedStatus(u)' = RecordedStatus(u)
                                       /\ InnerRoute(u)' = InnerRoute(u)
        BY <2>1, OthersKept, SMTT(60)
      <3>2. at[q] \notin {"observe", "count", "done"} /\ mu # q
        BY DEF LockInv
      <3>3. \A u \in Request : at'[u] = "count" <=> mu' = u
        BY <3>2 DEF LockInv, TypeOK
      <3>4. LockInv'
        BY <3>1, <3>2, <3>3, SMTT(60) DEF LockInv, TypeOK
      <3>5. LogInv'
        BY <3>1, <3>2, SMTT(60) DEF LogInv, TypeOK
      <3>6. FreshInv'
        BY <2>1, SMTT(60) DEF FreshInv, TypeOK
      <3> QED
        BY <3>4, <3>5, <3>6, ZenonT(60)
    <2>5. CountsExact'
      BY <2>1, OthersKept, CountsKept, ZenonT(60) DEF TypeOK
    <2> QED
      BY <2>2, <2>3, <2>4, <2>5, ZenonT(60)
  <1>6. ASSUME NEW q \in Request, Return(q) PROVE IInv'
    <2> USE <1>6 DEF Return, TakeToken, limiterVars, responseVars, registryVars
    <2>1. slots' \in 0..Maximum /\ TokensMatchHandlers'
      BY TokenTaken, ZenonT(60)
    <2>2. TypeOK'
      BY <2>1, ZenonT(60) DEF TypeOK
    <2>3. LockInv' /\ LogInv' /\ FreshInv'
      BY SMTT(60) DEF TypeOK, LockInv, LogInv, FreshInv, MetricLabel, OuterRoute, InnerRoute,
                      RecordedStatus
    <2>4. CountsExact'
      BY CountsKept DEF TypeOK, MetricLabel, OuterRoute, InnerRoute, RecordedStatus
    <2> QED
      BY <2>1, <2>2, <2>3, <2>4, ZenonT(60)
  <1>7. ASSUME NEW q \in Request, Panic(q) PROVE IInv'
    <2> USE <1>7 DEF Panic, TakeToken, registryVars
    <2>1. /\ noted' \in [Request -> Status \cup {0}]
          /\ wire' \in [Request -> Status \cup {0}]
          /\ \A u \in Request : u # q => noted'[u] = noted[u] /\ wire'[u] = wire[u]
      BY WriteHeaderType DEF Status
    <2>2. slots' \in 0..Maximum /\ TokensMatchHandlers'
      BY TokenTaken, ZenonT(60)
    <2>3. TypeOK'
      BY <2>1, <2>2, ZenonT(60) DEF TypeOK
    <2>4. LockInv' /\ LogInv' /\ FreshInv'
      <3>1. \A u \in Request : u # q => /\ MetricLabel(u)' = MetricLabel(u)
                                       /\ RecordedStatus(u)' = RecordedStatus(u)
                                       /\ InnerRoute(u)' = InnerRoute(u)
        BY <2>1, OthersKept, ZenonT(60)
      <3>2. at[q] \notin {"observe", "count", "done"} /\ mu # q
        BY ZenonT(60) DEF LockInv
      <3>3. \A u \in Request : at'[u] = "count" <=> mu' = u
        BY <3>2, ZenonT(60) DEF LockInv, TypeOK
      <3>4. LockInv'
        BY <3>1, <3>2, <3>3, SMTT(60) DEF LockInv, TypeOK
      <3>5. LogInv'
        BY <3>1, <3>2 DEF LogInv, TypeOK
      <3>6. FreshInv'
        BY <2>1 DEF FreshInv, TypeOK
      <3> QED
        BY <3>4, <3>5, <3>6, ZenonT(60)
    <2>5. CountsExact'
      BY <2>1, OthersKept, CountsKept, ZenonT(60) DEF TypeOK
    <2> QED
      BY <2>2, <2>3, <2>4, <2>5, ZenonT(60)
  <1>8. ASSUME NEW q \in Request, Log(q) PROVE IInv'
    <2> USE <1>8 DEF Log, limiterVars, responseVars, registryVars
    <2>1. RecordedStatus(q) \in Status /\ InnerRoute(q) \in Route
      BY LabelType
    <2>2. TypeOK'
      BY <2>1, ZenonT(60) DEF TypeOK
    <2>3. TokensMatchHandlers'
      BY TokensKept, ZenonT(60) DEF TypeOK
    <2>4. LockInv'
      BY SMTT(60) DEF TypeOK, LockInv, MetricLabel, OuterRoute, InnerRoute, RecordedStatus
    <2>5. LogInv' /\ FreshInv'
      BY SMTT(60) DEF TypeOK, LogInv, FreshInv, InnerRoute, RecordedStatus
    <2>6. CountsExact'
      BY CountsKept DEF TypeOK, MetricLabel, OuterRoute, InnerRoute, RecordedStatus
    <2> QED
      BY <2>2, <2>3, <2>4, <2>5, <2>6, ZenonT(60)
  <1>9. ASSUME NEW q \in Request, ObserveRead(q) PROVE IInv'
    <2> USE <1>9 DEF ObserveRead, RegistryFree, limiterVars, responseVars
    <2>1. MetricLabel(q) \in Label
      BY LabelType
    <2>2. \A u \in Request : MetricLabel(u)' = MetricLabel(u)
      BY DEF MetricLabel, OuterRoute, InnerRoute, RecordedStatus
    <2>3. TypeOK'
      BY <2>1 DEF TypeOK
    <2>4. TokensMatchHandlers'
      BY TokensKept, ZenonT(60) DEF TypeOK
    <2>5. LockInv'
      BY <2>2, ZenonT(60) DEF TypeOK, LockInv
    <2>6. LogInv' /\ FreshInv'
      BY DEF TypeOK, LogInv, FreshInv, InnerRoute, RecordedStatus
    <2>7. CountsExact'
      BY <2>2, CountsKept, ZenonT(60) DEF TypeOK
    <2> QED
      BY <2>3, <2>4, <2>5, <2>6, <2>7
  <1>10. ASSUME NEW q \in Request, ObserveWrite(q) PROVE IInv'
    <2> DEFINE k == MetricLabel(q)
    <2> USE <1>10 DEF ObserveWrite, Unlock, limiterVars
    <2>1. k \in Label /\ mu = q /\ item[q] = data[k]
      BY LabelType DEF LockInv
    <2>2. \A u \in Request : MetricLabel(u)' = MetricLabel(u)
      BY DEF MetricLabel, OuterRoute, InnerRoute, RecordedStatus
    <2>3. TypeOK'
      <3>1. 200 \in Status
        BY DEF Status
      <3> QED
        BY <2>1, <3>1, SMTT(60) DEF TypeOK
    <2>4. TokensMatchHandlers'
      BY TokensKept DEF TypeOK
    <2>5. LockInv'
      BY <2>1, <2>2, ZenonT(60) DEF TypeOK, LockInv
    <2>6. LogInv' /\ FreshInv'
      BY SMTT(60) DEF TypeOK, LogInv, FreshInv, InnerRoute, RecordedStatus
    <2>7. CountsExact'
      <3>1. Label' = Label
        BY ZenonT(60) DEF Label, Status, Route
      <3>2. ASSUME NEW l \in Label
            PROVE  IsFiniteSet(Counted(l)') /\ data'[l] = Cardinality(Counted(l)')
        <4>1. CASE l = k
          <5>1. Counted(l)' = Counted(l) \cup {q} /\ q \notin Counted(l)
            BY <2>2, <4>1, SMTT(60) DEF Counted, TypeOK
          <5>2. /\ IsFiniteSet(Counted(l) \cup {q})
                /\ Cardinality(Counted(l) \cup {q}) = data[l] + 1
            BY <5>1, OneMore DEF CountsExact
          <5> QED
            BY <5>1, <5>2, <4>1, <2>1, ZenonT(60) DEF TypeOK
        <4>2. CASE l # k
          <5>1. Counted(l)' = Counted(l)
            BY <2>2, <4>2 DEF Counted, TypeOK
          <5> QED
            BY <5>1, <4>2, <2>1, ZenonT(60) DEF CountsExact, TypeOK
        <4> QED
          BY <4>1, <4>2
      <3> QED
        BY <3>1, <3>2, ZenonT(60) DEF CountsExact
    <2> QED
      BY <2>3, <2>4, <2>5, <2>6, <2>7, ZenonT(60)
  <1>11. CASE UNCHANGED vars
    <2> USE <1>11 DEF vars, limiterVars, responseVars, registryVars
    <2>1. TypeOK' /\ LockInv' /\ LogInv' /\ FreshInv'
      <3>1. TypeOK'
        BY DEF TypeOK, Label, Status, Route
      <3>2. LockInv'
        BY DEF LockInv, MetricLabel, OuterRoute, InnerRoute, RecordedStatus
      <3>3. LogInv' /\ FreshInv'
        BY DEF LogInv, FreshInv, InnerRoute, RecordedStatus
      <3> QED
        BY <3>1, <3>2, <3>3, ZenonT(60)
    <2>2. TokensMatchHandlers'
      BY TokensKept
    <2>3. CountsExact'
      BY CountsKept DEF MetricLabel, OuterRoute, InnerRoute, RecordedStatus
    <2> QED
      BY <2>1, <2>2, <2>3, ZenonT(60)
  <1> QED
    BY <1>1, <1>2, <1>3, <1>4, <1>5, <1>6, <1>7, <1>8, <1>9, <1>10, <1>11, ZenonT(60)
       DEF Next, Middleware, Limit, Handler, Finished

\* The inductive invariant holds in every reachable state.
THEOREM Invariance == Spec => []IInv
  BY InitIInv, NextIInv, PTL DEF Spec

\* LimitConcurrency bounds the running handlers and never loses a slot.
THEOREM LimitHolds == Spec => []TokensMatchHandlers
  <1>1. IInv => TokensMatchHandlers
    BY DEF IInv
  <1> QED
    BY <1>1, Invariance, PTL

\* The registry's counts are exact however requests finish together.
THEOREM MetricsExact == Spec => []CountsExact
  <1>1. IInv => CountsExact
    BY DEF IInv
  <1> QED
    BY <1>1, Invariance, PTL

\* Without a queue the limiter refuses only when every slot is taken.
THEOREM RefusalMeansFull == Spec => RefusedOnlyWhenFull
  <1> DEFINE Refusal == \A q \in Request :
                           ~queueing /\ at[q] = "limit" /\ wire'[q] = 503
                               => Cardinality(InHandler) = Maximum
  <1>1. IInv /\ [Next]_vars => [Refusal]_vars
    <2> SUFFICES ASSUME IInv, Next, NEW q \in Request,
                        ~queueing, at[q] = "limit", wire'[q] = 503
                 PROVE  Cardinality(InHandler) = Maximum
      BY DEF vars
    <2>1. wire[q] = 0
      BY DEF IInv, FreshInv
    <2>2. Refuse(q)
      <3>1. ASSUME NEW u \in Request, u # q, NEW s \in Status, WriteHeader(u, s)
            PROVE  wire'[q] = wire[q]
        BY <3>1, WriteHeaderType DEF IInv
      <3>2. PICK u \in Request :
               \/ \E identified \in BOOLEAN : Arrive(u, identified)
               \/ Middleware(u) \/ Abandon(u) \/ Handler(u)
        BY SMTT(60) DEF Next, Finished
      <3>3. CASE u = q
        <4>1. CASE \E found \in BOOLEAN : Admit(u, found)
          BY <4>1, <2>1 DEF Admit, responseVars
        <4>2. CASE Abandon(u)
          BY <4>2, <2>1 DEF Abandon, responseVars
        <4> QED
          BY <3>2, <3>3, <4>1, <4>2, ZenonT(60)
             DEF Middleware, Limit, Handler, Arrive, Log, ObserveRead,
                                        ObserveWrite, Respond, Return, Panic
      <3>4. CASE u # q
        <4>1. 503 \in Status /\ 500 \in Status /\ HandlerStatus \cup {200} \subseteq Status
          BY DEF Status
        <4>2. CASE Refuse(u) \/ Panic(u) \/ \E s \in HandlerStatus \cup {200} : Respond(u, s)
          <5>1. \E s \in Status : WriteHeader(u, s)
            <6>1. CASE Refuse(u)
              BY <4>1, <6>1 DEF Refuse
            <6>2. CASE Panic(u)
              BY <4>1, <6>2 DEF Panic
            <6>3. ASSUME NEW s \in HandlerStatus \cup {200}, Respond(u, s)
                  PROVE  \E z \in Status : WriteHeader(u, z)
              <7>1. s \in Status /\ WriteHeader(u, s)
                BY <4>1, <6>3, SMTT(60) DEF Respond
              <7> QED
                BY <7>1
            <6> QED
              BY <4>2, <6>1, <6>2, <6>3
          <5>2. wire'[q] = wire[q]
            BY <5>1, <3>1, <3>4, SMTT(60)
          <5> QED
            BY <5>2, <2>1, SMTT(60)
        <4>3. CASE ObserveWrite(u)
          BY <4>3, <3>4, <2>1, SMTT(60) DEF ObserveWrite, IInv, TypeOK
        <4>4. CASE \/ \E identified \in BOOLEAN : Arrive(u, identified)
                   \/ \E found \in BOOLEAN : Admit(u, found)
                   \/ Abandon(u) \/ Return(u) \/ Log(u) \/ ObserveRead(u)
          <5>1. wire' = wire
            BY <4>4, ZenonT(60)
               DEF Arrive, Admit, Abandon, Return, Log, ObserveRead, responseVars
          <5> QED
            BY <5>1, <2>1, SMTT(60)
        <4> QED
          BY <3>2, <4>2, <4>3, <4>4, ZenonT(60) DEF Middleware, Limit, Handler
      <3> QED
        BY <3>3, <3>4
    <2>3. slots \in 0..Maximum /\ slots = Cardinality(InHandler)
      BY ZenonT(60) DEF IInv, TypeOK, TokensMatchHandlers
    <2>4. ~(slots < Maximum)
      BY <2>2 DEF Refuse, MayRefuse, SlotFree
    <2> QED
      BY <2>3, <2>4, PathAssumption
  <1> QED
    BY <1>1, Invariance, PTL DEF Spec, RefusedOnlyWhenFull

\* Whatever handlers send, only a response that starts with an informational
\* status is logged and counted under a status that is not the one sent.
THEOREM StatusWrongOnlyInformational == Spec => []OnlyInformationalWrong
  <1>0. 0 \notin Informational
    BY DEF Informational
  <1>1. Init => StatusInv
    BY ZenonT(60) DEF Init, StatusInv
  <1>2. IInv /\ StatusInv /\ [Next]_vars => StatusInv'
    <2> SUFFICES ASSUME IInv, StatusInv, [Next]_vars PROVE StatusInv'
      BY ZenonT(60)
    <2> USE DEF IInv, TypeOK
    <2>1. ASSUME NEW q \in Request, NEW s \in HandlerStatus \cup {200, 500, 503},
                 WriteHeader(q, s), at[q] # "done", at'[q] # "done",
                 \A u \in Request : u # q => at'[u] = at[u]
          PROVE  StatusInv'
      <3>1. noted[q] \notin Informational => wire[q] = noted[q]
        BY <2>1 DEF StatusInv
      <3>2. noted'[q] \notin Informational => wire'[q] = noted'[q]
        BY <1>0, <2>1, <3>1, SMTT(60) DEF WriteHeader, Note
      <3>3. \A u \in Request : u # q => noted'[u] = noted[u] /\ wire'[u] = wire[u]
        BY <2>1, SMTT(60) DEF WriteHeader, Note
      <3> QED
        BY <2>1, <3>2, <3>3, SMTT(60) DEF StatusInv, RecordedStatus
    <2>2. ASSUME NEW q \in Request, Refuse(q) PROVE StatusInv'
      BY <2>1, <2>2, SMTT(60) DEF Refuse
    <2>3. ASSUME NEW q \in Request, Panic(q) PROVE StatusInv'
      BY <2>1, <2>3, SMTT(60) DEF Panic
    <2>4. ASSUME NEW q \in Request, NEW s \in HandlerStatus \cup {200}, Respond(q, s)
          PROVE  StatusInv'
      BY <2>1, <2>4, SMTT(60) DEF Respond
    <2>5. ASSUME NEW q \in Request, ObserveWrite(q) PROVE StatusInv'
      BY <2>5 DEF ObserveWrite, StatusInv, RecordedStatus
    <2>6. ASSUME NEW q \in Request,
                 \/ \E identified \in BOOLEAN : Arrive(q, identified)
                 \/ \E found \in BOOLEAN : Admit(q, found)
                 \/ Abandon(q) \/ Return(q) \/ Log(q) \/ ObserveRead(q)
          PROVE  StatusInv'
      <3>1. UNCHANGED responseVars
        BY <2>6, ZenonT(60) DEF Arrive, Admit, Abandon, Return, Log, ObserveRead
      <3>2. \A u \in Request : at'[u] = "done" <=> at[u] = "done"
        BY <2>6, ZenonT(60) DEF Arrive, Admit, Abandon, Return, Log, ObserveRead
      <3> QED
        BY <3>1, <3>2, ZenonT(60) DEF responseVars, StatusInv, RecordedStatus
    <2>7. CASE UNCHANGED vars
      BY <2>7, ZenonT(60) DEF vars, responseVars, StatusInv, RecordedStatus
    <2> QED
      BY <2>2, <2>3, <2>4, <2>5, <2>6, <2>7, ZenonT(60) DEF Next, Middleware, Limit, Handler, Finished
  <1>3. IInv /\ StatusInv => OnlyInformationalWrong
    <2> SUFFICES ASSUME LogInv, StatusInv, NEW q \in Request, at[q] = "done"
                 PROVE  logged[q].status = wire[q] \/ logged[q].status \in Informational
      BY ZenonT(60) DEF IInv, OnlyInformationalWrong
    <2>1. logged[q] = [status |-> RecordedStatus(q), route |-> InnerRoute(q)]
      BY DEF LogInv
    <2>2. noted[q] \in Informational => RecordedStatus(q) \in Informational
      BY <1>0 DEF RecordedStatus
    <2> QED
      BY <2>1, <2>2, SMTT(60) DEF StatusInv
  <1> QED
    BY <1>1, <1>2, <1>3, Invariance, PTL DEF Spec

\* If handlers send no informational status, the access log and the metrics
\* record the status each client was sent.
THEOREM StatusFinal ==
  HandlerStatus \cap Informational = {} => (Spec => []FinalStatusRecorded)
  <1> SUFFICES ASSUME HandlerStatus \cap Informational = {}
               PROVE  Spec => []FinalStatusRecorded
    OBVIOUS
  <1>1. IInv /\ OnlyInformationalWrong => FinalStatusRecorded
    <2> SUFFICES ASSUME TypeOK, OnlyInformationalWrong, NEW q \in Request, at[q] = "done"
                 PROVE  logged[q].status = wire[q]
      BY ZenonT(60) DEF IInv, FinalStatusRecorded
    <2>1. logged[q].status \in HandlerStatus \cup {0, 200, 500, 503}
      BY DEF TypeOK, Status
    <2>2. logged[q].status \notin Informational
      BY <2>1 DEF Informational
    <2> QED
      BY <2>2 DEF OnlyInformationalWrong
  <1> QED
    BY <1>1, StatusWrongOnlyInformational, Invariance, PTL

\* The route is lost to the metrics exactly where requestID copies a request
\* that the mux then matches.
THEOREM RouteLost == Spec => []RouteLostByCopy
  <1>1. IInv => RouteLostByCopy
    <2> SUFFICES ASSUME IInv, NEW q \in Request, at[q] = "done"
                 PROVE  MetricLabel(q)[2] # logged[q].route <=> copied[q] /\ matched[q]
      BY ZenonT(60) DEF RouteLostByCopy
    <2>1. logged[q].route = InnerRoute(q)
      <3>1. logged[q] = [status |-> RecordedStatus(q), route |-> InnerRoute(q)]
        BY Zenon DEF IInv, LogInv
      <3> QED
        BY <3>1
    <2>2. MetricLabel(q)[2] = OuterRoute(q)
      BY DEF MetricLabel
    <2>3. copied[q] \in BOOLEAN /\ matched[q] \in BOOLEAN
      BY DEF IInv, TypeOK
    <2> QED
      BY <2>1, <2>2, <2>3 DEF OuterRoute, InnerRoute
  <1> QED
    BY <1>1, Invariance, PTL

-----------------------------------------------------------------------------
(* Guarded requests are requests *)

\* A guard lets a request pass or answers with a status of a handler.
LEMMA GuardImplements ==
    ASSUME NEW q \in Request, Guard(q)
    PROVE  UNCHANGED vars \/ \E s \in HandlerStatus \cup {200} : Respond(q, s)
  <1>1. Decide(q, 0) \/ Decide(q, 204) \/ Decide(q, 401) \/ Decide(q, 403)
    <2>1. CASE Cors(q)
      <3>1. CorsStatus(policy, HttpRequest(visit[q])) \in {0, 204, 403}
        BY DEF CorsStatus
      <3>2. Decide(q, CorsStatus(policy, HttpRequest(visit[q])))
        BY <2>1, ZenonT(60) DEF Cors
      <3> QED
        BY <3>1, <3>2, SMTT(60)
    <2>2. CASE Bearer(q) \/ Peer(q) \/ Issued(q)
      BY <2>2 DEF Bearer, Peer, Issued
    <2> QED
      BY <2>1, <2>2 DEF Guard
  <1>2. /\ Decide(q, 0) => UNCHANGED vars
        /\ \A s \in {204, 401, 403} : Decide(q, s) => Respond(q, s)
    BY DEF Decide
  <1>3. {204, 401, 403} \subseteq HandlerStatus
    BY GuardAssumption
  <1>4. \A s \in {204, 401, 403} : s \in HandlerStatus \cup {200}
    BY <1>3
  <1>5. CASE Decide(q, 0)
    BY <1>2, <1>5
  <1>6. ASSUME NEW s \in {204, 401, 403}, Decide(q, s)
        PROVE  \E t \in HandlerStatus \cup {200} : Respond(q, t)
    <2>1. Respond(q, s)
      BY <1>2, <1>6
    <2> s \in HandlerStatus \cup {200}
      BY <1>4
    <2> WITNESS s \in HandlerStatus \cup {200}
    <2> QED
      BY <2>1
  <1> QED
    BY <1>1, <1>5, <1>6

\* Every step is a step of RequestPath, or none of its variables changes.
LEMMA GuardedStepImplements == [GuardedNext]_gvars => [Next]_vars
  <1> SUFFICES ASSUME [GuardedNext]_gvars PROVE Next \/ UNCHANGED vars
    OBVIOUS
  <1>1. ASSUME NEW q \in Request,
               Around(Arrive(q, TRUE)) \/ Enter(q)
               \/ Around(Refuse(q) \/ Abandon(q) \/ Log(q) \/ ObserveRead(q) \/ ObserveWrite(q))
        PROVE  Next
    <2>1. CASE Around(Arrive(q, TRUE))
      BY <2>1, ZenonT(60) DEF Around, Next
    <2>2. CASE Enter(q)
      BY <2>2 DEF Enter, Limit, Middleware, Next
    <2>3. CASE Around(Refuse(q) \/ Abandon(q) \/ Log(q) \/ ObserveRead(q) \/ ObserveWrite(q))
      BY <2>3 DEF Around, Limit, Middleware, Next
    <2> QED
      BY <1>1, <2>1, <2>2, <2>3, ZenonT(60)
  <1>2. ASSUME NEW q \in Request, Guard(q) \/ Scrape(q) \/ Handle(q)
        PROVE  Next \/ UNCHANGED vars
    <2>1. CASE Guard(q)
      BY <2>1, GuardImplements DEF Handler, Next
    <2>2. CASE Scrape(q)
      BY <2>2 DEF Scrape, ScrapeCopy, ScrapeTotals, ScrapeHistograms, Handler, Next
    <2>3. CASE Handle(q)
      BY <2>3 DEF Handle, Serve, Leave, Handler, Next
    <2> QED
      BY <1>2, <2>1, <2>2, <2>3, ZenonT(60)
  <1>3. ASSUME NEW pool, RegisterPostgresPool(pool) PROVE UNCHANGED vars
    BY <1>3 DEF RegisterPostgresPool
  <1>4. CASE Around(Finished) \/ UNCHANGED gvars
    BY <1>4 DEF Around, Finished, gvars
  <1> QED
    BY <1>1, <1>2, <1>3, <1>4, ZenonT(60) DEF GuardedNext

\* GuardedPath implements RequestPath: the guards keep to what a handler does.
THEOREM GuardedImplements == GuardedSpec => Spec
  <1>1. GuardedInit => Init
    BY DEF GuardedInit
  <1> QED
    BY <1>1, GuardedStepImplements, PTL DEF GuardedSpec, Spec

\* Guards and scrapes do not cost a slot either.
THEOREM GuardedLimitHolds == GuardedSpec => []TokensMatchHandlers
  BY GuardedImplements, LimitHolds, PTL

\* Refused and scraping requests are counted too, exactly.
THEOREM GuardedMetricsExact == GuardedSpec => []CountsExact
  BY GuardedImplements, MetricsExact, PTL

\* A guard refuses no request as overloaded: the limiter still does so only when
\* every slot is taken.
THEOREM GuardedRefusalMeansFull == GuardedSpec => RefusedOnlyWhenFull
  BY GuardedImplements, RefusalMeansFull, PTL

\* Behind the guards too, the log and the metrics have the status that was sent.
THEOREM GuardedStatusFinal ==
  HandlerStatus \cap Informational = {} => (GuardedSpec => []FinalStatusRecorded)
  BY GuardedImplements, StatusFinal, PTL

\* Behind the guards too, nothing but an informational status and a copied
\* request makes the log and the metrics wrong or different.
THEOREM GuardedRecordsExact == GuardedSpec => [](OnlyInformationalWrong /\ RouteLostByCopy)
  BY GuardedImplements, StatusWrongOnlyInformational, RouteLost, PTL

-----------------------------------------------------------------------------
(* What CORS and the certificates decide *)

\* A response is shared exactly with the scripts the options trust.
LEMMA SharedWithTrusted ==
    ASSUME NEW o, CorsAccepts(o), NEW f \in Fetch, NEW r, r.origin = f.origin
    PROVE  Shares(o, r, f) <=> Trusted(o, f.origin, f.credentials)
  <1>1. f.origin \notin {Empty, "*"} /\ ~("*" \in o.origins /\ o.credentials)
    BY GuardAssumption DEF CorsAccepts
  <1>2. "*" # Empty
    BY ZenonT(60) DEF Empty
  <1>3. AllowOrigin(o, r) = IF ~OriginAllowed(o, f.origin) THEN Empty
                            ELSE IF "*" \in o.origins THEN "*" ELSE f.origin
    BY <1>1 DEF AllowOrigin
  <1>4. CASE f.credentials
    BY <1>1, <1>2, <1>3, <1>4, ZenonT(60)
       DEF Shares, Trusted, AllowsCredentials, OriginAllowed
  <1>5. CASE ~f.credentials
    BY <1>1, <1>2, <1>3, <1>5, ZenonT(60) DEF Shares, Trusted, OriginAllowed
  <1> QED
    BY <1>4, <1>5

\* CORS answers a preflight with 204 if origin, method and headers are allowed.
LEMMA PreflightStatus ==
    ASSUME NEW o, NEW r, IsPreflight(r), r.origin # Empty
    PROVE  CorsStatus(o, r) = 204 <=> /\ OriginAllowed(o, r.origin)
                                      /\ ToUpper(r.asksMethod) \in AllowMethods(o)
                                      /\ r.asksHeaders \subseteq o.headers
  BY SMTT(60) DEF CorsStatus

\* A preflight is granted exactly for what the options permit.
LEMMA GrantedIsPermitted ==
    ASSUME NEW o, CorsAccepts(o), NEW f \in Fetch
    PROVE  Grants(o, f) <=> Permitted(o, f)
  <1> DEFINE r == Preflight(f)
  <1>1. /\ r.origin = f.origin /\ r.asksHeaders = f.headers /\ r.asksMethod = f.method
        /\ IsPreflight(r)
    BY GuardAssumption, ZenonT(60) DEF Preflight, IsPreflight
  <1>2. Shares(o, r, f) <=> Trusted(o, f.origin, f.credentials)
    BY <1>1, SharedWithTrusted
  <1>3. Trusted(o, f.origin, f.credentials) => OriginAllowed(o, f.origin)
    BY DEF Trusted, OriginAllowed
  <1>4. f.method \in AllowMethods(o) => ToUpper(f.method) = f.method
    BY DEF AllowMethods, ToUpper
  <1>5. f.method \in Safelisted => ToUpper(f.method) = f.method
    BY DEF Safelisted, ToUpper
  <1>6. CorsStatus(o, r) = 204 <=> /\ OriginAllowed(o, f.origin)
                                   /\ ToUpper(f.method) \in AllowMethods(o)
                                   /\ f.headers \subseteq o.headers
    <2>1. f.origin # Empty
      BY GuardAssumption
    <2>2. CorsStatus(o, r) = 204 <=> /\ OriginAllowed(o, r.origin)
                                     /\ ToUpper(r.asksMethod) \in AllowMethods(o)
                                     /\ r.asksHeaders \subseteq o.headers
      BY <1>1, <2>1, PreflightStatus, ZenonT(60)
    <2> HIDE DEF r
    <2> QED
      BY <1>1, <2>2, Zenon
  <1> QED
    BY <1>2, <1>3, <1>4, <1>5, <1>6, ZenonT(60) DEF Grants, Permitted

\* A peer that was accepted had a chain to a root, and is still in date.
LEMMA PeerTrusted ==
    ASSUME NEW v \in Peering, VerifiedPeer(v.tls, v.asks)
    PROVE  /\ Chains(v.tls.peer, Root, Intermediate, v.shaken) # {}
           /\ InDate(v.tls.peer, v.asks.now)
  <1>1. PICK leaf \in Leaf, h \in Time : v.tls \in Handshake(leaf, h) /\ v.shaken = h
    <2>1. PICK leaf \in Leaf : v \in UNION {PeeringSince(leaf, h) : h \in Time}
      BY Zenon DEF Peering
    <2>2. PICK h \in Time : v \in PeeringSince(leaf, h)
      BY <2>1, Zenon
    <2> QED
      BY <2>2 DEF PeeringSince
  <1>2. v.tls.chain # <<>> /\ v.tls.peer # NoCertificate /\ ValidLeaf(v.tls.peer, v.asks)
    BY ZenonT(60) DEF VerifiedPeer
  <1>3. \E c \in Chains(leaf, Root, Intermediate, h) : v.tls = [peer |-> leaf, chain |-> c]
    <2>1. \/ v.tls = [peer |-> NoCertificate, chain |-> <<>>]
          \/ v.tls = [peer |-> leaf, chain |-> <<>>]
          \/ \E c \in Chains(leaf, Root, Intermediate, h) : v.tls = [peer |-> leaf, chain |-> c]
      BY <1>1, Zenon DEF Handshake
    <2>2. /\ [peer |-> NoCertificate, chain |-> <<>>].chain = <<>>
          /\ [peer |-> leaf, chain |-> <<>>].chain = <<>>
      BY Zenon
    <2> QED
      BY <1>2, <2>1, <2>2, Zenon
  <1>4. v.tls.peer = leaf
    BY <1>3
  <1> QED
    BY <1>1, <1>2, <1>3, <1>4, ZenonT(60) DEF ValidLeaf, InDate

\* A chain to a root that is also the pin is a chain to the trusted pin.
LEMMA ChainToPin ==
    ASSUME NEW leaf, NEW roots, NEW now,
           NEW c \in Chains(leaf, roots, Intermediate, now)
    PROVE  c \in Chains(leaf, roots \cap {c[Len(c)]}, Intermediate, now)
  <1>1. \/ \E r \in roots : c = <<leaf, r>>
        \/ \E i \in Intermediate, r \in roots : c = <<leaf, i, r>>
        \/ \E i, j \in Intermediate, r \in roots : c = <<leaf, i, j, r>>
    BY DEF Chains
  <1>2. CASE \E r \in roots : c = <<leaf, r>>
    BY <1>2 DEF Chains
  <1>3. CASE \E i \in Intermediate, r \in roots : c = <<leaf, i, r>>
    BY <1>3 DEF Chains
  <1>4. CASE \E i, j \in Intermediate, r \in roots : c = <<leaf, i, j, r>>
    BY <1>4, SMTT(60) DEF Chains
  <1> QED
    BY <1>1, <1>2, <1>3, <1>4, ZenonT(60)

\* An issued certificate that was accepted is the handler's, and leads to a
\* trusted root, to the pinned one if there is a pin.
LEMMA IssuedTrusted ==
    ASSUME NEW v \in Issuing, VerifyIssued(v.leaf, v.asks)
    PROVE  LET o == v.asks
               trusted == IF o.pin = NoCertificate THEN o.roots ELSE o.roots \cap {o.pin}
           IN  v.leaf.key = OwnKey /\ Chains(v.leaf, trusted, Intermediate, o.now) # {}
  <1>1. v.asks.expectedKey = OwnKey /\ v.asks.intermediates = Intermediate
    BY ZenonT(60) DEF Issuing
  <1>2. /\ v.leaf.key = v.asks.expectedKey
        /\ Chains(v.leaf, v.asks.roots, Intermediate, v.asks.now) # {}
        /\ PinMatches(v.asks.pin, Chains(v.leaf, v.asks.roots, Intermediate, v.asks.now))
    BY <1>1, ZenonT(60) DEF VerifyIssued
  <1>3. CASE v.asks.pin = NoCertificate
    BY <1>1, <1>2, <1>3, ZenonT(60)
  <1>4. CASE v.asks.pin # NoCertificate
    <2>1. PICK c \in Chains(v.leaf, v.asks.roots, Intermediate, v.asks.now) : c[Len(c)] = v.asks.pin
      BY <1>2, <1>4, ZenonT(60) DEF PinMatches
    <2>2. c \in Chains(v.leaf, v.asks.roots \cap {v.asks.pin}, Intermediate, v.asks.now)
      BY <2>1, ChainToPin
    <2> QED
      BY <1>1, <1>2, <1>4, <2>2, ZenonT(60)
  <1> QED
    BY <1>3, <1>4

-----------------------------------------------------------------------------
(* The invariant of the guards *)

\* A request about its peer says so.
LEMMA PeeringKind == \A v \in Peering : v.kind = "peer"
  <1> TAKE v \in Peering
  <1>1. PICK leaf \in Leaf : v \in UNION {PeeringSince(leaf, h) : h \in Time}
    BY Zenon DEF Peering
  <1>2. PICK h \in Time : v \in PeeringSince(leaf, h)
    BY <1>1, Zenon
  <1> QED
    BY <1>2 DEF PeeringSince

\* What a request carries is what its kind says.
LEMMA CarriedByKind ==
    ASSUME NEW v \in Carried
    PROVE  /\ v.kind \in {"preflight", "fetch"} => v.fetch \in Fetch
           /\ v.kind = "peer" => v \in Peering
           /\ v.kind = "issued" => v \in Issuing
  <1>1. \A w \in Issuing : w.kind = "issued"
    BY DEF Issuing
  <1> QED
    BY <1>1, PeeringKind DEF Carried, Scraping, NoVisit, Plain

\* What is admitted may be carried, and a browser's fetch was granted.
LEMMA VisitCarried ==
    ASSUME NEW v \in Visit
    PROVE  v \in Carried /\ (v.kind = "fetch" /\ NeedsPreflight(v.fetch) => v.fetch \in granted)
  <1>1. v \in Browsing \cup Scraping \cup Peering \cup Issuing \cup {Plain}
    BY DEF Visit
  <1>2. CASE v \in Browsing
    BY <1>2, SMTT(60) DEF Browsing, Carried
  <1>3. CASE v \in Scraping \cup {Plain}
    BY <1>3 DEF Carried, Scraping, Plain
  <1>4. CASE v \in Peering \cup Issuing
    <2>1. v.kind # "fetch"
      BY <1>4, PeeringKind, ZenonT(60) DEF Issuing
    <2> QED
      BY <1>4, <2>1 DEF Carried
  <1> QED
    BY <1>1, <1>2, <1>3, <1>4

\* The process starts without visits.
LEMMA InitGuardInv == GuardedInit => GuardInv
  <1> SUFFICES ASSUME GuardedInit PROVE GuardInv
    OBVIOUS
  <1>1. GuardedTypeOK
    BY DEF GuardedInit, GuardedTypeOK, Carried, GuardState
  <1>2. CorsAccepts(policy)
    BY SMTT(60) DEF GuardedInit, policy
  <1>3. \A q \in Request : VisitInv(q)
    BY ZenonT(60)
       DEF GuardedInit, VisitInv, BrowseInv, TrustInv, ScrapeInv, ReadsInv, Kind, NoVisit
  <1> QED
    BY <1>1, <1>2, <1>3 DEF GuardInv, GuardedInit

\* A count never goes down.
LEMMA CountsGrow ==
    ASSUME IInv, [Next]_vars
    PROVE  \A l \in Label : data[l] <= data'[l]
  <1>1. data \in [Label -> Nat]
    BY DEF IInv, TypeOK
  <1>2. ASSUME NEW q \in Request, ObserveWrite(q) PROVE \A l \in Label : data[l] <= data'[l]
    <2>1. MetricLabel(q) \in Label
      BY LabelType, ZenonT(60) DEF IInv
    <2>2. item[q] = data[MetricLabel(q)]
      BY <1>2, ZenonT(60) DEF IInv, LockInv, ObserveWrite
    <2>3. data' = [data EXCEPT ![MetricLabel(q)] = item[q] + 1]
      BY <1>2 DEF ObserveWrite
    <2> HIDE DEF Label
    <2> QED
      BY <1>1, <2>1, <2>2, <2>3
  <1>3. CASE data' = data
    BY <1>1, <1>3, SMTT(60)
  <1>4. (\E q \in Request : ObserveWrite(q)) \/ data' = data
    BY ZenonT(60)
       DEF Next, vars, registryVars, Arrive, Middleware, Limit, Admit, Refuse, Log, ObserveRead,
           Abandon, Handler, Respond, Return, Panic, Finished
  <1> QED
    BY <1>2, <1>3, <1>4, ZenonT(60)

\* A request that takes no step keeps what is known of it.
LEMMA VisitKept ==
    ASSUME NEW q \in Request, VisitInv(q),
           visit'[q] = visit[q], guard'[q] = guard[q], scrape'[q] = scrape[q],
           app' = app, granted \subseteq granted', UNCHANGED poolVars,
           data \in [Label -> Nat], data' \in [Label -> Nat],
           \A l \in Label : data[l] <= data'[l]
    PROVE  VisitInv(q)'
  <1>1. BrowseInv(q)'
    BY ZenonT(60) DEF VisitInv, BrowseInv, Kind, policy
  <1>2. TrustInv(q)'
    BY ZenonT(60) DEF VisitInv, TrustInv, Kind
  <1>3. ScrapeInv(q)'
    <2> SUFFICES ASSUME Kind(q) = "scrape" PROVE ScrapeInv(q)'
      BY ZenonT(60) DEF ScrapeInv, Kind
    <2>1. Reading' = Reading /\ Label' = Label
      BY ZenonT(60) DEF Reading, Label, Status, Route, PoolRegistered
    <2>2. scrape[q] \in Reading
      BY ZenonT(60) DEF VisitInv, ScrapeInv
    <2>3. \A l \in Label : scrape[q].shot[l] \in Nat
      BY <2>2, ZenonT(60) DEF Reading
    <2>4. \A l \in Label : scrape[q].shot[l] <= data[l]
      BY ZenonT(60) DEF VisitInv, ScrapeInv
    <2>5. ASSUME NEW l \in Label PROVE scrape[q].shot[l] <= data'[l]
      <3>1. /\ scrape[q].shot[l] \in Nat /\ data[l] \in Nat /\ data'[l] \in Nat
            /\ data[l] <= data'[l]
        BY <2>3, ZenonT(60)
      <3>2. scrape[q].shot[l] <= data[l]
        BY <2>4, ZenonT(60)
      <3> QED
        BY <3>1, <3>2, SMTT(60)
    <2> QED
      BY <2>1, <2>2, <2>5, ZenonT(60) DEF VisitInv, ScrapeInv, Kind, poolVars
  <1> QED
    BY <1>1, <1>2, <1>3, ZenonT(60) DEF VisitInv, ReadsInv, Kind

\* A step of one request preserves the invariant if it does for that request.
LEMMA OneVisit ==
    ASSUME IInv, IInv', [Next]_vars, GuardInv, NEW q \in Request,
           NEW v \in Carried, visit' = [visit EXCEPT ![q] = v],
           NEW g \in GuardState, guard' = [guard EXCEPT ![q] = g],
           NEW r \in Reading \cup {NoScrape}, scrape' = [scrape EXCEPT ![q] = r],
           app' = app, UNCHANGED poolVars,
           granted \subseteq granted', granted' \subseteq {f \in Fetch : Grants(policy, f)},
           VisitInv(q)'
    PROVE  GuardInv'
  <1>1. /\ visit \in [Request -> Carried] /\ guard \in [Request -> GuardState]
        /\ scrape \in [Request -> Reading \cup {NoScrape}]
    BY DEF GuardInv, GuardedTypeOK
  <1>2. /\ visit' \in [Request -> Carried] /\ guard' \in [Request -> GuardState]
        /\ scrape' \in [Request -> Reading \cup {NoScrape}]
    BY <1>1
  <1>3. GuardedTypeOK'
    <2>1. Reading' = Reading
      BY ZenonT(60) DEF Reading, Label, Status, Route, PoolRegistered
    <2> QED
      BY <1>2, <2>1, ZenonT(60) DEF GuardInv, GuardedTypeOK, poolVars
  <1>4. ASSUME NEW u \in Request, u # q PROVE VisitInv(u)'
    <2>1. visit'[u] = visit[u] /\ guard'[u] = guard[u] /\ scrape'[u] = scrape[u]
      BY <1>1, <1>4, ZenonT(60)
    <2>2. data \in [Label -> Nat] /\ data' \in [Label -> Nat]
      BY ZenonT(60) DEF IInv, TypeOK, Label, Status, Route
    <2>3. \A l \in Label : data[l] <= data'[l]
      BY CountsGrow, ZenonT(60)
    <2>4. VisitInv(u)
      BY DEF GuardInv
    <2> QED
      BY <2>1, <2>2, <2>3, <2>4, VisitKept, ZenonT(60)
  <1>5. policy' = policy
    BY DEF policy
  <1>6. CorsAccepts(policy)' /\ granted' \subseteq {f \in Fetch : Grants(policy, f)}'
    BY <1>5, SMTT(60) DEF GuardInv
  <1> QED
    BY <1>3, <1>4, <1>6, ZenonT(60) DEF GuardInv

\* A plain request is of none of the guarded kinds.
LEMMA PlainKind == Plain.kind = "plain"
  BY DEF Plain

\* Admitting a request preserves the invariant.
LEMMA EnterKeeps ==
    ASSUME IInv, IInv', [Next]_vars, GuardInv, NEW q \in Request, Enter(q)
    PROVE  GuardInv'
  <1>1. PICK v \in Visit :
            /\ visit' = [visit EXCEPT ![q] = v]
            /\ guard' = [guard EXCEPT ![q] = IF v = Plain THEN "passed" ELSE "asked"]
            /\ scrape' = [scrape EXCEPT ![q] = IF v.kind = "scrape" THEN Begun ELSE @]
    BY ZenonT(60) DEF Enter
  <1> DEFINE g == IF v = Plain THEN "passed" ELSE "asked"
             r == IF v.kind = "scrape" THEN Begun ELSE scrape[q]
  <1>2. v \in Carried /\ (v.kind = "fetch" /\ NeedsPreflight(v.fetch) => v.fetch \in granted)
    BY VisitCarried, ZenonT(60)
  <1>3. UNCHANGED <<app, granted, poolVars>> /\ data' = data
    BY ZenonT(60) DEF Enter, Admit, registryVars
  <1>4. data \in [Label -> Nat]
    BY DEF IInv, TypeOK
  <1>5. <<passed, postgres>> \in {<<"nothing", "nil">>, <<"pool", "pool">>, <<"nil", "typedNil">>}
    BY ZenonT(60) DEF GuardInv, GuardedTypeOK
  <1>6. Begun \in Reading
    BY <1>4, <1>5, ZenonT(60) DEF Begun, Reading, PoolRegistered
  <1>7. scrape' = [scrape EXCEPT ![q] = r] /\ r \in Reading \cup {NoScrape}
    BY <1>1, <1>6 DEF GuardInv, GuardedTypeOK
  <1>8. g \in GuardState
    BY ZenonT(60) DEF GuardState
  <1>9. visit'[q] = v /\ guard'[q] = g /\ scrape'[q] = r
    BY <1>1, <1>7 DEF GuardInv, GuardedTypeOK
  <1>10. VisitInv(q)'
    <2>1. v.kind = "fetch" \/ v.kind = "preflight" \/ v.kind = "peer" \/ v.kind = "issued"
              \/ v.kind = "scrape" => g = "asked"
      BY PlainKind, ZenonT(60)
    <2>2. BrowseInv(q)'
      BY <1>2, <1>3, <1>9, <2>1, ZenonT(60) DEF BrowseInv, Kind
    <2>3. TrustInv(q)'
      BY <1>9, <2>1, ZenonT(60) DEF TrustInv, Kind
    <2>4. ScrapeInv(q)'
      <3> SUFFICES ASSUME v.kind = "scrape" PROVE ScrapeInv(q)'
        BY <1>9, ZenonT(60) DEF ScrapeInv, Kind
      <3>1. scrape'[q] = Begun /\ guard'[q] = "asked"
        BY <1>9, <2>1, ZenonT(60)
      <3>2. Reading' = Reading /\ Label' = Label
        BY ZenonT(60) DEF Reading, Label, Status, Route, PoolRegistered
      <3>3. \A l \in Label : Begun.before[l] <= Begun.shot[l] /\ Begun.shot[l] <= data[l]
        BY <1>4, SMTT(60) DEF Begun
      <3>4. /\ passed = "nothing" => Begun.passed = "nothing" /\ Begun.source # "pool"
            /\ passed = "pool" => Begun.passed # "nil" /\ (Begun.passed = "pool" => Begun.source = "pool")
            /\ Begun.passed = "nil" => Begun.source # "pool"
        BY <1>5, ZenonT(60) DEF Begun
      <3> QED
        BY <1>3, <1>6, <3>1, <3>2, <3>3, <3>4, ZenonT(60) DEF ScrapeInv, poolVars
    <2>5. ReadsInv(q)'
      BY <1>9 DEF ReadsInv
    <2> QED
      BY <2>2, <2>3, <2>4, <2>5, ZenonT(60) DEF VisitInv
  <1>11. granted \subseteq {f \in Fetch : Grants(policy, f)}
    BY SMTT(60) DEF GuardInv
  <1> HIDE DEF g, r
  <1> QED
    BY <1>1, <1>2, <1>3, <1>7, <1>8, <1>10, <1>11, OneVisit, ZenonT(60) DEF g

\* A guard's decision preserves the invariant.
LEMMA GuardKeeps ==
    ASSUME IInv, IInv', [Next]_vars, GuardInv, NEW q \in Request, Guard(q)
    PROVE  GuardInv'
  <1> DEFINE g == guard'[q]
  <1>1. /\ visit \in [Request -> Carried] /\ guard \in [Request -> GuardState]
        /\ scrape \in [Request -> Reading \cup {NoScrape}]
    BY DEF GuardInv, GuardedTypeOK
  <1>2. /\ guard[q] = "asked"
        /\ \E x \in {"passed", "answered"} : guard' = [guard EXCEPT ![q] = x]
        /\ UNCHANGED <<app, visit, poolVars, scrape>>
        /\ data' = data
    BY ZenonT(60)
       DEF Guard, Cors, Bearer, Peer, Issued, Decide, Respond, vars, registryVars
  <1>3. g \in {"passed", "answered"} /\ guard' = [guard EXCEPT ![q] = g]
    BY <1>1, <1>2
  <1>4. g \in GuardState
    BY <1>3, ZenonT(60) DEF GuardState
  <1>5. /\ visit[q] \in Carried /\ visit' = [visit EXCEPT ![q] = visit[q]]
        /\ scrape[q] \in Reading \cup {NoScrape} /\ scrape' = [scrape EXCEPT ![q] = scrape[q]]
    BY <1>1, <1>2
  <1>6. VisitInv(q)
    BY ZenonT(60) DEF GuardInv
  <1>7. granted \subseteq granted' /\ granted' \subseteq {f \in Fetch : Grants(policy, f)}
    <2>1. granted \subseteq {f \in Fetch : Grants(policy, f)}
      BY DEF GuardInv
    <2>2. Kind(q) = "preflight" => visit[q].fetch \in Fetch
      BY <1>5, CarriedByKind DEF Kind
    <2> QED
      BY <2>1, <2>2, ZenonT(60) DEF Guard, Cors, Bearer, Peer, Issued
  <1>8. BrowseInv(q)'
    <2>1. CASE Kind(q) = "fetch"
      <3>1. CorsStatus(policy, HttpRequest(visit[q])) = 0
        BY <2>1, ZenonT(60) DEF CorsStatus, HttpRequest, Actual, IsPreflight, Kind
      <3>2. g = "passed"
        <4>1. Cors(q)
          BY <2>1 DEF Guard, Bearer, Peer, Issued
        <4>2. Decide(q, 0)
          BY <3>1, <4>1, ZenonT(60) DEF Cors
        <4> QED
          BY <1>1, <4>2, ZenonT(60) DEF Decide
      <3> QED
        BY <1>2, <1>6, <1>7, <2>1, <3>2, ZenonT(60) DEF VisitInv, BrowseInv, Kind
    <2>2. CASE Kind(q) = "preflight"
      <3>1. Cors(q)
        BY <2>2 DEF Guard, Bearer, Peer, Issued
      <3>2. Grants(policy, visit[q].fetch) => visit[q].fetch \in granted'
        BY <2>2, <3>1, ZenonT(60) DEF Cors
      <3> QED
        BY <1>2, <1>3, <2>2, <3>2, ZenonT(60) DEF BrowseInv, Kind, policy
    <2>3. CASE Kind(q) \notin {"preflight", "fetch"}
      BY <1>2, <2>3, ZenonT(60) DEF BrowseInv, Kind
    <2> QED
      BY <2>1, <2>2, <2>3, ZenonT(60)
  <1>9. TrustInv(q)'
    <2>1. CASE Kind(q) = "peer"
      <3>1. Peer(q)
        BY <2>1, ZenonT(60) DEF Guard, Cors, Bearer, Issued
      <3>2. g = "passed" => VerifiedPeer(visit[q].tls, visit[q].asks)
        BY <1>1, <3>1, SMTT(60) DEF Peer, Decide
      <3> QED
        BY <1>2, <2>1, <3>2, ZenonT(60) DEF TrustInv, Kind
    <2>2. CASE Kind(q) = "issued"
      <3>1. Issued(q)
        BY <2>2, ZenonT(60) DEF Guard, Cors, Bearer, Peer
      <3>2. g = "passed" => VerifyIssued(visit[q].leaf, visit[q].asks)
        BY <1>1, <3>1, SMTT(60) DEF Issued, Decide
      <3> QED
        BY <1>2, <2>2, <3>2, ZenonT(60) DEF TrustInv, Kind
    <2>3. CASE Kind(q) \notin {"peer", "issued"}
      BY <1>2, <2>3 DEF TrustInv, Kind
    <2> QED
      BY <2>1, <2>2, <2>3, ZenonT(60)
  <1>10. ScrapeInv(q)'
    <2>1. CASE Kind(q) = "scrape"
      <3>1. Bearer(q)
        BY <2>1 DEF Guard, Cors, Peer, Issued
      <3>2. visit[q].token = "right" => g = "passed"
        BY <1>1, <3>1, ZenonT(60) DEF Bearer, Decide
      <3>3. Reading' = Reading /\ Label' = Label
        BY ZenonT(60) DEF Reading, Label, Status, Route, PoolRegistered
      <3> QED
        BY <1>2, <1>3, <1>6, <2>1, <3>2, <3>3, ZenonT(60)
           DEF VisitInv, ScrapeInv, Kind, poolVars
    <2>2. CASE Kind(q) # "scrape"
      BY <1>2, <2>2 DEF ScrapeInv, Kind
    <2> QED
      BY <2>1, <2>2, ZenonT(60)
  <1>11. VisitInv(q)'
    BY <1>3, <1>8, <1>9, <1>10, SMTT(60) DEF VisitInv, ReadsInv
  <1> HIDE DEF g
  <1> QED
    BY <1>2, <1>3, <1>4, <1>5, <1>7, <1>11, OneVisit, ZenonT(60)

\* A step of a scrape preserves the invariant.
LEMMA ScrapeKeeps ==
    ASSUME IInv, IInv', [Next]_vars, GuardInv, NEW q \in Request, Scrape(q)
    PROVE  GuardInv'
  <1> DEFINE g == guard'[q]
             s == scrape[q]
             r == scrape'[q]
  <1>1. /\ visit \in [Request -> Carried] /\ guard \in [Request -> GuardState]
        /\ scrape \in [Request -> Reading \cup {NoScrape}]
        /\ <<passed, postgres>> \in {<<"nothing", "nil">>, <<"pool", "pool">>, <<"nil", "typedNil">>}
    BY DEF GuardInv, GuardedTypeOK
  <1>2. VisitInv(q)
    BY DEF GuardInv
  <1>3. Kind(q) = "scrape"
    <2>1. Kind(q) = "scrape" \/ guard[q] \in {"copied", "totals"}
      BY DEF Scrape, ScrapeCopy, ScrapeTotals, ScrapeHistograms
    <2> QED
      BY <1>2, <2>1 DEF VisitInv, ReadsInv
  <1>4. s \in Reading
    BY <1>2, <1>3, ZenonT(60) DEF VisitInv, ScrapeInv
  <1>5. data \in [Label -> Nat]
    BY DEF IInv, TypeOK
  <1>6. UNCHANGED <<app, visit, granted, poolVars>> /\ data' = data
    BY ZenonT(60) DEF Scrape, ScrapeCopy, ScrapeTotals, ScrapeHistograms, Respond, vars, registryVars
  <1>7. Reading' = Reading /\ Label' = Label
    BY DEF Reading, Label, Status, Route, PoolRegistered
  <1>8. /\ g \in GuardState \ {"none", "passed"} /\ guard' = [guard EXCEPT ![q] = g]
        /\ r \in Reading /\ scrape' = [scrape EXCEPT ![q] = r]
        /\ ScrapeInv(q)'
    <2>1. CASE ScrapeCopy(q)
      <3>1. /\ guard' = [guard EXCEPT ![q] = "copied"]
            /\ scrape' = [scrape EXCEPT ![q] = [s EXCEPT !.shot = data, !.source = postgres]]
        BY <2>1, ZenonT(60) DEF ScrapeCopy
      <3>2. g = "copied" /\ r = [s EXCEPT !.shot = data, !.source = postgres]
        BY <1>1, <3>1
      <3>3. /\ r \in Reading /\ r.shot = data /\ r.source = postgres
            /\ r.before = s.before /\ r.passed = s.passed
        BY <1>1, <1>4, <1>5, <3>2, ZenonT(60) DEF Reading
      <3>4. \A l \in Label : s.before[l] <= s.shot[l] /\ s.shot[l] <= data[l]
        BY <1>2, <1>3, ZenonT(60) DEF VisitInv, ScrapeInv
      <3>5. \A l \in Label : r.before[l] <= r.shot[l] /\ r.shot[l] <= data[l]
        <4>1. \A l \in Label : s.before[l] \in Nat /\ s.shot[l] \in Nat /\ data[l] \in Nat
          BY <1>4, <1>5, ZenonT(60) DEF Reading
        <4> HIDE DEF r, s
        <4> SUFFICES ASSUME NEW l \in Label
                     PROVE  r.before[l] <= r.shot[l] /\ r.shot[l] <= data[l]
          OBVIOUS
        <4>2. r.before = s.before /\ r.shot = data
          BY <3>3, ZenonT(60)
        <4>3. s.before[l] <= s.shot[l] /\ s.shot[l] <= data[l]
          BY <3>4, ZenonT(60)
        <4>4. s.before[l] \in Nat /\ s.shot[l] \in Nat /\ data[l] \in Nat
          BY <4>1
        <4> QED
          BY <4>2, <4>3, <4>4, SMTT(60)
      <3>6. /\ passed = "nothing" => s.passed = "nothing"
            /\ passed = "pool" => s.passed # "nil"
        BY <1>2, <1>3, ZenonT(60) DEF VisitInv, ScrapeInv
      <3>7. /\ passed = "nothing" => r.passed = "nothing" /\ r.source # "pool"
            /\ passed = "pool" => r.passed # "nil" /\ (r.passed = "pool" => r.source = "pool")
            /\ r.passed = "nil" => r.source # "pool"
        BY <1>1, <3>3, <3>6, ZenonT(60)
      <3> HIDE DEF r
      <3>8. ScrapeInv(q)'
        BY <1>3, <1>6, <1>7, <3>2, <3>3, <3>5, <3>7, ZenonT(60) DEF ScrapeInv, Kind, poolVars, r
      <3> QED
        BY <3>1, <3>2, <3>3, <3>8, ZenonT(60) DEF GuardState, r
    <2>2. CASE ScrapeTotals(q)
      <3>1. /\ guard' = [guard EXCEPT ![q] = "totals"]
            /\ scrape' = [scrape EXCEPT ![q] =
                             [s EXCEPT !.totals = s.shot, !.reported = (s.source = "pool")]]
        BY <2>2, ZenonT(60) DEF ScrapeTotals, Exposed
      <3>2. g = "totals" /\ r = [s EXCEPT !.totals = s.shot, !.reported = (s.source = "pool")]
        BY <1>1, <3>1
      <3>3. /\ r \in Reading /\ r.shot = s.shot /\ r.source = s.source /\ r.before = s.before
            /\ r.passed = s.passed /\ r.totals = s.shot /\ (r.reported <=> s.source = "pool")
        BY <1>4, <3>2, ZenonT(60) DEF Reading
      <3>4. ScrapeInv(q)'
        BY <1>2, <1>3, <1>6, <1>7, <3>2, <3>3, ZenonT(60) DEF VisitInv, ScrapeInv, Kind, poolVars
      <3> QED
        BY <3>1, <3>2, <3>3, <3>4, ZenonT(60) DEF GuardState
    <2>3. CASE ScrapeHistograms(q)
      <3>1. /\ guard[q] = "totals"
            /\ guard' = [guard EXCEPT ![q] = "answered"]
            /\ scrape' = [scrape EXCEPT ![q] = [s EXCEPT !.shot = s.shot]]
        BY <2>3 DEF ScrapeHistograms, Exposed
      <3>2. g = "answered" /\ r = s
        BY <1>1, <1>4, <3>1, ZenonT(60) DEF Reading
      <3>3. ScrapeInv(q)'
        BY <1>2, <1>3, <1>6, <1>7, <3>1, <3>2 DEF VisitInv, ScrapeInv, Kind, poolVars
      <3> QED
        BY <1>4, <3>1, <3>2, <3>3, ZenonT(60) DEF GuardState
    <2> QED
      BY <2>1, <2>2, <2>3 DEF Scrape
  <1>9. /\ visit[q] \in Carried /\ visit' = [visit EXCEPT ![q] = visit[q]]
        /\ granted \subseteq granted' /\ granted' \subseteq {f \in Fetch : Grants(policy, f)}
    BY <1>1, <1>6, ZenonT(60) DEF GuardInv
  <1>10. VisitInv(q)'
    BY <1>3, <1>6, <1>8, ZenonT(60) DEF VisitInv, BrowseInv, TrustInv, ReadsInv, Kind
  <1> HIDE DEF g, s, r
  <1> QED
    BY <1>6, <1>8, <1>9, <1>10, OneVisit, ZenonT(60)

\* A step of a handler, which knows nothing of its guards, preserves the invariant.
LEMMA HandleKeeps ==
    ASSUME IInv, IInv', [Next]_vars, GuardInv, NEW q \in Request, Handle(q)
    PROVE  GuardInv'
  <1> DEFINE v == IF at'[q] = "handler" THEN Plain ELSE NoVisit
             g == IF at'[q] = "handler" THEN guard[q] ELSE "none"
  <1>1. /\ visit \in [Request -> Carried] /\ guard \in [Request -> GuardState]
        /\ scrape \in [Request -> Reading \cup {NoScrape}]
    BY DEF GuardInv, GuardedTypeOK
  <1>2. /\ visit' = [visit EXCEPT ![q] = v]
        /\ guard' = [guard EXCEPT ![q] = g]
        /\ scrape' = [scrape EXCEPT ![q] = NoScrape]
        /\ UNCHANGED <<app, granted, poolVars>>
        /\ guard[q] \in {"passed", "answered"}
    BY ZenonT(60) DEF Handle, Serve, Leave
  <1>3. v \in Carried /\ g \in GuardState /\ NoScrape \in Reading \cup {NoScrape}
    BY <1>1 DEF Carried, GuardState
  <1>4. Kind(q)' \in {"plain", "none"} /\ guard'[q] \notin {"copied", "totals"}
    BY <1>1, <1>2, ZenonT(60) DEF Kind, Plain, NoVisit
  <1>5. VisitInv(q)'
    BY <1>4, ZenonT(60) DEF VisitInv, BrowseInv, TrustInv, ScrapeInv, ReadsInv
  <1>6. granted \subseteq granted' /\ granted' \subseteq {f \in Fetch : Grants(policy, f)}
    BY <1>2 DEF GuardInv
  <1> HIDE DEF v, g
  <1> QED
    BY <1>2, <1>3, <1>5, <1>6, OneVisit, ZenonT(60)

\* Registering or removing a pool preserves the invariant.
LEMMA RegisterKeeps ==
    ASSUME IInv, GuardInv, NEW pool, RegisterPostgresPool(pool)
    PROVE  GuardInv'
  <1>1. /\ UNCHANGED <<app, visit, guard, granted, scrape>> /\ data' = data
        /\ \/ passed = "nothing" /\ passed' = "pool" /\ postgres' = "pool"
           \/ passed = "pool" /\ passed' = "nil" /\ postgres' = "typedNil"
    BY ZenonT(60) DEF RegisterPostgresPool, vars, registryVars
  <1>2. Reading' = Reading /\ Label' = Label
    BY ZenonT(60) DEF Reading, Label, Status, Route, PoolRegistered
  <1>3. GuardedTypeOK'
    BY <1>1, <1>2 DEF GuardInv, GuardedTypeOK
  <1>4. ASSUME NEW q \in Request PROVE VisitInv(q)'
    <2>1. VisitInv(q)
      BY SMTT(60) DEF GuardInv
    <2>2. BrowseInv(q)' /\ TrustInv(q)' /\ ReadsInv(q)'
      BY <1>1, <2>1, ZenonT(60)
         DEF VisitInv, BrowseInv, TrustInv, ReadsInv, Kind, policy
    <2>3. ScrapeInv(q)'
      BY <1>1, <1>2, <2>1, ZenonT(60) DEF VisitInv, ScrapeInv, Kind
    <2> QED
      BY <2>2, <2>3 DEF VisitInv
  <1>5. CorsAccepts(policy)' /\ granted' \subseteq {f \in Fetch : Grants(policy, f)}'
    BY <1>1 DEF GuardInv, policy
  <1> QED
    BY <1>3, <1>4, <1>5, ZenonT(60) DEF GuardInv

\* Every step preserves the invariant of the guards.
LEMMA GuardNext == IInv /\ IInv' /\ GuardInv /\ [GuardedNext]_gvars => GuardInv'
  <1> SUFFICES ASSUME IInv, IInv', GuardInv, [GuardedNext]_gvars PROVE GuardInv'
    OBVIOUS
  <1>1. [Next]_vars
    BY GuardedStepImplements
  <1>2. ASSUME NEW q \in Request, Enter(q) \/ Guard(q) \/ Scrape(q) \/ Handle(q) PROVE GuardInv'
    BY <1>1, <1>2, EnterKeeps, GuardKeeps, ScrapeKeeps, HandleKeeps, ZenonT(60)
  <1>3. ASSUME NEW pool, RegisterPostgresPool(pool) PROVE GuardInv'
    BY <1>3, RegisterKeeps
  <1>4. CASE UNCHANGED guardVars
    <2>1. /\ UNCHANGED <<app, visit, guard, granted, scrape>> /\ UNCHANGED poolVars
      BY <1>4, ZenonT(60) DEF guardVars
    <2>2. Reading' = Reading /\ Label' = Label
      BY DEF Reading, Label, Status, Route, PoolRegistered
    <2>3. GuardedTypeOK'
      BY <2>1, <2>2, ZenonT(60) DEF GuardInv, GuardedTypeOK, poolVars
    <2>4. ASSUME NEW q \in Request PROVE VisitInv(q)'
      <3>1. data \in [Label -> Nat] /\ data' \in [Label -> Nat]
        BY <2>2 DEF IInv, TypeOK
      <3>2. \A l \in Label : data[l] <= data'[l]
        BY <1>1, CountsGrow
      <3>3. VisitInv(q) /\ granted \subseteq granted'
        BY <2>1 DEF GuardInv
      <3> QED
        BY <2>1, <3>1, <3>2, <3>3, VisitKept, ZenonT(60)
    <2>5. CorsAccepts(policy)' /\ granted' \subseteq {f \in Fetch : Grants(policy, f)}'
      BY <2>1 DEF GuardInv, policy
    <2> QED
      BY <2>3, <2>4, <2>5 DEF GuardInv
  <1> QED
    BY <1>2, <1>3, <1>4, ZenonT(60) DEF GuardedNext, Around, gvars

\* Every reachable state satisfies the invariant of the guards.
THEOREM GuardInvariance == GuardedSpec => []GuardInv
  BY InitGuardInv, GuardNext, GuardedImplements, Invariance, PTL DEF GuardedSpec

\* Browsers and CORS together do what the options say, for any policy and any
\* fetches.
THEOREM CrossOriginKept == GuardedSpec => []CrossOriginHolds
  <1>1. GuardInv => CrossOriginHolds
    <2> SUFFICES ASSUME GuardInv, NEW q \in Request, Kind(q) \in {"preflight", "fetch"}
                 PROVE  LET f == visit[q].fetch
                        IN  /\ Kind(q) = "fetch" /\ NeedsPreflight(f) => Permitted(policy, f)
                            /\ Shares(policy, HttpRequest(visit[q]), f)
                                  <=> Trusted(policy, f.origin, f.credentials)
                            /\ guard[q] = "answered" => (f \in granted <=> Permitted(policy, f))
      BY ZenonT(60) DEF CrossOriginHolds
    <2> DEFINE f == visit[q].fetch
    <2>1. f \in Fetch
      BY CarriedByKind DEF GuardInv, GuardedTypeOK, Kind
    <2>2. CorsAccepts(policy) /\ BrowseInv(q)
      BY DEF GuardInv, VisitInv
    <2>3. Grants(policy, f) <=> Permitted(policy, f)
      BY <2>1, <2>2, GrantedIsPermitted
    <2>4. f \in granted => Grants(policy, f)
      BY ZenonT(60) DEF GuardInv
    <2>5. HttpRequest(visit[q]).origin = f.origin
      BY ZenonT(60) DEF HttpRequest, Preflight, Actual
    <2>6. Shares(policy, HttpRequest(visit[q]), f) <=> Trusted(policy, f.origin, f.credentials)
      BY <2>1, <2>2, <2>5, SharedWithTrusted, ZenonT(60)
    <2>7. /\ Kind(q) = "fetch" /\ NeedsPreflight(f) => f \in granted
          /\ Kind(q) = "fetch" => guard[q] # "answered"
          /\ Kind(q) = "preflight" /\ guard[q] = "answered" /\ Grants(policy, f) => f \in granted
      BY <2>2, ZenonT(60) DEF BrowseInv
    <2> QED
      BY <2>3, <2>4, <2>6, <2>7, ZenonT(60)
  <1> QED
    BY <1>1, GuardInvariance, PTL

\* A scrape never contradicts itself, whatever is observed meanwhile.
THEOREM ScrapeKept == GuardedSpec => []ScrapeConsistent
  <1>1. GuardInv => ScrapeConsistent
    <2> SUFFICES ASSUME GuardInv, NEW q \in Request, Kind(q) = "scrape", guard[q] = "answered",
                        visit[q].token = "right"
                 PROVE  LET s == scrape[q]
                        IN  /\ s.totals = s.shot
                            /\ \A l \in Label : s.before[l] <= s.totals[l] /\ s.totals[l] <= data[l]
                            /\ s.passed = "pool" /\ passed = "pool" => s.reported
                            /\ s.reported => s.passed # "nil" /\ passed # "nothing"
      BY ZenonT(60) DEF ScrapeConsistent
    <2>1. ScrapeInv(q)
      BY ZenonT(60) DEF GuardInv, VisitInv
    <2> QED
      BY <2>1, ZenonT(60) DEF ScrapeInv
  <1> QED
    BY <1>1, GuardInvariance, PTL

\* What passes for trusted is trusted, for any certificates, roots and instants.
THEOREM TrustKept == GuardedSpec => []CertificateTrust
  <1>1. GuardInv => CertificateTrust
    <2> SUFFICES ASSUME GuardInv, NEW q \in Request, guard[q] = "passed"
                 PROVE  /\ Kind(q) = "peer" =>
                              LET v == visit[q]
                              IN  /\ Chains(v.tls.peer, Root, Intermediate, v.shaken) # {}
                                  /\ InDate(v.tls.peer, v.asks.now)
                        /\ Kind(q) = "issued" =>
                              LET o == visit[q].asks
                                  trusted == IF o.pin = NoCertificate THEN o.roots
                                             ELSE o.roots \cap {o.pin}
                              IN  /\ visit[q].leaf.key = OwnKey
                                  /\ Chains(visit[q].leaf, trusted, Intermediate, o.now) # {}
      BY ZenonT(60) DEF CertificateTrust
    <2>1. TrustInv(q) /\ visit[q] \in Carried
      BY ZenonT(60) DEF GuardInv, VisitInv, GuardedTypeOK
    <2>2. CASE Kind(q) = "peer"
      BY <2>1, <2>2, CarriedByKind, PeerTrusted, ZenonT(60) DEF TrustInv, Kind
    <2>3. CASE Kind(q) = "issued"
      BY <2>1, <2>3, CarriedByKind, IssuedTrusted, ZenonT(60) DEF TrustInv, Kind
    <2> QED
      BY <2>2, <2>3, ZenonT(60)
  <1> QED
    BY <1>1, GuardInvariance, PTL
=============================================================================

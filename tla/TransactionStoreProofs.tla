----------------------- MODULE TransactionStoreProofs -----------------------
(***************************************************************************)
(* Proofs about TransactionStore for every number of handlers, logins and  *)
(* browsers, every capacity and every choice of the time constants.        *)
(***************************************************************************)
EXTENDS TransactionStore, FiniteSetTheorems, TLAPS

-----------------------------------------------------------------------------
(* Facts about the store's size *)

\* Removing entries, as Take and pruneExpired do, keeps the store within its
\* capacity.
LEMMA RemovalKeepsBound ==
    ASSUME NEW S, NEW T, T \subseteq S,
           IsFiniteSet(S), Cardinality(S) <= Capacity
    PROVE  IsFiniteSet(T) /\ Cardinality(T) <= Capacity
  <1>1. IsFiniteSet(T) /\ Cardinality(T) <= Cardinality(S)
    BY FS_Subset
  <1>2. Cardinality(T) \in Nat /\ Cardinality(S) \in Nat
    BY <1>1, FS_CardinalityType
  <1> QED
    BY <1>1, <1>2, StoreAssumption

\* An insertion into a store that is not full stays within the capacity.
LEMMA InsertionKeepsBound ==
    ASSUME NEW S, NEW x, IsFiniteSet(S), ~(Cardinality(S) >= Capacity)
    PROVE  IsFiniteSet(S \cup {x}) /\ Cardinality(S \cup {x}) <= Capacity
  <1>1. /\ IsFiniteSet(S \cup {x})
        /\ Cardinality(S \cup {x}) = Cardinality(S) \/ Cardinality(S \cup {x}) = Cardinality(S) + 1
    BY FS_AddElement
  <1>2. Cardinality(S) \in Nat
    BY FS_CardinalityType
  <1> QED
    BY <1>1, <1>2, StoreAssumption

\* The prune of Put only removes entries.
LEMMA MakeRoomRemoves ==
    ASSUME TypeOK
    PROVE  /\ MakeRoom(entries) \in [Txn -> Binding \cup {NoBinding}]
           /\ \A t \in Txn : MakeRoom(entries)[t] \in {entries[t], NoBinding}
           /\ Stored(MakeRoom(entries)) \subseteq Stored(entries)
  BY DEF TypeOK, MakeRoom, pruneExpired, Stored

\* A handler between calls is idle.
LEMMA IdleAt == Idle.at = "idle"
  BY DEF Idle

-----------------------------------------------------------------------------
(* The inductive invariant *)

\* The inductive invariant holds before the first call.
LEMMA InitIInv == Init => IInv
  <1> SUFFICES ASSUME Init PROVE IInv
    OBVIOUS
  <1>1. TypeOK
    BY StoreAssumption DEF Init, TypeOK, Call, Idle, Location, Outcome
  <1>2. Stored(entries) = {}
    BY DEF Init, Stored
  <1>3. CapacityBound
    BY <1>2, FS_EmptySet, StoreAssumption DEF CapacityBound
  <1>4. Reachability
    BY <1>2 DEF Init, Reachability
  <1>5. LockInv /\ CallInv /\ SoleExchanger
    BY StoreAssumption DEF Init, Idle, LockInv, CallInv, SoleExchanger
  <1>6. ExchangeInv
    BY DEF Init, ExchangeInv
  <1> QED
    BY <1>1, <1>3, <1>4, <1>5, <1>6 DEF IInv

\* Every step of every handler preserves it.
LEMMA NextIInv == IInv /\ [Next]_vars => IInv'
  <1> SUFFICES ASSUME IInv, [Next]_vars PROVE IInv'
    OBVIOUS
  <1> USE StoreAssumption
  <1>1. ASSUME NEW p \in Proc, NEW t \in Txn, Begin(p, t) PROVE IInv'
    <2> USE <1>1 DEF Begin, loginVars, exchangeVars
    <2>1. TypeOK'
      BY DEF IInv, TypeOK
    <2>2. Reachability'
      BY DEF IInv, TypeOK, Reachability, Stored
    <2>3. LockInv' /\ SoleExchanger' /\ CapacityBound'
      BY DEF IInv, LockInv, SoleExchanger, CapacityBound, Stored
    <2>4. CallInv'
      BY DEF IInv, TypeOK, CallInv
    <2>5. ExchangeInv'
      BY DEF IInv, ExchangeInv
    <2> QED
      BY <2>1, <2>2, <2>3, <2>4, <2>5 DEF IInv
  <1>2. ASSUME NEW p \in Proc, NEW t \in Txn, NEW b \in Binding, PutCheck(p, t, b)
        PROVE  IInv'
    <2> USE <1>2 DEF PutCheck, loginVars, exchangeVars
    <2>1. TypeOK'
      BY DEF IInv, TypeOK, Call, Location
    <2>2. Reachability' /\ ExchangeInv' /\ CapacityBound'
      BY DEF IInv, Reachability, ExchangeInv, CapacityBound, Stored
    <2>3. LockInv'
      BY DEF IInv, TypeOK, LockInv, Idle
    <2>4. SoleExchanger'
      BY DEF IInv, TypeOK, SoleExchanger
    <2>5. CallInv'
      BY DEF IInv, TypeOK, CallInv, Reachability
    <2> QED
      BY <2>1, <2>2, <2>3, <2>4, <2>5 DEF IInv
  <1>3. ASSUME NEW p \in Proc, PutLocked(p) PROVE IInv'
    <2> DEFINE t == call[p].txn
               room == MakeRoom(entries)
    <2> USE <1>3 DEF PutLocked, loginVars, exchangeVars
    <2>1. /\ t \in begun /\ t \in Txn
          /\ call[p].binding \in Binding
      BY DEF IInv, CallInv, TypeOK
    <2>2. /\ room \in [Txn -> Binding \cup {NoBinding}]
          /\ Stored(room) \subseteq Stored(entries)
      BY MakeRoomRemoves DEF IInv
    <2> HIDE DEF room
    <2>3. \/ entries' = room
          \/ entries' = [room EXCEPT ![t] = call[p].binding] /\ ~Full(room)
      BY DEF Accepts, room
    <2>4. TypeOK'
      BY <2>1, <2>2, <2>3, ZenonT(60) DEF IInv, TypeOK, Call, Location, Idle
    <2>5. Stored(entries') \subseteq Stored(room) \cup {t}
      BY <2>1, <2>2, <2>3, ZenonT(60) DEF Stored
    <2>6. Reachability'
      BY <2>1, <2>2, <2>5 DEF IInv, Reachability, Stored
    <2>7. LockInv'
      BY DEF IInv, TypeOK, LockInv, Idle
    <2>8. SoleExchanger' /\ ExchangeInv'
      BY DEF IInv, TypeOK, SoleExchanger, ExchangeInv, Idle
    <2>9. CallInv'
      BY DEF IInv, TypeOK, CallInv, LockInv, Idle
    <2>10. CapacityBound'
      <3>1. IsFiniteSet(Stored(room)) /\ Cardinality(Stored(room)) <= Capacity
        BY <2>2, RemovalKeepsBound DEF IInv, CapacityBound
      <3>2. CASE entries' = room
        BY <3>1, <3>2, ZenonT(60) DEF CapacityBound, Stored
      <3>3. CASE entries' = [room EXCEPT ![t] = call[p].binding] /\ ~Full(room)
        <4>1. /\ IsFiniteSet(Stored(room) \cup {t})
              /\ Cardinality(Stored(room) \cup {t}) <= Capacity
          BY <3>1, <3>3, InsertionKeepsBound DEF Full
        <4>2. IsFiniteSet(Stored(entries')) /\ Cardinality(Stored(entries')) <= Capacity
          BY <4>1, <2>5, RemovalKeepsBound, ZenonT(60)
        <4> QED
          BY <4>2 DEF CapacityBound, Stored
      <3> QED
        BY <2>3, <3>2, <3>3
    <2> QED
      BY <2>4, <2>6, <2>7, <2>8, <2>9, <2>10 DEF IInv
  <1>4. ASSUME NEW p \in Proc, NEW t \in Txn, TakeDead(p, t) PROVE IInv'
    <2> USE <1>4 DEF TakeDead, loginVars, exchangeVars
    <2>1. TypeOK'
      BY DEF IInv, TypeOK
    <2>2. Stored(entries') \subseteq Stored(entries)
      BY DEF IInv, TypeOK, Stored
    <2>3. Reachability'
      BY <2>2 DEF IInv, Reachability, Stored
    <2>4. LockInv' /\ SoleExchanger' /\ ExchangeInv'
      BY DEF IInv, LockInv, SoleExchanger, ExchangeInv
    <2>5. CallInv'
      BY DEF IInv, TypeOK, CallInv, LockInv
    <2>6. CapacityBound'
      BY <2>2, RemovalKeepsBound DEF IInv, CapacityBound, Stored
    <2> QED
      BY <2>1, <2>3, <2>4, <2>5, <2>6 DEF IInv
  <1>5. ASSUME NEW p \in Proc, NEW t \in Txn, NEW b \in Binding, TakeMatch(p, t, b)
        PROVE  IInv'
    <2> USE <1>5 DEF TakeMatch, loginVars, exchangeVars
    <2>1. TypeOK'
      BY DEF IInv, TypeOK, Call, Location
    <2>2. Reachability' /\ ExchangeInv' /\ CapacityBound'
      BY DEF IInv, Reachability, ExchangeInv, CapacityBound, Stored
    <2>3. LockInv'
      BY DEF IInv, TypeOK, LockInv
    <2>4. SoleExchanger'
      BY DEF IInv, TypeOK, SoleExchanger
    <2>5. CallInv'
      BY DEF IInv, TypeOK, CallInv, Reachability, Stored, Matches
    <2> QED
      BY <2>1, <2>2, <2>3, <2>4, <2>5 DEF IInv
  <1>6. ASSUME NEW p \in Proc, TakeRemove(p) PROVE IInv'
    <2> USE <1>6 DEF TakeRemove, loginVars, exchangeVars
    <2>1. call[p].txn \in begun /\ call[p].txn \in Txn /\ mu = p
      BY DEF IInv, CallInv, TypeOK, LockInv
    <2>2. TypeOK'
      BY <2>1 DEF IInv, TypeOK, Call, Location, Idle, Unlock
    <2>3. Stored(entries') \subseteq Stored(entries)
      BY <2>1 DEF IInv, TypeOK, Stored
    <2>4. Reachability'
      BY <2>1, <2>3 DEF IInv, TypeOK, Reachability, Stored
    <2>5. LockInv'
      BY <2>1 DEF IInv, TypeOK, LockInv, Idle, Unlock
    <2>6. SoleExchanger' /\ ExchangeInv'
      BY DEF IInv, TypeOK, SoleExchanger, ExchangeInv, Idle
    <2>7. CallInv'
      BY <2>1 DEF IInv, TypeOK, CallInv, LockInv, Idle
    <2>8. CapacityBound'
      BY <2>3, RemovalKeepsBound, ZenonT(60) DEF IInv, CapacityBound, Stored
    <2> QED
      BY <2>2, <2>4, <2>5, <2>6, <2>7, <2>8 DEF IInv
  <1>7. ASSUME NEW p \in Proc, NEW t \in Txn, Redeem(p, t) PROVE IInv'
    <2> USE <1>7 DEF Redeem, Redeemable, Spend, loginVars, exchangeVars
    <2>1. ExchangeDeadline \in Nat
      BY DEF IInv, TypeOK, ExchangeDeadline
    <2>2. TypeOK'
      BY <2>1 DEF IInv, TypeOK, Call, Location, Outcome
    <2>3. Reachability'
      BY DEF IInv, TypeOK, Reachability, Stored
    <2>4. LockInv'
      BY DEF IInv, TypeOK, LockInv, Idle
    <2>5. ExchangeInv'
      BY DEF IInv, TypeOK, ExchangeInv
    <2>6. outcome[t] = "none"
      BY DEF IInv, TypeOK, ExchangeInv
    <2>7. SoleExchanger'
      BY <2>6, ZenonT(60) DEF IInv, TypeOK, SoleExchanger, CallInv
    <2>8. CallInv'
      BY <2>6, SMTT(60) DEF IInv, TypeOK, CallInv, Reachability, Expired, ExchangeDeadline
    <2>9. CapacityBound'
      BY DEF IInv, CapacityBound, Stored
    <2> QED
      BY <2>2, <2>3, <2>4, <2>5, <2>7, <2>8, <2>9, ZenonT(60) DEF IInv
  <1>8. ASSUME NEW p \in Proc, NEW t \in Txn, Reject(p, t) PROVE IInv'
    <2> USE <1>8 DEF Reject, Spend, loginVars, exchangeVars
    <2>1. TypeOK'
      BY DEF IInv, TypeOK
    <2>2. Reachability'
      BY ZenonT(60) DEF IInv, TypeOK, Reachability, Stored
    <2>3. LockInv' /\ CallInv' /\ SoleExchanger' /\ CapacityBound'
      BY DEF IInv, LockInv, CallInv, SoleExchanger, CapacityBound, Stored
    <2>4. ExchangeInv'
      BY DEF IInv, TypeOK, ExchangeInv
    <2> QED
      BY <2>1, <2>2, <2>3, <2>4 DEF IInv
  <1>9. ASSUME NEW p \in Proc, Answer(p) PROVE IInv'
    <2> USE <1>9 DEF Answer, loginVars, exchangeVars
    <2>1. call[p].txn \in Txn /\ outcome[call[p].txn] = "pending"
      BY DEF IInv, CallInv, TypeOK
    <2>2. TypeOK'
      BY <2>1, SMTT(60) DEF IInv, TypeOK, Call, Location, Idle, Outcome
    <2>3. Reachability' /\ CapacityBound'
      BY DEF IInv, Reachability, CapacityBound, Stored
    <2>4. LockInv' /\ SoleExchanger'
      BY DEF IInv, TypeOK, LockInv, SoleExchanger, Idle
    <2>5. CallInv'
      BY <2>1, SMTT(60) DEF IInv, TypeOK, CallInv, SoleExchanger, Idle
    <2>6. ExchangeInv'
      BY <2>1 DEF IInv, TypeOK, ExchangeInv
    <2> QED
      BY <2>2, <2>3, <2>4, <2>5, <2>6 DEF IInv
  <1>10. ASSUME Tick PROVE IInv'
    <2> USE <1>10 DEF Tick, loginVars, exchangeVars
    <2>1. TypeOK'
      BY DEF IInv, TypeOK
    <2>2. Reachability'
      BY DEF IInv, TypeOK, Reachability, Stored
    <2>3. LockInv' /\ SoleExchanger' /\ ExchangeInv' /\ CapacityBound'
      BY DEF IInv, LockInv, SoleExchanger, ExchangeInv, CapacityBound, Stored
    <2>4. CallInv'
      BY SMTT(60) DEF IInv, TypeOK, Call, CallInv
    <2> QED
      BY <2>1, <2>2, <2>3, <2>4 DEF IInv
  <1>11. CASE UNCHANGED vars
    BY <1>11 DEF vars, loginVars, exchangeVars, IInv, TypeOK, Reachability, LockInv,
                 CallInv, ExchangeInv, SoleExchanger, CapacityBound, Stored
  <1> QED
    BY <1>1, <1>2, <1>3, <1>4, <1>5, <1>6, <1>7, <1>8, <1>9, <1>10, <1>11 DEF Next, Handler

\* The inductive invariant of the store holds in every reachable state.
THEOREM Invariance == Spec => []IInv
  BY InitIInv, NextIInv, PTL DEF Spec

\* Every variable keeps its type, whatever the handlers do.
THEOREM TypeCorrect == Spec => []TypeOK
  <1>1. IInv => TypeOK
    BY DEF IInv
  <1> QED
    BY <1>1, Invariance, PTL

\* complete's swap of the used flag lets at most one handler send the
\* authorization code of a transaction, however many hold its pointer.
THEOREM AtMostOneExchange == Spec => []OneExchange
  <1>1. IInv => OneExchange
    BY DEF IInv, ExchangeInv, OneExchange
  <1> QED
    BY <1>1, Invariance, PTL

\* Put never lets the store grow beyond its capacity.
THEOREM StoreBounded == Spec => []CapacityBound
  <1>1. IInv => CapacityBound
    BY DEF IInv
  <1> QED
    BY <1>1, Invariance, PTL

\* A code exchange is over within the lifetime plus the exchange timeout.
THEOREM ExchangesInTime == Spec => []ExchangeInTime
  <1>1. IInv => ExchangeInTime
    <2> SUFFICES ASSUME IInv, NEW p \in Proc, call[p].at = "exchange"
                 PROVE  now <= createdAt[call[p].txn] + Lifetime + ExchangeTimeout
      BY DEF ExchangeInTime
    <2>1. call[p].txn \in Txn /\ call[p].deadline \in Nat /\ now \in Nat
      BY DEF IInv, TypeOK, Call, CallInv
    <2> QED
      BY <2>1, StoreAssumption, SMTT(60) DEF IInv, TypeOK, CallInv
  <1> QED
    BY <1>1, Invariance, PTL

-----------------------------------------------------------------------------
(* What a step may never do *)

\* Only the handler inside Take's critical section obtains a begun login, and
\* only against the binding it was stored with.
THEOREM BindingRequired == Spec => OnlyBoundBrowserObtains
  <1> DEFINE Obtains == \A p \in Proc, t \in begun :
                           t \in held'[p] \ held[p] =>
                               /\ entries[t] = call[p].binding
                               /\ entries[t] # NoBinding
                               /\ ~used[t]
                               /\ entries'[t] = NoBinding
  <1>1. IInv /\ [Next]_vars => [Obtains]_vars
    <2> SUFFICES ASSUME IInv, Next,
                        NEW p \in Proc, NEW t \in begun, t \in held'[p] \ held[p]
                 PROVE  /\ entries[t] = call[p].binding
                        /\ entries[t] # NoBinding
                        /\ ~used[t]
                        /\ entries'[t] = NoBinding
      BY DEF vars
    <2>1. PICK q \in Proc : Handler(q)
      BY DEF Next, Tick
    <2>2. TakeRemove(q)
      <3>1. held' # held
        OBVIOUS
      <3>2. ASSUME NEW u \in Txn, Begin(q, u) PROVE FALSE
        BY <3>2, ZenonT(60) DEF Begin, IInv, TypeOK
      <3>3. ASSUME NEW u \in Txn PROVE ~(TakeDead(q, u) \/ Redeem(q, u) \/ Reject(q, u))
        BY <3>1, ZenonT(60) DEF TakeDead, Redeem, Reject
      <3>4. ASSUME NEW u \in Txn, NEW b \in Binding PROVE ~(PutCheck(q, u, b) \/ TakeMatch(q, u, b))
        BY <3>1, ZenonT(60) DEF PutCheck, TakeMatch
      <3>5. ~(PutLocked(q) \/ Answer(q))
        BY <3>1 DEF PutLocked, Answer
      <3> QED
        BY <2>1, <3>2, <3>3, <3>4, <3>5 DEF Handler
    <2>3. p = q /\ t = call[q].txn /\ ~used[t]
      BY <2>2 DEF TakeRemove, IInv, TypeOK
    <2> QED
      BY <2>2, <2>3, StoreAssumption, SMTT(60) DEF TakeRemove, IInv, TypeOK, CallInv
  <1> QED
    BY <1>1, Invariance, PTL DEF Spec, OnlyBoundBrowserObtains

\* A live login leaves the store only by the Take that presents its binding.
THEOREM LiveLoginsStay == Spec => NeverEvictsLive
  <1> DEFINE Leaves == \A t \in Txn :
                          entries[t] # NoBinding /\ entries'[t] # entries[t] =>
                              \/ Dead(t)
                              \/ /\ mu # NoProc
                                 /\ call[mu].txn = t
                                 /\ call[mu].binding = entries[t]
  <1>1. IInv /\ [Next]_vars => [Leaves]_vars
    <2> SUFFICES ASSUME IInv, Next,
                        NEW t \in Txn, entries[t] # NoBinding, entries'[t] # entries[t]
                 PROVE  \/ Dead(t)
                        \/ /\ mu # NoProc
                           /\ call[mu].txn = t
                           /\ call[mu].binding = entries[t]
      BY DEF vars
    <2>1. PICK p \in Proc : Handler(p)
      BY ZenonT(60) DEF Next, Tick
    <2>2. \/ PutLocked(p)
          \/ \E u \in Txn : TakeDead(p, u)
          \/ TakeRemove(p)
      BY <2>1, ZenonT(60) DEF Handler, Begin, PutCheck, TakeMatch, Redeem, Reject, Answer
    <2>3. CASE PutLocked(p)
      <3>1. entries'[t] = MakeRoom(entries)[t] \/ MakeRoom(entries)[t] = NoBinding
        BY <2>3, MakeRoomRemoves DEF PutLocked, Accepts, IInv, TypeOK, CallInv
      <3> QED
        BY <3>1, ZenonT(60) DEF MakeRoom, pruneExpired, IInv, TypeOK
    <2>4. ASSUME NEW u \in Txn, TakeDead(p, u) PROVE Dead(t)
      BY <2>4, ZenonT(60) DEF TakeDead, IInv, TypeOK
    <2>5. CASE TakeRemove(p)
      BY <2>5, StoreAssumption DEF TakeRemove, IInv, TypeOK, LockInv, CallInv
    <2> QED
      BY <2>2, <2>3, <2>4, <2>5
  <1> QED
    BY <1>1, Invariance, PTL DEF Spec, NeverEvictsLive

\* Put refuses a login in time that is not stored only when live logins take up
\* the whole capacity: the prune comes before the second look at the size.
THEOREM RefusalJustified == Spec => RefusedOnlyForLiveLogins
  <1> DEFINE Live == {u \in Txn : entries[u] # NoBinding /\ ~Dead(u)}
             Refuses == \A p \in Proc :
                           LET t == call[p].txn
                           IN  /\ call[p].at = "put"
                               /\ call'[p].at = "idle"
                               /\ ~Expired(t)
                               /\ entries'[t] = NoBinding
                               => Cardinality(Live) >= Capacity
  <1>1. IInv /\ [Next]_vars => [Refuses]_vars
    <2> SUFFICES ASSUME IInv, Next, NEW p \in Proc, call[p].at = "put", call'[p].at = "idle",
                        ~Expired(call[p].txn), entries'[call[p].txn] = NoBinding
                 PROVE  Cardinality(Live) >= Capacity
      BY ZenonT(60) DEF vars
    <2> DEFINE t == call[p].txn
               room == MakeRoom(entries)
    <2>1. PutLocked(p)
      <3>1. call' # call
        OBVIOUS
      <3>2. PICK q \in Proc : Handler(q)
        BY <3>1 DEF Next, Tick
      <3>3. p = q
        <4>1. \A r \in Proc \ {q} : call'[r] = call[r]
          BY <3>2, ZenonT(60)
             DEF Handler, Begin, TakeDead, Redeem, Reject, PutCheck, TakeMatch, PutLocked,
                      TakeRemove, Answer, IInv, TypeOK
        <4> QED
          BY <4>1, SMTT(60)
      <3>4. call[p] # Idle
        BY IdleAt, SMTT(60)
      <3>5. \A u \in Txn : ~(Begin(p, u) \/ TakeDead(p, u) \/ Redeem(p, u) \/ Reject(p, u))
        BY <3>4, ZenonT(60) DEF Begin, TakeDead, Redeem, Reject
      <3>6. \A u \in Txn, b \in Binding : ~(PutCheck(p, u, b) \/ TakeMatch(p, u, b))
        BY <3>4 DEF PutCheck, TakeMatch
      <3>7. ~(TakeRemove(p) \/ Answer(p))
        BY ZenonT(60) DEF TakeRemove, Answer
      <3> QED
        BY <3>2, <3>3, <3>5, <3>6, <3>7 DEF Handler
    <2>2. /\ t \in Txn /\ call[p].binding \in Binding
          /\ room \in [Txn -> Binding \cup {NoBinding}]
          /\ now \in Nat /\ createdAt[t] \in Nat /\ createdAt[t] <= now
      BY MakeRoomRemoves, ZenonT(60) DEF IInv, TypeOK, CallInv, Reachability
    <2>3. ~Accepts(room, t) /\ entries' = room
      BY <2>1, <2>2, StoreAssumption, ZenonT(60) DEF PutLocked
    <2>4. ~FromFuture(t)
      <3> HIDE DEF t, room
      <3> QED
        BY <2>2, StoreAssumption DEF FromFuture
    <2>5. Full(room)
      BY <2>3, <2>4 DEF Accepts
    <2>6. room = pruneExpired(entries)
      BY <2>5 DEF MakeRoom
    <2>7. Stored(room) = Live
      BY <2>6 DEF pruneExpired, Stored
    <2> QED
      BY <2>5, <2>7, SMTT(60) DEF Full
  <1> QED
    BY <1>1, Invariance, PTL DEF Spec, RefusedOnlyForLiveLogins

-----------------------------------------------------------------------------
(* Refinement *)

\* The store implements the one-use promise: every step of a handler is one
\* step of the promise for one login, or leaves every login's phase alone.
THEOREM Refinement == Spec => KeepsPromise
  <1>1. Init => Promise!PromiseInit
    BY DEF Init, Promise!PromiseInit, LoginPhase
  <1>2. IInv /\ [Next]_vars => [Promise!PromiseNext]_LoginPhase
    <2> SUFFICES ASSUME IInv, [Next]_vars
                 PROVE  Promise!PromiseNext \/ LoginPhase' = LoginPhase
      OBVIOUS
    <2>1. ASSUME NEW p \in Proc, NEW t \in Txn, Begin(p, t)
          PROVE  Promise!Open(t)
      BY <2>1, ZenonT(60)
         DEF Begin, exchangeVars, Promise!Open, Promise!Step, LoginPhase, IInv,
                  TypeOK, Reachability
    <2>2. ASSUME NEW p \in Proc, NEW t \in Txn, Redeem(p, t)
          PROVE  Promise!Redeem(t)
      BY <2>2, ZenonT(60)
         DEF Redeem, Redeemable, Spend, loginVars, Promise!Redeem, Promise!Step,
                  LoginPhase, IInv, TypeOK, Reachability
    <2>3. ASSUME NEW p \in Proc, NEW t \in Txn, Reject(p, t)
          PROVE  Promise!Spoil(t)
      BY <2>3, ZenonT(60)
         DEF Reject, Spend, loginVars, exchangeVars, Promise!Spoil, Promise!Step,
                  LoginPhase, IInv, TypeOK, Reachability, ExchangeInv
    <2>4. ASSUME NEW p \in Proc, Answer(p)
          PROVE  \E t \in Txn : Promise!Verify(t) \/ Promise!Refuse(t)
      <3> DEFINE t == call[p].txn
      <3>1. t \in Txn /\ t \in begun /\ outcome[t] = "pending" /\ used[t]
        BY <2>4 DEF Answer, IInv, TypeOK, CallInv, ExchangeInv
      <3>2. PICK result \in {"verified", "refused"} : outcome' = [outcome EXCEPT ![t] = result]
        BY <2>4, ZenonT(60) DEF Answer
      <3>3. UNCHANGED <<begun, used>>
        BY <2>4 DEF Answer, loginVars
      <3> HIDE DEF t
      <3>4. LoginPhase[t] = "redeeming"
        BY <3>1 DEF LoginPhase
      <3>5. CASE result = "verified"
        <4>1. LoginPhase' = [LoginPhase EXCEPT ![t] = "verified"]
          BY <3>1, <3>2, <3>3, <3>5, ZenonT(60) DEF LoginPhase, IInv, TypeOK
        <4> QED
          BY <3>1, <3>4, <4>1, ZenonT(60) DEF Promise!Verify, Promise!Step
      <3>6. CASE result = "refused"
        <4>1. LoginPhase' = [LoginPhase EXCEPT ![t] = "closed"]
          BY <3>1, <3>2, <3>3, <3>6, ZenonT(60) DEF LoginPhase, IInv, TypeOK
        <4> QED
          BY <3>1, <3>4, <4>1, ZenonT(60) DEF Promise!Refuse, Promise!Step
      <3> QED
        BY <3>2, <3>5, <3>6
    <2>5. ASSUME UNCHANGED <<begun, used, outcome>>
          PROVE  LoginPhase' = LoginPhase
      BY <2>5 DEF LoginPhase
    <2>6. ASSUME NEW p \in Proc, Handler(p)
          PROVE  Promise!PromiseNext \/ LoginPhase' = LoginPhase
      BY <2>1, <2>2, <2>3, <2>4, <2>5, <2>6, ZenonT(60)
         DEF Handler, PutCheck, PutLocked, TakeDead, TakeMatch, TakeRemove,
             loginVars, exchangeVars, Promise!PromiseNext
    <2> QED
      BY <2>5, <2>6 DEF Next, Tick, vars, loginVars, exchangeVars
  <1> QED
    BY <1>1, <1>2, Invariance, PTL DEF Spec, KeepsPromise, Promise!PromiseSpec
=============================================================================

------------------------- MODULE SealedLoginProofs -------------------------
(***************************************************************************)
(* Proofs about SealedLogin for any number of replicas, logins, bindings   *)
(* and clients, any lifetimes, and clocks that differ by up to clockSkew.  *)
(* The heart is OneCopy: a login exists once, in the database or in the    *)
(* memory of one replica, so each of its copies can be redeemed blindly.   *)
(***************************************************************************)
EXTENDS SealedLogin, TLAPS

\* Before the first login the invariant holds.
LEMMA InitIInv == Init => IInv
  <1> SUFFICES ASSUME Init PROVE IInv
    OBVIOUS
  <1> USE SealedAssumption DEF Init
  <1>1. TypeOK
    BY DEF TypeOK, Hand, Stage, Idle
  <1>2. OneCopy /\ CopyInv /\ OwnClientOnly
    BY DEF OneCopy, CopyInv, OwnClientOnly, InHand, Idle
  <1>3. StampInv /\ ExchangeInv
    BY DEF StampInv, ExchangeInv, Begun
  <1> QED
    BY <1>1, <1>2, <1>3 DEF IInv

\* Every step of a replica, a crash and the clock preserve it.
LEMMA NextIInv == IInv /\ [Next]_vars => IInv'
  <1> SUFFICES ASSUME IInv, [Next]_vars PROVE IInv'
    OBVIOUS
  <1> USE SealedAssumption
  <1>1. ASSUME NEW r \in Replica, NEW t \in Txn, NEW c \in Client, Begin(r, t, c)
        PROVE  IInv'
    <2> USE <1>1 DEF Begin, Stamp, Clock, clockVars, loginVars, rowVars, exchangeVars
    <2>1. TypeOK'
      BY DEF IInv, TypeOK, Hand, Stage, Idle
    <2>2. OneCopy'
      BY DEF IInv, TypeOK, OneCopy, CopyInv, InHand, Begun, Idle
    <2>3. CopyInv'
      BY DEF IInv, TypeOK, OneCopy, CopyInv, StampInv, InHand, Begun, Idle
    <2>4. StampInv'
      BY DEF IInv, TypeOK, CopyInv, StampInv, Begun
    <2>5. ExchangeInv'
      BY DEF IInv, TypeOK, CopyInv, ExchangeInv
    <2>6. OwnClientOnly'
      BY DEF IInv, TypeOK, CopyInv, OwnClientOnly, Begun, Idle
    <2> QED
      BY <2>1, <2>2, <2>3, <2>4, <2>5, <2>6 DEF IInv
  <1>2. ASSUME NEW r \in Replica, Seal(r) PROVE IInv'
    <2> USE <1>2 DEF Seal, Goes, Stops, clockVars, loginVars, rowVars, exchangeVars
    <2>1. hand[r].at # "idle" /\ hand[r].txn \in Txn /\ hand[r].client \in Client
      BY DEF IInv, CopyInv
    <2>2. /\ \A s \in Replica : s # r => hand'[s] = hand[s]
          /\ \/ hand'[r] = Idle
             \/ /\ hand'[r].at = "sealed"
                /\ hand'[r].txn = hand[r].txn
                /\ hand'[r].client = hand[r].client
      BY <2>1 DEF IInv, TypeOK, Hand
    <2>3. TypeOK'
      BY <2>1, <2>2 DEF IInv, TypeOK, Hand, Stage, Idle
    <2>4. OneCopy'
      BY <2>1, <2>2, SMTT(60) DEF IInv, TypeOK, OneCopy, CopyInv, InHand, Begun, Idle
    <2>5. CopyInv'
      BY <2>1, <2>2, SMTT(60) DEF IInv, TypeOK, OneCopy, CopyInv, StampInv, InHand, Begun, Idle
    <2>6. StampInv'
      BY <2>1, <2>2 DEF IInv, TypeOK, CopyInv, StampInv, Begun
    <2>7. ExchangeInv'
      BY <2>1, <2>2 DEF IInv, TypeOK, CopyInv, ExchangeInv
    <2>8. OwnClientOnly'
      BY <2>1, <2>2 DEF IInv, TypeOK, CopyInv, OwnClientOnly, Begun, Idle
    <2> QED
      BY <2>3, <2>4, <2>5, <2>6, <2>7, <2>8 DEF IInv
  <1>3. ASSUME NEW r \in Replica, NEW b \in Binding, Insert(r, b) PROVE IInv'
    <2> USE <1>3 DEF Insert, Stops, clockVars, loginVars, rowVars, exchangeVars
    <2>1. hand[r].at # "idle" /\ hand[r].txn \in Txn /\ hand[r].client \in Client
      BY DEF IInv, CopyInv
    <2>2. TypeOK'
      BY <2>1 DEF IInv, TypeOK, Hand, Stage, Idle
    <2>3. OneCopy'
      BY <2>1 DEF IInv, TypeOK, OneCopy, CopyInv, InHand, Begun, Idle
    <2>4. CopyInv'
      BY <2>1 DEF IInv, TypeOK, OneCopy, CopyInv, StampInv, InHand, Begun, Idle
    <2>5. StampInv'
      BY <2>1 DEF IInv, TypeOK, CopyInv, StampInv, Begun
    <2>6. ExchangeInv'
      BY <2>1 DEF IInv, TypeOK, CopyInv, ExchangeInv
    <2>7. OwnClientOnly'
      BY <2>1 DEF IInv, TypeOK, CopyInv, OwnClientOnly, Begun, Idle
    <2> QED
      BY <2>2, <2>3, <2>4, <2>5, <2>6, <2>7 DEF IInv
  <1>4. ASSUME NEW r \in Replica, NEW t \in Txn, NEW b \in Binding, NEW c \in Client,
               Take(r, t, b, c)
        PROVE  IInv'
    <2> USE <1>4 DEF Take, DeleteRow, clockVars, loginVars, rowVars, exchangeVars
    <2>1. TypeOK'
      BY DEF IInv, TypeOK, Hand, Stage, Idle
    <2>2. OneCopy'
      BY DEF IInv, TypeOK, OneCopy, CopyInv, InHand, Begun, Idle
    <2>3. CopyInv'
      BY DEF IInv, TypeOK, OneCopy, CopyInv, StampInv, InHand, Begun, Idle
    <2>4. StampInv'
      BY DEF IInv, TypeOK, CopyInv, StampInv, Begun
    <2>5. ExchangeInv'
      BY DEF IInv, TypeOK, CopyInv, ExchangeInv
    <2>6. OwnClientOnly'
      BY DEF IInv, TypeOK, CopyInv, OwnClientOnly, Begun, Idle
    <2> QED
      BY <2>1, <2>2, <2>3, <2>4, <2>5, <2>6 DEF IInv
  <1>5. ASSUME NEW r \in Replica, Open(r) PROVE IInv'
    <2> USE <1>5 DEF Open, Goes, Stops, clockVars, loginVars, rowVars, exchangeVars
    <2>1. hand[r].at # "idle" /\ hand[r].txn \in Txn /\ hand[r].client \in Client
      BY DEF IInv, CopyInv
    <2>2. /\ \A s \in Replica : s # r => hand'[s] = hand[s]
          /\ \/ hand'[r] = Idle
             \/ /\ hand'[r].at = "opened"
                /\ hand'[r].txn = hand[r].txn
                /\ hand'[r].client = hand[r].client
                /\ hand[r].client = owner[hand[r].txn]
      BY <2>1 DEF IInv, TypeOK, Hand, transactionAAD
    <2>3. TypeOK'
      BY <2>1, <2>2 DEF IInv, TypeOK, Hand, Stage, Idle
    <2>4. OneCopy'
      BY <2>1, <2>2 DEF IInv, TypeOK, OneCopy, CopyInv, InHand, Begun, Idle
    <2>5. CopyInv'
      BY <2>1, <2>2, SMTT(60) DEF IInv, TypeOK, OneCopy, CopyInv, StampInv, InHand, Begun, Idle
    <2>6. StampInv'
      BY <2>1, <2>2 DEF IInv, TypeOK, CopyInv, StampInv, Begun
    <2>7. ExchangeInv'
      BY <2>1, <2>2 DEF IInv, TypeOK, CopyInv, ExchangeInv
    <2>8. OwnClientOnly'
      BY <2>1, <2>2 DEF IInv, TypeOK, CopyInv, OwnClientOnly, Begun, Idle
    <2> QED
      BY <2>3, <2>4, <2>5, <2>6, <2>7, <2>8 DEF IInv
  <1>6. ASSUME NEW r \in Replica, Redeem(r) PROVE IInv'
    <2> USE <1>6 DEF Redeem, Goes, clockVars, loginVars, rowVars, exchangeVars
    <2>1. hand[r].at # "idle" /\ hand[r].txn \in Txn /\ hand[r].client \in Client
      BY DEF IInv, CopyInv
    <2>2. TypeOK'
      BY <2>1, SMTT(60) DEF IInv, TypeOK, Hand, Stage, Idle
    <2>3. OneCopy'
      BY <2>1 DEF IInv, TypeOK, OneCopy, CopyInv, InHand, Begun, Idle
    <2>4. CopyInv'
      BY <2>1 DEF IInv, TypeOK, OneCopy, CopyInv, StampInv, InHand, Begun, Idle
    <2>5. StampInv'
      BY <2>1 DEF IInv, TypeOK, CopyInv, StampInv, Begun
    <2>6. ExchangeInv'
      BY <2>1 DEF IInv, TypeOK, CopyInv, ExchangeInv
    <2>7. OwnClientOnly'
      BY <2>1 DEF IInv, TypeOK, CopyInv, OwnClientOnly, Begun, Idle
    <2> QED
      BY <2>2, <2>3, <2>4, <2>5, <2>6, <2>7 DEF IInv
  <1>7. ASSUME NEW r \in Replica, Reject(r) PROVE IInv'
    <2> USE <1>7 DEF Reject, Stops, clockVars, loginVars, rowVars, exchangeVars
    <2>1. hand[r].at # "idle" /\ hand[r].txn \in Txn /\ hand[r].client \in Client
      BY DEF IInv, CopyInv
    <2>2. TypeOK'
      BY <2>1 DEF IInv, TypeOK, Hand, Stage, Idle
    <2>3. OneCopy'
      BY <2>1 DEF IInv, TypeOK, OneCopy, CopyInv, InHand, Begun, Idle
    <2>4. CopyInv'
      BY <2>1 DEF IInv, TypeOK, OneCopy, CopyInv, StampInv, InHand, Begun, Idle
    <2>5. StampInv'
      BY <2>1 DEF IInv, TypeOK, CopyInv, StampInv, Begun
    <2>6. ExchangeInv'
      BY <2>1 DEF IInv, TypeOK, CopyInv, ExchangeInv
    <2>7. OwnClientOnly'
      BY <2>1 DEF IInv, TypeOK, CopyInv, OwnClientOnly, Begun, Idle
    <2> QED
      BY <2>2, <2>3, <2>4, <2>5, <2>6, <2>7 DEF IInv
  <1>8. ASSUME NEW r \in Replica, Answer(r) PROVE IInv'
    <2> USE <1>8 DEF Answer, Stops, clockVars, loginVars, rowVars, exchangeVars
    <2>1. hand[r].at # "idle" /\ hand[r].txn \in Txn /\ hand[r].client \in Client
      BY DEF IInv, CopyInv
    <2>2. TypeOK'
      BY <2>1 DEF IInv, TypeOK, Hand, Stage, Idle
    <2>3. OneCopy'
      BY <2>1 DEF IInv, TypeOK, OneCopy, CopyInv, InHand, Begun, Idle
    <2>4. CopyInv'
      BY <2>1 DEF IInv, TypeOK, OneCopy, CopyInv, StampInv, InHand, Begun, Idle
    <2>5. StampInv'
      BY <2>1 DEF IInv, TypeOK, CopyInv, StampInv, Begun
    <2>6. ExchangeInv'
      BY <2>1 DEF IInv, TypeOK, CopyInv, ExchangeInv
    <2>7. OwnClientOnly'
      BY <2>1 DEF IInv, TypeOK, CopyInv, OwnClientOnly, Begun, Idle
    <2> QED
      BY <2>2, <2>3, <2>4, <2>5, <2>6, <2>7 DEF IInv
  <1>9. ASSUME NEW r \in Replica, Crash(r) PROVE IInv'
    <2> USE <1>9 DEF Crash, Stops, clockVars, loginVars, rowVars, exchangeVars
    <2>1. hand[r].at # "idle" /\ hand[r].txn \in Txn /\ hand[r].client \in Client
      BY DEF IInv, CopyInv
    <2>2. TypeOK'
      BY <2>1 DEF IInv, TypeOK, Hand, Stage, Idle
    <2>3. OneCopy'
      BY <2>1 DEF IInv, TypeOK, OneCopy, CopyInv, InHand, Begun, Idle
    <2>4. CopyInv'
      BY <2>1 DEF IInv, TypeOK, OneCopy, CopyInv, StampInv, InHand, Begun, Idle
    <2>5. StampInv'
      BY <2>1 DEF IInv, TypeOK, CopyInv, StampInv, Begun
    <2>6. ExchangeInv'
      BY <2>1 DEF IInv, TypeOK, CopyInv, ExchangeInv
    <2>7. OwnClientOnly'
      BY <2>1 DEF IInv, TypeOK, CopyInv, OwnClientOnly, Begun, Idle
    <2> QED
      BY <2>2, <2>3, <2>4, <2>5, <2>6, <2>7 DEF IInv
  <1>10. ASSUME Tick PROVE IInv'
    <2> USE <1>10 DEF Tick, clockVars, loginVars, rowVars, exchangeVars
    <2>1. TypeOK'
      BY DEF IInv, TypeOK, Hand, Stage, Idle
    <2>2. OneCopy'
      BY DEF IInv, TypeOK, OneCopy, CopyInv, InHand, Begun, Idle
    <2>3. CopyInv'
      BY DEF IInv, TypeOK, OneCopy, CopyInv, StampInv, InHand, Begun, Idle
    <2>4. StampInv'
      BY DEF IInv, TypeOK, CopyInv, StampInv, Begun
    <2>5. ExchangeInv'
      BY DEF IInv, TypeOK, CopyInv, ExchangeInv
    <2>6. OwnClientOnly'
      BY DEF IInv, TypeOK, CopyInv, OwnClientOnly, Begun, Idle
    <2> QED
      BY <2>1, <2>2, <2>3, <2>4, <2>5, <2>6 DEF IInv
  <1>11. CASE UNCHANGED vars
    BY <1>11 DEF vars, clockVars, loginVars, rowVars, exchangeVars, IInv, TypeOK, OneCopy,
                 CopyInv, StampInv, ExchangeInv, OwnClientOnly, InHand, Begun
  <1> QED
    BY <1>1, <1>2, <1>3, <1>4, <1>5, <1>6, <1>7, <1>8, <1>9, <1>10, <1>11 DEF Next

\* The inductive invariant holds in every reachable state.
THEOREM Invariance == Spec => []IInv
  BY InitIInv, NextIInv, PTL DEF Spec

\* Every variable keeps its type.
THEOREM TypeCorrect == Spec => []TypeOK
  <1>1. IInv => TypeOK
    BY DEF IInv
  <1> QED
    BY <1>1, Invariance, PTL

\* One atomic delete per record makes Open's fresh transactions harmless: no
\* login is exchanged twice, whichever replicas crash.
THEOREM AtMostOneExchange == Spec => []OneExchange
  <1>1. IInv => OneExchange
    BY DEF IInv, ExchangeInv, OneExchange
  <1> QED
    BY <1>1, Invariance, PTL

\* A client completes only logins sealed for its issuer, client and redirect.
THEOREM OwnClient == Spec => []OwnClientOnly
  <1>1. IInv => OwnClientOnly
    BY DEF IInv
  <1> QED
    BY <1>1, Invariance, PTL

\* Within clockSkew no replica takes a login for one of the future.
THEOREM SkewIsTolerated == Spec => []SkewTolerated
  <1>1. IInv => SkewTolerated
    BY SealedAssumption DEF IInv, TypeOK, StampInv, SkewTolerated, FromFuture, Clock, Begun
  <1> QED
    BY <1>1, Invariance, PTL

\* An exchange starts only within the lifetime and the clocks' difference.
THEOREM ExchangesStartInTime == Spec => RedeemedInTime
  <1> DEFINE InTime == \A t \in Txn :
                          exchanges'[t] # exchanges[t] =>
                              now <= begunAt[t] + Lifetime + MaxOffset
  <1>1. IInv /\ [Next]_vars => [InTime]_vars
    <2> SUFFICES ASSUME IInv, Next, NEW t \in Txn, exchanges'[t] # exchanges[t]
                 PROVE  now <= begunAt[t] + Lifetime + MaxOffset
      BY ZenonT(60) DEF vars
    <2>1. PICK r \in Replica : Redeem(r)
      BY DEF Next, Tick, Begin, Seal, Insert, Take, Open, Reject, Answer, Crash, exchangeVars
    <2>2. t = hand[r].txn /\ Begun(t)
      BY <2>1 DEF Redeem, IInv, TypeOK, CopyInv
    <2>3. ~Expired(r, t)
      BY <2>1, <2>2 DEF Redeem, validTransactionTime
    <2> QED
      BY <2>2, <2>3, SealedAssumption DEF Expired, Clock, IInv, TypeOK, StampInv
  <1> QED
    BY <1>1, Invariance, PTL DEF Spec, RedeemedInTime

-----------------------------------------------------------------------------
(* SealedLogin implements OneUseLogin *)

\* A step that moves the phase of one login along is a step of the promise.
LEMMA PhaseMoves ==
  ASSUME NEW u \in Txn,
         \A t \in Txn : t # u => LoginPhase'[t] = LoginPhase[t],
         \/ LoginPhase[u] = "new" /\ LoginPhase'[u] = "open"
         \/ LoginPhase[u] = "open" /\ LoginPhase'[u] = "redeeming"
         \/ LoginPhase[u] = "open" /\ LoginPhase'[u] = "closed"
         \/ LoginPhase[u] = "redeeming" /\ LoginPhase'[u] = "verified"
         \/ LoginPhase[u] = "redeeming" /\ LoginPhase'[u] = "closed"
         \/ LoginPhase[u] = LoginPhase'[u]
  PROVE  [Promise!PromiseNext]_LoginPhase
  <1>1. LoginPhase' = [LoginPhase EXCEPT ![u] = LoginPhase'[u]]
    BY ZenonT(60) DEF LoginPhase
  <1>2. CASE LoginPhase[u] = LoginPhase'[u]
    BY <1>1, <1>2 DEF LoginPhase
  <1> QED
    BY <1>1, <1>2 DEF Promise!PromiseNext, Promise!Open, Promise!Redeem, Promise!Spoil,
                      Promise!Verify, Promise!Refuse, Promise!Step

\* A step that leaves a login's record, copies and outcome alone leaves its
\* phase alone.
LEMMA PhaseStays ==
  ASSUME NEW t \in Txn,
         begunAt'[t] = begunAt[t], outcome'[t] = outcome[t],
         Copied(t)' <=> Copied(t)
  PROVE  LoginPhase'[t] = LoginPhase[t]
  BY DEF LoginPhase, Begun

\* Every step of the replicas is one of the promise, or changes no phase.
THEOREM Refinement == Spec => KeepsPromise
  <1>1. Init => Promise!PromiseInit
    BY DEF Init, Promise!PromiseInit, LoginPhase, Begun
  <1>2. IInv /\ [Next]_vars => [Promise!PromiseNext]_LoginPhase
    <2> SUFFICES ASSUME IInv, [Next]_vars PROVE [Promise!PromiseNext]_LoginPhase
      OBVIOUS
    <2>1. ASSUME NEW r \in Replica, NEW t \in Txn, NEW c \in Client, Begin(r, t, c)
          PROVE  [Promise!PromiseNext]_LoginPhase
      <3> USE <2>1 DEF Begin, rowVars, exchangeVars, clockVars
      <3>1. \A u \in Txn : u # t => LoginPhase'[u] = LoginPhase[u]
        <4> SUFFICES ASSUME NEW u \in Txn, u # t PROVE LoginPhase'[u] = LoginPhase[u]
          OBVIOUS
        <4>1. \A s \in Replica : InHand(s, u)' <=> InHand(s, u)
          BY DEF IInv, TypeOK, InHand, Idle
        <4> QED
          BY <4>1, PhaseStays DEF IInv, TypeOK, Copied
      <3>2. LoginPhase[t] = "new"
        BY DEF LoginPhase, Begun
      <3>3. InHand(r, t)' /\ Begun(t)' /\ outcome'[t] = "none"
        BY SMTT(60) DEF IInv, TypeOK, InHand, Begun, StampInv
      <3>4. LoginPhase'[t] = "open"
        BY <3>3, ZenonT(60) DEF LoginPhase, Copied
      <3> QED
        BY <3>1, <3>2, <3>4, PhaseMoves, ZenonT(60)
    <2>2. ASSUME NEW r \in Replica, NEW t \in Txn, NEW b \in Binding, NEW c \in Client,
                 Take(r, t, b, c)
          PROVE  [Promise!PromiseNext]_LoginPhase
      <3> USE <2>2 DEF Take, DeleteRow, exchangeVars, clockVars, loginVars
      <3>1. \A u \in Txn : Copied(u)' <=> Copied(u)
        <4> SUFFICES ASSUME NEW u \in Txn PROVE Copied(u)' <=> Copied(u)
          OBVIOUS
        <4>1. CASE u = t
          BY <4>1, SealedAssumption DEF IInv, TypeOK, Copied, InHand
        <4>2. CASE u # t
          <5>1. \A s \in Replica : InHand(s, u)' <=> InHand(s, u)
            BY <4>2, SMTT(60) DEF IInv, TypeOK, InHand, Idle
          <5> QED
            BY <4>2, <5>1 DEF IInv, TypeOK, Copied
        <4> QED
          BY <4>1, <4>2
      <3>2. \A u \in Txn : LoginPhase'[u] = LoginPhase[u]
        BY <3>1, PhaseStays
      <3> QED
        BY <3>2, PhaseMoves
    <2>3. ASSUME NEW r \in Replica, hand[r].at # "idle",
                 Seal(r) \/ (\E b \in Binding : Insert(r, b)) \/ Open(r) \/ Redeem(r)
                 \/ Reject(r) \/ Answer(r) \/ Crash(r)
          PROVE  [Promise!PromiseNext]_LoginPhase
      <3> DEFINE t == hand[r].txn
      <3>1. t \in Txn /\ Begun(t) /\ InHand(r, t) /\ row[t] = NoBinding
            /\ outcome[t] = IF hand[r].at = "exchange" THEN "pending" ELSE "none"
        BY <2>3 DEF IInv, CopyInv, OneCopy, InHand
      <3>2. LoginPhase[t] = IF hand[r].at = "exchange" THEN "redeeming" ELSE "open"
        BY <3>1 DEF LoginPhase, Copied
      <3>3. /\ begunAt' = begunAt
            /\ \A u \in Txn : u # t => row'[u] = row[u] /\ outcome'[u] = outcome[u]
            /\ \A s \in Replica : s # r => hand'[s] = hand[s]
            /\ hand'[r].at # "idle" => hand'[r].txn = t
        BY <2>3 DEF Seal, Insert, Open, Redeem, Reject, Answer, Crash, Goes, Stops, Idle,
                    loginVars, rowVars, exchangeVars, IInv, TypeOK, Hand
      <3>4. \A u \in Txn : u # t => LoginPhase'[u] = LoginPhase[u]
        <4> SUFFICES ASSUME NEW u \in Txn, u # t PROVE LoginPhase'[u] = LoginPhase[u]
          OBVIOUS
        <4>1. \A s \in Replica : InHand(s, u)' <=> InHand(s, u)
          BY <3>3, ZenonT(60) DEF InHand
        <4> QED
          BY <3>3, <4>1, PhaseStays DEF Copied
      <3>5. /\ hand[r].at = "exchange" => outcome'[t] \in {"verified", "refused"}
            /\ hand[r].at # "exchange" => outcome'[t] \in {"none", "pending"}
        BY <2>3, <3>1, ZenonT(60)
           DEF Seal, Insert, Open, Redeem, Reject, Answer, Crash, exchangeVars,
                          IInv, TypeOK
      <3>6. begunAt'[t] # -1
        BY <3>1, <3>3 DEF Begun
      <3>7. /\ hand[r].at = "exchange" => LoginPhase'[t] \in {"verified", "closed"}
            /\ hand[r].at # "exchange" => LoginPhase'[t] \in {"open", "redeeming", "closed"}
        BY <3>1, <3>5, <3>6 DEF LoginPhase, Begun
      <3> HIDE DEF t
      <3> QED
        BY <3>1, <3>2, <3>4, <3>7, PhaseMoves, ZenonT(60)
    <2>4. ASSUME Tick \/ UNCHANGED vars PROVE [Promise!PromiseNext]_LoginPhase
      BY <2>4, ZenonT(60)
         DEF Tick, vars, clockVars, loginVars, rowVars, exchangeVars, LoginPhase, Begun,
                  Copied, InHand
    <2>5. ASSUME NEW r \in Replica,
                 Seal(r) \/ (\E b \in Binding : Insert(r, b)) \/ Open(r) \/ Redeem(r)
                 \/ Reject(r) \/ Answer(r) \/ Crash(r)
          PROVE  hand[r].at # "idle"
      BY <2>5 DEF Seal, Insert, Open, Redeem, Reject, Answer, Crash
    <2> QED
      BY <2>1, <2>2, <2>3, <2>4, <2>5 DEF Next
  <1> QED
    BY <1>1, <1>2, Invariance, PTL DEF Spec, KeepsPromise, Promise!PromiseSpec
=============================================================================

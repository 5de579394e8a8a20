-------------------------- MODULE ReadinessProofs --------------------------
(***************************************************************************)
(* Proofs about Readiness for any checks and any number of overlapping     *)
(* requests.  A step of one call leaves the other calls alone; for its own *)
(* call there is one step per action.                                      *)
(***************************************************************************)
EXTENDS Readiness, FiniteSetTheorems, TLAPS

\* Before anything is registered or asked.
LEMMA InitIInv == Init => IInv
  <1> SUFFICES ASSUME Init PROVE IInv
    OBVIOUS
  <1>1. TypeOK
    BY DEF Init, TypeOK
  <1>2. IsFiniteSet(registered) /\ \A c \in Call : CallInv(c)
    BY FS_EmptySet DEF Init, CallInv
  <1> QED
    BY <1>1, <1>2 DEF IInv

\* A call is as before when nothing that belongs to it has changed.
LEMMA CallUntouched ==
    ASSUME NEW c \in Call, CallInv(c), at'[c] = at[c], checks'[c] = checks[c],
           probe'[c] = probe[c], verdict'[c] = verdict[c], results'[c] = results[c],
           pending'[c] = pending[c], failed'[c] = failed[c], status'[c] = status[c]
    PROVE  CallInv(c)'
  BY DEF CallInv

\* Registering a check leaves every call alone; only a finite number of checks
\* is ever registered.
LEMMA RegisterStep ==
    ASSUME IInv, NEW n \in Name, Register(n)
    PROVE  IInv'
  <1> USE DEF IInv, Register, probeVars, collectVars
  <1>1. TypeOK'
    BY DEF TypeOK
  <1>2. IsFiniteSet(registered)'
    BY FS_AddElement
  <1>3. \A c \in Call : CallInv(c)'
    BY CallUntouched
  <1> QED
    BY <1>1, <1>2, <1>3

\* A call starts with its copy of the checks and a goroutine for each.
LEMMA StartStep ==
    ASSUME IInv, NEW c \in Call, Start(c)
    PROVE  IInv'
  <1> USE DEF IInv, Start
  <1>1. TypeOK'
    BY DEF TypeOK, CallInv
  <1>2. CallInv(c)'
    BY DEF TypeOK, CallInv
  <1>3. ASSUME NEW d \in Call \ {c} PROVE CallInv(d)'
    BY CallUntouched DEF TypeOK
  <1> QED
    BY <1>1, <1>2, <1>3

\* A check that ends has not been received yet, so nothing is known of it.
LEMMA CheckStep ==
    ASSUME IInv, NEW c \in Call, NEW n \in Name, NEW v \in {"ok", "error", "panic"}, CheckEnds(c, n, v)
    PROVE  IInv'
  <1> USE DEF IInv, CheckEnds, collectVars
  <1>1. TypeOK'
    BY DEF TypeOK
  <1>2. CallInv(c)'
    BY DEF TypeOK, CallInv
  <1>3. ASSUME NEW d \in Call \ {c} PROVE CallInv(d)'
    BY CallUntouched DEF TypeOK
  <1> QED
    BY <1>1, <1>2, <1>3

\* A goroutine sends its result and ends.
LEMMA SendStep ==
    ASSUME IInv, NEW c \in Call, NEW n \in Name, Send(c, n)
    PROVE  IInv'
  <1> USE DEF IInv, Send, collectVars
  <1>1. TypeOK'
    BY DEF TypeOK, CallInv
  <1>2. CallInv(c)'
    BY DEF TypeOK, CallInv
  <1>3. ASSUME NEW d \in Call \ {c} PROVE CallInv(d)'
    BY CallUntouched DEF TypeOK
  <1> QED
    BY <1>1, <1>2, <1>3

\* Ready collects, gives up, or answers.
LEMMA ReadyStep ==
    ASSUME IInv, NEW c \in Call, Ready(c) \/ Expire(c)
    PROVE  IInv'
  <1> USE DEF IInv, probeVars, collectVars
  <1>1. ASSUME NEW n \in Name, Receive(c, n) PROVE IInv'
    <2> USE <1>1 DEF Receive, Erred
    <2>1. TypeOK'
      BY DEF TypeOK
    <2>2. CallInv(c)'
      BY DEF TypeOK, CallInv
    <2>3. ASSUME NEW d \in Call \ {c} PROVE CallInv(d)'
      BY CallUntouched DEF TypeOK
    <2> QED
      BY <2>1, <2>2, <2>3
  <1>2. CASE GiveUp(c)
    <2> USE <1>2 DEF GiveUp, Unanswered
    <2>1. TypeOK'
      BY DEF TypeOK
    <2>2. CallInv(c)'
      BY DEF TypeOK, CallInv
    <2>3. ASSUME NEW d \in Call \ {c} PROVE CallInv(d)'
      BY CallUntouched DEF TypeOK
    <2> QED
      BY <2>1, <2>2, <2>3
  <1>3. CASE Respond(c)
    <2> USE <1>3 DEF Respond
    <2>1. TypeOK'
      BY DEF TypeOK
    <2>2. CallInv(c)'
      BY DEF TypeOK, CallInv
    <2>3. ASSUME NEW d \in Call \ {c} PROVE CallInv(d)'
      BY CallUntouched DEF TypeOK
    <2> QED
      BY <2>1, <2>2, <2>3
  <1>4. CASE Expire(c)
    <2> USE <1>4 DEF Expire
    <2>1. TypeOK'
      BY DEF TypeOK
    <2>2. \A d \in Call : CallInv(d)'
      BY CallUntouched
    <2> QED
      BY <2>1, <2>2
  <1> QED
    BY <1>1, <1>2, <1>3, <1>4 DEF Ready

\* Every step preserves the invariant.
LEMMA NextIInv == IInv /\ [Next]_vars => IInv'
  <1> SUFFICES ASSUME IInv, [Next]_vars PROVE IInv'
    OBVIOUS
  <1>1. CASE UNCHANGED vars
    <2> USE <1>1 DEF vars, probeVars, collectVars, IInv
    <2>1. TypeOK' /\ IsFiniteSet(registered)'
      BY DEF TypeOK
    <2>2. \A c \in Call : CallInv(c)'
      BY CallUntouched
    <2> QED
      BY <2>1, <2>2
  <1> QED
    BY <1>1, RegisterStep, StartStep, CheckStep, SendStep, ReadyStep DEF Next

\* The invariant holds in every state.
LEMMA Invariance == Spec => []IInv
  BY InitIInv, NextIInv, PTL DEF Spec

\* For any checks and overlapping requests: an answer of up means that every
\* check registered when the call began has returned without error or panic.
THEOREM UpIsTrue == Spec => []UpMeansAllPassed
  <1>1. IInv => UpMeansAllPassed
    <2> SUFFICES ASSUME IInv, NEW c \in Call, status[c] = "up", NEW n \in checks[c]
                 PROVE  verdict[c][n] = "ok"
      BY DEF UpMeansAllPassed
    <2>1. n \in Name
      BY DEF IInv, TypeOK
    <2> QED
      BY <2>1 DEF IInv, CallInv
  <1> QED
    BY <1>1, Invariance, PTL

\* The channel has a place for every check: a goroutine whose check has
\* returned can send its result at once, before or after the answer.
THEOREM SendsNeverBlock == Spec => []SendNeverBlocks
  <1>1. IInv => SendNeverBlocks
    <2> SUFFICES ASSUME IInv, NEW c \in Call, NEW n \in Name, probe[c][n] = "sending"
                 PROVE  ChannelHasRoom(c)
      BY DEF SendNeverBlocks
    <2>1. n \in checks[c] /\ n \notin results[c] /\ results[c] \in SUBSET checks[c]
      BY DEF IInv, TypeOK, CallInv
    <2>2. IsFiniteSet(checks[c])
      BY DEF IInv, CallInv
    <2>3. /\ Cardinality(results[c]) <= Cardinality(checks[c])
          /\ Cardinality(checks[c]) = Cardinality(results[c]) => checks[c] = results[c]
          /\ IsFiniteSet(results[c])
      BY <2>1, <2>2, FS_Subset
    <2>4. Cardinality(results[c]) \in Nat /\ Cardinality(checks[c]) \in Nat
      BY <2>2, <2>3, FS_CardinalityType
    <2> QED
      BY <2>1, <2>3, <2>4 DEF ChannelHasRoom
  <1> QED
    BY <1>1, Invariance, PTL
=============================================================================

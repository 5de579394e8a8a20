-------------------------- MODULE LoginFlowProofs --------------------------
(***************************************************************************)
(* Proofs about the cache and the logins that use it, for every number of  *)
(* refreshers, clients and logins and every choice of the time constants.  *)
(* First ConfigurationCache on its own.  Then LoginFlow: every step of the *)
(* flow is a step of the cache or leaves the cache alone, so the cache's   *)
(* invariant is taken over.  Last RefreshLoop, the loop that calls Refresh *)
(* of a cache with the same maximum age and timeout.                       *)
(***************************************************************************)
EXTENDS LoginFlow, RefreshLoop, TLAPS

-----------------------------------------------------------------------------
(* The configuration cache *)

\* The inductive invariant holds before the first call.
LEMMA InitIInv == Init => IInv
  BY CacheAssumption
     DEF Init, IInv, TypeOK, LockInv, FetchInv, AgeInv, StampFollowsFetch,
         KeysYoungAtBegin, Location

\* Every step of a refresher, a client, the issuer or the clock preserves it.
LEMMA NextIInv == IInv /\ [Next]_vars => IInv'
  <1> SUFFICES ASSUME IInv, [Next]_vars PROVE IInv'
    OBVIOUS
  <1> USE CacheAssumption DEF IInv, fetchVars, cacheVars
  <1>1. ASSUME NEW r \in Refresher, RefreshCall(r) PROVE IInv'
    <2> USE <1>1 DEF RefreshCall
    <2>1. TypeOK'
      BY DEF TypeOK, Location
    <2>2. LockInv'
      BY DEF TypeOK, LockInv
    <2>3. FetchInv'
      BY DEF TypeOK, FetchInv
    <2>4. AgeInv' /\ StampFollowsFetch' /\ KeysYoungAtBegin'
      BY DEF AgeInv, StampFollowsFetch, KeysYoungAtBegin
    <2> QED
      BY <2>1, <2>2, <2>3, <2>4
  <1>2. ASSUME NEW r \in Refresher, RefreshLock(r) PROVE IInv'
    <2> USE <1>2 DEF RefreshLock, FetchDeadline, RefreshFree
    <2>1. TypeOK'
      BY DEF TypeOK, Location
    <2>2. LockInv'
      BY DEF TypeOK, LockInv
    <2>3. FetchInv'
      BY DEF TypeOK, FetchInv
    <2>4. AgeInv' /\ StampFollowsFetch' /\ KeysYoungAtBegin'
      BY DEF AgeInv, StampFollowsFetch, KeysYoungAtBegin
    <2> QED
      BY <2>1, <2>2, <2>3, <2>4
  <1>3. ASSUME NEW r \in Refresher, FetchMetadata(r) PROVE IInv'
    <2> USE <1>3 DEF FetchMetadata
    <2>1. TypeOK'
      BY DEF TypeOK, Location
    <2>2. LockInv'
      BY DEF TypeOK, LockInv
    <2>3. FetchInv'
      BY DEF TypeOK, FetchInv
    <2>4. AgeInv' /\ StampFollowsFetch' /\ KeysYoungAtBegin'
      BY DEF AgeInv, StampFollowsFetch, KeysYoungAtBegin
    <2> QED
      BY <2>1, <2>2, <2>3, <2>4
  <1>4. ASSUME NEW r \in Refresher, FetchKeys(r) PROVE IInv'
    <2> USE <1>4 DEF FetchKeys
    <2>1. TypeOK'
      BY DEF TypeOK, Location, KeySet
    <2>2. LockInv'
      BY DEF TypeOK, LockInv
    <2>3. FetchInv'
      BY DEF TypeOK, FetchInv, AgeInv, KeySet
    <2>4. AgeInv' /\ StampFollowsFetch' /\ KeysYoungAtBegin'
      BY DEF AgeInv, StampFollowsFetch, KeysYoungAtBegin
    <2> QED
      BY <2>1, <2>2, <2>3, <2>4
  <1>5. ASSUME NEW r \in Refresher, Publish(r) PROVE IInv'
    <2> USE <1>5 DEF Publish, Unlock
    <2>1. /\ fetched[r] \in KeySet
          /\ fetched[r].servedAt <= now /\ now <= fetched[r].servedAt + FetchTimeout
          /\ fetched[r].generation <= generation
      BY DEF TypeOK, FetchInv, KeySet
    <2>2. current' \in Configuration /\ current'.servedAt = fetched[r].servedAt
                                     /\ current'.generation = fetched[r].generation
      BY <2>1 DEF TypeOK, KeySet, Configuration
    <2>3. TypeOK'
      BY <2>2 DEF TypeOK, Location
    <2>4. LockInv'
      BY DEF TypeOK, LockInv
    <2>5. FetchInv'
      BY DEF TypeOK, FetchInv, LockInv
    <2>6. AgeInv' /\ KeysYoungAtBegin'
      BY <2>1, <2>2 DEF TypeOK, AgeInv, KeysYoungAtBegin
    <2>7. StampFollowsFetch'
      BY <2>1, <2>2 DEF StampFollowsFetch
    <2> QED
      BY <2>3, <2>4, <2>5, <2>6, <2>7
  <1>6. ASSUME NEW r \in Refresher, RefreshFail(r) PROVE IInv'
    <2> USE <1>6 DEF RefreshFail, StampKept, Unlock
    <2>1. TypeOK'
      BY DEF TypeOK, Location
    <2>2. LockInv'
      BY DEF TypeOK, LockInv
    <2>3. FetchInv'
      BY DEF TypeOK, FetchInv
    <2>4. AgeInv' /\ StampFollowsFetch' /\ KeysYoungAtBegin'
      BY DEF AgeInv, StampFollowsFetch, KeysYoungAtBegin
    <2> QED
      BY <2>1, <2>2, <2>3, <2>4
  <1>7. ASSUME NEW c \in Client, BuildClient(c) PROVE IInv'
    <2> USE <1>7 DEF BuildClient
    <2>1. /\ Snapshot \in Configuration
          /\ Snapshot.servedAt = current.servedAt
          /\ Snapshot.validUntil = fetchedAt + MaxAge
          /\ current \in Configuration
      BY DEF TypeOK, CurrentOK, Snapshot, Configuration
    <2>2. TypeOK'
      BY <2>1 DEF TypeOK
    <2>3. LockInv' /\ FetchInv' /\ StampFollowsFetch' /\ KeysYoungAtBegin'
      BY DEF LockInv, FetchInv, StampFollowsFetch, KeysYoungAtBegin
    <2>4. current.servedAt <= now /\ fetchedAt + MaxAge <= current.servedAt + FetchTimeout + MaxAge
      BY <2>1 DEF TypeOK, StampFollowsFetch, AgeInv, Configuration
    <2>5. AgeInv'
      BY <2>1, <2>4 DEF TypeOK, AgeInv
    <2> QED
      BY <2>2, <2>3, <2>5
  <1>8. ASSUME NEW c \in Client, Begin(c) PROVE IInv'
    <2> USE <1>8 DEF Begin
    <2>1. client[c] \in Configuration /\ client[c].servedAt <= now
                                      /\ now < client[c].servedAt + FetchTimeout + MaxAge
      BY DEF TypeOK, AgeInv, Configuration
    <2>2. TypeOK' /\ KeysYoungAtBegin'
      BY <2>1 DEF TypeOK, KeysYoungAtBegin, Configuration
    <2>3. LockInv' /\ FetchInv' /\ AgeInv' /\ StampFollowsFetch'
      BY DEF LockInv, FetchInv, AgeInv, StampFollowsFetch
    <2> QED
      BY <2>2, <2>3
  <1>9. CASE Rotate
    <2> USE <1>9 DEF Rotate
    <2>1. TypeOK' /\ LockInv' /\ StampFollowsFetch' /\ KeysYoungAtBegin'
      BY DEF TypeOK, LockInv, StampFollowsFetch, KeysYoungAtBegin
    <2>2. FetchInv'
      BY DEF TypeOK, FetchInv, KeySet
    <2>3. AgeInv'
      BY DEF TypeOK, AgeInv, Configuration
    <2> QED
      BY <2>1, <2>2, <2>3
  <1>10. CASE Tick
    <2> USE <1>10 DEF Tick
    <2>1. TypeOK' /\ LockInv' /\ StampFollowsFetch' /\ KeysYoungAtBegin'
      BY DEF TypeOK, LockInv, StampFollowsFetch, KeysYoungAtBegin
    <2>2. FetchInv'
      BY DEF TypeOK, FetchInv, KeySet
    <2>3. AgeInv'
      BY SMTT(60) DEF TypeOK, AgeInv, Configuration
    <2> QED
      BY <2>1, <2>2, <2>3
  <1>11. CASE UNCHANGED vars
    BY <1>11 DEF vars, TypeOK, LockInv, FetchInv, AgeInv, StampFollowsFetch, KeysYoungAtBegin
  <1> QED
    BY <1>1, <1>2, <1>3, <1>4, <1>5, <1>6, <1>7, <1>8, <1>9, <1>10, <1>11 DEF Next, Refreshing

\* The inductive invariant of the cache holds in every reachable state.
THEOREM Invariance == Spec => []IInv
  BY InitIInv, NextIInv, PTL DEF Spec

\* LoginClient.Begin refuses keys older than the cache's maximum age plus the
\* time one Discover may take, whenever the client was built.
THEOREM KeysYoung == Spec => []KeysYoungAtBegin
  <1>1. IInv => KeysYoungAtBegin
    BY DEF IInv
  <1> QED
    BY <1>1, Invariance, PTL

\* Only a successful fetch moves the freshness deadline, by at most its own
\* duration past the moment the issuer served the keys.
THEOREM DeadlineFollowsFetch == Spec => []StampFollowsFetch
  <1>1. IInv => StampFollowsFetch
    BY DEF IInv
  <1> QED
    BY <1>1, Invariance, PTL

\* Status and Current, written as different comparisons, never disagree.
THEOREM StatusMatchesCurrent == Spec => []StatusAgrees
  <1>1. IInv => StatusAgrees
    BY CacheAssumption, SMTT(60)
       DEF IInv, TypeOK, StatusAgrees, StatusFresh, CurrentOK, ExpiresAt
  <1> QED
    BY <1>1, Invariance, PTL

\* refreshMu keeps a slow refresh from replacing newer keys with older ones.
THEOREM KeysNeverRollBack == Spec => NoKeyRollback
  <1> DEFINE Forward == current # NoConfiguration =>
                            current' # NoConfiguration /\ current'.generation >= current.generation
  <1>1. IInv /\ [Next]_vars => [Forward]_vars
    <2> SUFFICES ASSUME IInv, Next, current # NoConfiguration
                 PROVE  current' # NoConfiguration /\ current'.generation >= current.generation
      BY DEF vars
    <2>1. ASSUME NEW r \in Refresher, Publish(r)
          PROVE  current' # NoConfiguration /\ current'.generation >= current.generation
      <3>1. fetched[r] \in KeySet /\ current.generation <= fetched[r].generation
        BY <2>1 DEF Publish, IInv, TypeOK, FetchInv
      <3>2. current' \in Configuration /\ current'.generation = fetched[r].generation
        BY <2>1, <3>1, CacheAssumption DEF Publish, IInv, TypeOK, KeySet, Configuration
      <3> QED
        BY <3>1, <3>2, CacheAssumption DEF IInv, TypeOK, KeySet, Configuration
    <2>2. CASE UNCHANGED current
      BY <2>2, SMTT(60) DEF IInv, TypeOK, Configuration
    <2> QED
      BY <2>1, <2>2 DEF Next, Refreshing, RefreshCall, RefreshLock, FetchMetadata, FetchKeys,
                        RefreshFail, BuildClient, Begin, Rotate, Tick, cacheVars
  <1> QED
    BY <1>1, Invariance, PTL DEF Spec, NoKeyRollback

-----------------------------------------------------------------------------
(* The login flow *)

\* Seen from the cache, a step of the flow is a step of the cache or a stutter.
LEMMA FlowStepIsCacheStep == [FlowNext]_flowVars => [Next]_vars
  BY DEF FlowNext, flowVars, CacheStep, BeginLogin, Sign, Redeem, Accept, Fail,
         Introspect, Report, ReturnActive, ReturnInactive, Revoke, Next

\* The flow implements the cache: logins only begin on its clients.
THEOREM FlowImplements == FlowSpec => Spec
  <1>1. FlowInit => Init
    BY DEF FlowInit
  <1> QED
    BY <1>1, FlowStepIsCacheStep, PTL DEF FlowSpec, Spec

\* So while logins are under way no refresh rolls the keys back either.
THEOREM FlowKeysNeverRollBack == FlowSpec => NoKeyRollback
  BY FlowImplements, KeysNeverRollBack, PTL

\* The invariant holds before the first login.
LEMMA FlowInitInv == FlowInit => FlowIInv
  BY InitIInv, CacheAssumption, LoginAssumption DEF FlowInit, FlowIInv, FlowTypeOK, FlowInv, LoginInv

\* What is known of a login depends on the clock and its own variables only.
LEMMA LoginKept ==
    ASSUME NEW l \in Login, LoginInv(l), now' = now, token'[l] = token[l], phase'[l] = phase[l],
           owner'[l] = owner[l], createdAt'[l] = createdAt[l], answerBy'[l] = answerBy[l],
           revokedAt'[l] = revokedAt[l]
    PROVE  LoginInv(l)'
  BY DEF LoginInv

\* Every step of a login, the issuer, the cache or the clock preserves it.
LEMMA FlowNextInv == FlowIInv /\ [FlowNext]_flowVars => FlowIInv'
  <1> SUFFICES ASSUME FlowIInv, [FlowNext]_flowVars PROVE FlowIInv'
    OBVIOUS
  <1> USE CacheAssumption, LoginAssumption DEF FlowIInv, issuerVars, loginVars
  <1>0. TypeOK /\ AgeInv
    BY DEF IInv
  <1>1. ASSUME CacheStep PROVE FlowTypeOK' /\ FlowInv'
    <2>1. FlowTypeOK'
      BY <1>1 DEF CacheStep, FlowTypeOK
    <2>2. CASE now' = now
      BY <1>1, <2>2, ZenonT(60) DEF CacheStep, FlowTypeOK, FlowInv, LoginInv
    <2>3. CASE Tick /\ \A l \in Login : Waiting(l) => now < answerBy[l]
      <3> SUFFICES ASSUME NEW l \in Login PROVE LoginInv(l)'
        BY <2>1, ZenonT(60) DEF FlowInv
      <3>1. now \in Nat /\ now' = now + 1 /\ UNCHANGED <<issuerVars, loginVars>>
        BY <1>1, <1>0, <2>3 DEF CacheStep, Tick, TypeOK
      <3>2. answerBy[l] \in Nat /\ createdAt[l] \in Nat
            /\ (token[l] # NoToken => token[l].signedAt \in Nat)
        BY DEF FlowTypeOK, Token
      <3>3. LoginInv(l)
        BY ZenonT(60) DEF FlowInv
      <3> QED
        BY <2>3, <3>1, <3>2, <3>3 DEF LoginInv, Waiting
    <2>4. now' = now \/ (Tick /\ \A l \in Login : Waiting(l) => now < answerBy[l])
      BY <1>1 DEF CacheStep, RefreshCall, Refreshing, RefreshLock, FetchMetadata, FetchKeys,
                  Publish, RefreshFail, BuildClient, Rotate
    <2> QED
      BY <2>1, <2>2, <2>3, <2>4
  <1>2. ASSUME NEW l \in Login, NEW c \in Client, BeginLogin(l, c) PROVE FlowTypeOK' /\ FlowInv'
    <2>1. client[c] \in Configuration /\ now < client[c].validUntil /\ now' = now
      BY <1>0, <1>2 DEF BeginLogin, Begin, TypeOK
    <2>2. now - client[c].servedAt < MaxAge + FetchTimeout
      BY <1>0, <2>1 DEF TypeOK, AgeInv, Configuration
    <2>3. FlowTypeOK'
      BY <1>0, <1>2, <2>1, ZenonT(60) DEF BeginLogin, FlowTypeOK, TypeOK
    <2>4. FlowInv'
      BY <1>0, <1>2, <2>1, <2>2 DEF BeginLogin, FlowTypeOK, FlowInv, LoginInv, TypeOK
    <2> QED
      BY <2>3, <2>4
  <1>3. ASSUME NEW l \in Login, NEW life \in TokenLife, NEW delay \in NotBeforeDelay,
               Sign(l, life, delay)
        PROVE  FlowTypeOK' /\ FlowInv'
    <2>1. [key |-> generation, signedAt |-> now, life |-> life, delay |-> delay] \in Token
      BY <1>0, ZenonT(60) DEF TypeOK, Token
    <2>2. FlowTypeOK'
      BY <1>3, <2>1, SMTT(60) DEF Sign, FlowTypeOK
    <2>3. ASSUME NEW k \in Login \ {l} PROVE LoginInv(k)'
      BY <1>3, LoginKept, ZenonT(60) DEF Sign, FlowTypeOK, FlowInv, vars
    <2>4. LoginInv(l)'
      <3>1. /\ phase'[l] = phase[l] /\ phase[l] # "new" /\ phase[l] # "told"
            /\ token'[l] \in Token /\ token'[l].signedAt = now
        BY <1>3, <2>1 DEF Sign, FlowTypeOK, FlowInv, LoginInv
      <3>2. now' = now /\ UNCHANGED <<owner, createdAt, answerBy, revokedAt>>
        BY <1>3 DEF Sign, vars
      <3>3. LoginInv(l) /\ now \in Nat /\ createdAt[l] \in Nat
        BY <1>0 DEF FlowInv, FlowTypeOK, TypeOK
      <3> QED
        BY <3>1, <3>2, <3>3, SMTT(60) DEF LoginInv
    <2> QED
      BY <2>2, <2>3, <2>4 DEF FlowInv
  <1>4. ASSUME NEW l \in Login, Redeem(l) PROVE FlowTypeOK' /\ FlowInv'
    <2>1. now \in Nat /\ now' = now /\ createdAt[l] \in Nat /\ createdAt[l] <= now
      BY <1>0, <1>4 DEF Redeem, FlowTypeOK, FlowInv, LoginInv, TypeOK, vars
    <2>2. FlowTypeOK'
      BY <1>4, <2>1, SMTT(60) DEF Redeem, FlowTypeOK
    <2>3. ASSUME NEW k \in Login \ {l} PROVE LoginInv(k)'
      BY <1>4, LoginKept, ZenonT(60) DEF Redeem, FlowTypeOK, FlowInv, vars
    <2>4. LoginInv(l)'
      <3>1. /\ phase[l] = "begun" /\ phase'[l] = "exchange"
            /\ answerBy'[l] = now + ExchangeTimeout
            /\ UNCHANGED <<token, revokedAt, owner, createdAt>>
        BY <1>4 DEF Redeem, FlowTypeOK
      <3>2. now + ExchangeTimeout <= createdAt[l] + Lifetime + ExchangeTimeout
        BY <1>4, <2>1 DEF Redeem, TooOld
      <3>3. LoginInv(l)
        BY DEF FlowInv
      <3>4. /\ owner[l] # NoConfiguration
            /\ createdAt[l] - owner[l].servedAt < MaxAge + FetchTimeout
            /\ token[l] # NoToken => createdAt[l] <= token[l].signedAt /\ token[l].signedAt <= now
        BY <3>1, <3>3, ZenonT(60) DEF LoginInv
      <3>5. now <= now + ExchangeTimeout
        BY <2>1
      <3> QED
        BY <2>1, <3>1, <3>2, <3>4, <3>5, ZenonT(60) DEF LoginInv
    <2> QED
      BY <2>2, <2>3, <2>4, ZenonT(60) DEF FlowInv
  <1>5. ASSUME NEW l \in Login, Accept(l) \/ Fail(l) PROVE FlowTypeOK' /\ FlowInv'
    <2>1. FlowTypeOK'
      <3>1. /\ phase' = [phase EXCEPT ![l] = phase'[l]] /\ phase'[l] \in {"verified", "failed"}
            /\ UNCHANGED issuerVars
        BY <1>5 DEF Accept, Fail, FlowTypeOK
      <3>2. Forget(l) /\ 0 \in Nat
        BY <1>5 DEF Accept, Fail
      <3> QED
        BY <3>1, <3>2, ZenonT(60) DEF Forget, FlowTypeOK
    <2>2. ASSUME NEW k \in Login \ {l} PROVE LoginInv(k)'
      BY <1>5, LoginKept, ZenonT(60) DEF Accept, Fail, Forget, FlowTypeOK, FlowInv, vars
    <2>3. LoginInv(l)'
      BY <1>5 DEF Accept, Fail, FlowTypeOK, LoginInv
    <2> QED
      BY <2>1, <2>2, <2>3 DEF FlowInv
  <1>6. ASSUME NEW l \in Login, Introspect(l) \/ Report(l) \/ ReturnActive(l) \/ ReturnInactive(l)
        PROVE  FlowTypeOK' /\ FlowInv'
    <2>1. now \in Nat /\ now' = now /\ UNCHANGED <<issuerVars, owner, createdAt>>
      BY <1>0, <1>6 DEF Introspect, Report, ReturnActive, ReturnInactive, TypeOK, vars
    <2>2. /\ phase' = [phase EXCEPT ![l] = phase'[l]]
          /\ phase'[l] \in {"verified", "asking", "told", "active"}
      BY <1>6 DEF Introspect, Report, ReturnActive, ReturnInactive, FlowTypeOK
    <2>3. answerBy' = [answerBy EXCEPT ![l] = answerBy'[l]] /\ answerBy'[l] \in Nat
      <3>1. now + ExchangeTimeout \in Nat
        BY <2>1
      <3>2. CASE Introspect(l)
        BY <3>1, <3>2 DEF Introspect, IntrospectBy, FlowTypeOK
      <3>3. CASE Report(l)
        BY <3>3 DEF Report, FlowTypeOK
      <3>4. CASE ReturnActive(l) \/ ReturnInactive(l)
        BY <3>4 DEF ReturnActive, ReturnInactive, FlowTypeOK
      <3> QED
        BY <1>6, <3>2, <3>3, <3>4
    <2>4. FlowTypeOK'
      BY <2>1, <2>2, <2>3, SMTT(60) DEF FlowTypeOK
    <2>5. LoginInv(l)'
      BY <1>6, <2>1 DEF Introspect, Report, ReturnActive, ReturnInactive, IntrospectBy,
                        ActiveAtIssuer, FlowTypeOK, FlowInv, LoginInv, Token
    <2>6. ASSUME NEW k \in Login \ {l} PROVE LoginInv(k)'
      BY <2>1, <2>2, <2>3, LoginKept, ZenonT(60) DEF FlowTypeOK, FlowInv
    <2> QED
      BY <2>4, <2>5, <2>6, ZenonT(60) DEF FlowInv
  <1>7. ASSUME NEW l \in Login, Revoke(l) PROVE FlowTypeOK' /\ FlowInv'
    BY <1>0, <1>7, ZenonT(60) DEF Revoke, FlowTypeOK, FlowInv, LoginInv, TypeOK, vars
  <1>8. ASSUME UNCHANGED flowVars PROVE FlowTypeOK' /\ FlowInv'
    BY <1>8 DEF flowVars, vars, FlowTypeOK, FlowInv, LoginInv
  <1>9. IInv'
    BY FlowStepIsCacheStep, NextIInv
  <1> QED
    BY <1>1, <1>2, <1>3, <1>4, <1>5, <1>6, <1>7, <1>8, <1>9 DEF FlowNext

\* The inductive invariant of the login flow holds in every reachable state.
THEOREM FlowInvariance == FlowSpec => []FlowIInv
  BY FlowInitInv, FlowNextInv, PTL DEF FlowSpec

\* A login is verified only with keys of bounded age, as complete uses the
\* verifier of the client that began it and both waits have a deadline.
THEOREM KeyTrustIsBounded == FlowSpec => KeyTrustBounded
  <1>1. FlowIInv /\ [FlowNext]_flowVars =>
            [\A l \in Login : Identified(l) =>
                now - owner[l].servedAt < MaxAge + FetchTimeout + Lifetime + ExchangeTimeout]_flowVars
    <2> SUFFICES ASSUME FlowIInv, [FlowNext]_flowVars, NEW l \in Login, Identified(l),
                        flowVars' # flowVars
                 PROVE  now - owner[l].servedAt < MaxAge + FetchTimeout + Lifetime + ExchangeTimeout
      OBVIOUS
    <2>1. phase[l] = "exchange"
      BY SMTT(60) DEF Identified
    <2> QED
      BY <2>1, CacheAssumption, LoginAssumption, SMTT(60)
         DEF FlowIInv, FlowInv, LoginInv, FlowTypeOK, IInv, TypeOK, Configuration
  <1> QED
    BY <1>1, FlowInvariance, PTL DEF FlowSpec, KeyTrustBounded

\* Only a token with this login's nonce, signed since it began, verifies it.
THEOREM TokenIsOurs == FlowSpec => SignedForThisLogin
  <1>1. FlowIInv /\ [FlowNext]_flowVars =>
            [\A l \in Login : Identified(l) =>
                token[l] # NoToken /\ createdAt[l] <= token[l].signedAt]_flowVars
    <2> SUFFICES ASSUME FlowIInv, [FlowNext]_flowVars, NEW l \in Login, Identified(l),
                        flowVars' # flowVars
                 PROVE  token[l] # NoToken /\ createdAt[l] <= token[l].signedAt
      BY ZenonT(60)
    <2>1. phase[l] = "exchange" /\ Accept(l)
      BY DEF FlowIInv, FlowTypeOK, Identified, FlowNext, CacheStep, BeginLogin, Sign, Redeem,
             Accept, Fail, Introspect, Report, ReturnActive, ReturnInactive, Revoke, loginVars
    <2>2. PICK a \in Answers(l) : a[1] = l
      BY <2>1, SMTT(60) DEF Accept, VerifyIDToken, NonceMatches
    <2>3. token[l] # NoToken
      BY <2>2, LoginAssumption, ZenonT(60) DEF Answers
    <2> QED
      BY <2>1, <2>3, ZenonT(60) DEF FlowIInv, FlowInv, LoginInv
  <1> QED
    BY <1>1, FlowInvariance, PTL DEF FlowSpec, SignedForThisLogin

\* An active status is at most one timeout behind the issuer's: Introspect
\* gives the answer up at its deadline.
THEOREM ActiveStatusIsRecent == FlowSpec => ActiveIsRecent
  <1>1. FlowIInv /\ [FlowNext]_flowVars =>
            [\A l \in Login :
                phase[l] # "active" /\ phase'[l] = "active" =>
                    /\ now <= token[l].signedAt + AccessLife + ExchangeTimeout
                    /\ revokedAt[l] # NotRevoked =>
                           now <= revokedAt[l] + ExchangeTimeout]_flowVars
    <2> SUFFICES ASSUME FlowIInv, [FlowNext]_flowVars, NEW l \in Login,
                        phase[l] # "active", phase'[l] = "active", flowVars' # flowVars
                 PROVE  /\ now <= token[l].signedAt + AccessLife + ExchangeTimeout
                        /\ revokedAt[l] # NotRevoked => now <= revokedAt[l] + ExchangeTimeout
      BY ZenonT(60)
    <2>1. phase[l] = "told"
      BY SMTT(60)
         DEF FlowIInv, FlowTypeOK, FlowNext, CacheStep, BeginLogin, Sign, Redeem,
             Accept, Fail, Introspect, Report, ReturnActive, ReturnInactive, Revoke, loginVars
    <2>2. token[l] \in Token /\ answerBy[l] \in Nat /\ revokedAt[l] \in Nat \cup {NotRevoked} /\ now \in Nat
      BY <2>1, ZenonT(60) DEF FlowIInv, FlowInv, LoginInv, FlowTypeOK, IInv, TypeOK
    <2>3. /\ now <= answerBy[l]
          /\ answerBy[l] <= token[l].signedAt + AccessLife + ExchangeTimeout
          /\ revokedAt[l] # NotRevoked => answerBy[l] <= revokedAt[l] + ExchangeTimeout
      BY <2>1, ZenonT(60) DEF FlowIInv, FlowInv, LoginInv
    <2>4. token[l].signedAt \in Nat
      BY <2>2 DEF Token
    <2>5. revokedAt[l] # NotRevoked => revokedAt[l] \in Nat
      BY <2>2, ZenonT(60)
    <2>6. now <= token[l].signedAt + AccessLife + ExchangeTimeout
      BY <2>2, <2>3, <2>4, LoginAssumption, SMTT(60)
    <2>7. revokedAt[l] # NotRevoked => now <= revokedAt[l] + ExchangeTimeout
      BY <2>2, <2>3, <2>5, LoginAssumption, SMTT(60)
    <2> QED
      BY <2>6, <2>7, ZenonT(60)
  <1> QED
    BY <1>1, FlowInvariance, PTL DEF FlowSpec, ActiveIsRecent

\* The minute of tolerance covers a clock that is a minute ahead or behind, in
\* the issue time and in the not-before time.
THEOREM SkewedTokensAccepted == FlowSpec => []SkewedTokenInTime
  <1>1. FlowIInv => SkewedTokenInTime
    <2> SUFFICES ASSUME FlowIInv, NEW l \in Login, phase[l] = "exchange", token[l] # NoToken,
                        issuerOffset \in -ClockSkew..ClockSkew,
                        token[l].life \in (Lifetime + ExchangeTimeout + ClockSkew + 1)..MaxLifetime,
                        UsableWhenSigned(token[l])
                 PROVE  TimesOK(token[l])
      BY ZenonT(60) DEF SkewedTokenInTime
    <2> DEFINE t == token[l]
    <2>1. t \in Token /\ now \in Nat /\ createdAt[l] \in Nat /\ answerBy[l] \in Nat
      BY ZenonT(60) DEF FlowIInv, FlowTypeOK, IInv, TypeOK
    <2>2. /\ createdAt[l] <= t.signedAt /\ t.signedAt <= now
          /\ now <= answerBy[l] /\ answerBy[l] <= createdAt[l] + Lifetime + ExchangeTimeout
      BY ZenonT(60) DEF FlowIInv, FlowInv, LoginInv
    <2>3. t.signedAt \in Nat /\ t.life \in Nat /\ (t.delay # NoNotBefore => t.delay \in Int)
      BY <2>1, LoginAssumption, ZenonT(60) DEF Token
    <2>4. t.delay # NoNotBefore => NotBefore(t) <= now + ClockSkew
      BY <2>1, <2>2, <2>3, CacheAssumption DEF UsableWhenSigned, NotBefore, IssuedAt
    <2>5. /\ PositiveIssue(t)
          /\ now < Expiry(t) /\ Expiry(t) > IssuedAt(t)
          /\ Expiry(t) - IssuedAt(t) <= MaxLifetime
          /\ IssuedAt(t) <= now + ClockSkew
      BY <2>1, <2>2, <2>3, CacheAssumption, LoginAssumption DEF PositiveIssue, Expiry, IssuedAt
    <2> QED
      BY <2>4, <2>5, ZenonT(60) DEF TimesOK
  <1> QED
    BY <1>1, FlowInvariance, PTL

-----------------------------------------------------------------------------
(* The refresh loop *)

\* The pace is no faster than the ticker and no faster than a refresh may last.
LEMMA LoopPace ==
    /\ Interval \in Nat /\ FetchTimeout \in Nat /\ MaxAge \in Nat /\ MaxFailures \in Nat
    /\ Pace \in Nat /\ Interval <= Pace /\ FetchTimeout <= Pace
    /\ Oldest \in Nat
  <1>1. Pace \in Nat /\ Interval <= Pace /\ FetchTimeout <= Pace
    BY LoopAssumption DEF Pace
  <1>2. MaxFailures * Pace \in Nat
    BY <1>1, LoopAssumption
  <1> QED
    BY <1>1, <1>2, LoopAssumption DEF Oldest

\* A failure takes one pace from what is left for failures.
LEMMA LoopRetries ==
    ASSUME LoopTypeOK
    PROVE  /\ Retries \in Nat
           /\ failures < MaxFailures =>
                  Retries - Pace = (MaxFailures - (failures + 1)) * Pace
  <1> DEFINE k == MaxFailures - failures
  <1>1. k \in Nat
    BY LoopPace DEF LoopTypeOK
  <1>2. \A x, y \in Nat : x * y \in Nat /\ (x - 1) * y = x * y - y
    OBVIOUS
  <1>3. MaxFailures - (failures + 1) = k - 1
    BY LoopPace DEF LoopTypeOK
  <1> HIDE DEF k
  <1>4. Retries = k * Pace
    BY DEF Retries, k
  <1> QED
    BY <1>1, <1>2, <1>3, <1>4, LoopPace

\* Before the first refresh there is nothing that could age.
LEMMA LoopInitInv == LoopInit => LoopIInv
  <1>1. LoopInit => LoopTypeOK
    <2>1. LoopInit => buffered \in BOOLEAN /\ cancelled \in BOOLEAN /\ filled \in BOOLEAN
      BY ZenonT(60) DEF LoopInit
    <2>2. LoopInit => /\ left \in 0..FetchTimeout /\ untilTick \in 0..Interval
                      /\ age \in 0..MaxAge /\ failures \in 0..MaxFailures
      BY LoopPace DEF LoopInit
    <2> QED
      BY <2>1, <2>2 DEF LoopInit, LoopTypeOK
  <1>2. LoopInit => RetryInv /\ (loop = "returned" => cancelled)
    BY DEF LoopInit, RetryInv
  <1> QED
    BY <1>1, <1>2 DEF LoopIInv

\* No step lets the result age by more than is left.
LEMMA LoopNextInv == LoopIInv /\ [LoopNext]_loopVars => LoopIInv'
  <1> SUFFICES ASSUME LoopIInv, [LoopNext]_loopVars PROVE LoopIInv'
    OBVIOUS
  <1>0. /\ Interval \in Nat /\ FetchTimeout \in Nat /\ MaxAge \in Nat /\ MaxFailures \in Nat
        /\ Pace \in Nat /\ Interval <= Pace /\ FetchTimeout <= Pace
        /\ Oldest \in Nat /\ Retries \in Nat
    BY LoopPace, LoopRetries, ZenonT(60) DEF LoopIInv
  <1> USE <1>0 DEF LoopIInv, LoopTypeOK, placeVars, tickerVars, resultVars
  <1>1. CASE StartRefresh
    <2>1. UNCHANGED <<failures, age, filled>> /\ Retries' = Retries
      BY <1>1, ZenonT(60) DEF StartRefresh, Retries
    <2> QED
      BY <1>1, <2>1 DEF StartRefresh, RetryInv
  <1>2. CASE RefreshSucceeds
    <2>1. Retries' = MaxFailures * Pace
      BY <1>2 DEF RefreshSucceeds, Retries
    <2>2. Retries' \in Nat /\ Retries' + Interval + FetchTimeout = Oldest
      BY <2>1 DEF Oldest
    <2>3. RetryInv'
      <3>0. \A r, o, i, f \in Nat : \A u \in 0..i :
               r + i + f = o => 0 + u + r + f <= o /\ 0 + 0 + r + f <= o
        OBVIOUS
      <3>1. loop' = "waiting" /\ age' = 0 /\ untilTick' \in 0..Interval
        BY <1>2 DEF RefreshSucceeds
      <3>2. 0 + 0 + Retries' + FetchTimeout <= Oldest
        BY <2>2, <3>0, <3>1, ZenonT(60)
      <3>3. 0 + untilTick' + Retries' + FetchTimeout <= Oldest
        BY <2>2, <3>0, <3>1, ZenonT(60)
      <3> QED
        BY <3>1, <3>2, <3>3 DEF RetryInv
    <2>4. LoopTypeOK'
      <3>1. filled' \in BOOLEAN
        BY <1>2, ZenonT(60) DEF RefreshSucceeds
      <3> QED
        BY <1>2, <3>1 DEF RefreshSucceeds
    <2> QED
      BY <1>2, <2>3, <2>4 DEF RefreshSucceeds
  <1>3. CASE RefreshFails
    <2>1. ~cancelled => Retries' = Retries - Pace
      BY <1>3, LoopRetries, ZenonT(60) DEF RefreshFails, Retries
    <2> QED
      BY <1>3, <2>1 DEF RefreshFails, RetryInv
  <1>4. ASSUME UNCHANGED <<failures, age, filled>>,
               TakeTick \/ Return \/ Fire \/ Cancel \/ UNCHANGED loopVars
        PROVE  LoopIInv'
    <2>1. Retries' = Retries
      BY <1>4, ZenonT(60) DEF Retries
    <2>2. CASE TakeTick
      <3>1. buffered' \in BOOLEAN
        BY <2>2, ZenonT(60) DEF TakeTick
      <3> QED
        BY <1>4, <2>1, <2>2, <3>1 DEF TakeTick, RetryInv
    <2>3. CASE Return
      BY <1>4, <2>1, <2>3, ZenonT(60) DEF Return, RetryInv
    <2>4. CASE Fire
      BY <1>4, <2>1, <2>4, SMTT(60) DEF Fire, RetryInv
    <2>5. CASE Cancel
      BY <1>4, <2>1, <2>5, ZenonT(60) DEF Cancel, RetryInv
    <2>6. CASE UNCHANGED loopVars
      BY <1>4, <2>1, <2>6, SMTT(60) DEF loopVars, RetryInv
    <2> QED
      BY <1>4, <2>2, <2>3, <2>4, <2>5, <2>6
  <1>5. CASE Pass
    <2>1. Retries' = Retries
      BY <1>5 DEF Pass, Retries
    <2> QED
      BY <1>5, <2>1 DEF Pass, FetchMayLast, RetryInv
  <1> QED
    BY <1>1, <1>2, <1>3, <1>4, <1>5, ZenonT(60)
       DEF LoopNext, Step, Done, TakeTick, Return, Fire,
           Cancel, loopVars

\* When one interval, MaxFailures paces and one last fetch fit into the maximum
\* age, MaxFailures failed refreshes in a row never make the cache stale.  Run
\* itself asks only for twice the interval.
THEOREM RetriesInTime ==
    ASSUME LeavesTime
    PROVE  LoopSpec => []RetryInTime
  <1>1. LoopIInv => RetryInTime
    BY LoopPace, LoopRetries
       DEF LoopIInv, RetryInv, LoopTypeOK, RetryInTime, LeavesTime
  <1> QED
    BY <1>1, LoopInitInv, LoopNextInv, PTL DEF LoopSpec
=============================================================================

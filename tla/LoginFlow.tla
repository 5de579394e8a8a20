----------------------------- MODULE LoginFlow -----------------------------
(***************************************************************************)
(* A login from Begin to a verified identity: the configuration cache, the *)
(* clients built from it, complete (auth/oidc/login.go) with its code      *)
(* exchange, and VerifyIDToken (auth/oidc/verify.go), while the issuer     *)
(* rotates its keys and its clock differs from ours; and the introspection *)
(* of the access token afterwards (auth/oidc/introspection.go).            *)
(*                                                                         *)
(* The issuer is external: for a login that has begun it signs one ID      *)
(* token, with its current key, its own clock and the login's nonce; the   *)
(* exchange may be answered with a token of someone else's.  A key set of  *)
(* generation g lists the keys of g and of Overlap generations before it.  *)
(* What VerifyIDToken checks in a token whatever the time and the login    *)
(* (its form and header, issuer, subject, audience, authorized party) is   *)
(* the issuer's choice: a token that fails there is refused by Fail.  The  *)
(* access token that comes with an ID token lives for AccessLife, unless   *)
(* the issuer revokes it.  Times count from the start of the behaviour,    *)
(* whose Unix time is UnixStart.                                           *)
(***************************************************************************)
EXTENDS ConfigurationCache

CONSTANTS
    Login,            \* login transactions; each has a nonce of its own
    Lifetime,         \* transactionLifetime
    ExchangeTimeout,  \* discoveryTimeout, the deadline of the code exchange
    MaxLifetime,      \* maxLifetime of an ID token
    TokenLife,        \* lifetimes of the ID tokens the issuer signs
    NotBeforeDelay,   \* how long after its issue time each is not yet valid
    NoNotBefore,      \* the token has no nbf claim
    UnixStart,        \* Unix time when the behaviour starts
    AccessLife,       \* lifetime of the access tokens it issues with them
    MaxAccessLife,    \* the day an access token may still have to live
    Overlap,          \* superseded keys the issuer still lists
    MaxOffset,        \* how far the issuer's clock is ahead or behind
    OtherNonce,       \* the nonce of someone else's login
    NoToken,          \* nothing signed for this login
    NotRevoked        \* its access token is not revoked

Token == [key : Nat, signedAt : Nat, life : Nat, delay : NotBeforeDelay]

ASSUME LoginAssumption ==
    /\ Lifetime \in Nat
    /\ ExchangeTimeout \in Nat
    /\ MaxLifetime \in Nat
    /\ TokenLife \in SUBSET Nat
    /\ NotBeforeDelay \in SUBSET (Int \cup {NoNotBefore})
    /\ NoNotBefore \notin Int
    /\ UnixStart \in Nat /\ UnixStart > ClockSkew
    /\ AccessLife \in Nat
    /\ MaxAccessLife \in Nat
    /\ Overlap \in Nat
    /\ MaxOffset \in Nat
    /\ OtherNonce \notin Login
    /\ NoToken \notin Token
    /\ NotRevoked \notin Nat

VARIABLES
    issuerOffset,  \* the issuer's clock minus ours
    token,         \* the ID token signed for each login
    revokedAt,     \* when the issuer revoked its access token
    phase,         \* what has become of each login
    owner,         \* configuration of the client that began it
    createdAt,     \* Transaction.createdAt
    answerBy       \* deadline of its code exchange or introspection

issuerVars == <<issuerOffset, token, revokedAt>>
loginVars == <<phase, owner, createdAt, answerBy>>
flowVars == <<vars, issuerVars, loginVars>>

-----------------------------------------------------------------------------
(* What complete and VerifyIDToken compute *)

TooOld(l) == now - createdAt[l] > Lifetime

\* NewVerifier's map of the keys that a key set of this generation lists.
VerifierKeys(g) == (g - Overlap)..g

\* The verifier of the client that began the login has the signing key.
KnowsKey(l, t) == t.key \in VerifierKeys(owner[l].generation)

\* Slip: the nonce is not compared.
NonceIgnored(l, nonce) == nonce \in Login \cup {OtherNonce}

NonceMatches(l, nonce) == nonce = l

\* What the token says, by the issuer's clock.
IssuedAt(t) == t.signedAt + issuerOffset
Expiry(t) == IssuedAt(t) + t.life
NotBefore(t) == IssuedAt(t) + t.delay

\* An issue time that is a positive Unix time.
PositiveIssue(t) == UnixStart + IssuedAt(t) > 0

\* Slip: no allowance for a not-before time that our clock has yet to reach.
TimesStrict(t) ==
    /\ PositiveIssue(t)
    /\ now < Expiry(t)
    /\ Expiry(t) > IssuedAt(t)
    /\ Expiry(t) - IssuedAt(t) <= MaxLifetime
    /\ IssuedAt(t) <= now + ClockSkew
    /\ t.delay # NoNotBefore => NotBefore(t) <= now

\* Not expired, of bounded lifetime, not from the future, and already valid.
TimesOK(t) ==
    /\ PositiveIssue(t)
    /\ now < Expiry(t)
    /\ Expiry(t) > IssuedAt(t)
    /\ Expiry(t) - IssuedAt(t) <= MaxLifetime
    /\ IssuedAt(t) <= now + ClockSkew
    /\ t.delay # NoNotBefore => NotBefore(t) <= now + ClockSkew

\* VerifyIDToken accepts token t, which carries this nonce, for login l.
VerifyIDToken(l, nonce, t) == KnowsKey(l, t) /\ NonceMatches(l, nonce) /\ TimesOK(t)

\* The tokens, with their nonces, that the issuer (external) may answer with.
Answers(l) ==
    ({<<l, token[l]>>} \ {<<l, NoToken>>})
        \cup ({OtherNonce} \X [key : 0..generation, signedAt : 0..now, life : TokenLife,
                                delay : NotBeforeDelay])

\* The issuer (external) holds the access token of this login to be active.
ActiveAtIssuer(l) ==
    /\ token[l] # NoToken
    /\ now < token[l].signedAt + AccessLife
    /\ revokedAt[l] = NotRevoked

\* Slip: Introspect waits without a deadline.
IntrospectWithoutEnd == MaxTime + 1

IntrospectBy == now + ExchangeTimeout

\* The times in an active response, by the issuer's clock, are plausible.
ReportOK(t) ==
    /\ PositiveIssue(t)
    /\ IssuedAt(t) <= now + ClockSkew
    /\ AccessLife > 0
    /\ now < IssuedAt(t) + AccessLife
    /\ IssuedAt(t) + AccessLife <= now + MaxAccessLife

\* A call to the issuer is waiting for its answer.
Waiting(l) == phase[l] \in {"exchange", "asking", "told"}

-----------------------------------------------------------------------------

FlowInit ==
    /\ Init
    /\ issuerOffset \in -MaxOffset..MaxOffset
    /\ token = [l \in Login |-> NoToken]
    /\ revokedAt = [l \in Login |-> NotRevoked]
    /\ phase = [l \in Login |-> "new"]
    /\ owner = [l \in Login |-> NoConfiguration]
    /\ createdAt = [l \in Login |-> 0]
    /\ answerBy = [l \in Login |-> 0]

\* The client's pointer goes into the transaction: replacing the client later
\* does not change the keys this login is verified with.
BeginLogin(l, c) ==
    /\ phase[l] = "new"
    /\ Begin(c)
    /\ phase' = [phase EXCEPT ![l] = "begun"]
    /\ owner' = [owner EXCEPT ![l] = client[c]]
    /\ createdAt' = [createdAt EXCEPT ![l] = now]
    /\ UNCHANGED <<issuerVars, answerBy>>

\* The issuer signs a token for a login it has been shown.
Sign(l, life, delay) ==
    /\ phase[l] # "new"
    /\ token[l] = NoToken
    /\ token' = [token EXCEPT ![l] = [key |-> generation, signedAt |-> now, life |-> life,
                                      delay |-> delay]]
    /\ UNCHANGED <<vars, issuerOffset, revokedAt, loginVars>>

\* complete wins the transaction, its checks pass, and the code is sent.
Redeem(l) ==
    /\ phase[l] = "begun"
    /\ ~TooOld(l)
    /\ phase' = [phase EXCEPT ![l] = "exchange"]
    /\ answerBy' = [answerBy EXCEPT ![l] = now + ExchangeTimeout]
    /\ UNCHANGED <<vars, issuerVars, owner, createdAt>>

\* complete has returned: its transaction is spent and goes out of use.
Forget(l) ==
    /\ owner' = [owner EXCEPT ![l] = NoConfiguration]
    /\ createdAt' = [createdAt EXCEPT ![l] = 0]
    /\ answerBy' = [answerBy EXCEPT ![l] = 0]

\* The token response holds a token that verifies: complete returns an identity.
Accept(l) ==
    /\ phase[l] = "exchange"
    /\ \E a \in Answers(l) : VerifyIDToken(l, a[1], a[2])
    /\ phase' = [phase EXCEPT ![l] = "verified"]
    /\ Forget(l)
    /\ UNCHANGED <<vars, issuerVars>>

\* complete fails, before the exchange or after it.
Fail(l) ==
    /\ phase[l] \in {"begun", "exchange"}
    /\ phase' = [phase EXCEPT ![l] = "failed"]
    /\ Forget(l)
    /\ UNCHANGED <<vars, issuerVars>>

\* Introspect sends the access token of a completed login.
Introspect(l) ==
    /\ phase[l] \in {"verified", "active"}
    /\ phase' = [phase EXCEPT ![l] = "asking"]
    /\ answerBy' = [answerBy EXCEPT ![l] = IntrospectBy]
    /\ UNCHANGED <<vars, issuerVars, owner, createdAt>>

\* The issuer looks the token up, and its response is on the way.
Report(l) ==
    /\ phase[l] = "asking"
    /\ ActiveAtIssuer(l)
    /\ phase' = [phase EXCEPT ![l] = "told"]
    /\ UNCHANGED <<vars, issuerVars, owner, createdAt, answerBy>>

\* Introspect returns an active status.
ReturnActive(l) ==
    /\ phase[l] = "told"
    /\ ReportOK(token[l])
    /\ phase' = [phase EXCEPT ![l] = "active"]
    /\ answerBy' = [answerBy EXCEPT ![l] = 0]
    /\ UNCHANGED <<vars, issuerVars, owner, createdAt>>

\* Introspect returns an inactive status or an error.
ReturnInactive(l) ==
    /\ phase[l] \in {"asking", "told"}
    /\ phase' = [phase EXCEPT ![l] = "verified"]
    /\ answerBy' = [answerBy EXCEPT ![l] = 0]
    /\ UNCHANGED <<vars, issuerVars, owner, createdAt>>

\* The issuer revokes the access token, by a logout or an administrator.
Revoke(l) ==
    /\ token[l] # NoToken
    /\ revokedAt[l] = NotRevoked
    /\ revokedAt' = [revokedAt EXCEPT ![l] = now]
    /\ UNCHANGED <<vars, issuerOffset, token, loginVars>>

\* The cache, its clients and the clock go on; the contexts of complete and
\* Introspect end a wait at its deadline.
CacheStep ==
    /\ \/ \E r \in Refresher : RefreshCall(r) \/ Refreshing(r)
       \/ \E c \in Client : BuildClient(c)
       \/ Rotate
       \/ Tick /\ \A l \in Login : Waiting(l) => now < answerBy[l]
    /\ UNCHANGED <<issuerVars, loginVars>>

FlowNext ==
    \/ CacheStep
    \/ \E l \in Login :
          \/ \E c \in Client : BeginLogin(l, c)
          \/ \E life \in TokenLife, delay \in NotBeforeDelay : Sign(l, life, delay)
          \/ Redeem(l)
          \/ Accept(l)
          \/ Fail(l)
          \/ Introspect(l) \/ Report(l) \/ ReturnActive(l) \/ ReturnInactive(l)
          \/ Revoke(l)

FlowSpec == FlowInit /\ [][FlowNext]_flowVars

-----------------------------------------------------------------------------
(* Properties *)

\* complete returns an identity for login l in this step.
Identified(l) == phase[l] = "exchange" /\ phase'[l] = "verified"

\* However clients are replaced and keys rotate while a login is under way, it
\* is verified with keys the issuer listed less than one maximum age, one
\* fetch, one transaction lifetime and one exchange ago.
KeyTrustBounded ==
    [][\A l \in Login :
          Identified(l) =>
              now - owner[l].servedAt < MaxAge + FetchTimeout + Lifetime + ExchangeTimeout]_flowVars

\* An identity rests on a token that the issuer signed for this login, after
\* it began; an exchange answered with someone else's token yields none.
SignedForThisLogin ==
    [][\A l \in Login :
          Identified(l) => token[l] # NoToken /\ createdAt[l] <= token[l].signedAt]_flowVars

\* Introspect reports a token active only if it was active at the issuer within
\* the last timeout: a revocation or its expiry is never hidden for longer.
ActiveIsRecent ==
    [][\A l \in Login :
          phase[l] # "active" /\ phase'[l] = "active" =>
              /\ now <= token[l].signedAt + AccessLife + ExchangeTimeout
              /\ revokedAt[l] # NotRevoked => now <= revokedAt[l] + ExchangeTimeout]_flowVars

\* By our clock the token is valid, but for the tolerated skew, when it is signed.
UsableWhenSigned(t) == t.delay # NoNotBefore => NotBefore(t) <= t.signedAt + ClockSkew

\* While the issuer's clock is within the tolerated skew, a login that is
\* completed in time is not refused for the times in its own token, if the
\* token outlives the longest login by the skew and its not-before time, if it
\* has one, lies no further ahead than the skew when it is signed.
SkewedTokenInTime ==
    \A l \in Login :
        /\ phase[l] = "exchange"
        /\ token[l] # NoToken
        /\ issuerOffset \in -ClockSkew..ClockSkew
        /\ token[l].life \in (Lifetime + ExchangeTimeout + ClockSkew + 1)..MaxLifetime
        /\ UsableWhenSigned(token[l])
        => TimesOK(token[l])

-----------------------------------------------------------------------------
(* The inductive invariant *)

\* A login under way holds an old snapshot of bounded age, and a token signed
\* for it was signed since it began.
LoginInv(l) ==
    /\ phase[l] = "new" => token[l] = NoToken
    /\ phase[l] \in {"begun", "exchange"} =>
           /\ owner[l] # NoConfiguration
           /\ createdAt[l] <= now
           /\ createdAt[l] - owner[l].servedAt < MaxAge + FetchTimeout
           /\ token[l] # NoToken => createdAt[l] <= token[l].signedAt /\ token[l].signedAt <= now
    /\ phase[l] = "exchange" =>
           now <= answerBy[l] /\ answerBy[l] <= createdAt[l] + Lifetime + ExchangeTimeout
    /\ phase[l] \in {"asking", "told"} =>
           now <= answerBy[l] /\ answerBy[l] <= now + ExchangeTimeout
    /\ phase[l] = "told" =>
           /\ token[l] # NoToken
           /\ answerBy[l] <= token[l].signedAt + AccessLife + ExchangeTimeout
           /\ revokedAt[l] # NotRevoked => answerBy[l] <= revokedAt[l] + ExchangeTimeout

FlowInv == \A l \in Login : LoginInv(l)

\* Every variable of the login flow has its type.
FlowTypeOK ==
    /\ issuerOffset \in -MaxOffset..MaxOffset
    /\ token \in [Login -> Token \cup {NoToken}]
    /\ revokedAt \in [Login -> Nat \cup {NotRevoked}]
    /\ phase \in [Login -> {"new", "begun", "exchange", "verified", "failed",
                             "asking", "told", "active"}]
    /\ owner \in [Login -> Configuration \cup {NoConfiguration}]
    /\ createdAt \in [Login -> Nat]
    /\ answerBy \in [Login -> Nat]

\* The strengthening that every step preserves: the cache's own, and the flow's.
FlowIInv == IInv /\ FlowTypeOK /\ FlowInv
=============================================================================

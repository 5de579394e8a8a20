------------------------- MODULE ConfigurationCache -------------------------
(***************************************************************************)
(* The age-bounded cache of issuer metadata and signing keys               *)
(* (auth/oidc/cache.go), the two fetches of Discover (auth/oidc/           *)
(* discovery.go) that fill it, and the LoginClients that are built from    *)
(* its snapshots and begin logins with them (auth/oidc/login.go).          *)
(*                                                                         *)
(* The issuer rotates its keys: a generation number stands for a key set.  *)
(* servedAt is not in the code: it records when the issuer sent the keys,  *)
(* which is what "the age of the keys" means; the code only has fetchedAt, *)
(* taken when the fetch is over.                                           *)
(***************************************************************************)
EXTENDS Integers, CacheTimes

CONSTANTS
    Refresher,        \* goroutines that call Refresh
    Client,           \* LoginClients the application builds
    ClockSkew,        \* clockSkew
    OwnValidity,      \* the hour a Configuration gets from Discover itself
    MaxTime,          \* bound: the clock stops here
    MaxGeneration,    \* bound on key rotations
    NoRefresher,      \* refreshMu is free
    NoKeys,           \* a refresher has not received any keys
    NoConfiguration   \* nil

KeySet == [generation : Nat, servedAt : Nat]
Configuration == [generation : Nat, servedAt : Nat, validUntil : Nat]

ASSUME CacheAssumption ==
    /\ MaxAge \in Nat \ {0}
    /\ ClockSkew \in Nat
    /\ FetchTimeout \in Nat
    /\ OwnValidity \in Nat /\ MaxAge <= OwnValidity
    /\ MaxTime \in Nat
    /\ MaxGeneration \in Nat
    /\ NoRefresher \notin Refresher
    /\ NoKeys \notin KeySet
    /\ NoConfiguration \notin Configuration

VARIABLES
    now,         \* the clock
    generation,  \* the issuer's current signing keys
    refreshMu,   \* cache.refreshMu
    at,          \* where each refresher is
    deadline,    \* of each refresher's Discover
    fetched,     \* the keys each refresher's Discover has received
    current,     \* cache.current
    fetchedAt,   \* cache.fetchedAt
    client,      \* configuration of each LoginClient
    beginAge     \* age of the keys with which the last login was begun

fetchVars == <<refreshMu, at, deadline, fetched>>
cacheVars == <<current, fetchedAt>>
vars == <<now, generation, fetchVars, cacheVars, client, beginAge>>

Location == {"idle", "waiting", "metadata", "keys", "publish"}

-----------------------------------------------------------------------------
(* Conditions and values the operations compute *)

\* Slip: refreshes are not serialised.
RefreshAnyTime == refreshMu \in Refresher \cup {NoRefresher}

RefreshFree == refreshMu = NoRefresher

FetchDeadline == now + FetchTimeout

\* Current hands out the snapshot.
CurrentOK ==
    /\ current # NoConfiguration
    /\ ~(fetchedAt > now + ClockSkew)
    /\ ~(now - fetchedAt >= MaxAge)

\* Slip: the snapshot keeps the validity Discover gave it.
SnapshotOwnValidity == current

\* Current's copy is valid for the rest of the cache's maximum age.
Snapshot == [current EXCEPT !.validUntil = fetchedAt + MaxAge]

ExpiresAt == fetchedAt + MaxAge

\* Status().Fresh
StatusFresh ==
    /\ current # NoConfiguration
    /\ ~(fetchedAt > now + ClockSkew)
    /\ now < ExpiresAt

\* Slip: an early return of Refresh leaves refreshMu locked.
UnlockForgotten(r) == UNCHANGED refreshMu

Unlock(r) == refreshMu' = NoRefresher

\* A failed refresh leaves the old snapshot and its deadline alone.
StampKept == UNCHANGED fetchedAt

-----------------------------------------------------------------------------
(* Initial state and operations *)

Init ==
    /\ now = 0
    /\ generation = 0
    /\ refreshMu = NoRefresher
    /\ at = [r \in Refresher |-> "idle"]
    /\ deadline = [r \in Refresher |-> 0]
    /\ fetched = [r \in Refresher |-> NoKeys]
    /\ current = NoConfiguration
    /\ fetchedAt = 0
    /\ client = [c \in Client |-> NoConfiguration]
    /\ beginAge = 0

\* Refresh is called; the wait for refreshMu does not heed the context.
RefreshCall(r) ==
    /\ at[r] = "idle"
    /\ at' = [at EXCEPT ![r] = "waiting"]
    /\ UNCHANGED <<now, generation, refreshMu, deadline, fetched, cacheVars, client, beginAge>>

\* Refresh has the mutex and Discover starts its five seconds.
RefreshLock(r) ==
    /\ at[r] = "waiting"
    /\ RefreshFree
    /\ refreshMu' = r
    /\ at' = [at EXCEPT ![r] = "metadata"]
    /\ deadline' = [deadline EXCEPT ![r] = FetchDeadline]
    /\ UNCHANGED <<now, generation, fetched, cacheVars, client, beginAge>>

\* Discover has vetted the metadata and asks for the keys.
FetchMetadata(r) ==
    /\ at[r] = "metadata"
    /\ at' = [at EXCEPT ![r] = "keys"]
    /\ UNCHANGED <<now, generation, refreshMu, deadline, fetched, cacheVars, client, beginAge>>

\* The issuer sends the keys it has now.
FetchKeys(r) ==
    /\ at[r] = "keys"
    /\ fetched' = [fetched EXCEPT ![r] = [generation |-> generation, servedAt |-> now]]
    /\ at' = [at EXCEPT ![r] = "publish"]
    /\ UNCHANGED <<now, generation, refreshMu, deadline, cacheVars, client, beginAge>>

\* The keys have arrived and form a verifier: Refresh replaces the snapshot.
Publish(r) ==
    /\ at[r] = "publish"
    /\ current' = [generation |-> fetched[r].generation, servedAt |-> fetched[r].servedAt,
                   validUntil |-> now + OwnValidity]
    /\ fetchedAt' = now
    /\ Unlock(r)
    /\ at' = [at EXCEPT ![r] = "idle"]
    /\ fetched' = [fetched EXCEPT ![r] = NoKeys]
    /\ UNCHANGED <<now, generation, deadline, client, beginAge>>

\* A fetch fails, is cancelled or times out, or its content is refused.
RefreshFail(r) ==
    /\ at[r] \in {"metadata", "keys", "publish"}
    /\ StampKept
    /\ Unlock(r)
    /\ at' = [at EXCEPT ![r] = "idle"]
    /\ fetched' = [fetched EXCEPT ![r] = NoKeys]
    /\ UNCHANGED <<now, generation, deadline, current, client, beginAge>>

\* The application builds a LoginClient from Current.
BuildClient(c) ==
    /\ CurrentOK
    /\ client' = [client EXCEPT ![c] = Snapshot]
    /\ UNCHANGED <<now, generation, fetchVars, cacheVars, beginAge>>

\* A login begins with a client whose configuration is not stale.
Begin(c) ==
    /\ client[c] # NoConfiguration
    /\ now < client[c].validUntil
    /\ beginAge' = now - client[c].servedAt
    /\ UNCHANGED <<now, generation, fetchVars, cacheVars, client>>

\* The issuer (external) replaces its signing keys.
Rotate ==
    /\ generation < MaxGeneration
    /\ generation' = generation + 1
    /\ UNCHANGED <<now, fetchVars, cacheVars, client, beginAge>>

\* Discover's context ends its fetches at the deadline.
Tick ==
    /\ now < MaxTime
    /\ \A r \in Refresher : at[r] \in {"metadata", "keys", "publish"} => now < deadline[r]
    /\ now' = now + 1
    /\ UNCHANGED <<generation, fetchVars, cacheVars, client, beginAge>>

Refreshing(r) ==
    \/ RefreshLock(r) \/ FetchMetadata(r) \/ FetchKeys(r) \/ Publish(r) \/ RefreshFail(r)

Next ==
    \/ \E r \in Refresher : RefreshCall(r) \/ Refreshing(r)
    \/ \E c \in Client : BuildClient(c) \/ Begin(c)
    \/ Rotate
    \/ Tick

Spec == Init /\ [][Next]_vars

\* A refresh in progress goes on, by its deadline at the latest; a waiter
\* gets a sync.Mutex that keeps becoming free.
Fairness == \A r \in Refresher : SF_vars(RefreshLock(r)) /\ WF_vars(Refreshing(r))

FairSpec == Spec /\ Fairness

-----------------------------------------------------------------------------
(* The inductive invariant *)

\* refreshMu is held exactly by the refresher inside Discover or publishing.
LockInv ==
    \A r \in Refresher : at[r] \in {"metadata", "keys", "publish"} <=> refreshMu = r

\* A fetch under way is within its timeout, and what it holds is at least as
\* new as what the cache holds and no newer than what the issuer has.
FetchInv ==
    \A r \in Refresher :
        /\ at[r] \in {"metadata", "keys", "publish"} =>
               now <= deadline[r] /\ deadline[r] <= now + FetchTimeout
        /\ at[r] = "publish" =>
               /\ fetched[r] # NoKeys
               /\ fetched[r].servedAt <= now
               /\ deadline[r] <= fetched[r].servedAt + FetchTimeout
               /\ fetched[r].generation <= generation
               /\ current # NoConfiguration => current.generation <= fetched[r].generation

\* The cache and the clients hold keys that were served before now.
AgeInv ==
    /\ fetchedAt <= now
    /\ current # NoConfiguration => current.generation <= generation
    /\ \A c \in Client :
           client[c] # NoConfiguration =>
               /\ client[c].servedAt <= now
               /\ client[c].validUntil <= client[c].servedAt + FetchTimeout + MaxAge

-----------------------------------------------------------------------------
(* Properties *)

\* Every variable has its type.
TypeOK ==
    /\ now \in Nat
    /\ generation \in Nat
    /\ refreshMu \in Refresher \cup {NoRefresher}
    /\ at \in [Refresher -> Location]
    /\ deadline \in [Refresher -> Nat]
    /\ fetched \in [Refresher -> KeySet \cup {NoKeys}]
    /\ current \in Configuration \cup {NoConfiguration}
    /\ fetchedAt \in Nat
    /\ client \in [Client -> Configuration \cup {NoConfiguration}]
    /\ beginAge \in Nat

\* Refreshes overlap in time, yet a slower one never puts back keys older than
\* those another one has already published.
NoKeyRollback ==
    [][current # NoConfiguration =>
          current' # NoConfiguration /\ current'.generation >= current.generation]_vars

\* A login begins only with keys that the issuer served at most the maximum
\* age plus one fetch ago, however long the application keeps a LoginClient.
KeysYoungAtBegin == beginAge < MaxAge + FetchTimeout

\* The freshness deadline follows the fetch that filled the cache: neither a
\* failed refresh nor a waiting one can extend it.
StampFollowsFetch ==
    current # NoConfiguration =>
        current.servedAt <= fetchedAt /\ fetchedAt <= current.servedAt + FetchTimeout

\* Status reports fresh exactly when Current would hand out the snapshot.
StatusAgrees == StatusFresh <=> CurrentOK

\* Every Refresh returns, although the wait for refreshMu has no deadline.
RefreshReturns == \A r \in Refresher : at[r] = "waiting" ~> at[r] = "idle"

\* The strengthening of the invariants above that every step preserves.
IInv ==
    /\ TypeOK
    /\ LockInv
    /\ FetchInv
    /\ AgeInv
    /\ StampFollowsFetch
    /\ KeysYoungAtBegin
=============================================================================

-------------------------- MODULE TransactionStore --------------------------
(***************************************************************************)
(* The process-local login store (auth/oidc/store.go) together with the    *)
(* life of the transactions in it (Begin and complete in auth/oidc/        *)
(* login.go).  Handlers are goroutines that run concurrently; a handler    *)
(* holds a transaction pointer because it began the login or because Take  *)
(* returned it, and may then Put it (again) or Complete it, in any order.  *)
(*                                                                         *)
(* State, nonce and verifier are 256-bit random values, so a transaction   *)
(* is identified with its state.  A binding stands for a well-formed       *)
(* cookie secret and its SHA-256 hash.                                     *)
(***************************************************************************)
EXTENDS Integers, FiniteSets

CONSTANTS
    Proc,             \* request handlers (goroutines)
    Txn,              \* login transactions
    Binding,          \* browser binding secrets
    Capacity,         \* NewTransactionStore(capacity)
    Lifetime,         \* transactionLifetime
    ClockSkew,        \* clockSkew
    ExchangeTimeout,  \* discoveryTimeout, the deadline of the code exchange
    ValidUntil,       \* configuration.validUntil of the LoginClient
    MaxTime,          \* bound: the clock stops here
    NoProc,           \* the mutex is free
    NoTxn,            \* a handler between calls has no transaction at hand
    NoBinding         \* no entry under this state

ASSUME StoreAssumption ==
    /\ Capacity \in Nat \ {0}
    /\ Lifetime \in Nat
    /\ ClockSkew \in Nat
    /\ ExchangeTimeout \in Nat
    /\ ValidUntil \in Nat
    /\ MaxTime \in Nat
    /\ NoProc \notin Proc
    /\ NoTxn \notin Txn
    /\ NoBinding \notin Binding

VARIABLES
    now,        \* time.Now, with Go's monotonic reading: never goes back
    begun,      \* transactions created by Begin
    createdAt,  \* Transaction.createdAt
    used,       \* Transaction.used
    entries,    \* store.entries: the binding stored under each state
    mu,         \* store.mu: the handler inside Take's critical section
    call,       \* what each handler is doing, and with what
    held,       \* transaction pointers each handler has
    exchanges,  \* code exchanges sent for each transaction
    outcome     \* what the code exchange of each transaction came to

loginVars == <<begun, createdAt>>
exchangeVars == <<exchanges, outcome>>
vars == <<now, loginVars, used, entries, mu, call, held, exchangeVars>>

Location == {"idle", "put", "remove", "exchange"}
Outcome == {"none", "pending", "verified", "refused"}

Call == [at : Location, txn : Txn \cup {NoTxn},
         binding : Binding \cup {NoBinding}, deadline : Nat]

Idle == [at |-> "idle", txn |-> NoTxn, binding |-> NoBinding, deadline |-> 0]

-----------------------------------------------------------------------------
(* Conditions and values the operations compute *)

Expired(t) == now - createdAt[t] > Lifetime

FromFuture(t) == createdAt[t] > now + ClockSkew

\* An entry the store may drop: its login can no longer complete.
Dead(t) == Expired(t) \/ used[t]

Stored(e) == {t \in Txn : e[t] # NoBinding}

Full(e) == Cardinality(Stored(e)) >= Capacity

\* Slip: makes room by dropping every entry.
pruneAll(e) == [t \in Txn |-> NoBinding]

pruneExpired(e) ==
    [t \in Txn |-> IF e[t] # NoBinding /\ Dead(t) THEN NoBinding ELSE e[t]]

\* Slip: a full store is never pruned.
MakeNoRoom(e) == e

\* Put makes room only when it has to.
MakeRoom(e) == IF Full(e) THEN pruneExpired(e) ELSE e

Accepts(e, t) ==
    /\ ~Expired(t)
    /\ ~FromFuture(t)
    /\ e[t] = NoBinding
    /\ ~Full(e)

\* Slip: any binding will do.
MatchesAny(t, b) == b \in Binding

\* The hash comparison of Take.
Matches(t, b) == entries[t] = b

\* Slip: no look at the used flag.
RedeemableAgain(t) == ~Expired(t) /\ ~FromFuture(t)

\* The checks of complete; the swap of the used flag comes before the others.
Redeemable(t) == ~used[t] /\ ~Expired(t) /\ ~FromFuture(t)

Spend(t) == used' = [used EXCEPT ![t] = TRUE]

ExchangeDeadline == now + ExchangeTimeout

\* Slip: Take's last early return leaves the mutex locked.
UnlockUnlessUsed(t) == mu' = IF used[t] THEN mu ELSE NoProc

\* The deferred unlock at the end of Take.
Unlock(t) == mu' = NoProc

-----------------------------------------------------------------------------
(* Initial state and operations *)

Init ==
    /\ now = 0
    /\ begun = {}
    /\ createdAt = [t \in Txn |-> 0]
    /\ used = [t \in Txn |-> FALSE]
    /\ entries = [t \in Txn |-> NoBinding]
    /\ mu = NoProc
    /\ call = [p \in Proc |-> Idle]
    /\ held = [p \in Proc |-> {}]
    /\ exchanges = [t \in Txn |-> 0]
    /\ outcome = [t \in Txn |-> "none"]

\* LoginClient.Begin: refused once the client's configuration is stale.
Begin(p, t) ==
    /\ call[p] = Idle
    /\ t \notin begun
    /\ now < ValidUntil
    /\ begun' = begun \cup {t}
    /\ createdAt' = [createdAt EXCEPT ![t] = now]
    /\ held' = [held EXCEPT ![p] = @ \cup {t}]
    /\ UNCHANGED <<now, used, entries, mu, call, exchangeVars>>

\* Put before the lock: the used flag is read outside the critical section.
PutCheck(p, t, b) ==
    /\ call[p] = Idle
    /\ t \in held[p]
    /\ ~used[t]
    /\ call' = [call EXCEPT ![p] = [at |-> "put", txn |-> t, binding |-> b, deadline |-> 0]]
    /\ UNCHANGED <<now, loginVars, used, entries, mu, held, exchangeVars>>

\* Put under the lock.  Only used flags can move meanwhile, and nothing after
\* the prune reads them, so the critical section is one step.
PutLocked(p) ==
    LET t == call[p].txn
        room == MakeRoom(entries)
    IN  /\ call[p].at = "put"
        /\ mu = NoProc
        /\ entries' = IF Accepts(room, t)
                      THEN [room EXCEPT ![t] = call[p].binding]
                      ELSE room
        /\ call' = [call EXCEPT ![p] = Idle]
        /\ UNCHANGED <<now, loginVars, used, mu, held, exchangeVars>>

\* Take finds an entry that can no longer complete, and drops it.
TakeDead(p, t) ==
    /\ call[p] = Idle
    /\ mu = NoProc
    /\ entries[t] # NoBinding
    /\ Dead(t)
    /\ entries' = [entries EXCEPT ![t] = NoBinding]
    /\ UNCHANGED <<now, loginVars, used, mu, call, held, exchangeVars>>

\* Take finds a live entry whose binding matches; it keeps the lock.  An
\* unknown state or another binding fails without changing anything.
TakeMatch(p, t, b) ==
    /\ call[p] = Idle
    /\ mu = NoProc
    /\ entries[t] # NoBinding
    /\ ~Dead(t)
    /\ Matches(t, b)
    /\ mu' = p
    /\ call' = [call EXCEPT ![p] = [at |-> "remove", txn |-> t, binding |-> b, deadline |-> 0]]
    /\ UNCHANGED <<now, loginVars, used, entries, held, exchangeVars>>

\* Take deletes the entry, reads the used flag again and unlocks.
TakeRemove(p) ==
    LET t == call[p].txn
    IN  /\ call[p].at = "remove"
        /\ entries' = [entries EXCEPT ![t] = NoBinding]
        /\ held' = IF used[t] THEN held ELSE [held EXCEPT ![p] = @ \cup {t}]
        /\ Unlock(t)
        /\ call' = [call EXCEPT ![p] = Idle]
        /\ UNCHANGED <<now, loginVars, used, exchangeVars>>

\* complete wins the swap, its checks pass, and the code is sent to the
\* issuer.  With another client than the owner it returns before the swap.
Redeem(p, t) ==
    /\ call[p] = Idle
    /\ t \in held[p]
    /\ Redeemable(t)
    /\ Spend(t)
    /\ exchanges' = [exchanges EXCEPT ![t] = @ + 1]
    /\ outcome' = [outcome EXCEPT ![t] = "pending"]
    /\ call' = [call EXCEPT ![p] = [at |-> "exchange", txn |-> t, binding |-> NoBinding,
                                    deadline |-> ExchangeDeadline]]
    /\ UNCHANGED <<now, loginVars, entries, mu, held>>

\* complete wins the swap and then fails: too old, or a callback with an
\* error, without exactly one code and state, or with another state.
Reject(p, t) ==
    /\ call[p] = Idle
    /\ t \in held[p]
    /\ ~used[t]
    /\ Spend(t)
    /\ UNCHANGED <<now, loginVars, entries, mu, call, held, exchangeVars>>

\* The token response: a verified identity; or a transport error, a status, a
\* size, a body, an access token or an ID token that is refused.
Answer(p) ==
    /\ call[p].at = "exchange"
    /\ \E result \in {"verified", "refused"} :
           outcome' = [outcome EXCEPT ![call[p].txn] = result]
    /\ call' = [call EXCEPT ![p] = Idle]
    /\ UNCHANGED <<now, loginVars, used, entries, mu, held, exchanges>>

\* The request context ends an exchange at its deadline.
Tick ==
    /\ now < MaxTime
    /\ \A p \in Proc : call[p].at = "exchange" => now < call[p].deadline
    /\ now' = now + 1
    /\ UNCHANGED <<loginVars, used, entries, mu, call, held, exchangeVars>>

Handler(p) ==
    \/ \E t \in Txn : Begin(p, t) \/ TakeDead(p, t) \/ Redeem(p, t) \/ Reject(p, t)
    \/ \E t \in Txn, b \in Binding : PutCheck(p, t, b) \/ TakeMatch(p, t, b)
    \/ PutLocked(p)
    \/ TakeRemove(p)
    \/ Answer(p)

Next == Tick \/ \E p \in Proc : Handler(p)

Spec == Init /\ [][Next]_vars

\* A call in progress goes on.  sync.Mutex hands itself to a waiter that has
\* waited long enough, so a Put that keeps finding it free gets it.
Fairness ==
    \A p \in Proc : SF_vars(PutLocked(p)) /\ WF_vars(TakeRemove(p)) /\ WF_vars(Answer(p))

FairSpec == Spec /\ Fairness

-----------------------------------------------------------------------------
(* The inductive invariant *)

\* Handlers and the store know begun logins only; none was begun in the future.
Reachability ==
    /\ \A p \in Proc : held[p] \subseteq begun
    /\ Stored(entries) \subseteq begun
    /\ \A t \in Txn : createdAt[t] <= now
    /\ \A t \in Txn : used[t] => t \in begun

\* The mutex is held exactly by the handler between Take's two steps.
LockInv == \A p \in Proc : call[p].at = "remove" <=> mu = p

\* What a handler found before it went on still holds.
CallInv ==
    \A p \in Proc :
        /\ call[p].at # "idle" => call[p].txn \in begun
        /\ call[p].at \in {"put", "remove"} => call[p].binding \in Binding
        /\ call[p].at = "remove" => entries[call[p].txn] = call[p].binding
        /\ call[p].at = "exchange" =>
               /\ outcome[call[p].txn] = "pending"
               /\ now <= call[p].deadline
               /\ call[p].deadline <= createdAt[call[p].txn] + Lifetime + ExchangeTimeout

\* The used flag is set before the exchange and counts it.
ExchangeInv ==
    \A t \in Txn :
        /\ exchanges[t] = IF outcome[t] = "none" THEN 0 ELSE 1
        /\ outcome[t] # "none" => used[t]

\* One handler at a time waits for the exchange of a transaction.
SoleExchanger ==
    \A p, q \in Proc :
        /\ call[p].at = "exchange"
        /\ call[q].at = "exchange"
        /\ call[p].txn = call[q].txn
        => p = q

-----------------------------------------------------------------------------
(* Properties *)

\* Every variable has its type; deadlines and ages are never negative.
TypeOK ==
    /\ now \in Nat
    /\ begun \in SUBSET Txn
    /\ createdAt \in [Txn -> Nat]
    /\ used \in [Txn -> BOOLEAN]
    /\ entries \in [Txn -> Binding \cup {NoBinding}]
    /\ mu \in Proc \cup {NoProc}
    /\ call \in [Proc -> Call]
    /\ held \in [Proc -> SUBSET Txn]
    /\ exchanges \in [Txn -> Nat]
    /\ outcome \in [Txn -> Outcome]

\* However many handlers obtained the same transaction, by Put after Take or
\* by beginning it, at most one authorization-code exchange is sent for it.
OneExchange == \A t \in Txn : exchanges[t] <= 1

\* The store never holds more than its capacity of pending logins.
CapacityBound == IsFiniteSet(Stored(entries)) /\ Cardinality(Stored(entries)) <= Capacity

\* While complete waits for the issuer, the login is at most its lifetime plus
\* the exchange timeout old: nobody is logged in by an older transaction.
ExchangeInTime ==
    \A p \in Proc :
        call[p].at = "exchange" =>
            now <= createdAt[call[p].txn] + Lifetime + ExchangeTimeout

\* A transaction that was already begun reaches another handler only out of
\* the store, against the binding it is stored with, unused, and at that
\* step the entry is gone: Take hands an entry to one handler only.
OnlyBoundBrowserObtains ==
    [][\A p \in Proc, t \in begun :
          t \in held'[p] \ held[p] =>
              /\ entries[t] = call[p].binding
              /\ entries[t] # NoBinding
              /\ ~used[t]
              /\ entries'[t] = NoBinding]_vars

\* "It never evicts a live login to make room": an entry leaves the store only
\* when it is dead, or by the Take that presented its binding.
NeverEvictsLive ==
    [][\A t \in Txn :
          entries[t] # NoBinding /\ entries'[t] # entries[t] =>
              \/ Dead(t)
              \/ /\ mu # NoProc
                 /\ call[mu].txn = t
                 /\ call[mu].binding = entries[t]]_vars

\* Put refuses a login that is still in time only because that login is stored
\* already or because every one of Capacity entries is of a live login.
RefusedOnlyForLiveLogins ==
    [][\A p \in Proc :
          LET t == call[p].txn
          IN  /\ call[p].at = "put"
              /\ call'[p].at = "idle"
              /\ ~Expired(t)
              /\ entries'[t] = NoBinding
              => Cardinality({u \in Txn : entries[u] # NoBinding /\ ~Dead(u)}) >= Capacity]_vars

\* Every call of Put, Take or Complete that has started returns.
CallsReturn == \A p \in Proc : call[p].at # "idle" ~> call[p].at = "idle"

\* The strengthening of the invariants above that every step preserves.
IInv ==
    /\ TypeOK
    /\ Reachability
    /\ LockInv
    /\ CallInv
    /\ ExchangeInv
    /\ SoleExchanger
    /\ CapacityBound

-----------------------------------------------------------------------------
(* The store keeps the promise of OneUseLogin *)

LoginPhase ==
    [t \in Txn |->
        IF t \notin begun THEN "new"
        ELSE IF ~used[t] THEN "open"
        ELSE IF outcome[t] = "pending" THEN "redeeming"
        ELSE IF outcome[t] = "verified" THEN "verified"
        ELSE "closed"]

Promise == INSTANCE OneUseLogin WITH phase <- LoginPhase

\* Behind the store every login is opened once, spent by the first callback
\* that reaches it and redeemed at most once.
KeepsPromise == Promise!PromiseSpec
=============================================================================

---------------------------- MODULE SealedLogin ----------------------------
(***************************************************************************)
(* Logins kept in a shared database between redirect and callback: the     *)
(* transaction codec (auth/oidc/transaction_codec.go) with Begin and       *)
(* complete (auth/oidc/login.go), on replicas whose clocks differ and that *)
(* may crash at any point.                                                 *)
(*                                                                         *)
(* The database is external: the consumer of docs/OIDC.md inserts a sealed *)
(* record once, drops its own copy, and takes a record by one atomic       *)
(* delete on state and binding hashes with an expiry of its own.  A sealed *)
(* record is its transaction: only the codec's key opens it, and all       *)
(* replicas share that key.                                                *)
(***************************************************************************)
EXTENDS Integers

CONSTANTS
    Replica,      \* processes, each serving one request at a time
    Txn,          \* login transactions
    Binding,      \* browser binding secrets
    Client,       \* login clients that differ in issuer, client or redirect
    Lifetime,     \* transactionLifetime
    ClockSkew,    \* clockSkew
    RowLifetime,  \* expires_at of a record, from its insertion
    MaxOffset,    \* how far replica clocks are ahead of the database's
    MaxTime,      \* bound: the clock stops here
    NoTxn, NoBinding, NoClient

ASSUME SealedAssumption ==
    /\ Lifetime \in Nat
    /\ ClockSkew \in Nat
    /\ RowLifetime \in Nat
    /\ MaxOffset \in 0..ClockSkew
    /\ MaxTime \in Nat
    /\ NoTxn \notin Txn
    /\ NoBinding \notin Binding
    /\ NoClient \notin Client

VARIABLES
    now,        \* the database's clock
    offset,     \* how far each replica's clock is ahead of it
    begunAt,    \* database time of each login's Begin, -1 before
    createdAt,  \* Transaction.createdAt, on the clock of its replica
    owner,      \* Transaction.owner, sealed into the record as its AAD
    row,        \* the stored record of each login: its binding
    expiresAt,  \* expires_at of each record
    hand,       \* the login each replica is working on
    exchanges,  \* code exchanges sent for each login
    outcome     \* what the code exchange of each login came to

clockVars == <<now, offset>>
loginVars == <<begunAt, createdAt, owner>>
rowVars == <<row, expiresAt>>
exchangeVars == <<exchanges, outcome>>
vars == <<clockVars, loginVars, rowVars, hand, exchangeVars>>

Stage == {"idle", "begun", "sealed", "taken", "opened", "exchange"}

Hand == [at : Stage, txn : Txn \cup {NoTxn}, client : Client \cup {NoClient}]

Idle == [at |-> "idle", txn |-> NoTxn, client |-> NoClient]

Clock(r) == now + offset[r]

\* The time Begin puts into the transaction, kept to the nanosecond by Seal.
Stamp(r) == Clock(r)

Expired(r, t) == Clock(r) - createdAt[t] > Lifetime

\* Slip: no allowance for clocks that differ.
FromFutureStrict(r, t) == createdAt[t] > Clock(r)

FromFuture(r, t) == createdAt[t] > Clock(r) + ClockSkew

\* Slip: age is left to the database.
AnyTransactionTime(r, t) == ~FromFuture(r, t)

validTransactionTime(r, t) == ~FromFuture(r, t) /\ ~Expired(r, t)

\* Slip: the record is not bound to a client.
transactionAADIgnored(t, c) == c \in Client

\* The authenticated data of the record is that of the client that opens it.
transactionAAD(t, c) == owner[t] = c

-----------------------------------------------------------------------------

Init ==
    /\ now = 0
    /\ offset \in [Replica -> 0..MaxOffset]
    /\ begunAt = [t \in Txn |-> -1]
    /\ createdAt = [t \in Txn |-> 0]
    /\ owner = [t \in Txn |-> NoClient]
    /\ row = [t \in Txn |-> NoBinding]
    /\ expiresAt = [t \in Txn |-> 0]
    /\ hand = [r \in Replica |-> Idle]
    /\ exchanges = [t \in Txn |-> 0]
    /\ outcome = [t \in Txn |-> "none"]

Goes(r, stage) == hand' = [hand EXCEPT ![r].at = stage]

Stops(r) == hand' = [hand EXCEPT ![r] = Idle]

\* Whether the configuration is fresh is ConfigurationCache's matter.
Begin(r, t, c) ==
    /\ hand[r] = Idle
    /\ begunAt[t] = -1
    /\ begunAt' = [begunAt EXCEPT ![t] = now]
    /\ createdAt' = [createdAt EXCEPT ![t] = Stamp(r)]
    /\ owner' = [owner EXCEPT ![t] = c]
    /\ hand' = [hand EXCEPT ![r] = [at |-> "begun", txn |-> t, client |-> c]]
    /\ UNCHANGED <<clockVars, rowVars, exchangeVars>>

\* Seal, with the clock of the client that began the login.
Seal(r) ==
    /\ hand[r].at = "begun"
    /\ IF validTransactionTime(r, hand[r].txn) THEN Goes(r, "sealed") ELSE Stops(r)
    /\ UNCHANGED <<clockVars, loginVars, rowVars, exchangeVars>>

\* The consumer stores the record under its state.
Insert(r, b) ==
    LET t == hand[r].txn
    IN  /\ hand[r].at = "sealed"
        /\ row' = [row EXCEPT ![t] = b]
        /\ expiresAt' = [expiresAt EXCEPT ![t] = now + RowLifetime]
        /\ Stops(r)
        /\ UNCHANGED <<clockVars, loginVars, exchangeVars>>

\* Slip: the record is read and stays.
LeaveRow(t) == UNCHANGED row

DeleteRow(t) == row' = [row EXCEPT ![t] = NoBinding]

\* A callback takes the matching unexpired record out of the database.
Take(r, t, b, c) ==
    /\ hand[r] = Idle
    /\ row[t] = b
    /\ now < expiresAt[t]
    /\ DeleteRow(t)
    /\ hand' = [hand EXCEPT ![r] = [at |-> "taken", txn |-> t, client |-> c]]
    /\ UNCHANGED <<clockVars, loginVars, expiresAt, exchangeVars>>

\* Open makes a fresh, unused transaction whose owner is the opening client.
Open(r) ==
    LET t == hand[r].txn
    IN  /\ hand[r].at = "taken"
        /\ IF transactionAAD(t, hand[r].client) /\ validTransactionTime(r, t)
           THEN Goes(r, "opened")
           ELSE Stops(r)
        /\ UNCHANGED <<clockVars, loginVars, rowVars, exchangeVars>>

\* complete wins the swap of the copy's used flag, its checks pass, and the
\* code is sent to the issuer.
Redeem(r) ==
    LET t == hand[r].txn
    IN  /\ hand[r].at = "opened"
        /\ validTransactionTime(r, t)
        /\ Goes(r, "exchange")
        /\ exchanges' = [exchanges EXCEPT ![t] = @ + 1]
        /\ outcome' = [outcome EXCEPT ![t] = "pending"]
        /\ UNCHANGED <<clockVars, loginVars, rowVars>>

\* complete wins the swap and fails before the exchange.
Reject(r) ==
    /\ hand[r].at = "opened"
    /\ Stops(r)
    /\ UNCHANGED <<clockVars, loginVars, rowVars, exchangeVars>>

Answer(r) ==
    /\ hand[r].at = "exchange"
    /\ \E result \in {"verified", "refused"} :
           outcome' = [outcome EXCEPT ![hand[r].txn] = result]
    /\ Stops(r)
    /\ UNCHANGED <<clockVars, loginVars, rowVars, exchanges>>

\* The process ends: what it had in memory is gone.
Crash(r) ==
    /\ hand[r].at # "idle"
    /\ outcome' = IF hand[r].at = "exchange"
                  THEN [outcome EXCEPT ![hand[r].txn] = "refused"]
                  ELSE outcome
    /\ Stops(r)
    /\ UNCHANGED <<clockVars, loginVars, rowVars, exchanges>>

Tick ==
    /\ now < MaxTime
    /\ now' = now + 1
    /\ UNCHANGED <<offset, loginVars, rowVars, hand, exchangeVars>>

Next ==
    \/ Tick
    \/ \E r \in Replica :
          \/ \E t \in Txn, c \in Client : Begin(r, t, c) \/ \E b \in Binding : Take(r, t, b, c)
          \/ \E b \in Binding : Insert(r, b)
          \/ Seal(r) \/ Open(r) \/ Redeem(r) \/ Reject(r) \/ Answer(r) \/ Crash(r)

Spec == Init /\ [][Next]_vars

-----------------------------------------------------------------------------
(* The inductive invariant *)

Begun(t) == begunAt[t] # -1

\* A copy of the login is in the database, or in some replica's memory.
InHand(r, t) == hand[r].at # "idle" /\ hand[r].txn = t
Copied(t) == row[t] # NoBinding \/ \E r \in Replica : InHand(r, t)

\* At most one copy of a login exists, wherever it is.
OneCopy ==
    \A t \in Txn :
        /\ row[t] # NoBinding => \A r \in Replica : ~InHand(r, t)
        /\ \A r, s \in Replica : InHand(r, t) /\ InHand(s, t) => r = s

\* Copies are of begun logins, and of such as have not been redeemed unless a
\* replica is redeeming them.
CopyInv ==
    /\ \A t \in Txn : row[t] # NoBinding => Begun(t) /\ outcome[t] = "none"
    /\ \A r \in Replica :
          hand[r].at # "idle" =>
              /\ hand[r].txn \in Txn
              /\ hand[r].client \in Client
              /\ Begun(hand[r].txn)
              /\ outcome[hand[r].txn] = IF hand[r].at = "exchange" THEN "pending" ELSE "none"

StampInv ==
    \A t \in Txn :
        /\ begunAt[t] <= now
        /\ Begun(t) => begunAt[t] <= createdAt[t] /\ createdAt[t] <= begunAt[t] + MaxOffset
        /\ ~Begun(t) => createdAt[t] = 0 /\ outcome[t] = "none"

ExchangeInv == \A t \in Txn : exchanges[t] = IF outcome[t] = "none" THEN 0 ELSE 1

-----------------------------------------------------------------------------
(* Properties *)

\* Every variable has its type; no login is stamped with a negative time.
TypeOK ==
    /\ now \in Nat
    /\ offset \in [Replica -> 0..MaxOffset]
    /\ begunAt \in [Txn -> Nat \cup {-1}]
    /\ createdAt \in [Txn -> Nat]
    /\ owner \in [Txn -> Client \cup {NoClient}]
    /\ row \in [Txn -> Binding \cup {NoBinding}]
    /\ expiresAt \in [Txn -> Nat]
    /\ hand \in [Replica -> Hand]
    /\ exchanges \in [Txn -> Nat]
    /\ outcome \in [Txn -> {"none", "pending", "verified", "refused"}]

\* Although Open makes a fresh unused transaction each time, at most one code
\* exchange is sent for a login, across replicas and crashes.
OneExchange == \A t \in Txn : exchanges[t] <= 1

\* complete compares the client with an owner that Open set from that same
\* client; the record's authenticated data alone keeps other clients out.
OwnClientOnly ==
    \A r \in Replica :
        hand[r].at \in {"opened", "exchange"} => hand[r].client = owner[hand[r].txn]

\* When the exchange starts the login is, in database time, at most its
\* lifetime and the clocks' difference old, whatever the record's own expiry.
RedeemedInTime ==
    [][\A t \in Txn :
          exchanges'[t] # exchanges[t] => now <= begunAt[t] + Lifetime + MaxOffset]_vars

\* Clocks that differ by no more than clockSkew never make a login look as if
\* it came from the future, on any replica.
SkewTolerated == \A r \in Replica, t \in Txn : Begun(t) => ~FromFuture(r, t)

\* The strengthening of the invariants above that every step preserves.
IInv ==
    /\ TypeOK
    /\ OneCopy
    /\ CopyInv
    /\ StampInv
    /\ ExchangeInv
    /\ OwnClientOnly

-----------------------------------------------------------------------------
(* The shared database keeps the promise of OneUseLogin *)

LoginPhase ==
    [t \in Txn |->
        IF ~Begun(t) THEN "new"
        ELSE IF outcome[t] = "pending" THEN "redeeming"
        ELSE IF outcome[t] = "verified" THEN "verified"
        ELSE IF outcome[t] = "none" /\ Copied(t) THEN "open"
        ELSE "closed"]

Promise == INSTANCE OneUseLogin WITH phase <- LoginPhase

\* With sealed records in a database, too, every login is opened once, spent
\* by the first callback that takes it and redeemed at most once.
KeepsPromise == Promise!PromiseSpec
=============================================================================

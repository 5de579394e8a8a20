----------------------------- MODULE OneUseLogin -----------------------------
(***************************************************************************)
(* What the relying party promises about a login transaction, however it   *)
(* is stored between the redirect and the callback: a login is opened      *)
(* once, it is spent by the first callback that reaches it, and at most    *)
(* one authorization-code exchange is ever made on its behalf.             *)
(*                                                                         *)
(* TransactionStore (process memory) and SealedLogin (shared database)     *)
(* are both shown to implement this specification.                         *)
(***************************************************************************)
CONSTANT Txn        \* the login transactions, each with its own random state

VARIABLE phase      \* what has become of each login

Phase == {"new", "open", "redeeming", "verified", "closed"}

PromiseTypeOK == phase \in [Txn -> Phase]

PromiseInit == phase = [t \in Txn |-> "new"]

Step(t, from, to) ==
    /\ phase[t] = from
    /\ phase' = [phase EXCEPT ![t] = to]

\* LoginClient.Begin created the transaction.
Open(t) == Step(t, "new", "open")

\* The one code exchange starts.
Redeem(t) == Step(t, "open", "redeeming")

\* A failed callback, or a lost copy, spends the login without an exchange.
Spoil(t) == Step(t, "open", "closed")

\* The exchange ends with a verified identity, or without one.
Verify(t) == Step(t, "redeeming", "verified")
Refuse(t) == Step(t, "redeeming", "closed")

PromiseNext ==
    \E t \in Txn : Open(t) \/ Redeem(t) \/ Spoil(t) \/ Verify(t) \/ Refuse(t)

PromiseSpec == PromiseInit /\ [][PromiseNext]_phase
=============================================================================

--------------------------- MODULE MCSealedLogin ---------------------------
(* Instances of SealedLogin for TLC. *)
EXTENDS SealedLogin, TLC

\* Logins, bindings, clients and (clocks are part of the state) replicas are
\* interchangeable.
SealedSymmetry ==
    Permutations(Replica) \cup Permutations(Txn)
    \cup Permutations(Binding) \cup Permutations(Client)
=============================================================================

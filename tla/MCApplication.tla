---------------------------- MODULE MCApplication ----------------------------
(***************************************************************************)
(* What the process may be started with: a file that sets at most one      *)
(* setting, an environment that sets one, or two whose meanings depend on  *)
(* each other, an address flag.  Every kind of setting and every kind of   *)
(* mistake is among the entries.                                           *)
(***************************************************************************)
EXTENDS Application, TLC

Entries ==
    {"Address" :> v : v \in {Blank, "x"}}
    \cup {"URL" :> v : v \in {Blank, "disable", "prefer", "require", "malformed"}}
    \cup {"AllowInsecure" :> v : v \in {TRUE, FALSE, Bad}}
    \cup {"MaxConnections" :> v : v \in {0, 2}}
    \cup {"MinConnections" :> v : v \in {-1, 0, 3}}
    \cup {"QueueTimeout" :> v : v \in {-1, 0, Bad, Blank}}
    \cup {s :> v : s \in {"ShutdownTimeout", "MaxConcurrentRequests"}, v \in {0, 1}}

\* Settings whose meaning depends on another one.
Related(e, f) ==
    \E pair \in {{"URL", "AllowInsecure"}, {"MaxConnections", "MinConnections"}} :
        DOMAIN e \cup DOMAIN f = pair

Pairs == {e @@ f : <<e, f>> \in {p \in Entries \X Entries : Related(p[1], p[2])}}

MCGiven ==
    [flagFile : {NotGiven}, envFile : {NotGiven, Bad} \cup Entries, env : {<<>>} \cup Entries,
     address : {Blank, "flag"}]
    \cup [flagFile : {NotGiven, "URL" :> "require"}, envFile : {NotGiven, Bad, "URL" :> "prefer"},
          env : Pairs, address : {Blank}]
=============================================================================

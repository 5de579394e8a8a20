---------------------------- MODULE MCGuardedPath ----------------------------
(***************************************************************************)
(* Policies with and without a listed origin, a wildcard, credentials, and *)
(* some that CORS refuses; fetches from a listed and from another origin;  *)
(* two roots that have both signed one intermediate, and leaves in and out *)
(* of date, of another key and of nobody.                                  *)
(***************************************************************************)
EXTENDS GuardedPath

CORSOptions(origins, methods, headers, credentials, age) ==
    [origins |-> origins, methods |-> methods, headers |-> headers, exposed |-> {},
     credentials |-> credentials, age |-> age]

MCOptions ==
    {CORSOptions({}, {"GET"}, {}, FALSE, 0),
     CORSOptions({"a"}, {"patch"}, {"x"}, TRUE, 24),
     CORSOptions({"a", "*"}, {"GET", "PATCH"}, {}, FALSE, 1),
     CORSOptions({"*"}, {"GET"}, {"x"}, TRUE, 1),
     CORSOptions({"https://a.example/"}, {"GET"}, {}, FALSE, 0),
     CORSOptions({"a"}, {"two words"}, {}, FALSE, 0),
     CORSOptions({"a"}, {"GET"}, {"x"}, FALSE, 25)}

MCDeployment ==
    [options : MCOptions, serves : {{"preflight", "fetch"}}]
    \cup [options : {CORSOptions({}, {}, {}, FALSE, 0)}, serves : {{"scrape"}, {"peer", "issued"}}]

MCFetch ==
    {[origin |-> o, method |-> m, headers |-> h, credentials |-> c] :
        o \in {"a", "b"}, m \in {"GET", "PATCH", "patch"}, h \in {{}, {"x"}}, c \in BOOLEAN}

Certificate(name, key, issuer, from, until) ==
    [name |-> name, key |-> key, issuer |-> issuer, serial |-> 1, from |-> from,
     until |-> until, usages |-> {"client"}, hosts |-> {}, identities |-> 1]

MCRoot == {Certificate("ca", key, "ca", 1, 3) : key \in {"first", "second"}}
MCIntermediate == {Certificate("sub", "sub", "ca", 1, 2)}
MCLeaf ==
    {Certificate("leaf", "own", "sub", 1, 1), Certificate("leaf", "own", "ca", 1, 2),
     Certificate("leaf", "other", "ca", 1, 3), Certificate("leaf", "own", "leaf", 1, 3)}
=============================================================================

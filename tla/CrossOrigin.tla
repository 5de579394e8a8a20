---------------------------- MODULE CrossOrigin ----------------------------
(***************************************************************************)
(* middleware.CORS (web/middleware/cors.go): the check of its options and  *)
(* what it decides about one HTTP request.                                 *)
(*                                                                         *)
(* Options are [origins, methods, headers, exposed : sets of names,        *)
(* credentials : BOOLEAN, age : Int]; "*" is the wildcard.  A request is   *)
(* [origin, method, asksMethod : name or Empty, asksHeaders : set of       *)
(* names].  Header names are compared without case, so a name stands for   *)
(* all its spellings; methods are upper-cased by the code, so they keep    *)
(* theirs.  The browser is external.                                       *)
(***************************************************************************)
EXTENDS Integers

MaxAgeLimit == 24

\* The empty text, which is also what an absent header reads as.
Empty == "empty"

\* strings.ToUpper, on the one method the models spell in both ways.
ToUpper(method) == IF method = "patch" THEN "PATCH" ELSE method

\* Texts that are not an exact origin; texts that are not a token.
InexactOrigin == {Empty, "https://a.example/", "ftp://a.example"}
NotToken == {Empty, "two words"}

\* Whether CORS returns a middleware.
CorsAccepts(o) ==
    /\ o.origins \cap InexactOrigin = {}
    /\ ~("*" \in o.origins /\ o.credentials)
    /\ (o.methods \cup o.headers \cup o.exposed) \cap NotToken = {}
    /\ o.age \in 0..MaxAgeLimit

-----------------------------------------------------------------------------
(* The middleware *)

IsPreflight(r) == r.method = "OPTIONS" /\ r.asksMethod # Empty

\* Slip: an origin has to be listed only where credentials are involved.
OriginListedForCredentials(o, origin) ==
    origin \in o.origins \/ "*" \in o.origins \/ ~o.credentials

OriginAllowed(o, origin) == origin \in o.origins \/ "*" \in o.origins

AllowMethods(o) == {ToUpper(m) : m \in o.methods}

\* A preflight is answered here; status 0 means that next is called.
CorsStatus(o, r) ==
    IF r.origin = Empty \/ ~IsPreflight(r) THEN 0
    ELSE IF /\ OriginAllowed(o, r.origin)
            /\ ToUpper(r.asksMethod) \in AllowMethods(o)
            /\ r.asksHeaders \subseteq o.headers
         THEN 204 ELSE 403

\* Access-Control-Allow-Origin, Empty if it is not set, and whether
\* Access-Control-Allow-Credentials is set.
AllowOrigin(o, r) ==
    IF r.origin = Empty \/ ~OriginAllowed(o, r.origin) THEN Empty
    ELSE IF "*" \in o.origins THEN "*" ELSE r.origin

AllowsCredentials(o, r) == AllowOrigin(o, r) # Empty /\ o.credentials

-----------------------------------------------------------------------------
(* A browser that fetches [origin, method, headers, credentials] for a script *)

Safelisted == {"GET", "HEAD", "POST"}

NeedsPreflight(f) == f.method \notin Safelisted \/ f.headers # {}

Preflight(f) ==
    [origin |-> f.origin, method |-> "OPTIONS", asksMethod |-> f.method,
     asksHeaders |-> f.headers]

Actual(f) ==
    [origin |-> f.origin, method |-> f.method, asksMethod |-> Empty, asksHeaders |-> {}]

\* The browser's check of a response: may the script have it?
Shares(o, r, f) ==
    IF f.credentials THEN AllowOrigin(o, r) = f.origin /\ AllowsCredentials(o, r)
    ELSE AllowOrigin(o, r) \in {"*", f.origin}

\* The browser's check of the answer to a preflight.
Grants(o, f) ==
    LET r == Preflight(f)
    IN  /\ CorsStatus(o, r) = 204
        /\ Shares(o, r, f)
        /\ f.method \in Safelisted \cup AllowMethods(o)
        /\ f.headers \subseteq o.headers

-----------------------------------------------------------------------------
(* What the options mean *)

\* The policy lets scripts of an origin read responses, with cookies or not.
Trusted(o, origin, credentials) ==
    IF credentials THEN o.credentials /\ origin \in o.origins
    ELSE o.origins \cap {origin, "*"} # {}

\* It lets them send such a request.
Permitted(o, f) ==
    /\ Trusted(o, f.origin, f.credentials)
    /\ f.method \in AllowMethods(o)
    /\ f.headers \subseteq o.headers
=============================================================================

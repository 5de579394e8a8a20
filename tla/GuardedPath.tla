---------------------------- MODULE GuardedPath ----------------------------
(***************************************************************************)
(* RequestPath with what the library offers to stand in front of a         *)
(* handler: middleware.CORS around the mux, metrics.ProtectBearer around   *)
(* the scrape of the registry, and handlers that ask security/certificates *)
(* about their peer or about a certificate that was issued to them.        *)
(*                                                                         *)
(* What a request carries is chosen when it is admitted, nothing reads it  *)
(* before.  Browsers send what scripts ask them to fetch, a preflight      *)
(* first where one is needed, and remember the ones that were granted.     *)
(* Every request has an identity; RequestPath has the ones without.        *)
(***************************************************************************)
EXTENDS RequestPath, CrossOrigin, Certificates

CONSTANTS
    Deployment,     \* [options : of CORS, serves : kinds of requests with a guard]
    Fetch,          \* what scripts ask their browsers for
    Leaf,           \* certificates that peers present and issuers issue
    Root,           \* the trusted roots
    Intermediate,   \* intermediates that the peer or the issuer sends along
    OwnKey,         \* the key the handler had certified
    Time            \* instants

\* A browser names the script's origin and the method.
ASSUME GuardAssumption ==
    /\ {204, 401, 403} \subseteq HandlerStatus
    /\ \A f \in Fetch : f.origin \notin {Empty, "*"} /\ f.method # Empty

VARIABLES
    app,       \* the deployment
    visit,     \* what each admitted request carries
    guard,     \* how far its guards and its scrape have come
    granted,   \* fetches whose preflight a browser has seen granted
    postgres,  \* registry.postgres
    passed,    \* what RegisterPostgresPool was last called with
    scrape     \* what each scrape has read and written

poolVars == <<postgres, passed>>
guardVars == <<app, visit, guard, granted, poolVars, scrape>>
gvars == <<vars, guardVars>>

NoVisit == [kind |-> "none"]
NoScrape == [reported |-> FALSE]

policy == app.options

Kind(q) == visit[q].kind

GuardedInit ==
    /\ Init
    /\ app \in {d \in Deployment : CorsAccepts(d.options)}
    /\ visit = [q \in Request |-> NoVisit]
    /\ guard = [q \in Request |-> "none"]
    /\ granted = {}
    /\ postgres = "nil"
    /\ passed = "nothing"
    /\ scrape = [q \in Request |-> NoScrape]

-----------------------------------------------------------------------------
(* What arrives *)

\* A fetch that needs a preflight is sent only after a granted one.
Browsing ==
    {[kind |-> "preflight", fetch |-> f] : f \in {f \in Fetch : NeedsPreflight(f)}}
    \cup {[kind |-> "fetch", fetch |-> f] : f \in {f \in Fetch : NeedsPreflight(f) => f \in granted}}

Scraping == [kind : {"scrape"}, token : {"right", "wrong", "malformed", "none"}]

\* Handshakes a server's TLS configuration lets through (external): the client
\* sends no certificate, it is not verified, or it is.
Handshake(leaf, time) ==
    {[peer |-> NoCertificate, chain |-> <<>>], [peer |-> leaf, chain |-> <<>>]}
    \cup {[peer |-> leaf, chain |-> c] : c \in Chains(leaf, Root, Intermediate, time)}

\* The request may come long after the handshake of its connection.
PeeringSince(leaf, h) ==
    [kind : {"peer"}, tls : Handshake(leaf, h), shaken : {h},
     asks : [now : {n \in Time : n >= h}, usage : {"client"}, host : {"none"}]]

Peering == UNION {UNION {PeeringSince(leaf, h) : h \in Time} : leaf \in Leaf}

\* Every set of trusted roots and every pin, rooted or not.
Issuing ==
    [kind : {"issued"}, leaf : Leaf,
     asks : [now : Time, usage : {"client"}, host : {"none"}, expectedKey : {OwnKey},
             roots : SUBSET Root, intermediates : {Intermediate},
             pin : {NoCertificate} \cup Intermediate \cup Root]]

\* Nothing guards it, or it has passed.
Plain == [kind |-> "plain"]

Visit ==
    {v \in Browsing \cup Scraping \cup Peering \cup Issuing : v.kind \in app.serves} \cup {Plain}

-----------------------------------------------------------------------------
(* Steps of a request *)

\* A scrape before it has read anything: what is there as it begins.
Begun ==
    [before |-> data, passed |-> passed, source |-> postgres, shot |-> data, totals |-> data,
     reported |-> FALSE]

\* Only the mux sets a route, and a preflight does not get that far.  The other
\* guards belong to routes.
Enter(q) ==
    /\ at[q] = "limit" /\ SlotFree
    /\ \E v \in Visit :
          /\ visit' = [visit EXCEPT ![q] = v]
          /\ \E found \in BOOLEAN : Admit(q, found) /\ (v # Plain => (found <=> v.kind # "preflight"))
          /\ guard' = [guard EXCEPT ![q] = IF v = Plain THEN "passed" ELSE "asked"]
          /\ scrape' = [scrape EXCEPT ![q] =
                           IF v.kind = "scrape" THEN Begun ELSE @]
    /\ UNCHANGED <<app, granted, poolVars>>

\* The guard lets the request pass, or writes its answer.
Decide(q, status) ==
    /\ guard[q] = "asked"
    /\ IF status = 0 THEN guard' = [guard EXCEPT ![q] = "passed"] /\ UNCHANGED vars
       ELSE guard' = [guard EXCEPT ![q] = "answered"] /\ Respond(q, status)
    /\ UNCHANGED <<app, visit, poolVars, scrape>>

HttpRequest(v) == IF v.kind = "preflight" THEN Preflight(v.fetch) ELSE Actual(v.fetch)

Cors(q) ==
    /\ Kind(q) \in {"preflight", "fetch"}
    /\ Decide(q, CorsStatus(policy, HttpRequest(visit[q])))
    /\ granted' = granted \cup {f \in {visit[q].fetch} : Kind(q) = "preflight" /\ Grants(policy, f)}

\* ProtectBearer compares digests of whole tokens.
Bearer(q) ==
    /\ Kind(q) = "scrape"
    /\ Decide(q, IF visit[q].token = "right" THEN 0 ELSE 401)
    /\ UNCHANGED granted

\* A handler asks about its peer.
Peer(q) ==
    /\ Kind(q) = "peer"
    /\ Decide(q, IF VerifiedPeer(visit[q].tls, visit[q].asks) THEN 0 ELSE 403)
    /\ UNCHANGED granted

\* A handler asks about a certificate that was issued.
Issued(q) ==
    /\ Kind(q) = "issued"
    /\ Decide(q, IF VerifyIssued(visit[q].leaf, visit[q].asks) THEN 0 ELSE 403)
    /\ UNCHANGED granted
-----------------------------------------------------------------------------
(* The scrape *)

\* Under the lock: copy the maps and the source.
ScrapeCopy(q) ==
    /\ Kind(q) = "scrape" /\ guard[q] = "passed"
    /\ RegistryFree
    /\ guard' = [guard EXCEPT ![q] = "copied"]
    /\ scrape' = [scrape EXCEPT ![q].shot = data, ![q].source = postgres]
    /\ UNCHANGED <<vars, app, visit, granted, poolVars>>

\* Slip: the map is not copied, only its reference.
ExposedByReference(q) == data

Exposed(q) == scrape[q].shot

\* Without the lock: Stats, whose panic on a nil pool is recovered, then the
\* counters.
ScrapeTotals(q) ==
    /\ guard[q] = "copied"
    /\ guard' = [guard EXCEPT ![q] = "totals"]
    /\ scrape' = [scrape EXCEPT ![q].totals = Exposed(q),
                                ![q].reported = (scrape[q].source = "pool")]
    /\ Respond(q, 200)
    /\ UNCHANGED <<app, visit, granted, poolVars>>

\* The histograms end the response.
ScrapeHistograms(q) ==
    /\ guard[q] = "totals"
    /\ guard' = [guard EXCEPT ![q] = "answered"]
    /\ scrape' = [scrape EXCEPT ![q].shot = Exposed(q)]
    /\ UNCHANGED <<vars, app, visit, granted, poolVars>>

\* The application registers its pool, and later removes it with nil.  A nil
\* *Pool makes the interface not nil, but Stats panics on it.
RegisterPostgresPool(pool) ==
    /\ "scrape" \in app.serves
    /\ <<passed, pool>> \in {<<"nothing", "pool">>, <<"pool", "nil">>}
    /\ RegistryFree
    /\ postgres' = IF pool = "nil" THEN "typedNil" ELSE pool
    /\ passed' = pool
    /\ UNCHANGED <<vars, app, visit, guard, granted, scrape>>

-----------------------------------------------------------------------------

\* The handler behind the guards.
Serve(q) == Kind(q) # "scrape" /\ guard[q] = "passed" /\ Handler(q)

\* The guard or the scrape has answered.
Leave(q) == guard[q] = "answered" /\ Return(q)

\* What guarded a request is forgotten behind the guard, the rest when the
\* handler is over.
Handle(q) ==
    /\ Serve(q) \/ Leave(q)
    /\ visit' = [visit EXCEPT ![q] = IF at'[q] = "handler" THEN Plain ELSE NoVisit]
    /\ guard' = [guard EXCEPT ![q] = IF at'[q] = "handler" THEN @ ELSE "none"]
    /\ scrape' = [scrape EXCEPT ![q] = NoScrape]
    /\ UNCHANGED <<app, granted, poolVars>>

Guard(q) == Cors(q) \/ Bearer(q) \/ Peer(q) \/ Issued(q)

Scrape(q) == ScrapeCopy(q) \/ ScrapeTotals(q) \/ ScrapeHistograms(q)

\* Outside the handler, as in RequestPath.
Around(step) == step /\ UNCHANGED guardVars

GuardedNext ==
    \/ \E q \in Request :
          \/ Around(Arrive(q, TRUE))
          \/ Enter(q)
          \/ Around(Refuse(q) \/ Abandon(q) \/ Log(q) \/ ObserveRead(q) \/ ObserveWrite(q))
          \/ Guard(q) \/ Scrape(q) \/ Handle(q)
    \/ \E pool \in {"pool", "nil"} : RegisterPostgresPool(pool)
    \/ Around(Finished)

GuardedSpec == GuardedInit /\ [][GuardedNext]_gvars

\* As in RequestPath: the limiter goes on, handlers may hang.
GuardedFairSpec == GuardedSpec /\ Fairness

-----------------------------------------------------------------------------
(* Properties *)

\* Browsers do what the options say, over any sequence of preflights and
\* fetches: a request that needs a preflight reaches the handler only if its
\* origin, method and headers are permitted, and a response is shared with a
\* script exactly if its origin is trusted, with cookies only if it is listed
\* by name.  A permitted fetch is never refused.
CrossOriginHolds ==
    \A q \in Request :
        Kind(q) \in {"preflight", "fetch"} =>
            LET f == visit[q].fetch
            IN  /\ Kind(q) = "fetch" /\ NeedsPreflight(f) => Permitted(policy, f)
                /\ Shares(policy, HttpRequest(visit[q]), f) <=> Trusted(policy, f.origin, f.credentials)
                /\ guard[q] = "answered" => (f \in granted <=> Permitted(policy, f))

\* One response of a scrape does not contradict itself or lose a count: its
\* counters and its histograms agree, they hold what was counted before it
\* began, and nothing that was not counted.  A pool is reported if it was
\* registered all the time, and never if it was removed before.
ScrapeConsistent ==
    \A q \in Request :
        Kind(q) = "scrape" /\ guard[q] = "answered" /\ visit[q].token = "right" =>
            LET s == scrape[q]
            IN  /\ s.totals = s.shot
                /\ \A l \in Label : s.before[l] <= s.totals[l] /\ s.totals[l] <= data[l]
                /\ s.passed = "pool" /\ passed = "pool" => s.reported
                /\ s.reported => s.passed # "nil" /\ passed # "nothing"

\* A peer is accepted only if the handshake verified it up to a trusted root
\* and it is still in date when the request is handled.  An issued certificate
\* is accepted only if it is for the handler's key and leads to a trusted root,
\* to the pinned one if there is a pin: a pin alone is no trust.
CertificateTrust ==
    \A q \in Request :
        /\ Kind(q) = "peer" /\ guard[q] = "passed" =>
              LET v == visit[q]
              IN  /\ Chains(v.tls.peer, Root, Intermediate, v.shaken) # {}
                  /\ InDate(v.tls.peer, v.asks.now)
        /\ Kind(q) = "issued" /\ guard[q] = "passed" =>
              LET o == visit[q].asks
                  trusted == IF o.pin = NoCertificate THEN o.roots ELSE o.roots \cap {o.pin}
              IN  /\ visit[q].leaf.key = OwnKey
                  /\ Chains(visit[q].leaf, trusted, Intermediate, o.now) # {}

-----------------------------------------------------------------------------
(* The inductive invariant *)

\* What a request may carry, before and behind its guard.
Carried ==
    [kind : {"preflight", "fetch"}, fetch : Fetch] \cup Scraping \cup Peering \cup Issuing
    \cup {NoVisit, Plain}

GuardState == {"none", "asked", "passed", "answered", "copied", "totals"}

PoolRegistered == {"nothing", "pool", "nil"}

Reading ==
    [before : [Label -> Nat], passed : PoolRegistered, source : {"nil", "pool", "typedNil"},
     shot : [Label -> Nat], totals : [Label -> Nat], reported : BOOLEAN]

\* Every variable has its type.
GuardedTypeOK ==
    /\ visit \in [Request -> Carried]
    /\ guard \in [Request -> GuardState]
    /\ scrape \in [Request -> Reading \cup {NoScrape}]
    /\ <<passed, postgres>> \in {<<"nothing", "nil">>, <<"pool", "pool">>, <<"nil", "typedNil">>}

\* Browsers have seen granted what the policy grants, and a preflight that was
\* answered has told them.
BrowseInv(q) ==
    /\ Kind(q) = "fetch" =>
          /\ guard[q] \in {"asked", "passed"}
          /\ NeedsPreflight(visit[q].fetch) => visit[q].fetch \in granted
    /\ Kind(q) = "preflight" =>
          /\ guard[q] \in {"asked", "passed", "answered"}
          /\ guard[q] = "answered" /\ Grants(policy, visit[q].fetch) => visit[q].fetch \in granted

\* A request that has passed was accepted.
TrustInv(q) ==
    guard[q] = "passed" =>
        /\ Kind(q) = "peer" => VerifiedPeer(visit[q].tls, visit[q].asks)
        /\ Kind(q) = "issued" => VerifyIssued(visit[q].leaf, visit[q].asks)

\* What a scrape has read lies between its beginning and now, counts and pool.
ScrapeInv(q) ==
    Kind(q) = "scrape" =>
        LET s == scrape[q]
        IN  /\ s \in Reading
            /\ \A l \in Label : s.before[l] <= s.shot[l] /\ s.shot[l] <= data[l]
            /\ guard[q] = "totals" \/ (guard[q] = "answered" /\ visit[q].token = "right") =>
                  s.totals = s.shot /\ (s.reported <=> s.source = "pool")
            /\ passed = "nothing" => s.passed = "nothing" /\ s.source # "pool"
            /\ passed = "pool" => s.passed # "nil" /\ (s.passed = "pool" => s.source = "pool")
            /\ s.passed = "nil" => s.source # "pool"

\* Only a scrape reads the registry.
ReadsInv(q) == guard[q] \in {"copied", "totals"} => Kind(q) = "scrape"

VisitInv(q) == BrowseInv(q) /\ TrustInv(q) /\ ScrapeInv(q) /\ ReadsInv(q)

\* The strengthening of the safety properties of guards.
GuardInv ==
    /\ GuardedTypeOK
    /\ CorsAccepts(policy)
    /\ granted \subseteq {f \in Fetch : Grants(policy, f)}
    /\ \A q \in Request : VisitInv(q)
=============================================================================

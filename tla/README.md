# A TLA+ model of the Stumpfworks framework

The framework is a Go library: an application is put together from an HTTP
server with middleware, OIDC logins, a directory reader, a PostgreSQL pool with
migrations and an audit store, certificate checks, health checks and metrics. This directory holds TLA+ modules for the parts of it
in which order, time and failure decide whether it works, the TLC configurations
that check them on small instances, and proofs, checked by TLAPS, of what
matters most for instances of any size.

Paths below are relative to the framework's root (`src/` in `PROJECT.json`).
`PROJECT.json` maps every definition to the lines it stands for.

## The system and its modules

| Part | State | Steps and actors | Module |
| --- | --- | --- | --- |
| One-use login store, `auth/oidc/store.go`, `login.go` | entries, mutex, `used` flag and age of each transaction | handlers call Begin, Put, Take, complete; clock | `TransactionStore` |
| Sealed logins, `auth/oidc/transaction_codec.go` | rows of a consumer's table, transactions in each process | replicas with skewed clocks seal, take, open, complete, crash | `SealedLogin` |
| Promise of both | phase of each login | open, redeem, verify, refuse, spoil | `OneUseLogin` |
| Configuration cache, `auth/oidc/cache.go`, `discovery.go` | snapshot, `fetchedAt`, `refreshMu`, clients built from snapshots | refreshers fetch and publish, clients begin logins, issuer rotates keys | `ConfigurationCache` |
| Its refresh loop, `cache.go` Run | place in the loop, ticker channel, age of the cache | loop, ticker, cancellation | `RefreshLoop` |
| A whole login, `login.go`, `verify.go`, `introspection.go` | the cache's, plus each login, its ID token and its access token | begin, sign, redeem, accept, fail, introspect, revoke | `LoginFlow`, which extends `ConfigurationCache` |
| Application, `core/app/app.go` | Run's place, Serve's goroutine and channel, requests, resources | Use, Run, Serve, `Shutdown`, requests, cancellation | `AppLifecycle` |
| Pool and audit store, `data/postgres`, `audit/postgres/store.go` | connections held, each handler's transaction and answers, committed rows | WithinTransaction, Append, rollback, commit, lost answers | `Database`, which extends `AppLifecycle` |
| Settings, `core/config/config.go` and the constructors' checks | none: operators on layers | LoadWithOverrides, Validate, the checks of app, pool and limiter | `Configuration` |
| A whole process, `examples/minimal-app/main.go` | main's place, what it was started with, the pool it opened | load, create, open, wire, run, exit; signals | `Application`, which extends `Database` and `Configuration` |
| Middleware and request metrics, `web/middleware`, `web/metrics` | semaphore, statuses, registry and its mutex | requests through metrics, identity, log, recovery, limiter, handler | `RequestPath` |
| CORS, `web/middleware/cors.go` | none: operators on options and requests | the check of options, the decision, a browser | `CrossOrigin` |
| Certificates, `security/certificates` | none: operators on certificates | VerifiedPeer, VerifyIssued, chains | `Certificates` |
| Guards and scrapes, those two with `web/metrics/auth.go`, `metrics.go` Handler | what each request carries, granted preflights, the registry's pool, what a scrape has read | browsers, scrapers, peers; RegisterPostgresPool | `GuardedPath`, which extends `RequestPath` |
| Readiness, `web/health/health.go` | registered checks, goroutines, result channel, pending set | Ready calls, checks, deadline, Register | `Readiness` |
| Migrations, `data/migrate/migrate.go` | schema, recorded rows, advisory lock, each runner's transaction | Apply by instances of several releases; faults, crashes | `Migrations` |
| Directory lookup, `directory/ldap` | context, connection, answer so far, registry | GetUser, server, cancellation, deadline, callback | `LdapLookup` |

How the parts meet: a login handler gets its configuration from the cache,
begins a transaction with a `LoginClient`, keeps it in the store or sealed in a
table, and completes it with the client that began it (`LoginFlow` composes the
cache with complete and VerifyIDToken; `TransactionStore` and `SealedLogin`
compose the two ways of keeping it with complete). Requests and directory
lookups end in the same registry, which `RequestPath` and `LdapLookup` each
model with its mutex; `GuardedPath` adds the scrape that reads it, and what
stands in front of handlers. `AppLifecycle` runs the whole and releases what
handlers use, `Database` says what the handlers do with the pool, and
`Application` is the process around both, from its configuration to its exit.

### Conventions

A module has one action per step that other actors can observe: code between
two lock operations, channel operations or waits is one step, and a handler that
waits is split exactly there. `Init` is the state after the constructor. Names
are those of the code. A definition headed *Slip* is a plausible mistake: the
mutants of `PROJECT.json` put it in the place of the definition after it, and
the property named there must then fail.

What is abstract: random values (state, nonce, PKCE verifier, browser binding)
are model values, distinct by construction; signatures and encryption are
perfect; a signing key set is a generation number; byte layouts, texts and
headers are left out. Clocks are integers and a time constant of the code is a
CONSTANT with the assumption the code itself enforces.

### Correspondence, module by module

**TransactionStore.** A handler holds the mutex from `PutLocked` or `TakeMatch`
until it returns. `PutCheck` is the part of Put before the lock: it reads `used`,
which can be stale when the lock is there. Take is three steps (`TakeDead` for an
entry that is expired or spent, `TakeMatch`, `TakeRemove` with its second look
at `used`), because complete does not take the lock. `Redeem` is complete up to
the sending of the code (the swap of `used` and every check), `Reject` a complete
that fails before, `Answer` what follows the exchange.

**SealedLogin.** Replicas have clocks of their own. `Seal` and `Open` are the
codec's; `Insert` and `Take` are the consumer's statements on its table
(external), where Take removes the row it returns atomically, as the comment on
Open demands. `Crash` loses a replica's transactions.

**ConfigurationCache.** `RefreshCall`, `RefreshLock`, `FetchMetadata`,
`FetchKeys`, `Publish` and `RefreshFail` are Refresh and its Discover. `servedAt`
is a history variable: when the issuer sent the keys. `Current` and `Status` are
state functions. `BuildClient` is NewLoginClient with a fresh snapshot, `Begin` the
staleness check at the start of a login.

**RefreshLoop.** The loop at a fixed pace with a ticker that holds one tick and
drops the rest; a fetch lasts up to its timeout. It has the maximum age and the
timeout in common with `ConfigurationCache`, which is what `CacheTimes` declares.

**LoginFlow.** `BeginLogin` stores the client's configuration in the
transaction, `Redeem` starts the exchange and its deadline, `Accept` returns an
identity if VerifyIDToken accepts the answer, `Fail` covers every other return.
The issuer signs with the key and the clock it has at that moment, with or
without a not-before time, and may answer with a token of someone else's.
`TimesOK` has every check of the token's times: a positive issue time, the
expiry, the lifetime, and the issue and not-before times against the skew. `Introspect`, `ReturnActive` and
`ReturnInactive` are the later look at the access token; between them the issuer
answers (`Report`) and may revoke (`Revoke`).

**AppLifecycle.** `Use` registers a resource. `SelectError` and `SelectDone` are
the two branches of serve's select, `ShutdownDrains` and `ShutdownTimesOut` the
two results of Shutdown, `ReceiveServe` the wait for Serve's goroutine,
`CloseBegins` and `CloseReturns` one resource of closeResources. Handlers acquire
and release resources while their requests are active. A request arrives on a
connection that Serve has accepted (`Connected`), for which the listener need not
be open: until a shutdown has drained or dropped the connections, and when Serve has failed
by itself, which nothing follows up with a shutdown, also while resources
are released and after. Accepting a connection is no step of its own, and a request
is active from the moment the server begins to read it: what net/http itself does
between reading a request and marking its connection as active is left out.

**Database.** A transaction holds a connection, and an Append, which goes to the
pool and not to the transaction, takes another. Begin and Append wait while
`Held` equals the pool's size; only the end of the request's context ends that
wait. `Commits`, `CommitFails` and `CallbackFails` are the ways out of
WithinTransaction. A failed commit leaves open whether the row is stored, a
failed insert whether the event is; a handler may append its event again.

**Configuration.** A layer is a partial function from settings to values. The
file's rule for absence (`Present`) and the environment's (any variable that is
set) differ, as in the code. `Over` puts one layer over another and `Only` is a
layer of one setting. `Sources`, `Strongest` and `Effective` are not translated from
the code: they say what the README of the framework promises of precedence, for
`LayersInOrder` to compare with. `AppAccepts`, `PoolAccepts`, `OpenAccepts` and
`LimiterAccepts` are the checks of the constructors main calls.

**Application.** `Load`, `Create`, `Open`, `PingFails`/`PingSucceeds` and `Wire` are
main up to Run; every `os.Exit` is an `Exit` with its reason. The example has
one resource and no handlers of its own; the model adds what an application that
starts from it would have: further resources (`UseMore`) and handlers that use
the database.

**CrossOrigin.** `CorsAccepts` is the constructor, `CorsStatus`, `AllowOrigin` and
`AllowsCredentials` what the middleware does with a request. The browser's half
(`NeedsPreflight`, `Shares`, `Grants`) is external. `Trusted` and `Permitted` say what
the options mean, without reference to either. `ToUpper` has one method in two
spellings (`patch`, `PATCH`) and every other name for itself; a few names stand
for the texts that are not an origin or not a token.

**Certificates.** A certificate's record stands for its DER. `Chains` is Go's
verifier (external) with up to two intermediates; `VerifiedPeer` uses what the
handshake verified, `VerifyIssued` verifies anew.

**GuardedPath.** A request gets what it carries when it is admitted (`Enter`) and
passes its guard in one step (`Cors`, `Bearer`, `Peer`, `Issued`). A scrape is three
steps: the copy under the registry's lock, the counters, the histograms.
`RegisterPostgresPool` with nil leaves a typed nil in the interface, on which
Stats panics and is recovered. Every step is a step of `RequestPath` or leaves its
variables alone.

**RequestPath.** A request goes down (`Arrive`, then `Admit`, `Refuse` or
`Abandon`), is handled, and comes back up through recovery, access log and
`observe`, whose read and write are two steps under the mutex. The variable
`queueing` is the choice between a positive and a zero queue timeout.

**Readiness.** A goroutine per check ends (`CheckEnds`: passed, failed or
panicked), then sends; `Receive` and `GiveUp` are the branches of the select,
either of which may be taken when both are ready.

**Migrations.** Each call is given the files of some release. `Loadable` is what
Load refuses: a number that is zero or too great for ParseInt, and a version that
occurs twice. `Lock`, `Read`,
`Known`/`Execute` per file in version order, and `Commit` follow Apply; `Fault`
is an error or crash at any point, with the commit's effect undecided if it was
under way; `Rollback` ends a transaction that did not commit.

**LdapLookup.** `Dial`, `DialOK`, `BindOK`, the responses, `SearchOK` and
`Examine` follow GetUser. After an error the context is looked at three times
(`NoticeContext`, `Classify`, `ReturnContextError`), each a step of its own.
`AfterFunc` closes the connection of an ended context. `ServerFails` stands for
every other error, and may happen at any time: a response that framing.go
rejects, a spent byte budget, too many frames, and the
connection's own deadline passing just before that of the context are among them.
None of the conditions that lead to it is translated but the limit on frames,
which also bounds what can arrive.

## What the runs check

| Run | Instance | Properties |
| --- | --- | --- |
| `store` | two handlers, two logins, capacity 1 | only the bound browser obtains a login; no live login is evicted; refusal for lack of room only when all places are live; implements `OneUseLogin` (one exchange per login included); every call returns |
| `cache` | two refreshers, one client, one rotation | no key rollback; every Refresh returns |
| `refresh_loop` | interval of a third of the maximum age | one failure leaves time for a retry; the loop keeps trying until it is cancelled, and then stops |
| `login` | one refresher, client and login, one rotation, issuer clock one behind, equal or ahead, tokens with and without a later not-before time | keys used in verification have a bounded age; the token was signed for this login since it began; tolerated skew refuses no token in time; a token reported active was active within the last timeout |
| `sealed` | two replicas, skewed clocks, crashes | completed by its own client; skew tolerated; redeemed within the lifetime; implements `OneUseLogin` |
| `app` | two requests, the pool and one more resource, 1,326 ways to start | every setting comes from the strongest layer that gives it; what Validate accepts no constructor refuses, and no exit leaves a pool open; nothing is released before Serve is over, after a shutdown nothing is active that was not dropped, and nil means a drain; resources close in reverse, unused, none left; WithinTransaction's answer tells what is stored; an event is stored once; the process ends after a signal |
| `app_serve_error` | two requests, two resources | *violated*: release only after a drain or a forced close |
| `path` | two requests, one slot, queue or not; seven CORS policies, a scrape, or certificates | tokens match running handlers; counts are exact; the recorded status is the one sent, unless an informational one came first; nobody queues for ever; browsers do what the CORS policy says; a scrape agrees with itself and with the counts; certificates are trusted only along a chain and in date |
| `path_route` | two requests, one slot, queue or not | *violated*: the metrics label is the route that served the request |
| `ready` | one call, three checks | up only when all checks passed; Ready answers; goroutines of ended checks end |
| `ldap` | two lookups, up to three matches, one referral | no partial answer passes for a whole one; counted once, as returned; every lookup ends without its connection |
| `migrate` | two runners, two calls each, six releases (old, new, edited; a doubled version, a zero, a number too great) | applied once, recorded, in version order; success means applied, and no runner collides with another; Apply returns |

### Bounds

Each bound is the smallest at which the interesting case occurs, and that it
occurs is shown by the mutants: every property fails for a slip in the code it
is about. Two handlers and a store of capacity 1 give every race between two
calls, a full store and a store with a dead entry. In `login` the
time constants of the cache and of a login are 1 and the clock runs to 4, which
is where the oldest admissible keys (3) and the first inadmissible ones (4) can
be told apart; `cache` has a maximum age of 2. In
`ldap` three matches exceed the size limit of two, and four frames are too few
for two entries and a referral.

In `app` the file sets at most one setting and the environment one, or two that
depend on each other (the URL and what allows it to be insecure, the least and the
greatest number of connections). That is enough for any two layers to meet on a
setting and for settings that are only wrong together; every
kind of setting and of mistake is among the entries. The pool has two
connections, the default scaled down, so that two transactions can hold them all.
An application with a database has registered its further resources before it
runs. In `path` a deployment has one kind of guard: CORS, a scrape, or
certificates. Requests of the three kinds meet only in the limiter, the log and
the registry, which all share. Every request there has an identity; `path_route`
has the ones without. Two roots share a name and have signed one intermediate, so a leaf
has several chains; the leaves are in date for one, two and three of the three
instants. A pool is registered once and removed once. In `ready` one call is
enough: calls share nothing but the set of registered checks, which each copies in
one step, and `ReadinessProofs` covers any number of them.

`MaxTime`, `MaxGeneration`, `MaxCalls`, `MaxMatches` and
`MaxReferrals` are bounds of the model. `TokenLife`, `NotBeforeDelay`, `AccessLife`,
`Overlap` and `MaxOffset` describe the issuer, `UnixStart` when it all happens; the other numbers are the code's
or its configuration's.
The proofs are for all values of all of them. Only `sealed`
uses symmetry, and it checks safety only.

`CHECK_DEADLOCK FALSE` is set where the system may come to rest: all logins,
calls or lookups of the instance are over and the bounded clock stands still.

### Fairness

Fairness is weak for what a goroutine does next without waiting for anybody,
for timers and for callbacks of contexts, and strong for taking a `sync.Mutex`,
which hands itself to a waiter that has waited for a millisecond. In `LdapLookup`
weak fairness is enough for the mutex too, since each lookup takes it once. Nothing is assumed of servers, issuers, clients or
cancellation. Some assumptions go further. In `Application` callbacks
and handlers return at last (strong fairness, since the pool can keep interrupting
them), because a pool's Close waits for connections that handlers hold and has
no deadline; a wait for a connection ends by itself only when one is free or the
request's context is done; Serve returns once Shutdown has closed its listener, and
nothing is assumed of clients or of Accept. In `GuardedPath` only the limiter has to go on,
handlers may hang.
In `Migrations` a transaction whose session is gone ends, as PostgreSQL provides.

### Two disagreements

* `app_serve_error`: `docs/threat-models/CORE.md:40` promises that dependencies
  are released only after the listener stopped, a wait up to the deadline and a
  forced close. When Serve fails by itself, `core/app/app.go:104` returns
  straight into the deferred closeResources, with requests active; the server is
  not closed, so its connections may bring more. That is the
  only way out of serving that breaks the promise: `DrainHolds` proves it for all
  others, a shutdown after a failed Serve included.
* `path_route`: `docs/HTTP.md:44` says to install the metrics outermost and that
  labels use the registered route pattern. `requestID` hands on a copy of the
  request (`web/middleware/middleware.go:85`), the mux writes the pattern into
  the copy, and `web/metrics/metrics.go:123` reads the original: every request
  that has an identity is labelled `unmatched`. `RouteLost` proves that the labels
  are wrong for exactly the requests that have an identity and matched a route.

Smaller observations, from the hypotheses the properties needed:

* The maximum age of keys counts from the end of a fetch (`cache.go:67`), so
  keys can be one fetch timeout older than `maxAge` at Begin.
* `cache.go:113` wants an interval that leaves time for a retry, and `:115`
  accepts exactly half the maximum age: then the retry starts when the snapshot
  expires. A third leaves time, which is what `refresh_loop` checks; no run has
  the interval of half the maximum age.
* The status wrappers record an informational status (1xx) as the final one.
  Handlers in `path` send one, and `OnlyInformationalWrong` says that no other
  status is ever recorded wrongly; `StatusFinal` has the hypothesis that handlers
  send none. 101 is final for net/http and not among them.
* A request that is abandoned in the limiter's queue is recorded as a 200.
* The skew allowance of VerifyIDToken is for the issue and not-before times and
  not for the expiry. A token must live longer than the rest of the login plus the
  issuer's lag, and an issuer that delays validity by as much as the skew is left
  no room for a clock ahead of ours (`SkewedTokenInTime` states both bounds).
* "Bounded shutdown" (`app.go:84`) bounds the drain, and not the closing of
  resources after it. After a signal the forced close of connections is what ends
  transactions that wait for each other's connections (`ExitsAfterSignal`); when
  Serve fails by itself nothing cancels those requests, and the process may wait
  until their clients leave.
* An event appended inside a WithinTransaction callback does not belong to the
  transaction: it stays if the transaction is rolled back, and needs a second
  connection while the first is held.
* After an Append that failed, a duplicate error on the retry means that the event is
  stored; after a commit error nothing is known.
* `RegisterPostgresPool(nil)` does remove the pool from the exposition, as its
  comment says, but by way of a panic that every later scrape recovers.

## What is proved

Every safety property that a run checks is also a theorem; further theorems state
properties that no run of the table lists. There are eight
modules of proofs, each by the same argument: an inductive invariant that
holds initially and is preserved by every step, proved action by action, and
theorems that follow from it. All are for arbitrary constants under the named
assumptions of the modules, which state what the constructors enforce
(`AppAssumption`, `DatabaseAssumption`: the number of resources is a natural number, the
pool among them) or what a browser does (`GuardAssumption`: it names the
script's origin and a method; the guards' statuses are among those handlers
may write), or the time of day (`LoginAssumption`: Unix time is past the tolerated
skew). Three theorems have a hypothesis of their own, given below:
`StatusFinal` (and `GuardedStatusFinal`), `OrderHolds` of `MigrationsProofs`
and `RetriesInTime`.

* `TransactionStoreProofs`: at most one exchange, binding required, live logins
  stay, refusal only for live logins, capacity, time of exchanges, and that
  `TransactionStore` implements `OneUseLogin`. The properties are not inductive
  alone: a handler that is about to hand out a login must be known to hold the
  mutex and to look at an entry that is still there, and an exchange under way
  must be known to own the `used` flag.
* `SealedLoginProofs`: own client, skew tolerated, redeemed in time, and that
  `SealedLogin` implements `OneUseLogin`: a login is in at most one place, a row or
  one replica's memory, from which it can still be redeemed.
* `LoginFlowProofs`, in three parts. The cache: keys young at Begin, no rollback,
  Status agrees with Current, deadline follows the fetch. Its invariant says that
  `refreshMu` is held exactly by the refresher inside Discover, that what it has
  fetched is no older than the snapshot, and that the validity of a client ends
  within `FetchTimeout + MaxAge` of the serving of its keys. A whole login: bounded
  trust in keys, the token is ours, tolerated skew, and an active status is recent.
  Every step of the flow is a step of the cache or leaves it alone
  (`FlowImplements`), so the cache's theorems and its invariant hold for it; the
  flow adds what a login holds between Begin and its end. The refresh loop:
  `RetriesInTime` says that `MaxFailures` failed refreshes in a row never make the
  cache stale, if
  `Interval + MaxFailures * Pace + FetchTimeout < MaxAge` (`LeavesTime`), where the
  pace is the longer of interval and timeout. `RetryInv` is the argument: the age,
  plus what the next tick, the remaining failures and one last fetch may add,
  stays within that sum. Run itself only enforces an interval of at most half the
  maximum age, from which the property does not follow, so the hypothesis is the
  operator's to keep. The instance of the run is the tightest one that keeps it.
* `ApplicationProofs`, in two parts. The lifecycle: release after serving, the
  order of resources, and a drain or a forced close unless Serve failed
  (`DrainHolds`, where `CauseInv` ties each error to what has caused it). Its invariant `IInv` follows Serve's result from the
  goroutine through the channel to Run, says how far the shutdown has come for
  each value of the result, and that handlers hold only resources that are not
  closed. The process: each of its steps is a step of the lifecycle or
  leaves it alone, so the theorems hold for it (`ImplementsLifecycle`). `HandlersInv`
  adds that a transaction under way has neither answered nor stored anything,
  from which the truth of its answer and the single storing of an event follow.
  `StartInv` carries what Validate established to each place of main, together
  with where the pool is: from it no constructor refuses and no exit leaks.
  `LoadedIsEffective` shows, layer by layer, that LoadWithOverrides gives each
  setting the value of the strongest layer that has it, whence `LayersHold`.
  `Given` is arbitrary here, so this is for every file and environment.
* `GuardedPathProofs`, in two parts. The path: the limit holds, counts are exact,
  refusal means full, and the recorded status is final if no handler sends an
  informational one (`StatusFinal`). Without that hypothesis, a wrong status is an
  informational one, and log and metrics differ in the route exactly for copied
  requests that matched (`StatusWrongOnlyInformational`, `RouteLost`). The guards:
  every step is a step of `RequestPath` (`GuardedImplements`), so all of these hold
  behind guards. `GuardInv` says that browsers remember only what the policy grants, that
  what has passed a guard was accepted by it, and that a scrape's copy lies between
  its beginning and now. From it follow the CORS, scrape and certificate
  properties, for any policies, fetches, certificates and instants.
* `MigrationsProofs`: success means applied, and no runner collides
  (`SuccessHolds`); the record is what took effect, and no version takes effect
  twice (`OnceHolds`), for any releases whatever. Equally, nothing is undone, and a
  transaction brings a whole release into effect or nothing (`WholeHolds`); while
  one instance has uncommitted work no other one reads or works, even if the first
  has crashed and the server has not noticed (`OneWorks`). Versions take effect in order
  (`OrderHolds`) if releases only append versions (`AppendOnly`: a release has every
  version below its own that another one has; an edited file may still
  differ in content). Without it, a release that fills a gap applies an older version after a
  newer one. The instance of the run meets it, which `MCMigrations` assumes for TLC
  to evaluate. `LockInv` says that only the holder of the advisory
  lock has read the table or executed anything, `WorkInv` that what it read is
  still what is recorded, and `OrderInv` that what is applied has no gaps.
* `LdapLookupProofs`: no partial answer passes for a whole one, each lookup is
  counted once and as it was returned, and none leaves its connection open. The
  invariant of one call (`CallInv`) ties the outcome, which is decided from the
  context at up to three times, to what is returned; `RegistryInv` says that a
  count read under the registry's mutex is still the count when it is written.
* `ReadinessProofs`: up means that all checks passed, and no check ever blocks on
  the result channel, however late it returns. The invariant accounts for every
  name of a call: pending, in the channel, reported, or passed.

Three things are out of the prover's reach: liveness under fairness, induction
over data, and ENABLED. Only model-checked, therefore: every liveness property
(`CallsReturn`, `RefreshReturns`, `RunsUntilCancelled`, `ExitsAfterSignal`,
`QueueEnds`, `ReadyAnswers`, `ProbesEnd`, `LookupEnds`, `ApplyReturns`). Proved and
not checked by a run of their own: at most one exchange, keys young at Begin,
refusal means full, the status is final without informational ones, whole
releases, one migrator, sends never block, and connections closed.

## What is not modelled

* `authz/permissions.go`, `audit/event.go`: set membership and string rules on one
  immutable value. A model would restate them.
* `web/problem`, `web/validation`, `core/logging`, redaction, the text of the
  metrics: formatting and parsing of one message. The JSON of a configuration
  file is one bad value if it does not decode.
* The lengths and the structure of BER messages in `framing.go` (`validateBERFrame`,
  `validateBERElement`), the byte budget of `boundedConn` and the checks of the
  options in `ldap.New`: a response is accepted or refused, and a reader exists.
  The audience rules of VerifyIDToken and the fields of an introspection
  response are the issuer's choice between acceptance and failure.
* Parsing and signatures of certificates, the comparison of token digests, AES-GCM.
* Caches between browser and server, and how long a browser keeps a preflight.
* `observability/backup/backup.sh`: what it does after a signal depends on the
  shell and on docker (its trap for TERM restarts the services and lets the script go on).
* `core/errors`, `core/id`, `core/version`, test doubles: nothing that changes state.

## Plan

1. `BerFraming`: `validateBERElement` as a recursive operator against a reference
   definition on short messages (TLC only).
2. Directory observations in the scrape of `GuardedPath`, beside the requests.

----------------------------- MODULE Application -----------------------------
(***************************************************************************)
(* A process built like examples/minimal-app/main.go: load the             *)
(* configuration, create the application, open the database if one is      *)
(* named, give it to the application and to the readiness checks, install  *)
(* the limiter, Run, exit.  Its handlers use the database as Database      *)
(* says; an application that grows from the example registers resources    *)
(* of its own after the database, which its handlers do not hold on to.    *)
(***************************************************************************)
EXTENDS Database, Configuration

CONSTANTS
    Given,   \* files, variables and flags the process may be started with
    None     \* nothing loaded, or no longer needed

VARIABLES
    main,      \* where main is
    given,     \* what the process was started with
    cfg,       \* what LoadWithOverrides returned
    opened,    \* the pool postgres.Open made
    checked,   \* the database's readiness check is registered
    exit       \* why the process has ended

mainVars == <<main, given, cfg, opened, checked, exit>>
allVars == <<vars, databaseVars, mainVars>>

ApplicationInit ==
    /\ Init
    /\ DatabaseInit
    /\ main = "load"
    /\ given \in Given
    /\ cfg = None
    /\ opened = "no"
    /\ checked = FALSE
    /\ exit = "no"

-----------------------------------------------------------------------------
(* Start *)

Goto(stage) == main' = stage /\ UNCHANGED exit
Exit(why) == main' = "exited" /\ exit' = why

Load ==
    /\ main = "load"
    /\ cfg' = LoadWithOverrides(given)
    /\ IF cfg' = Bad THEN Exit("configuration") /\ given' = None
       ELSE Goto("create") /\ UNCHANGED given
    /\ UNCHANGED <<vars, databaseVars, opened, checked>>

Create ==
    /\ main = "create"
    /\ given' = None
    /\ IF ~AppAccepts(cfg) THEN Exit("application")
       ELSE IF cfg["URL"] # Blank THEN Goto("open") ELSE Goto("wire")
    /\ UNCHANGED <<vars, databaseVars, cfg, opened, checked>>

\* Open checks its options and makes the pool.
Open ==
    /\ main = "open"
    /\ IF ~PoolAccepts(cfg) THEN Exit("poolOptions") /\ UNCHANGED opened
       ELSE IF ~OpenAccepts(cfg) THEN Exit("database") /\ UNCHANGED opened
       ELSE Goto("ping") /\ opened' = "open"
    /\ UNCHANGED <<vars, databaseVars, given, cfg, checked>>

\* No connection in time, or the process is told to stop.
PingFails ==
    /\ main = "ping"
    /\ opened' = "closed"
    /\ Exit("database")
    /\ UNCHANGED <<vars, databaseVars, given, cfg, checked>>

\* Open returns; Use and Register take the pool.
PingSucceeds ==
    /\ main = "ping"
    /\ Goto("wire")
    /\ Use(Pool)
    /\ size' = cfg["MaxConnections"]
    /\ checked' = TRUE
    /\ UNCHANGED <<handlerLocals, tables, given, cfg, opened>>

\* The application registers a resource of its own.
UseMore(r) ==
    /\ main = "wire"
    /\ r # Pool
    /\ Use(r)
    /\ UNCHANGED <<databaseVars, mainVars>>

\* Handle, UseHTTP and LimitConcurrency; then main calls Run.  An application
\* with a database has all its other resources by then.
Wire ==
    /\ main = "wire"
    /\ resource[Pool] = "open" => \A r \in Resource : resource[r] = "open"
    /\ IF LimiterAccepts(cfg) THEN Goto("run") ELSE Exit("limiter")
    /\ UNCHANGED <<vars, databaseVars, given, cfg, opened, checked>>

-----------------------------------------------------------------------------
(* Run *)

\* Run is called with the signal context; it has its own copy of the settings.
Listen ==
    /\ main = "run"
    /\ ListenFails \/ ListenSucceeds
    /\ cfg' = None
    /\ UNCHANGED <<databaseVars, main, given, opened, checked, exit>>

\* The pool the application closes is the one Open made.
CloseResource(r) ==
    /\ \/ CloseBegins(r) /\ UNCHANGED opened
       \/ CloseReturns(r) /\ opened' = IF r = Pool THEN "closed" ELSE opened
    /\ UNCHANGED <<databaseVars, main, given, cfg, checked, exit>>

Serving ==
    /\ SelectError \/ SelectDone \/ ShutdownDrains \/ ShutdownTimesOut \/ ReceiveServe \/ Return
    /\ UNCHANGED <<databaseVars, mainVars>>

RunReturns ==
    /\ main = "run"
    /\ run = "returned"
    /\ Exit(IF result = "nil" THEN "done" ELSE "failed")
    /\ UNCHANGED <<vars, databaseVars, given, cfg, opened, checked>>

\* The signal context is made once the configuration is loaded.
Signal ==
    /\ main \notin {"load", "exited"}
    /\ Cancel
    /\ UNCHANGED <<databaseVars, mainVars>>

\* Clients.
Requests ==
    /\ main # "exited"
    /\ \E q \in Request : Arrive(q)
    /\ UNCHANGED <<databaseVars, mainVars>>

\* Handlers run as long as the process does.
Alive(step) == main # "exited" /\ step /\ UNCHANGED mainVars

Handlers == \E q \in Request : Alive(HandlerStep(q))

Server == (ServeFails \/ ServeCloses) /\ UNCHANGED <<databaseVars, mainVars>>

\* main goes on by itself.
Main ==
    \/ Load \/ Create \/ Open \/ PingFails \/ PingSucceeds
    \/ (\E r \in Resource : UseMore(r)) \/ Wire
    \/ Listen \/ Serving \/ (\E r \in Resource : CloseResource(r)) \/ RunReturns

\* The process is gone.
Exited == main = "exited" /\ UNCHANGED allVars

ApplicationNext ==
    \/ Main
    \/ Signal \/ Requests \/ Handlers \/ Server
    \/ Exited

\* main, Serve and the database go on; callbacks and handlers return at last.
\* Clients may wait for ever.
ApplicationSpec ==
    /\ ApplicationInit
    /\ [][ApplicationNext]_allVars
    /\ WF_allVars(Main)
    /\ WF_allVars(ServeCloses /\ UNCHANGED <<databaseVars, mainVars>>)
    /\ \A q \in Request :
          /\ WF_allVars(Alive(CallGoesOn(q)))
          /\ SF_allVars(Alive(CallbackReturns(q) \/ HandlerReturns(q)))

-----------------------------------------------------------------------------
(* Properties *)

\* Every setting has the value of the strongest layer that gives it: flags,
\* environment, file, defaults ("Environment variables override file values;
\* omitted values retain safe defaults").
LayersInOrder ==
    main = "create" => \A s \in Setting : cfg[s] = Effective(given, s)

\* What Validate accepts nothing built from it refuses: the process ends before
\* Run only because of its configuration or its database.  It runs with a
\* database exactly when one is configured, which is then owned, checked by
\* readiness and not in reach of an unwanted plaintext connection.  No exit
\* leaves a pool open.
StartsOperable ==
    /\ exit \notin {"application", "poolOptions", "limiter"}
    /\ main = "run" /\ run = "start" =>
          /\ (cfg["URL"] # Blank) <=> (resource[Pool] = "open")
          /\ checked <=> (resource[Pool] = "open")
          /\ checked /\ ~cfg["AllowInsecure"] => ~PermitsPlaintext(cfg["URL"])
    /\ main = "exited" => opened # "open"

\* The process ends after a signal, even if every connection is held by a
\* transaction that waits for another one to append its event: the deadline
\* drops the clients, which ends the waiting.  When Serve fails by itself
\* nobody drops them, and Run may wait for its resources.
ExitsAfterSignal ==
    ctxDone ~> main = "exited" \/ (run = "release" /\ ~inShutdown /\ result = "serveError")

-----------------------------------------------------------------------------
(* The inductive invariants *)

\* A transaction, from its beginning, has answered and stored nothing yet; it
\* holds the pool, as an insert does; before a request there is nothing of its handler.
HandlerInv(q) ==
    /\ inTx[q] \/ call[q] = "begin" => answer[q] = "none" /\ request[q] = "active"
    /\ call[q] = "begin" => ~inTx[q]
    /\ request[q] = "none" => answer[q] = "none" /\ ~row[q]
    /\ inTx[q] \/ call[q] = "insert" => Pool \in using[q]
    /\ answer[q] = "nil" => row[q]
    /\ row[q] /\ request[q] = "active" => answer[q] \in {"nil", "commitError"}
    /\ event[q] <= 1
    /\ appended[q] \in {"nil", "duplicate"} => event[q] = 1

\* The strengthening of the properties of handlers.
HandlersInv == DatabaseTypeOK /\ \A q \in Request : HandlerInv(q)

\* What is known of the configuration and of the pool at every point of main.
StartInv ==
    /\ main \in {"load", "create", "open", "ping", "wire"} => run = "start"
    /\ main \in {"load", "create", "open"} => opened = "no" /\ resource[Pool] = "none" /\ ~checked
    /\ main \in {"create", "open", "ping", "wire"} => Validate(cfg)
    /\ main \in {"open", "ping"} => cfg["URL"] # Blank
    /\ main = "ping" => OpenAccepts(cfg) /\ opened = "open" /\ resource[Pool] = "none" /\ ~checked
    /\ main = "wire" \/ (main = "run" /\ run = "start") =>
          /\ (cfg["URL"] # Blank) <=> checked
          /\ checked <=> (resource[Pool] = "open")
          /\ checked => OpenAccepts(cfg)
    /\ main \in {"wire", "run"} => (opened = "open" <=> Owned(Pool))
    /\ result # "contextError"
    /\ checked \in BOOLEAN
=============================================================================

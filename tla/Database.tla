------------------------------ MODULE Database ------------------------------
(***************************************************************************)
(* Handlers that use the application's PostgreSQL pool: WithinTransaction  *)
(* (data/postgres/postgres.go) and Append of the audit store               *)
(* (audit/postgres/store.go), over the lifecycle of AppLifecycle, which    *)
(* owns the pool as the resource Pool.                                     *)
(*                                                                         *)
(* pgx is external and modelled from how the code uses it.  The pool has   *)
(* size connections.  Taking one waits until one is free, then fails if    *)
(* the pool has closed or PostgreSQL cannot be reached.  The wait itself   *)
(* ends only with the context of the request (its client leaves, or        *)
(* server.Close drops the connection): closing the pool wakes nobody.      *)
(* Commit and Rollback give the transaction's connection back whatever     *)
(* they answer.  A statement may take effect although its answer is lost.  *)
(***************************************************************************)
EXTENDS AppLifecycle, FiniteSets

ASSUME DatabaseAssumption == ResourceCount >= 1

Pool == 1

VARIABLES
    size,      \* MaxConnections of the open pool
    call,      \* what the handler waits for
    inTx,      \* the handler is inside WithinTransaction's callback
    answer,    \* what WithinTransaction has answered
    appended,  \* the last Append of the handler's event: its answer, if that tells anything
    row,       \* the transaction's change is committed
    event      \* rows of swf_audit_events with the event's ID

handlerLocals == <<call, inTx, answer, appended>>
tables == <<row, event>>
databaseVars == <<size, handlerLocals, tables>>

DatabaseInit ==
    /\ size = 0
    /\ call = [q \in Request |-> "nothing"]
    /\ inTx = [q \in Request |-> FALSE]
    /\ answer = [q \in Request |-> "none"]
    /\ appended = [q \in Request |-> "unknown"]
    /\ row = [q \in Request |-> FALSE]
    /\ event = [q \in Request |-> 0]

-----------------------------------------------------------------------------
(* Connections *)

\* A transaction holds a connection, and an Append inside it another one.
Held == Cardinality({q \in Request : inTx[q]}) + Cardinality({q \in Request : call[q] = "insert"})

\* The handler takes a connection; the pool closes only when it has them all back.
Take(q) == Held < size /\ Acquire(q, Pool)

\* Slip: pool.Begin and pool.Exec are not given the request's context.
WaitEndsUnheard == Held < size

\* The wait for a connection cannot last: server.Close has ended the context of
\* every request, or a connection is free.
WaitEnds == forced \/ Held < size

\* The handler is running, in no call, and the application has a database.
MayCall(q) == request[q] = "active" /\ call[q] = "nothing" /\ resource[Pool] # "none"

-----------------------------------------------------------------------------
(* WithinTransaction *)

WithinTransaction(q) ==
    /\ MayCall(q) /\ ~inTx[q]
    /\ answer[q] = "none"
    /\ call' = [call EXCEPT ![q] = "begin"]
    /\ UNCHANGED <<vars, size, inTx, answer, appended, tables>>

BeginSucceeds(q) ==
    /\ call[q] = "begin"
    /\ Take(q)
    /\ call' = [call EXCEPT ![q] = "nothing"]
    /\ inTx' = [inTx EXCEPT ![q] = TRUE]
    /\ UNCHANGED <<size, answer, appended, tables>>

\* Begin fails, or there is no callback to begin for.
BeginFails(q) ==
    /\ call[q] = "begin"
    /\ call' = [call EXCEPT ![q] = "nothing"]
    /\ answer' = [answer EXCEPT ![q] = "error"]
    /\ UNCHANGED <<vars, size, inTx, appended, tables>>

\* tx.Commit and tx.Rollback end the transaction and give the connection back.
EndTx(q, what) ==
    /\ inTx[q] /\ call[q] = "nothing"
    /\ inTx' = [inTx EXCEPT ![q] = FALSE]
    /\ Release(q, Pool)
    /\ answer' = [answer EXCEPT ![q] = what]
    /\ UNCHANGED <<size, appended, event>>

\* Slip: the transaction commits whatever the callback returned.
CommitAnyway(q) == row' = [row EXCEPT ![q] = TRUE]

RollBack(q) == UNCHANGED row

\* The callback returns an error or panics; the deferred call rolls back, in a
\* context of its own, and its answer is ignored.
CallbackFails(q, panics) ==
    /\ EndTx(q, "error")
    /\ RollBack(q)
    /\ call' = [call EXCEPT ![q] = IF panics THEN "panicking" ELSE @]

\* The callback succeeds and Commit is answered.
Commits(q) ==
    /\ EndTx(q, "nil")
    /\ row' = [row EXCEPT ![q] = TRUE]
    /\ UNCHANGED call

\* Commit fails, or its answer is lost: nobody knows.
CommitFails(q) ==
    /\ EndTx(q, "commitError")
    /\ \E stored \in BOOLEAN : row' = [row EXCEPT ![q] = stored]
    /\ UNCHANGED call

-----------------------------------------------------------------------------
(* Append, from inside the callback or from outside any transaction *)

\* Append asks the pool for a connection of its own.
Append(q) ==
    /\ MayCall(q)
    /\ call' = [call EXCEPT ![q] = "append"]
    /\ UNCHANGED <<vars, size, inTx, answer, appended, tables>>

InsertBegins(q) ==
    /\ call[q] = "append"
    /\ Take(q)
    /\ call' = [call EXCEPT ![q] = "insert"]
    /\ UNCHANGED <<size, inTx, answer, appended, tables>>

AppendReturns(q, what) ==
    /\ call' = [call EXCEPT ![q] = "nothing"]
    /\ appended' = [appended EXCEPT ![q] = what]
    /\ IF call[q] = "insert" /\ ~inTx[q] THEN Release(q, Pool) ELSE UNCHANGED vars
    /\ UNCHANGED <<size, inTx, answer, row>>

\* The event is not valid, or no connection is to be had.
AppendFails(q) ==
    /\ call[q] = "append"
    /\ AppendReturns(q, "unknown")
    /\ UNCHANGED event

\* Slip: the table has no primary key.
AnyID(q) == TRUE

\* The primary key of swf_audit_events.
NewID(q) == event[q] = 0

Inserts(q) ==
    /\ call[q] = "insert"
    /\ NewID(q)
    /\ event' = [event EXCEPT ![q] = @ + 1]
    /\ \E what \in {"nil", "unknown"} : AppendReturns(q, what)

InsertFails(q) ==
    /\ call[q] = "insert"
    /\ UNCHANGED event
    /\ AppendReturns(q, IF NewID(q) THEN "unknown" ELSE "duplicate")

-----------------------------------------------------------------------------

\* The handler returns, or recoverer ends its panic; its variables are gone.
HandlerReturns(q) ==
    /\ call[q] \in {"nothing", "panicking"} /\ ~inTx[q]
    /\ Finish(q)
    /\ call' = [call EXCEPT ![q] = "nothing"]
    /\ answer' = [answer EXCEPT ![q] = "none"]
    /\ appended' = [appended EXCEPT ![q] = "unknown"]
    /\ UNCHANGED <<size, inTx, tables>>

\* What a call of the handler does.
CallStep(q) ==
    \/ BeginSucceeds(q) \/ BeginFails(q)
    \/ InsertBegins(q) \/ AppendFails(q)
    \/ Inserts(q) \/ InsertFails(q)

\* The part of it that happens without anybody's leave: a call gets what it
\* waits for, or cannot wait any longer.
CallGoesOn(q) ==
    \/ BeginSucceeds(q) \/ InsertBegins(q)
    \/ WaitEnds /\ (BeginFails(q) \/ AppendFails(q))
    \/ Inserts(q) \/ InsertFails(q)

CallbackReturns(q) ==
    \/ \E panics \in BOOLEAN : CallbackFails(q, panics)
    \/ Commits(q)
    \/ CommitFails(q)

HandlerStep(q) ==
    \/ WithinTransaction(q)
    \/ Append(q)
    \/ CallbackReturns(q)
    \/ CallStep(q)
    \/ HandlerReturns(q)

-----------------------------------------------------------------------------
(* Properties *)

\* Every variable has its type.
DatabaseTypeOK ==
    /\ call \in [Request -> {"nothing", "begin", "append", "insert", "panicking"}]
    /\ inTx \in [Request -> BOOLEAN]
    /\ answer \in [Request -> {"none", "nil", "error", "commitError"}]
    /\ appended \in [Request -> {"unknown", "nil", "duplicate"}]
    /\ row \in [Request -> BOOLEAN]
    /\ event \in [Request -> Nat]

\* WithinTransaction tells the truth: after nil the change is stored, after an
\* error or a panic of the callback it is not; only a commit error leaves the
\* caller in doubt.
AnswerTellsOutcome ==
    \A q \in Request :
        /\ answer[q] = "nil" => row[q]
        /\ row[q] /\ request[q] = "active" => answer[q] \in {"nil", "commitError"}

\* An event is stored at most once however often its Append is repeated after
\* an error, and both a nil and a duplicate error mean that it is stored.
AppendedOnce ==
    \A q \in Request :
        /\ event[q] <= 1
        /\ appended[q] \in {"nil", "duplicate"} => event[q] = 1
=============================================================================

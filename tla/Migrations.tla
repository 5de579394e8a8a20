----------------------------- MODULE Migrations -----------------------------
(***************************************************************************)
(* Forward-only schema migrations (data/migrate/migrate.go): instances of  *)
(* an application, of different releases, call Apply at the same time,     *)
(* fail or crash at any point, and call it again, perhaps after an upgrade *)
(* or a return to an older release.                                        *)
(*                                                                         *)
(* PostgreSQL is external: a transaction's changes appear to others when   *)
(* it commits or never; the advisory lock belongs to the transaction; the  *)
(* commit of a lost connection may have happened; a transaction whose      *)
(* client is gone lasts until the server notices; the primary key of the   *)
(* migration table makes a second insert wait for the first and then fail. *)
(***************************************************************************)
EXTENDS Naturals, Sequences, FiniteSets

CONSTANTS
    Runner,      \* application instances
    Release,     \* releases: sets of migration files [version, sum]
    MaxVersion,  \* greatest version that ParseInt accepts
    MaxCalls,    \* bound: calls of Apply per instance
    NoRunner     \* the advisory lock is free

VARIABLES
    applied,  \* rows of swf_schema_migrations
    history,  \* migrations whose SQL has taken effect, in that order
    lock,     \* the transaction that holds the advisory lock
    at,       \* where each instance is
    files,    \* migration files of the release each instance runs
    view,     \* the rows Apply has read
    todo,     \* migrations Apply has not come to
    work,     \* migrations executed and recorded in the open transaction
    result,   \* what Apply returned
    calls     \* calls of Apply so far

databaseVars == <<applied, history>>
applyVars == <<files, view, todo, work>>
vars == <<databaseVars, lock, at, applyVars, result, calls>>

-----------------------------------------------------------------------------
(* Load *)

\* Load refuses a file whose number is zero or too great to be parsed, and
\* files of which two have one version.
Loadable(ms) ==
    /\ \A m \in ms : m.version > 0 /\ m.version <= MaxVersion
    /\ \A m, n \in ms : m.version = n.version => m = n

\* Slip: sorted the wrong way round.
IsFirstDescending(m, ms) == \A n \in ms : n.version <= m.version

\* Load's order: m comes before the others of ms.
IsFirst(m, ms) == \A n \in ms : m.version <= n.version

ASSUME MigrationsAssumption ==
    /\ \A ms \in Release : \A m \in ms : m.version \in Nat
    /\ MaxVersion \in Nat
    /\ MaxCalls \in Nat
    /\ NoRunner \notin Runner

-----------------------------------------------------------------------------
(* Apply *)

Recorded(rows, v) == \E m \in rows : m.version = v

Executed(ms) == {ms[i] : i \in DOMAIN ms}

Init ==
    /\ applied = {}
    /\ history = <<>>
    /\ lock = NoRunner
    /\ at = [r \in Runner |-> "start"]
    /\ files = [r \in Runner |-> {}]
    /\ view = [r \in Runner |-> {}]
    /\ todo = [r \in Runner |-> {}]
    /\ work = [r \in Runner |-> <<>>]
    /\ result = [r \in Runner |-> "none"]
    /\ calls = [r \in Runner |-> 0]

\* Load and, when the files are in order, the start of the transaction.
Begin(r, ms) ==
    /\ at[r] = "start"
    /\ calls[r] < MaxCalls
    /\ calls' = [calls EXCEPT ![r] = @ + 1]
    /\ files' = [files EXCEPT ![r] = ms]
    /\ at' = [at EXCEPT ![r] = IF Loadable(ms) THEN "locking" ELSE "start"]
    /\ result' = [result EXCEPT ![r] = IF Loadable(ms) THEN "none" ELSE "unloadable"]
    /\ UNCHANGED <<databaseVars, lock, view, todo, work>>

LockFree(r) == lock = NoRunner

Lock(r) ==
    /\ at[r] = "locking"
    /\ LockFree(r)
    /\ lock' = r
    /\ at' = [at EXCEPT ![r] = "read"]
    /\ UNCHANGED <<databaseVars, applyVars, result, calls>>

\* The table is created if need be and read; read committed shows what others
\* committed before this statement.
Read(r) ==
    /\ at[r] = "read"
    /\ view' = [view EXCEPT ![r] = applied]
    /\ todo' = [todo EXCEPT ![r] = files[r]]
    /\ at' = [at EXCEPT ![r] = "apply"]
    /\ UNCHANGED <<databaseVars, lock, files, work, result, calls>>

\* Apply returns an error; its transaction is still open on the server.
Abort(r, reason) ==
    /\ at' = [at EXCEPT ![r] = "aborted"]
    /\ result' = [result EXCEPT ![r] = reason]

\* Slip: an applied version is skipped without a look at its checksum.
UnchangedAny(r, m) == Recorded(view[r], m.version)

Unchanged(r, m) == m \in view[r]

\* A migration that was applied before: skipped, or its checksum changed.
Known(r, m) ==
    /\ at[r] = "apply"
    /\ m \in todo[r]
    /\ IsFirst(m, todo[r])
    /\ Recorded(view[r], m.version)
    /\ IF Unchanged(r, m)
       THEN todo' = [todo EXCEPT ![r] = @ \ {m}] /\ UNCHANGED <<at, result>>
       ELSE Abort(r, "changed") /\ UNCHANGED todo
    /\ UNCHANGED <<databaseVars, lock, files, view, work, calls>>

\* A pending migration: its SQL and its record, in the open transaction.
Execute(r, m) ==
    /\ at[r] = "apply"
    /\ m \in todo[r]
    /\ IsFirst(m, todo[r])
    /\ ~Recorded(view[r], m.version)
    /\ \A s \in Runner \ {r} : ~Recorded(Executed(work[s]), m.version)
    /\ IF Recorded(applied, m.version)
       THEN Abort(r, "conflict") /\ UNCHANGED <<todo, work>>
       ELSE /\ todo' = [todo EXCEPT ![r] = @ \ {m}]
            /\ work' = [work EXCEPT ![r] = Append(@, m)]
            /\ UNCHANGED <<at, result>>
    /\ UNCHANGED <<databaseVars, lock, files, view, calls>>

Record(r) == applied' = applied \cup Executed(work[r])

FreeLock(r) == lock' = IF lock = r THEN NoRunner ELSE lock

\* Commit; the answer may be lost, and Apply then returns an error.
Commit(r, heard) ==
    /\ at[r] = "apply"
    /\ todo[r] = {}
    /\ Record(r)
    /\ history' = history \o work[r]
    /\ FreeLock(r)
    /\ work' = [work EXCEPT ![r] = <<>>]
    /\ result' = [result EXCEPT ![r] = IF heard THEN "ok" ELSE "fault"]
    /\ at' = [at EXCEPT ![r] = "start"]
    /\ UNCHANGED <<files, view, todo, calls>>

\* A statement fails, the context ends, or the instance crashes.
Fault(r) ==
    /\ at[r] \in {"locking", "read", "apply"}
    /\ Abort(r, "fault")
    /\ UNCHANGED <<databaseVars, lock, applyVars, calls>>

\* Slip: the lock outlives the transaction, as a session lock would.
KeepLock(r) == UNCHANGED lock

DropLock(r) == FreeLock(r)

\* The deferred rollback, or the server noticing that the client is gone.
Rollback(r) ==
    /\ at[r] = "aborted"
    /\ work' = [work EXCEPT ![r] = <<>>]
    /\ DropLock(r)
    /\ at' = [at EXCEPT ![r] = "start"]
    /\ UNCHANGED <<databaseVars, files, view, todo, result, calls>>

Apply(r) ==
    \/ Lock(r)
    \/ Read(r)
    \/ \E m \in todo[r] : Known(r, m) \/ Execute(r, m)
    \/ \E heard \in BOOLEAN : Commit(r, heard)
    \/ Rollback(r)

Next ==
    \E r \in Runner : (\E ms \in Release : Begin(r, ms)) \/ Apply(r) \/ Fault(r)

Spec == Init /\ [][Next]_vars

\* A transaction goes on until it ends, and PostgreSQL queues for the lock.
FairSpec ==
    /\ Spec
    /\ \A r \in Runner : WF_vars(Apply(r)) /\ SF_vars(Lock(r))

-----------------------------------------------------------------------------
(* Properties *)

Migration == UNION Release

\* Every variable has its type, and the lock belongs to an open transaction.
TypeOK ==
    /\ applied \in SUBSET Migration
    /\ history \in Seq(Migration)
    /\ \/ lock = NoRunner
       \/ lock \in Runner /\ at[lock] \in {"read", "apply", "aborted"}
    /\ at \in [Runner -> {"start", "locking", "read", "apply", "aborted"}]
    /\ files \in [Runner -> SUBSET Migration]
    /\ view \in [Runner -> SUBSET Migration]
    /\ todo \in [Runner -> SUBSET Migration]
    /\ work \in [Runner -> Seq(Migration)]
    /\ result \in [Runner -> {"none", "ok", "unloadable", "changed", "conflict", "fault"}]
    /\ calls \in [Runner -> 0..MaxCalls]

\* The SQL of no version takes effect twice.
Once(ms) == \A i, j \in DOMAIN ms : i < j => ms[i].version # ms[j].version

InOrder(ms) == \A i, j \in DOMAIN ms : i < j => ms[i].version < ms[j].version

\* Whatever fails, crashes and is retried, exactly the versions that took effect
\* are recorded, and when releases only append versions, the SQL of each takes
\* effect once and in the order of versions.
OnceAndRecorded ==
    /\ applied = Executed(history)
    /\ InOrder(history)

\* Apply returns nil only when every one of its migrations is in effect, in
\* the form the caller has it, also when another instance applied it; and
\* instances that race never fail because of each other.
SuccessMeansApplied ==
    \A r \in Runner : result[r] # "conflict" /\ (result[r] = "ok" => files[r] \subseteq applied)

\* Forward only, and all or nothing: what took effect stays in place, and the
\* database changes only to a state in which the whole release of an instance
\* is in effect, whatever fails halfway.
WholeReleases ==
    [][/\ \A i \in DOMAIN history : i \in DOMAIN history' /\ history'[i] = history[i]
       /\ applied \subseteq applied'
       /\ applied' # applied =>
             \E r \in Runner : files[r] \in Release /\ files[r] \subseteq applied']_vars

\* While an instance has executed what it has not committed, no other one reads
\* the table or executes anything, not even after that instance has crashed.
OneMigrator ==
    \A r, s \in Runner :
        work[r] # <<>> /\ (at[s] \in {"read", "apply"} \/ work[s] # <<>>) => r = s

\* Every call of Apply returns; the lock passes on from a crashed instance.
ApplyReturns == \A r \in Runner : at[r] # "start" ~> at[r] = "start"

-----------------------------------------------------------------------------
(* The inductive invariant *)

\* Only the holder of the lock has read the table or executed anything.
LockInv ==
    \A r \in Runner :
        /\ at[r] \in {"read", "apply"} => lock = r
        /\ at[r] \in {"apply", "aborted"} \/ work[r] = <<>>
        /\ work[r] # <<>> => lock = r
        /\ at[r] \in {"locking", "read", "apply"} => files[r] \in Release /\ Loadable(files[r])

\* While an instance applies its migrations, what it read is what is recorded;
\* what it is done with is recorded or executed, in order, below what is left.
WorkInv ==
    \A r \in Runner :
        at[r] = "apply" =>
            /\ view[r] = applied
            /\ todo[r] \subseteq files[r]
            /\ Executed(work[r]) \subseteq files[r]
            /\ files[r] \ todo[r] \subseteq applied \cup Executed(work[r])
            /\ \A m \in Executed(work[r]) :
                  /\ ~Recorded(applied, m.version)
                  /\ \A n \in todo[r] : m.version < n.version
            /\ InOrder(work[r])

IInv ==
    /\ TypeOK
    /\ LockInv
    /\ WorkInv
    /\ SuccessMeansApplied
    /\ applied = Executed(history)
    /\ Once(history)

\* Releases only append: a loadable release has every version below one of its
\* own that any loadable release has.
AppendOnly ==
    \A ms, ns \in {rs \in Release : Loadable(rs)} :
        \A m \in ms, n \in ns : n.version < m.version => Recorded(ms, n.version)

\* Below a version in rows, every version of a release is in rows.
NoGaps(rows) ==
    \A m \in rows, ns \in {rs \in Release : Loadable(rs)} :
        \A n \in ns : n.version < m.version => Recorded(rows, n.version)

OrderInv ==
    /\ InOrder(history)
    /\ NoGaps(applied)
    /\ \A r \in Runner : at[r] = "apply" => NoGaps(applied \cup Executed(work[r]))
=============================================================================

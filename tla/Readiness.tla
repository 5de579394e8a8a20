----------------------------- MODULE Readiness -----------------------------
(***************************************************************************)
(* The readiness endpoint (web/health/health.go): each call of Ready       *)
(* copies the registered checks, runs each in a goroutine of its own that  *)
(* sends one result into a buffered channel, and collects the results      *)
(* until all are in or the deadline is over.  Checks may fail, panic, or   *)
(* never return, and go on after Ready has answered.                       *)
(***************************************************************************)
EXTENDS Naturals, FiniteSets

CONSTANTS
    Name,  \* names of readiness checks
    Call   \* requests to the endpoint

VARIABLES
    registered,  \* names in h.checks
    at,          \* where each call of Ready is
    checks,      \* the call's copy of h.checks
    probe,       \* the goroutine of each check of each call
    verdict,     \* what the check came to
    results,     \* the results channel: checks whose results are in it
    pending,     \* names without a result
    failed,      \* names to report
    done,        \* checkCtx is done
    status       \* the answer

probeVars == <<probe, verdict>>
collectVars == <<pending, failed>>
vars == <<registered, at, checks, probeVars, results, collectVars, done, status>>

Init ==
    /\ registered = {}
    /\ at = [c \in Call |-> "new"]
    /\ checks = [c \in Call |-> {}]
    /\ probe = [c \in Call |-> [n \in Name |-> "off"]]
    /\ verdict = [c \in Call |-> [n \in Name |-> "none"]]
    /\ results = [c \in Call |-> {}]
    /\ pending = [c \in Call |-> {}]
    /\ failed = [c \in Call |-> {}]
    /\ done = [c \in Call |-> FALSE]
    /\ status = [c \in Call |-> "none"]

\* Register, under the write lock; replacing a check keeps its name.
Register(n) ==
    /\ registered' = registered \cup {n}
    /\ UNCHANGED <<at, checks, probeVars, results, collectVars, done, status>>

\* Ready copies the checks under the read lock and starts their goroutines.
Start(c) ==
    /\ at[c] = "new"
    /\ at' = [at EXCEPT ![c] = "collect"]
    /\ checks' = [checks EXCEPT ![c] = registered]
    /\ pending' = [pending EXCEPT ![c] = registered]
    /\ probe' = [probe EXCEPT ![c] = [n \in Name |-> IF n \in registered THEN "running" ELSE "off"]]
    /\ UNCHANGED <<registered, verdict, results, failed, done, status>>

\* The check returns nil or an error, or panics.
CheckEnds(c, n, v) ==
    /\ probe[c][n] = "running"
    /\ probe' = [probe EXCEPT ![c][n] = "sending"]
    /\ verdict' = [verdict EXCEPT ![c][n] = v]
    /\ UNCHANGED <<registered, at, checks, results, collectVars, done, status>>

\* Slip: a channel without a buffer.
ChannelUnbuffered(c) == at[c] = "collect" /\ pending[c] # {}

ChannelHasRoom(c) == Cardinality(results[c]) < Cardinality(checks[c])

\* The deferred send at the end of the goroutine.
Send(c, n) ==
    /\ probe[c][n] = "sending"
    /\ ChannelHasRoom(c)
    /\ results' = [results EXCEPT ![c] = @ \cup {n}]
    /\ probe' = [probe EXCEPT ![c][n] = "ended"]
    /\ UNCHANGED <<registered, at, checks, verdict, collectVars, done, status>>

\* Slip: a recovered panic leaves err nil.
ErredUnlessPanic(c, n) == verdict[c][n] = "error"

Erred(c, n) == verdict[c][n] \in {"error", "panic"}

\* The select receives a result.
Receive(c, n) ==
    /\ at[c] = "collect"
    /\ pending[c] # {}
    /\ n \in results[c]
    /\ results' = [results EXCEPT ![c] = @ \ {n}]
    /\ pending' = [pending EXCEPT ![c] = @ \ {n}]
    /\ failed' = IF Erred(c, n) THEN [failed EXCEPT ![c] = @ \cup {n}] ELSE failed
    /\ UNCHANGED <<registered, at, checks, probeVars, done, status>>

\* The overall deadline, or the client going away.
Expire(c) ==
    /\ at[c] = "collect"
    /\ ~done[c]
    /\ done' = [done EXCEPT ![c] = TRUE]
    /\ UNCHANGED <<registered, at, checks, probeVars, results, collectVars, status>>

\* Slip: the select waits for results only.
NoticesNever(c) == FALSE

NoticesDone(c) == done[c]

Unanswered(c) == pending[c]

\* The select receives the end of the context, whatever is in the channel.
GiveUp(c) ==
    /\ at[c] = "collect"
    /\ pending[c] # {}
    /\ NoticesDone(c)
    /\ failed' = [failed EXCEPT ![c] = @ \cup Unanswered(c)]
    /\ pending' = [pending EXCEPT ![c] = {}]
    /\ UNCHANGED <<registered, at, checks, probeVars, results, done, status>>

\* Ready answers; the deferred cancel ends the context of checks still running.
Respond(c) ==
    /\ at[c] = "collect"
    /\ pending[c] = {}
    /\ at' = [at EXCEPT ![c] = "answered"]
    /\ status' = [status EXCEPT ![c] = IF failed[c] # {} THEN "down" ELSE "up"]
    /\ done' = [done EXCEPT ![c] = TRUE]
    /\ UNCHANGED <<registered, checks, probeVars, results, collectVars>>

Ready(c) == (\E n \in Name : Receive(c, n)) \/ GiveUp(c) \/ Respond(c)

Next ==
    \/ \E n \in Name : Register(n)
    \/ \E c \in Call :
          \/ Start(c)
          \/ Expire(c)
          \/ Ready(c)
          \/ \E n \in Name :
                \/ \E v \in {"ok", "error", "panic"} : CheckEnds(c, n, v)
                \/ Send(c, n)

Spec == Init /\ [][Next]_vars

\* Ready and finished checks go on and the deadline comes; checks may hang.
FairSpec ==
    /\ Spec
    /\ \A c \in Call : WF_vars(Ready(c)) /\ WF_vars(Expire(c))
    /\ \A c \in Call, n \in Name : WF_vars(Send(c, n))

-----------------------------------------------------------------------------
(* Properties *)

\* Every variable has its type; a call waits for and reports its own checks.
TypeOK ==
    /\ registered \in SUBSET Name
    /\ at \in [Call -> {"new", "collect", "answered"}]
    /\ checks \in [Call -> SUBSET Name]
    /\ probe \in [Call -> [Name -> {"off", "running", "sending", "ended"}]]
    /\ verdict \in [Call -> [Name -> {"none", "ok", "error", "panic"}]]
    /\ results \in [Call -> SUBSET Name]
    /\ pending \in [Call -> SUBSET Name]
    /\ failed \in [Call -> SUBSET Name]
    /\ done \in [Call -> BOOLEAN]
    /\ status \in [Call -> {"none", "up", "down"}]
    /\ \A c \in Call : pending[c] \cup failed[c] \cup results[c] \subseteq checks[c]

\* "All registered readiness checks pass": an answer of up means that every
\* check registered when the call began has returned, without error or panic.
UpMeansAllPassed ==
    \A c \in Call : status[c] = "up" => \A n \in checks[c] : verdict[c][n] = "ok"

\* Ready answers even if checks never return.
ReadyAnswers == \A c \in Call : at[c] = "collect" ~> at[c] = "answered"

\* The goroutine of a check that has returned ends, also long after the answer.
ProbesEnd == \A c \in Call, n \in Name : probe[c][n] = "sending" ~> probe[c][n] = "ended"

\* A goroutine never waits for room in the channel.
SendNeverBlocks ==
    \A c \in Call : (\E n \in Name : probe[c][n] = "sending") => ChannelHasRoom(c)

-----------------------------------------------------------------------------
(* The inductive invariant *)

\* A check has a goroutine from the start of its call and a verdict when it has
\* returned; its one result is in the channel only after that, and a name that
\* is no longer pending is reported or has passed.
CallInv(c) ==
    /\ IsFiniteSet(checks[c])
    /\ at[c] = "new" => checks[c] = {}
    /\ \A n \in Name :
          /\ n \in checks[c] <=> probe[c][n] # "off"
          /\ verdict[c][n] = "none" <=> probe[c][n] \in {"off", "running"}
          /\ n \in results[c] => probe[c][n] = "ended"
          /\ n \in checks[c] \ pending[c] => n \in failed[c] \/ verdict[c][n] = "ok"
    /\ status[c] = "up" => at[c] = "answered" /\ pending[c] = {} /\ failed[c] = {}

IInv ==
    /\ TypeOK
    /\ IsFiniteSet(registered)
    /\ \A c \in Call : CallInv(c)
=============================================================================

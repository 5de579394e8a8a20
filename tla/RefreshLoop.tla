----------------------------- MODULE RefreshLoop -----------------------------
(***************************************************************************)
(* ConfigurationCache.Run (auth/oidc/cache.go): refresh at once, then at   *)
(* every tick until the context is cancelled.  ConfigurationCache models   *)
(* what one Refresh does; here it lasts at most FetchTimeout and succeeds  *)
(* or fails.  All times are relative, so no bound on the clock is needed.  *)
(*                                                                         *)
(* The environment fails at most MaxFailures refreshes in a row while the  *)
(* loop is wanted: the question is whether the loop's pace leaves room for *)
(* the retry its comment speaks of.                                        *)
(***************************************************************************)
EXTENDS Integers, CacheTimes

CONSTANTS
    Interval,      \* Run(interval)
    MaxFailures    \* consecutive failures the issuer may cause

\* Run refuses an interval below one unit or above half the maximum age.
ASSUME LoopAssumption ==
    /\ Interval \in Nat \ {0}
    /\ MaxAge \in Nat /\ Interval <= MaxAge \div 2
    /\ FetchTimeout \in Nat \ {0}
    /\ MaxFailures \in Nat

VARIABLES
    loop,       \* where the loop is
    left,       \* time until the running refresh times out
    untilTick,  \* time until the ticker fires
    buffered,   \* the ticker's channel, which holds one tick
    cancelled,  \* ctx is done
    filled,     \* some refresh has succeeded
    age,        \* now - fetchedAt, counted up to MaxAge
    failures    \* refreshes that failed since the last success

placeVars == <<loop, left>>
tickerVars == <<untilTick, buffered>>
resultVars == <<filled, age, failures>>
loopVars == <<placeVars, tickerVars, cancelled, resultVars>>

LoopInit ==
    /\ loop = "top"
    /\ left = 0
    /\ untilTick = Interval
    /\ buffered = FALSE
    /\ cancelled = FALSE
    /\ filled = FALSE
    /\ age = 0
    /\ failures = 0

Wanted == ~cancelled

\* The top of the loop: another refresh, unless the context is done.
StartRefresh ==
    /\ loop = "top"
    /\ Wanted
    /\ loop' = "refreshing"
    /\ left' = FetchTimeout
    /\ UNCHANGED <<tickerVars, cancelled, resultVars>>

RefreshSucceeds ==
    /\ loop = "refreshing"
    /\ loop' = "waiting"
    /\ filled' = TRUE
    /\ age' = 0
    /\ failures' = 0
    /\ UNCHANGED <<left, tickerVars, cancelled>>

\* The failure is reported to observe and otherwise forgotten.
RefreshFails ==
    /\ loop = "refreshing"
    /\ failures < MaxFailures \/ cancelled
    /\ loop' = "waiting"
    /\ failures' = IF failures < MaxFailures THEN failures + 1 ELSE failures
    /\ UNCHANGED <<left, tickerVars, cancelled, filled, age>>

\* The select takes a tick, even if the context is done as well.
TakeTick ==
    /\ loop = "waiting"
    /\ buffered
    /\ buffered' = FALSE
    /\ loop' = "top"
    /\ UNCHANGED <<left, untilTick, cancelled, resultVars>>

\* Slip: the top of the loop goes round again instead of returning.
MayReturnAtSelect == loop = "waiting"

MayReturn == loop \in {"top", "waiting"}

\* Run returns ctx.Err(), from the top of the loop or from the select.
Return ==
    /\ MayReturn
    /\ cancelled
    /\ loop' = "returned"
    /\ UNCHANGED <<left, tickerVars, cancelled, resultVars>>

\* The ticker fires (external); a tick nobody has received is dropped.
Fire ==
    /\ untilTick = 0
    /\ loop # "returned"
    /\ untilTick' = Interval
    /\ buffered' = TRUE
    /\ UNCHANGED <<placeVars, cancelled, resultVars>>

Cancel ==
    /\ ~cancelled
    /\ cancelled' = TRUE
    /\ UNCHANGED <<placeVars, tickerVars, resultVars>>

\* Slip: the fetches have no deadline.
FetchMayLastForever == left \in Int

\* Discover's context has not expired.
FetchMayLast == left > 0

\* One unit of time.  The loop's own steps take none, and the context of
\* Discover ends a refresh at its deadline.
Pass ==
    /\ untilTick > 0
    /\ \/ loop = "refreshing" /\ FetchMayLast
       \/ loop = "waiting" /\ ~buffered
    /\ untilTick' = untilTick - 1
    /\ left' = IF loop = "refreshing" THEN left - 1 ELSE left
    /\ age' = IF filled /\ age < MaxAge THEN age + 1 ELSE age
    /\ UNCHANGED <<loop, buffered, cancelled, filled, failures>>

Step == StartRefresh \/ RefreshSucceeds \/ RefreshFails \/ TakeTick \/ Return

Done == loop = "returned" /\ UNCHANGED loopVars

LoopNext == Step \/ Fire \/ Cancel \/ Pass \/ Done

\* The loop's goroutine runs, the ticker fires and time passes.
LoopFairness == WF_loopVars(Step) /\ WF_loopVars(Fire) /\ WF_loopVars(Pass)

LoopSpec == LoopInit /\ [][LoopNext]_loopVars /\ LoopFairness

-----------------------------------------------------------------------------
(* Properties *)

\* Every variable has its type; no timer runs below zero.
LoopTypeOK ==
    /\ loop \in {"top", "refreshing", "waiting", "returned"}
    /\ left \in 0..FetchTimeout
    /\ untilTick \in 0..Interval
    /\ buffered \in BOOLEAN
    /\ cancelled \in BOOLEAN
    /\ filled \in BOOLEAN
    /\ age \in 0..MaxAge
    /\ failures \in 0..MaxFailures

\* One failed refresh never makes the cache stale: "The interval must leave
\* time for a retry before the maximum cache age."  Stale is age >= MaxAge.
RetryInTime == filled /\ ~cancelled => age < MaxAge

\* A refresh, failed or not, is followed by another one for as long as Run is
\* wanted, and Run returns after its context is done.
RunsUntilCancelled ==
    /\ loop = "waiting" ~> loop = "refreshing" \/ cancelled
    /\ cancelled ~> loop = "returned"

-----------------------------------------------------------------------------
(* The inductive invariant *)

\* The longest from the start of a refresh to the start of the next one: it
\* waits for a tick, or has outlasted it.
Pace == IF FetchTimeout <= Interval THEN Interval ELSE FetchTimeout

\* How old a result can become: it waits for a tick, MaxFailures refreshes
\* fail, and one more succeeds at its deadline.
Oldest == Interval + MaxFailures * Pace + FetchTimeout

\* The interval leaves time for as many retries as there may be failures.
LeavesTime == Oldest < MaxAge

\* What further failures may still add to the age.
Retries == (MaxFailures - failures) * Pace

\* What may still be added to the age of the result stays within its bound.
RetryInv ==
    filled /\ ~cancelled =>
        /\ loop = "waiting" =>
               age + (IF buffered THEN 0 ELSE untilTick) + Retries + FetchTimeout <= Oldest
        /\ loop = "top" => age + Retries + FetchTimeout <= Oldest
        /\ loop = "refreshing" =>
               /\ age + left + Retries <= Oldest
               /\ ~buffered /\ failures < MaxFailures =>
                      age + untilTick + Retries - Pace + FetchTimeout <= Oldest

\* Run returns only when it is cancelled.
LoopIInv == LoopTypeOK /\ RetryInv /\ (loop = "returned" => cancelled)
=============================================================================

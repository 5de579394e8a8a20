---------------------------- MODULE LdapLookup ----------------------------
(***************************************************************************)
(* Reader.GetUser (directory/ldap/reader.go): concurrent user lookups,     *)
(* each on a connection of its own, with the deadline of its context, the  *)
(* callback that closes the connection when the context ends, the bound on *)
(* response frames (framing.go), and the observation of its outcome in the *)
(* metrics registry (web/metrics/metrics.go).                              *)
(*                                                                         *)
(* The directory server and the go-ldap client are external.  The server   *)
(* sends at most SizeLimit entries, any referrals, and a final result that *)
(* is an error when it had to leave entries out; or it refuses, breaks off *)
(* or falls silent.  Search returns without an error only after the final  *)
(* result of success.                                                      *)
(***************************************************************************)
EXTENDS Integers, FiniteSets

CONSTANTS
    Call,          \* calls of GetUser
    SizeLimit,     \* the search's size limit
    MaxFrames,     \* responses framedConn reads from one connection
    MaxMatches,    \* bound on the enabled users that match a name
    MaxReferrals   \* bound on the referrals sent with one answer

ASSUME LookupAssumption ==
    /\ SizeLimit \in Nat
    /\ MaxFrames \in Nat
    /\ MaxMatches \in Nat
    /\ MaxReferrals \in Nat

VARIABLES
    at,         \* where each call is
    ctxErr,     \* ctx.Err() of its context; it never changes once set
    conn,       \* its connection
    frames,     \* framedConn.frames
    matches,    \* how many users the directory has for its name
    entries,    \* result.Entries, counted
    referrals,  \* result.Referrals, counted
    stage,      \* stage
    outcome,    \* outcome
    returned,   \* what it returns
    registryMu, \* the call that holds registry.mu, if any
    read,       \* the count each call has read there
    directory   \* registry.directory, the counts

callVars == <<ctxErr, conn, frames>>
searchVars == <<matches, entries, referrals>>
answerVars == <<stage, outcome, returned>>
registryVars == <<registryMu, read, directory>>
vars == <<at, callVars, searchVars, answerVars, registryVars>>

LookupStage == {"validation", "connect", "bind", "search", "result"}
LookupOutcome ==
    {"success", "not_found", "ambiguous", "canceled", "timeout", "unavailable", "invalid_input"}

-----------------------------------------------------------------------------

\* Between the dial and the deferred calls.
Connected(c) == at[c] \in {"bind", "search", "failed", "searched", "ended", "classified"}

\* framedConn hands on another complete response.
FrameArrives(c) ==
    /\ conn[c] = "open"
    /\ frames[c] < MaxFrames
    /\ frames' = [frames EXCEPT ![c] = @ + 1]

\* Slip: the first entry is taken for the answer.
AnsweredByFirst(c) == entries[c] > 0

\* The final result reports success: everything that matches has been sent.
Answered(c) == matches[c] <= SizeLimit /\ entries[c] = matches[c]

\* Slip: every context that ends is taken for one that timed out.
OutcomeAlwaysTimeout(c) == "timeout"

\* errors.Is(ctx.Err(), context.DeadlineExceeded)
ContextOutcome(c) == IF ctxErr[c] = "deadline" THEN "timeout" ELSE "canceled"

\* Slip: the connection is not closed on return.
ConnectionKept(c) == UNCHANGED conn

\* defer raw.Close() and conn.Close()
CloseConnection(c) == conn' = [conn EXCEPT ![c] = IF @ = "none" THEN "none" ELSE "closed"]

RegistryFree == registryMu = {}

-----------------------------------------------------------------------------

Init ==
    /\ at = [c \in Call |-> "idle"]
    /\ ctxErr = [c \in Call |-> "none"]
    /\ conn = [c \in Call |-> "none"]
    /\ frames = [c \in Call |-> 0]
    /\ matches = [c \in Call |-> 0]
    /\ entries = [c \in Call |-> 0]
    /\ referrals = [c \in Call |-> 0]
    /\ stage = [c \in Call |-> "validation"]
    /\ outcome = [c \in Call |-> "unavailable"]
    /\ returned = [c \in Call |-> "none"]
    /\ registryMu = {}
    /\ read = [c \in Call |-> 0]
    /\ directory = [k \in LookupOutcome \X LookupStage |-> 0]

Goto(c, place) == at' = [at EXCEPT ![c] = place]

\* The call leaves its body with this result.
Return(c, what) == returned' = [returned EXCEPT ![c] = what] /\ Goto(c, "leaving")

\* GetUser refuses a missing context or an unusable name.
RefuseInput(c) ==
    /\ at[c] = "idle"
    /\ outcome' = [outcome EXCEPT ![c] = "invalid_input"]
    /\ Return(c, "invalid_input")
    /\ UNCHANGED <<callVars, searchVars, stage, registryVars>>

\* The context gets its deadline and the connection is dialled.
Dial(c) ==
    /\ at[c] = "idle"
    /\ stage' = [stage EXCEPT ![c] = "connect"]
    /\ Goto(c, "dial")
    /\ UNCHANGED <<callVars, searchVars, outcome, returned, registryVars>>

\* Dialled and verified; Bind is sent.
DialOK(c) ==
    /\ at[c] = "dial"
    /\ conn' = [conn EXCEPT ![c] = "open"]
    /\ stage' = [stage EXCEPT ![c] = "bind"]
    /\ Goto(c, "bind")
    /\ UNCHANGED <<ctxErr, frames, searchVars, outcome, returned, registryVars>>

\* The service account is bound; the search is sent.
BindOK(c) ==
    /\ at[c] = "bind"
    /\ FrameArrives(c)
    /\ stage' = [stage EXCEPT ![c] = "search"]
    /\ \E n \in 0..MaxMatches : matches' = [matches EXCEPT ![c] = n]
    /\ Goto(c, "search")
    /\ UNCHANGED <<ctxErr, conn, entries, referrals, outcome, returned, registryVars>>

\* A search result entry or a search result reference arrives.
EntryArrives(c) ==
    /\ at[c] = "search"
    /\ FrameArrives(c)
    /\ entries[c] < SizeLimit /\ entries[c] < matches[c]
    /\ entries' = [entries EXCEPT ![c] = @ + 1]
    /\ UNCHANGED <<at, ctxErr, conn, matches, referrals, answerVars, registryVars>>

ReferralArrives(c) ==
    /\ at[c] = "search"
    /\ FrameArrives(c)
    /\ referrals[c] < MaxReferrals
    /\ referrals' = [referrals EXCEPT ![c] = @ + 1]
    /\ UNCHANGED <<at, ctxErr, conn, matches, entries, answerVars, registryVars>>

\* Search returns without an error.
SearchOK(c) ==
    /\ at[c] = "search"
    /\ FrameArrives(c)
    /\ Answered(c)
    /\ Goto(c, "searched")
    /\ UNCHANGED <<ctxErr, conn, searchVars, answerVars, registryVars>>

\* What has arrived of an answer is dropped.
DropAnswer(c) ==
    /\ matches' = [matches EXCEPT ![c] = 0]
    /\ entries' = [entries EXCEPT ![c] = 0]
    /\ referrals' = [referrals EXCEPT ![c] = 0]
    /\ frames' = [frames EXCEPT ![c] = 0]

\* The server refuses the connection, the bind or the search, or the connection
\* fails by itself: the peer closes it, its own deadline passes before that of
\* the context, a response is malformed, or there are too many bytes or frames.
ServerFails(c) ==
    /\ at[c] \in {"dial", "bind", "search"}
    /\ Goto(c, "failed")
    /\ DropAnswer(c)
    /\ UNCHANGED <<ctxErr, conn, answerVars, registryVars>>

\* A dial whose context has ended, or a wait for a response on a connection
\* that the callback has closed, is over.
BrokenOff(c) ==
    /\ \/ at[c] = "dial" /\ ctxErr[c] # "none"
       \/ at[c] \in {"bind", "search"} /\ conn[c] = "closed"
    /\ Goto(c, "failed")
    /\ DropAnswer(c)
    /\ UNCHANGED <<ctxErr, conn, answerVars, registryVars>>

\* An error, or an answer, finds that the context has ended meanwhile.
NoticeContext(c) ==
    /\ at[c] \in {"failed", "searched"}
    /\ ctxErr[c] # "none"
    /\ Goto(c, "ended")
    /\ DropAnswer(c)
    /\ UNCHANGED <<ctxErr, conn, answerVars, registryVars>>

\* ctx.Err() is read again for the outcome, and once more for the result.
Classify(c) ==
    /\ at[c] = "ended"
    /\ outcome' = [outcome EXCEPT ![c] = ContextOutcome(c)]
    /\ Goto(c, "classified")
    /\ UNCHANGED <<callVars, searchVars, stage, returned, registryVars>>

ReturnContextError(c) ==
    /\ at[c] = "classified"
    /\ Return(c, ctxErr[c])
    /\ UNCHANGED <<callVars, searchVars, stage, outcome, registryVars>>

\* An error although the context goes on, or referrals without an entry.
ReturnUnavailable(c) ==
    /\ \/ at[c] = "failed"
       \/ at[c] = "searched" /\ entries[c] = 0 /\ referrals[c] > 0
    /\ ctxErr[c] = "none"
    /\ Return(c, "ErrUnavailable")
    /\ UNCHANGED <<callVars, searchVars, stage, outcome, registryVars>>

\* The answer is examined; the one entry may lack the account name.
Examine(c) ==
    /\ at[c] = "searched"
    /\ ctxErr[c] = "none"
    /\ entries[c] > 0 \/ referrals[c] = 0
    /\ stage' = [stage EXCEPT ![c] = "result"]
    /\ \/ entries[c] = 0 /\ Return(c, "ErrNotFound") /\ outcome' = [outcome EXCEPT ![c] = "not_found"]
       \/ entries[c] > 1 /\ Return(c, "ErrAmbiguous") /\ outcome' = [outcome EXCEPT ![c] = "ambiguous"]
       \/ entries[c] = 1 /\ Return(c, "ErrUnavailable") /\ UNCHANGED outcome
       \/ entries[c] = 1 /\ Return(c, "user") /\ outcome' = [outcome EXCEPT ![c] = "success"]
    /\ UNCHANGED <<callVars, searchVars, registryVars>>

\* The deferred calls: the connection is closed, the callback stopped, and the
\* observation made; what the body knew goes out of scope.
Leave(c) ==
    /\ at[c] = "leaving"
    /\ CloseConnection(c)
    /\ ctxErr' = [ctxErr EXCEPT ![c] = "canceled"]
    /\ DropAnswer(c)
    /\ Goto(c, "observe")
    /\ UNCHANGED <<answerVars, registryVars>>

\* ObserveLDAPLookup locks the registry and reads a count, and writes it back.
ObserveRead(c) ==
    /\ at[c] = "observe"
    /\ RegistryFree
    /\ registryMu' = {c}
    /\ read' = [read EXCEPT ![c] = directory[<<outcome[c], stage[c]>>]]
    /\ Goto(c, "observing")
    /\ UNCHANGED <<callVars, searchVars, answerVars, directory>>

ObserveWrite(c) ==
    /\ at[c] = "observing"
    /\ directory' = [directory EXCEPT ![<<outcome[c], stage[c]>>] = read[c] + 1]
    /\ registryMu' = {}
    /\ read' = [read EXCEPT ![c] = 0]
    /\ Goto(c, "done")
    /\ UNCHANGED <<callVars, searchVars, answerVars>>

\* The caller cancels, or the deadline passes.
ContextEnds(c, why) ==
    /\ at[c] = "dial" \/ Connected(c)
    /\ ctxErr[c] = "none"
    /\ ctxErr' = [ctxErr EXCEPT ![c] = why]
    /\ UNCHANGED <<at, conn, frames, searchVars, answerVars, registryVars>>

\* The callback of the ended context closes the connection.
AfterFunc(c) ==
    /\ Connected(c)
    /\ ctxErr[c] # "none"
    /\ conn[c] = "open"
    /\ conn' = [conn EXCEPT ![c] = "closed"]
    /\ UNCHANGED <<at, ctxErr, frames, searchVars, answerVars, registryVars>>

\* What a call does by itself, whatever the server does.
Proceed(c) ==
    \/ BrokenOff(c) \/ NoticeContext(c) \/ Classify(c) \/ ReturnContextError(c)
    \/ ReturnUnavailable(c) \/ Examine(c) \/ Leave(c) \/ ObserveRead(c) \/ ObserveWrite(c)

\* What its timer and its context's callback do.
ContextRuns(c) == ContextEnds(c, "deadline") \/ AfterFunc(c)

Step(c) ==
    \/ RefuseInput(c) \/ Dial(c) \/ DialOK(c) \/ BindOK(c)
    \/ EntryArrives(c) \/ ReferralArrives(c) \/ SearchOK(c) \/ ServerFails(c)
    \/ ContextEnds(c, "canceled")
    \/ Proceed(c) \/ ContextRuns(c)

Next == \E c \in Call : Step(c)

Spec == Init /\ [][Next]_vars

\* Goroutines go on and timers fire; nothing is assumed of the server or of the
\* caller's cancellation.
Fairness == \A c \in Call : WF_vars(Proceed(c)) /\ WF_vars(ContextRuns(c))

FairSpec == Spec /\ Fairness

-----------------------------------------------------------------------------
(* Properties *)

LookupResult ==
    {"user", "ErrNotFound", "ErrAmbiguous", "ErrUnavailable", "canceled", "deadline", "invalid_input"}

\* Every variable has its type, and counts stay within their limits.
TypeOK ==
    /\ at \in [Call -> {"idle", "dial", "bind", "search", "failed", "searched", "ended",
                        "classified", "leaving", "observe", "observing", "done"}]
    /\ ctxErr \in [Call -> {"none", "canceled", "deadline"}]
    /\ conn \in [Call -> {"none", "open", "closed"}]
    /\ frames \in [Call -> 0..MaxFrames]
    /\ matches \in [Call -> 0..MaxMatches]
    /\ entries \in [Call -> 0..SizeLimit]
    /\ referrals \in [Call -> 0..MaxReferrals]
    /\ stage \in [Call -> LookupStage]
    /\ outcome \in [Call -> LookupOutcome]
    /\ returned \in [Call -> LookupResult \cup {"none"}]
    /\ registryMu \in SUBSET Call
    /\ read \in [Call -> Nat]
    /\ directory \in [LookupOutcome \X LookupStage -> Nat]

\* An answer that was cut short is never taken for a complete one: a user is
\* returned only if the directory has exactly one, "not found" only if it has
\* none and refers nowhere else, and "ambiguous" only if it has several.
AnswerIsComplete ==
    \A c \in Call :
        at[c] = "leaving" =>
            /\ returned[c] = "user" => matches[c] = 1
            /\ returned[c] = "ErrNotFound" => matches[c] = 0 /\ referrals[c] = 0
            /\ returned[c] = "ErrAmbiguous" => matches[c] > 1

\* The outcome that belongs to what a call returned.
OutcomeOf(what) ==
    CASE what = "user" -> "success"
      [] what = "ErrNotFound" -> "not_found"
      [] what = "ErrAmbiguous" -> "ambiguous"
      [] what = "canceled" -> "canceled"
      [] what = "deadline" -> "timeout"
      [] what = "ErrUnavailable" -> "unavailable"
      [] what = "invalid_input" -> "invalid_input"

\* The lookups that ended with this outcome for their caller at this stage.
Ended(o, s) == {c \in Call : at[c] = "done" /\ OutcomeOf(returned[c]) = o /\ stage[c] = s}

\* Every lookup is counted exactly once, under the outcome its caller got and
\* the stage it reached, though outcome and result are read from the context
\* at different times and lookups end at the same time.
ObservedAsReturned ==
    \A o \in LookupOutcome, s \in LookupStage : directory[<<o, s>>] = Cardinality(Ended(o, s))

\* Every lookup returns, however silent the server, and leaves no connection.
LookupEnds ==
    \A c \in Call : at[c] # "idle" ~> at[c] = "done" /\ conn[c] \in {"none", "closed"}

-----------------------------------------------------------------------------
(* The inductive invariant *)

\* What the body of GetUser knows at each place: an answer that is examined is
\* complete, a context that is classified has ended, and the outcome is the one
\* of the result from the moment there is a result.
CallInv(c) ==
    /\ at[c] \in {"idle", "dial", "bind", "search", "failed", "searched", "ended"} =>
           outcome[c] = "unavailable"
    /\ at[c] = "searched" => Answered(c)
    /\ at[c] \in {"ended", "classified"} => ctxErr[c] # "none"
    /\ at[c] = "classified" => outcome[c] = ContextOutcome(c)
    /\ at[c] \in {"leaving", "observe", "observing", "done"} =>
           returned[c] # "none" /\ outcome[c] = OutcomeOf(returned[c])
    /\ at[c] = "leaving" =>
           /\ returned[c] = "user" => matches[c] = 1
           /\ returned[c] = "ErrNotFound" => matches[c] = 0 /\ referrals[c] = 0
           /\ returned[c] = "ErrAmbiguous" => matches[c] > 1
    /\ at[c] \in {"observe", "observing", "done"} => conn[c] # "open"

\* One lookup at a time is in the registry, and the count it read is the count.
RegistryInv ==
    /\ \A c \in Call : at[c] = "observing" <=> c \in registryMu
    /\ \A c, d \in registryMu : c = d
    /\ \A c \in registryMu : read[c] = directory[<<outcome[c], stage[c]>>]

IInv ==
    /\ TypeOK
    /\ \A c \in Call : CallInv(c)
    /\ RegistryInv
    /\ IsFiniteSet({c \in Call : at[c] = "done"})
    /\ ObservedAsReturned
=============================================================================

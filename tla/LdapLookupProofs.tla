-------------------------- MODULE LdapLookupProofs --------------------------
(***************************************************************************)
(* Proofs about LdapLookup for any number of lookups and any limits: every *)
(* action keeps the types and what the body knows; then the registry and   *)
(* its counts, which only the two steps of the observation change.         *)
(***************************************************************************)
EXTENDS LdapLookup, FiniteSetTheorems, TLAPS

\* Before the first lookup nothing is counted.
LEMMA InitIInv == Init => IInv
  <1> SUFFICES ASSUME Init PROVE IInv
    OBVIOUS
  <1>1. TypeOK
    BY LookupAssumption DEF Init, TypeOK, LookupStage, LookupOutcome
  <1>2. (\A c \in Call : CallInv(c)) /\ RegistryInv
    BY DEF Init, CallInv, RegistryInv
  <1>3. {c \in Call : at[c] = "done"} = {} /\ \A o, s : Ended(o, s) = {}
    BY DEF Init, Ended
  <1>4. IsFiniteSet({c \in Call : at[c] = "done"})
    BY <1>3, FS_EmptySet
  <1>5. ObservedAsReturned
    BY <1>3, FS_EmptySet, ZenonT(60) DEF Init, ObservedAsReturned
  <1> QED
    BY <1>1, <1>2, <1>4, <1>5 DEF IInv

\* Every step of a lookup, its context or the server keeps the types.
LEMMA TypeStep ==
    ASSUME TypeOK, NEW c \in Call, Step(c)
    PROVE  TypeOK'
  <1> USE LookupAssumption DEF TypeOK, callVars, searchVars, answerVars, registryVars, Goto
  <1>1. CASE RefuseInput(c)
    BY <1>1 DEF RefuseInput, Return, LookupStage, LookupOutcome, LookupResult
  <1>2. CASE Dial(c)
    BY <1>2 DEF Dial, LookupStage, LookupOutcome, LookupResult
  <1>3. CASE DialOK(c)
    BY <1>3 DEF DialOK, LookupStage, LookupOutcome, LookupResult
  <1>4. CASE BindOK(c)
    BY <1>4 DEF BindOK, FrameArrives, LookupStage, LookupOutcome, LookupResult
  <1>5. CASE EntryArrives(c)
    BY <1>5 DEF EntryArrives, FrameArrives, LookupStage, LookupOutcome, LookupResult
  <1>6. CASE ReferralArrives(c)
    BY <1>6 DEF ReferralArrives, FrameArrives, LookupStage, LookupOutcome, LookupResult
  <1>7. CASE SearchOK(c)
    BY <1>7 DEF SearchOK, FrameArrives, Answered, LookupStage, LookupOutcome, LookupResult
  <1>8. CASE ServerFails(c)
    BY <1>8 DEF ServerFails, DropAnswer, LookupStage, LookupOutcome, LookupResult
  <1>9. CASE BrokenOff(c)
    BY <1>9 DEF BrokenOff, DropAnswer, LookupStage, LookupOutcome, LookupResult
  <1>10. CASE NoticeContext(c)
    BY <1>10 DEF NoticeContext, DropAnswer, LookupStage, LookupOutcome, LookupResult
  <1>11. CASE Classify(c)
    BY <1>11 DEF Classify, ContextOutcome, LookupStage, LookupOutcome, LookupResult
  <1>12. CASE ReturnContextError(c)
    BY <1>12 DEF ReturnContextError, Return, LookupStage, LookupOutcome, LookupResult
  <1>13. CASE ReturnUnavailable(c)
    BY <1>13 DEF ReturnUnavailable, Return, LookupStage, LookupOutcome, LookupResult
  <1>14. CASE Examine(c)
    BY <1>14, SMTT(60) DEF Examine, Return, LookupStage, LookupOutcome, LookupResult
  <1>15. CASE Leave(c)
    BY <1>15 DEF Leave, DropAnswer, CloseConnection, LookupStage, LookupOutcome, LookupResult
  <1>16. CASE ObserveRead(c)
    BY <1>16 DEF ObserveRead, LookupStage, LookupOutcome, LookupResult
  <1>17. CASE ObserveWrite(c)
    BY <1>17 DEF ObserveWrite, LookupStage, LookupOutcome, LookupResult
  <1>18. ASSUME NEW why \in {"canceled", "deadline"}, ContextEnds(c, why) PROVE TypeOK'
    BY <1>18 DEF ContextEnds, LookupStage, LookupOutcome, LookupResult
  <1>19. CASE AfterFunc(c)
    BY <1>19, ZenonT(60)
       DEF AfterFunc, Connected, LookupStage, LookupOutcome, LookupResult
  <1> QED
    BY <1>1, <1>2, <1>3, <1>4, <1>5, <1>6, <1>7, <1>8, <1>9, <1>10, <1>11, <1>12,
       <1>13, <1>14, <1>15, <1>16, <1>17, <1>18, <1>19, ZenonT(60)
       DEF Step, Proceed, ContextRuns

\* A step of one lookup leaves what belongs to the others alone.
LEMMA OthersUntouched ==
    ASSUME TypeOK, NEW c \in Call, Step(c), NEW d \in Call \ {c}
    PROVE  /\ at'[d] = at[d] /\ ctxErr'[d] = ctxErr[d] /\ conn'[d] = conn[d]
           /\ matches'[d] = matches[d] /\ entries'[d] = entries[d]
           /\ referrals'[d] = referrals[d] /\ stage'[d] = stage[d]
           /\ outcome'[d] = outcome[d] /\ returned'[d] = returned[d] /\ read'[d] = read[d]
  <1> USE DEF TypeOK, callVars, searchVars, answerVars, registryVars, Goto, Return
  <1>1. CASE RefuseInput(c) \/ Dial(c) \/ DialOK(c)
    BY <1>1 DEF RefuseInput, Dial, DialOK
  <1>2. CASE BindOK(c) \/ EntryArrives(c) \/ ReferralArrives(c) \/ SearchOK(c)
    BY <1>2 DEF BindOK, EntryArrives, ReferralArrives, SearchOK, FrameArrives
  <1>3. CASE ServerFails(c) \/ BrokenOff(c) \/ NoticeContext(c)
    BY <1>3 DEF ServerFails, BrokenOff, NoticeContext, DropAnswer
  <1>4. CASE Classify(c) \/ ReturnContextError(c) \/ ReturnUnavailable(c) \/ Examine(c)
    BY <1>4 DEF Classify, ReturnContextError, ReturnUnavailable, Examine
  <1>5. CASE Leave(c) \/ ObserveRead(c) \/ ObserveWrite(c)
    BY <1>5 DEF Leave, DropAnswer, CloseConnection, ObserveRead, ObserveWrite
  <1>6. ASSUME NEW why, ContextEnds(c, why) \/ AfterFunc(c)
        PROVE  /\ at'[d] = at[d] /\ ctxErr'[d] = ctxErr[d] /\ conn'[d] = conn[d]
               /\ matches'[d] = matches[d] /\ entries'[d] = entries[d]
               /\ referrals'[d] = referrals[d] /\ stage'[d] = stage[d]
               /\ outcome'[d] = outcome[d] /\ returned'[d] = returned[d] /\ read'[d] = read[d]
    BY <1>6 DEF ContextEnds, AfterFunc
  <1> QED
    BY <1>1, <1>2, <1>3, <1>4, <1>5, <1>6 DEF Step, Proceed, ContextRuns

\* Every step keeps what the body knows.
LEMMA BodyStep ==
    ASSUME TypeOK, NEW c \in Call, CallInv(c), Step(c)
    PROVE  CallInv(c)'
  <1> USE LookupAssumption DEF TypeOK, callVars, searchVars, answerVars, registryVars, Goto
  <1>1. CASE RefuseInput(c)
    BY <1>1 DEF RefuseInput, Return, CallInv, Answered, ContextOutcome, OutcomeOf
  <1>2. CASE Dial(c)
    BY <1>2 DEF Dial, CallInv, Answered, ContextOutcome, OutcomeOf
  <1>3. CASE DialOK(c)
    BY <1>3 DEF DialOK, CallInv, Answered, ContextOutcome, OutcomeOf
  <1>4. CASE BindOK(c)
    BY <1>4 DEF BindOK, FrameArrives, CallInv, Answered, ContextOutcome, OutcomeOf
  <1>5. CASE EntryArrives(c)
    BY <1>5 DEF EntryArrives, FrameArrives, CallInv, Answered, ContextOutcome, OutcomeOf
  <1>6. CASE ReferralArrives(c)
    BY <1>6 DEF ReferralArrives, FrameArrives, CallInv, Answered, ContextOutcome, OutcomeOf
  <1>7. CASE SearchOK(c)
    BY <1>7 DEF SearchOK, FrameArrives, CallInv, Answered, ContextOutcome, OutcomeOf
  <1>8. CASE ServerFails(c)
    BY <1>8 DEF ServerFails, DropAnswer, CallInv, Answered, ContextOutcome, OutcomeOf
  <1>9. CASE BrokenOff(c)
    BY <1>9 DEF BrokenOff, DropAnswer, CallInv, Answered, ContextOutcome, OutcomeOf
  <1>10. CASE NoticeContext(c)
    BY <1>10 DEF NoticeContext, DropAnswer, CallInv, Answered, ContextOutcome, OutcomeOf
  <1>11. CASE Classify(c)
    BY <1>11 DEF Classify, CallInv, Answered, ContextOutcome, OutcomeOf
  <1>12. CASE ReturnContextError(c)
    BY <1>12 DEF ReturnContextError, Return, CallInv, Answered, ContextOutcome, OutcomeOf
  <1>13. CASE ReturnUnavailable(c)
    BY <1>13 DEF ReturnUnavailable, Return, CallInv, Answered, ContextOutcome, OutcomeOf
  <1>14. CASE Examine(c)
    BY <1>14 DEF Examine, Return, CallInv, Answered, ContextOutcome, OutcomeOf
  <1>15. CASE Leave(c)
    BY <1>15, ZenonT(60)
       DEF Leave, DropAnswer, CloseConnection, CallInv, Answered, ContextOutcome, OutcomeOf
  <1>16. CASE ObserveRead(c)
    BY <1>16, ZenonT(60) DEF ObserveRead, CallInv, Answered, ContextOutcome, OutcomeOf
  <1>17. CASE ObserveWrite(c)
    BY <1>17, ZenonT(60) DEF ObserveWrite, CallInv, Answered, ContextOutcome, OutcomeOf
  <1>18. ASSUME NEW why \in {"canceled", "deadline"}, ContextEnds(c, why) PROVE CallInv(c)'
    BY <1>18, ZenonT(60) DEF ContextEnds, CallInv, Answered, ContextOutcome, OutcomeOf
  <1>19. CASE AfterFunc(c)
    BY <1>19 DEF AfterFunc, Connected, CallInv, Answered, ContextOutcome, OutcomeOf
  <1> QED
    BY ZenonT(60), <1>1, <1>2, <1>3, <1>4, <1>5, <1>6, <1>7, <1>8, <1>9, <1>10, <1>11, <1>12,
       <1>13, <1>14, <1>15, <1>16, <1>17, <1>18, <1>19, SMTT(60)
       DEF Step, Proceed, ContextRuns

\* A step outside the registry leaves it, and who has been counted, alone.
LEMMA OutsideRegistry ==
    ASSUME IInv, NEW c \in Call, Step(c), ~ObserveRead(c), ~ObserveWrite(c)
    PROVE  /\ UNCHANGED registryVars
           /\ at[c] \notin {"observing", "done"}
           /\ at'[c] \notin {"observing", "done"}
  <1> USE DEF IInv, TypeOK, callVars, searchVars, answerVars, registryVars, Goto, Return
  <1>1. CASE RefuseInput(c) \/ Dial(c) \/ DialOK(c)
    BY <1>1 DEF RefuseInput, Dial, DialOK
  <1>2. CASE BindOK(c) \/ EntryArrives(c) \/ ReferralArrives(c) \/ SearchOK(c)
    BY <1>2 DEF BindOK, EntryArrives, ReferralArrives, SearchOK, FrameArrives
  <1>3. CASE ServerFails(c) \/ BrokenOff(c) \/ NoticeContext(c)
    BY <1>3 DEF ServerFails, BrokenOff, NoticeContext, DropAnswer
  <1>4. CASE Classify(c) \/ ReturnContextError(c) \/ ReturnUnavailable(c) \/ Examine(c)
    BY <1>4 DEF Classify, ReturnContextError, ReturnUnavailable, Examine
  <1>5. CASE Leave(c)
    BY <1>5 DEF Leave
  <1>6. ASSUME NEW why, ContextEnds(c, why) \/ AfterFunc(c)
        PROVE  /\ UNCHANGED registryVars
               /\ at[c] \notin {"observing", "done"}
               /\ at'[c] \notin {"observing", "done"}
    BY <1>6 DEF ContextEnds, AfterFunc, Connected
  <1> QED
    BY <1>1, <1>2, <1>3, <1>4, <1>5, <1>6 DEF Step, Proceed, ContextRuns

\* One lookup at a time reads a count and writes it back.
LEMMA RegistryStep ==
    ASSUME IInv, NEW c \in Call, Step(c)
    PROVE  RegistryInv'
  <1>1. \A d \in Call \ {c} :
           at'[d] = at[d] /\ stage'[d] = stage[d] /\ outcome'[d] = outcome[d] /\ read'[d] = read[d]
    BY OthersUntouched DEF IInv
  <1>2. CASE ObserveRead(c)
    <2> USE <1>2 DEF ObserveRead, RegistryFree, Goto, answerVars
    <2>1. at'[c] = "observing" /\ registryMu' = {c} /\ \A d \in Call : at[d] # "observing"
      BY DEF IInv, TypeOK, RegistryInv
    <2>2. read'[c] = directory[<<outcome[c], stage[c]>>] /\ UNCHANGED <<directory, outcome, stage>>
      BY DEF IInv, TypeOK
    <2> QED
      BY <1>1, <2>1, <2>2 DEF RegistryInv
  <1>3. CASE ObserveWrite(c)
    <2> USE <1>3 DEF ObserveWrite, Goto
    <2>1. at'[c] = "done" /\ registryMu' = {}
      BY DEF IInv, TypeOK
    <2>2. \A d \in Call \ {c} : at[d] # "observing"
      BY DEF IInv, RegistryInv
    <2> QED
      BY <1>1, <2>1, <2>2 DEF RegistryInv
  <1>4. CASE ~ObserveRead(c) /\ ~ObserveWrite(c)
    <2>1. /\ UNCHANGED registryVars
          /\ at[c] \notin {"observing", "done"}
          /\ at'[c] \notin {"observing", "done"}
      BY <1>4, OutsideRegistry
    <2>2. \A d \in registryMu : d # c /\ d \in Call
      BY <2>1 DEF IInv, TypeOK, RegistryInv
    <2> QED
      BY <1>1, <2>1, <2>2 DEF IInv, RegistryInv, registryVars
  <1> QED
    BY <1>2, <1>3, <1>4, ZenonT(60)

\* The write of an observation counts its lookup, once and where it belongs;
\* no other step counts or forgets one.
LEMMA CountStep ==
    ASSUME IInv, NEW c \in Call, Step(c)
    PROVE  IsFiniteSet({d \in Call : at[d] = "done"})' /\ ObservedAsReturned'
  <1> DEFINE Done == {d \in Call : at[d] = "done"}
  <1>1. \A d \in Call \ {c} : at'[d] = at[d] /\ stage'[d] = stage[d] /\ returned'[d] = returned[d]
    BY OthersUntouched DEF IInv
  <1>2. CASE ObserveWrite(c)
    <2> USE <1>2 DEF ObserveWrite, Goto, answerVars
    <2>1. at[c] = "observing" /\ at'[c] = "done" /\ UNCHANGED <<stage, outcome, returned>>
      BY DEF IInv, TypeOK
    <2>2. /\ outcome[c] = OutcomeOf(returned[c])
          /\ outcome[c] \in LookupOutcome /\ stage[c] \in LookupStage
          /\ read[c] = directory[<<outcome[c], stage[c]>>]
      BY <2>1 DEF IInv, TypeOK, CallInv, RegistryInv
    <2>3. Done' = Done \cup {c} /\ IsFiniteSet(Done)
      BY <1>1, <2>1 DEF IInv
    <2>4. IsFiniteSet(Done')
      BY <2>3, FS_AddElement, ZenonT(60)
    <2>5. ASSUME NEW o \in LookupOutcome, NEW s \in LookupStage
          PROVE  directory'[<<o, s>>] = Cardinality(Ended(o, s)')
      <3>1. IsFiniteSet(Ended(o, s)) /\ c \notin Ended(o, s)
        <4>1. Ended(o, s) \in SUBSET Done
          BY DEF Ended
        <4>2. c \notin Ended(o, s)
          BY <2>1 DEF Ended
        <4> QED
          BY <2>3, <4>1, <4>2, FS_Subset
      <3>2. directory[<<o, s>>] = Cardinality(Ended(o, s))
        BY DEF IInv, ObservedAsReturned
      <3>3. CASE o = outcome[c] /\ s = stage[c]
        <4>1. Ended(o, s)' = Ended(o, s) \cup {c}
          BY <1>1, <2>1, <2>2, <3>3 DEF Ended
        <4>2. directory'[<<o, s>>] = directory[<<o, s>>] + 1
          BY <2>2, <3>3 DEF IInv, TypeOK
        <4> QED
          BY <3>1, <3>2, <4>1, <4>2, FS_AddElement, ZenonT(60)
      <3>4. CASE ~(o = outcome[c] /\ s = stage[c])
        <4>1. Ended(o, s)' = Ended(o, s)
          BY <1>1, <2>1, <2>2, <3>4 DEF Ended
        <4>2. directory'[<<o, s>>] = directory[<<o, s>>]
          BY <2>2, <3>4, ZenonT(60) DEF IInv, TypeOK
        <4> QED
          BY <3>2, <4>1, <4>2
      <3> QED
        BY <3>3, <3>4
    <2> QED
      BY <2>4, <2>5 DEF ObservedAsReturned
  <1>3. CASE ~ObserveWrite(c)
    <2>1. at[c] # "done" /\ at'[c] # "done" /\ UNCHANGED directory
      BY <1>3, OutsideRegistry, ZenonT(60)
         DEF ObserveRead, Goto, IInv, TypeOK, registryVars
    <2>2. Done' = Done
      BY <1>1, <2>1
    <2>3. ASSUME NEW o, NEW s PROVE Ended(o, s)' = Ended(o, s)
      BY <1>1, <2>1 DEF Ended
    <2> QED
      BY <2>1, <2>2, <2>3 DEF IInv, ObservedAsReturned
  <1> QED
    BY <1>2, <1>3

\* Every step of every lookup preserves the invariant.
LEMMA NextIInv == IInv /\ [Next]_vars => IInv'
  <1> SUFFICES ASSUME IInv, [Next]_vars PROVE IInv'
    OBVIOUS
  <1>1. ASSUME NEW c \in Call, Step(c) PROVE IInv'
    <2>1. TypeOK' /\ RegistryInv'
      BY <1>1, TypeStep, RegistryStep DEF IInv
    <2>2. IsFiniteSet({d \in Call : at[d] = "done"})' /\ ObservedAsReturned'
      BY <1>1, CountStep
    <2>3. CallInv(c)'
      BY <1>1, BodyStep, ZenonT(60) DEF IInv
    <2>4. ASSUME NEW d \in Call \ {c} PROVE CallInv(d)'
      <3>1. CallInv(d)
        BY DEF IInv
      <3> QED
        BY <1>1, <3>1, OthersUntouched DEF IInv, CallInv, Answered, ContextOutcome
    <2>5. \A d \in Call : CallInv(d)'
      BY <2>3, <2>4
    <2> QED
      BY <2>1, <2>2, <2>5 DEF IInv
  <1>2. CASE UNCHANGED vars
    <2> USE <1>2 DEF vars, callVars, searchVars, answerVars, registryVars, IInv
    <2>1. TypeOK' /\ RegistryInv'
      BY ZenonT(60) DEF TypeOK, RegistryInv
    <2>2. \A d \in Call : CallInv(d)'
      BY ZenonT(60) DEF CallInv, Answered, ContextOutcome
    <2>3. IsFiniteSet({d \in Call : at[d] = "done"})' /\ ObservedAsReturned'
      BY DEF ObservedAsReturned, Ended
    <2> QED
      BY <2>1, <2>2, <2>3, ZenonT(60)
  <1> QED
    BY <1>1, <1>2 DEF Next

\* The invariant holds in every state.
LEMMA Invariance == Spec => []IInv
  BY InitIInv, NextIInv, PTL DEF Spec

\* For any lookups, limits and answers: an answer that was cut short is never
\* taken for a complete one.
THEOREM AnswersComplete == Spec => []AnswerIsComplete
  <1>1. IInv => AnswerIsComplete
    BY DEF IInv, CallInv, AnswerIsComplete
  <1> QED
    BY <1>1, Invariance, PTL

\* Every lookup is counted exactly once, under the outcome its caller got and
\* the stage it reached, whenever its context ends and however many others are
\* counted at the same time.
THEOREM ObservationsExact == Spec => []ObservedAsReturned
  <1>1. IInv => ObservedAsReturned
    BY DEF IInv
  <1> QED
    BY <1>1, Invariance, PTL

\* A lookup that has returned has left no connection open, and never reads more
\* responses than framedConn allows.
THEOREM ConnectionsClosed ==
    Spec => [](\A c \in Call : (at[c] = "done" => conn[c] # "open") /\ frames[c] <= MaxFrames)
  <1>1. IInv => \A c \in Call : (at[c] = "done" => conn[c] # "open") /\ frames[c] <= MaxFrames
    BY LookupAssumption DEF IInv, CallInv, TypeOK
  <1> QED
    BY <1>1, Invariance, PTL
=============================================================================

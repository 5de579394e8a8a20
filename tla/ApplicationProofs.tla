-------------------------- MODULE ApplicationProofs --------------------------
(***************************************************************************)
(* Proofs about the process for any requests, resources and inputs.  First *)
(* what LoadWithOverrides makes of its layers.  Then AppLifecycle on its   *)
(* own: one step per action, under it one per part of the invariant.  Then *)
(* Application: every step of the process is a step of AppLifecycle or     *)
(* leaves it alone, so the second part carries over.  Last, what handlers  *)
(* are told of the database, and what the start guarantees.                *)
(***************************************************************************)
EXTENDS Application, TLAPS

-----------------------------------------------------------------------------
(* The settings *)

\* The environment is over the file, and the file over what is there.
LEMMA MergeAt ==
    ASSUME NEW file, NEW env, NEW c, NEW s \in DOMAIN c
    PROVE  /\ s \in DOMAIN Merge(file, env, c)
           /\ s \in DOMAIN env => Merge(file, env, c)[s] = env[s]
           /\ s \notin DOMAIN env /\ s \in DOMAIN Present(file) =>
                  Merge(file, env, c)[s] = Present(file)[s]
           /\ s \notin DOMAIN env /\ s \notin DOMAIN Present(file) => Merge(file, env, c)[s] = c[s]
  <1> DEFINE lower == Over(Present(file), c)
  <1>1. /\ s \in DOMAIN lower
        /\ s \in DOMAIN Present(file) => lower[s] = Present(file)[s]
        /\ s \notin DOMAIN Present(file) => lower[s] = c[s]
    BY DEF Over
  <1>2. Merge(file, env, c) = Over(env, lower)
    BY DEF Merge
  <1> HIDE DEF lower
  <1>3. /\ s \in DOMAIN Over(env, lower)
        /\ s \in DOMAIN env => Over(env, lower)[s] = env[s]
        /\ s \notin DOMAIN env => Over(env, lower)[s] = lower[s]
    BY <1>1 DEF Over
  <1> QED
    BY <1>1, <1>2, <1>3, ZenonT(60)

\* Of four layers, the strongest that gives a setting is the first that does.
LEMMA FirstOfFour ==
    ASSUME NEW a, NEW b, NEW c, NEW d, NEW s \in DOMAIN d
    PROVE  Strongest(<<a, b, c, d>>, s) = IF s \in DOMAIN a THEN a[s]
                                          ELSE IF s \in DOMAIN b THEN b[s]
                                          ELSE IF s \in DOMAIN c THEN c[s] ELSE d[s]
  <1> DEFINE f == <<a, b, c, d>>
             P(i) == s \in DOMAIN f[i] /\ \A j \in 1..(i - 1) : s \notin DOMAIN f[j]
             strongest == CHOOSE i \in DOMAIN f : P(i)
  <1>1. DOMAIN f = 1..4 /\ f[1] = a /\ f[2] = b /\ f[3] = c /\ f[4] = d
    OBVIOUS
  <1> HIDE DEF f
  <1>2. ASSUME NEW k \in 1..4, P(k) PROVE strongest = k
    <2>1. ASSUME NEW i \in 1..4, P(i) PROVE i = k
      <3>1. ~(i < k)
        BY <1>2, <2>1
      <3>2. ~(k < i)
        BY <1>2, <2>1
      <3> QED
        BY <3>1, <3>2
    <2> HIDE DEF P
    <2> QED
      BY <1>1, <1>2, <2>1
  <1> HIDE DEF strongest
  <1>3. s \in DOMAIN a => strongest = 1
    <2>1. s \in DOMAIN a => P(1)
      BY <1>1
    <2> QED
      BY <1>2, <2>1
  <1>4. s \notin DOMAIN a /\ s \in DOMAIN b => strongest = 2
    <2>1. s \notin DOMAIN a /\ s \in DOMAIN b => P(2)
      BY <1>1
    <2> QED
      BY <1>2, <2>1
  <1>5. s \notin DOMAIN a /\ s \notin DOMAIN b /\ s \in DOMAIN c => strongest = 3
    <2>1. s \notin DOMAIN a /\ s \notin DOMAIN b /\ s \in DOMAIN c => P(3)
      BY <1>1
    <2> QED
      BY <1>2, <2>1
  <1>6. s \notin DOMAIN a /\ s \notin DOMAIN b /\ s \notin DOMAIN c => strongest = 4
    <2>1. s \notin DOMAIN a /\ s \notin DOMAIN b /\ s \notin DOMAIN c => P(4)
      BY <1>1
    <2> QED
      BY <1>2, <2>1
  <1>7. f[strongest][s] = IF s \in DOMAIN a THEN a[s]
                          ELSE IF s \in DOMAIN b THEN b[s]
                          ELSE IF s \in DOMAIN c THEN c[s] ELSE d[s]
    BY <1>1, <1>3, <1>4, <1>5, <1>6
  <1> QED
    BY <1>7 DEF Strongest, strongest, f

\* The flag replaces the listening address and nothing else.
LEMMA OverrideAt ==
    ASSUME NEW address, NEW c, NEW s \in DOMAIN c
    PROVE  Override(address, c)[s] =
               IF address # Blank /\ s = "Address" THEN address ELSE c[s]
  BY DEF Override, Over, Only

\* What LoadWithOverrides returns has, for each setting, the value of the
\* strongest layer that gives it.
LEMMA LoadedIsEffective ==
    ASSUME NEW g, LoadWithOverrides(g) # Bad, NEW s \in Setting
    PROVE  LoadWithOverrides(g)[s] = Effective(g, s)
  <1> DEFINE chosen == ChosenFile(g)
             file == IF chosen = NotGiven THEN <<>> ELSE chosen
             flags == IF g.address = Blank THEN <<>> ELSE Only("Address", g.address)
             present == IF chosen = NotGiven THEN <<>> ELSE Present(chosen)
             merged == Merge(file, g.env, Defaults)
             value == IF s \in DOMAIN flags THEN flags[s]
                      ELSE IF s \in DOMAIN g.env THEN g.env[s]
                      ELSE IF s \in DOMAIN present THEN present[s] ELSE Defaults[s]
  <1>1. LoadWithOverrides(g) = Override(g.address, merged)
    BY DEF LoadWithOverrides
  <1>2. s \in DOMAIN Defaults
    BY DEF Defaults
  <1>3. Effective(g, s) = value
    <2> HIDE DEF chosen
    <2>1. Sources(g) = <<flags, g.env, present, Defaults>>
      BY DEF Sources, chosen
    <2> HIDE DEF flags, present
    <2>2. Strongest(<<flags, g.env, present, Defaults>>, s) = value
      BY <1>2, FirstOfFour
    <2> QED
      BY <2>1, <2>2 DEF Effective
  <1>4. /\ s \in DOMAIN present <=> s \in DOMAIN Present(file)
        /\ s \in DOMAIN present => Present(file)[s] = present[s]
    <2> HIDE DEF chosen
    <2> QED
      BY DEF Present
  <1>5. /\ s \in DOMAIN flags <=> g.address # Blank /\ s = "Address"
        /\ s \in DOMAIN flags => flags[s] = g.address
    BY DEF Only
  <1> HIDE DEF file, flags, present
  <1>6. /\ s \in DOMAIN merged
        /\ s \in DOMAIN g.env => merged[s] = g.env[s]
        /\ s \notin DOMAIN g.env /\ s \in DOMAIN Present(file) => merged[s] = Present(file)[s]
        /\ s \notin DOMAIN g.env /\ s \notin DOMAIN Present(file) => merged[s] = Defaults[s]
    BY <1>2, MergeAt
  <1> HIDE DEF merged
  <1>7. Override(g.address, merged)[s] =
            IF g.address # Blank /\ s = "Address" THEN g.address ELSE merged[s]
    BY <1>6, OverrideAt
  <1>8. Override(g.address, merged)[s] = value
    BY <1>4, <1>5, <1>6, <1>7
  <1> QED
    BY <1>1, <1>3, <1>8

-----------------------------------------------------------------------------
(* The lifecycle *)

\* Before Run nothing is served, held or closed.
LEMMA InitIInv == Init => IInv
  <1> SUFFICES ASSUME Init PROVE IInv
    OBVIOUS
  <1> USE DEF Init
  <1>1. TypeOK
    BY ZenonT(60) DEF TypeOK
  <1>2. ServeInv /\ ShutdownInv /\ UseInv
    BY DEF ServeInv, ShutdownInv, UseInv, Released
  <1>3. ReleaseAfterServing /\ ResourceOrder
    BY DEF ReleaseAfterServing, ResourceOrder, Released
  <1> QED
    BY <1>1, <1>2, <1>3 DEF IInv

\* Steps of handlers and of closeResources keep the types if they keep those of
\* what they change.
LEMMA TypesKept ==
  ASSUME TypeOK, UNCHANGED <<runVars, ctxDone, serverVars, stopVars>>,
         request' \in [Request -> {"none", "active", "done"}],
         using' \in [Request -> SUBSET Resource],
         resource' \in [Resource -> {"none", "open", "closing", "closed"}]
  PROVE  TypeOK'
  <1>1. /\ run' \in {"start", "select", "shutdown", "receive", "release", "returned"}
        /\ result' \in {"none", "nil", "contextError", "listenError", "serveError",
                        "shutdownError"}
    BY DEF TypeOK, runVars
  <1>2. /\ serving' \in {"no", "yes", "returned"}
        /\ errorsCh' \in {"empty", "failed", "ErrServerClosed"}
    BY DEF TypeOK, serverVars
  <1>3. ctxDone' \in BOOLEAN /\ listening' \in BOOLEAN
    BY DEF TypeOK, serverVars
  <1>4. inShutdown' \in BOOLEAN /\ forced' \in BOOLEAN
    BY DEF TypeOK, stopVars
  <1> QED
    BY <1>1, <1>2, <1>3, <1>4, Zenon DEF TypeOK

\* A resource begins to close after all those above it.
LEMMA CloseBeginsOrder ==
  ASSUME IInv, NEW r \in Resource, CloseBegins(r)
  PROVE  ResourceOrder'
  <1>1. run' = "release" /\ using' = using
    BY DEF CloseBegins, handlerVars, runVars
  <1>2. ASSUME NEW s \in Resource, s # r PROVE resource'[s] = resource[s]
    BY <1>2 DEF CloseBegins, TypeOK, IInv
  <1>3. resource'[r] = "closing" /\ resource[r] = "open"
    BY DEF CloseBegins, TypeOK, IInv
  <1>4. \A s \in Resource : s > r => ~Owned(s)
    BY DEF CloseBegins, NextToClose
  <1>5. \A s \in Resource : ~(s > s)
    BY AppAssumption DEF Resource
  <1> QED
    BY <1>1, <1>2, <1>3, <1>4, <1>5 DEF IInv, ResourceOrder, Owned

\* Every step of Run, of Serve's goroutine, of handlers, clients and the
\* caller preserves the invariant.
LEMMA NextIInv == IInv /\ [Next]_vars => IInv'
  <1> SUFFICES ASSUME IInv, [Next]_vars PROVE IInv'
    OBVIOUS
  <1> USE DEF IInv
  <1> USE DEF vars, runVars, serverVars, stopVars, handlerVars
  <1>1. CASE Cancel
    <2> USE <1>1 DEF Cancel
    <2>1. TypeOK'
      BY ZenonT(60) DEF TypeOK
    <2>2. (ServeInv /\ ShutdownInv /\ ReleaseAfterServing)'
      BY DEF TypeOK, ServeInv, ShutdownInv, ReleaseAfterServing, Active, Released
    <2>3. UseInv'
      BY DEF TypeOK, UseInv, ShutdownInv, Owned, Released
    <2>4. ResourceOrder'
      BY DEF TypeOK, UseInv, ResourceOrder, ShutdownInv, Owned, Released
    <2> QED
      BY <2>1, <2>2, <2>3, <2>4
  <1>2. ASSUME NEW r \in Resource, Use(r) PROVE IInv'
    <2> USE <1>2 DEF Use
    <2>1. TypeOK'
      BY DEF TypeOK
    <2>2. (ServeInv /\ ShutdownInv /\ ReleaseAfterServing)'
      BY DEF TypeOK, ServeInv, ShutdownInv, ReleaseAfterServing, Active, Released
    <2>3. UseInv'
      BY DEF TypeOK, UseInv, ShutdownInv, Owned, Released
    <2>4. ResourceOrder'
      BY DEF TypeOK, UseInv, ResourceOrder, ShutdownInv, Owned, Released
    <2> QED
      BY <2>1, <2>2, <2>3, <2>4
  <1>3. ASSUME NEW q \in Request, Arrive(q) PROVE IInv'
    <2> USE <1>3 DEF Arrive, Connected
    <2>1. TypeOK'
      BY ZenonT(60) DEF TypeOK
    <2>2. (ServeInv /\ ShutdownInv /\ ReleaseAfterServing)'
      BY DEF TypeOK, ServeInv, ShutdownInv, ReleaseAfterServing, Active, Released
    <2>3. UseInv'
      BY DEF TypeOK, UseInv, ShutdownInv, Owned, Released
    <2>4. ResourceOrder'
      BY DEF TypeOK, UseInv, ResourceOrder, ShutdownInv, Owned, Released
    <2> QED
      BY <2>1, <2>2, <2>3, <2>4
  <1>4. ASSUME NEW q \in Request, Finish(q) PROVE IInv'
    <2> USE <1>4 DEF Finish
    <2>1. TypeOK'
      <3>1. using' \in [Request -> SUBSET Resource]
        BY DEF TypeOK
      <3>2. request' \in [Request -> {"none", "active", "done"}] /\ resource' = resource
        BY DEF TypeOK
      <3>3. UNCHANGED <<runVars, ctxDone, serverVars, stopVars>>
        OBVIOUS
      <3> QED
        BY <3>1, <3>2, <3>3, TypesKept DEF TypeOK
    <2>2. (ServeInv /\ ShutdownInv /\ ReleaseAfterServing)'
      BY DEF TypeOK, ServeInv, ShutdownInv, ReleaseAfterServing, Active, Released
    <2>3. UseInv'
      BY ZenonT(60) DEF TypeOK, UseInv, ShutdownInv, Owned, Released
    <2>4. ResourceOrder'
      BY DEF TypeOK, UseInv, ResourceOrder, ShutdownInv, Owned, Released
    <2> QED
      BY <2>1, <2>2, <2>3, <2>4
  <1>5. ASSUME NEW q \in Request, NEW r \in Resource, Acquire(q, r) PROVE IInv'
    <2> USE <1>5 DEF Acquire
    <2>1. TypeOK'
      <3>1. using' \in [Request -> SUBSET Resource]
        BY DEF TypeOK
      <3>2. request' \in [Request -> {"none", "active", "done"}] /\ resource' = resource
        BY DEF TypeOK
      <3>3. UNCHANGED <<runVars, ctxDone, serverVars, stopVars>>
        OBVIOUS
      <3> QED
        BY <3>1, <3>2, <3>3, TypesKept DEF TypeOK
    <2>2. (ServeInv /\ ShutdownInv /\ ReleaseAfterServing)'
      BY DEF TypeOK, ServeInv, ShutdownInv, ReleaseAfterServing, Active, Released
    <2>3. UseInv'
      BY DEF TypeOK, UseInv, ShutdownInv, Owned, Released
    <2>4. ResourceOrder'
      BY ZenonT(60) DEF TypeOK, UseInv, ResourceOrder, ShutdownInv, Owned, Released
    <2> QED
      BY <2>1, <2>2, <2>3, <2>4
  <1>6. ASSUME NEW q \in Request, NEW r \in Resource, Release(q, r) PROVE IInv'
    <2> USE <1>6 DEF Release
    <2>1. TypeOK'
      <3>1. using' \in [Request -> SUBSET Resource]
        BY DEF TypeOK
      <3>2. request' \in [Request -> {"none", "active", "done"}] /\ resource' = resource
        BY DEF TypeOK
      <3>3. UNCHANGED <<runVars, ctxDone, serverVars, stopVars>>
        OBVIOUS
      <3> QED
        BY <3>1, <3>2, <3>3, TypesKept DEF TypeOK
    <2>2. (ServeInv /\ ShutdownInv /\ ReleaseAfterServing)'
      BY DEF TypeOK, ServeInv, ShutdownInv, ReleaseAfterServing, Active, Released
    <2>3. UseInv'
      BY DEF TypeOK, UseInv, ShutdownInv, Owned, Released
    <2>4. ResourceOrder'
      BY DEF TypeOK, UseInv, ResourceOrder, ShutdownInv, Owned, Released
    <2> QED
      BY <2>1, <2>2, <2>3, <2>4, SMTT(60)
  <1>7. CASE ServeFails
    <2> USE <1>7 DEF ServeFails, ServeReturns
    <2>1. TypeOK'
      BY ZenonT(60) DEF TypeOK
    <2>2. (ServeInv /\ ShutdownInv /\ ReleaseAfterServing)'
      BY DEF TypeOK, ServeInv, ShutdownInv, ReleaseAfterServing, Active, Released
    <2>3. UseInv'
      BY DEF TypeOK, UseInv, ShutdownInv, Owned, Released
    <2>4. ResourceOrder'
      BY DEF TypeOK, UseInv, ResourceOrder, ShutdownInv, Owned, Released
    <2> QED
      BY <2>1, <2>2, <2>3, <2>4
  <1>8. CASE ServeCloses
    <2> USE <1>8 DEF ServeCloses, ServeReturns
    <2>1. TypeOK'
      BY ZenonT(60) DEF TypeOK
    <2>2. (ServeInv /\ ShutdownInv /\ ReleaseAfterServing)'
      BY DEF TypeOK, ServeInv, ShutdownInv, ReleaseAfterServing, Active, Released
    <2>3. UseInv'
      BY DEF TypeOK, UseInv, ShutdownInv, Owned, Released
    <2>4. ResourceOrder'
      BY DEF TypeOK, UseInv, ResourceOrder, ShutdownInv, Owned, Released
    <2> QED
      BY <2>1, <2>2, <2>3, <2>4
  <1>9. CASE NilContext
    <2> USE <1>9 DEF NilContext
    <2>1. TypeOK'
      BY DEF TypeOK
    <2>2. (ServeInv /\ ShutdownInv /\ ReleaseAfterServing)'
      BY DEF TypeOK, ServeInv, ShutdownInv, ReleaseAfterServing, Active, Released
    <2>3. UseInv'
      BY DEF TypeOK, UseInv, ShutdownInv, Owned, Released
    <2>4. ResourceOrder'
      BY DEF TypeOK, UseInv, ResourceOrder, ShutdownInv, Owned, Released
    <2> QED
      BY <2>1, <2>2, <2>3, <2>4
  <1>10. CASE ListenFails
    <2> USE <1>10 DEF ListenFails
    <2>1. TypeOK'
      BY DEF TypeOK
    <2>2. (ServeInv /\ ShutdownInv /\ ReleaseAfterServing)'
      BY DEF TypeOK, ServeInv, ShutdownInv, ReleaseAfterServing, Active, Released
    <2>3. UseInv'
      BY ZenonT(60) DEF TypeOK, UseInv, ShutdownInv, Owned, Released
    <2>4. ResourceOrder'
      BY DEF TypeOK, UseInv, ResourceOrder, ShutdownInv, Owned, Released
    <2> QED
      BY <2>1, <2>2, <2>3, <2>4
  <1>11. CASE ListenSucceeds
    <2> USE <1>11 DEF ListenSucceeds
    <2>1. TypeOK'
      BY ZenonT(60) DEF TypeOK
    <2>2. (ServeInv /\ ShutdownInv /\ ReleaseAfterServing)'
      BY DEF TypeOK, ServeInv, ShutdownInv, ReleaseAfterServing, Active, Released
    <2>3. UseInv'
      BY ZenonT(60) DEF TypeOK, UseInv, ShutdownInv, Owned, Released
    <2>4. ResourceOrder'
      BY DEF TypeOK, UseInv, ResourceOrder, ShutdownInv, Owned, Released
    <2> QED
      BY <2>1, <2>2, <2>3, <2>4, ZenonT(60)
  <1>12. CASE SelectError
    <2> USE <1>12 DEF SelectError, ServeResult
    <2>1. TypeOK'
      BY ZenonT(60) DEF TypeOK
    <2>2. (ServeInv /\ ShutdownInv /\ ReleaseAfterServing)'
      BY DEF TypeOK, ServeInv, ShutdownInv, ReleaseAfterServing, Active, Released
    <2>3. UseInv'
      BY DEF TypeOK, UseInv, ShutdownInv, Owned, Released
    <2>4. ResourceOrder'
      BY DEF TypeOK, UseInv, ResourceOrder, ShutdownInv, Owned, Released
    <2> QED
      BY <2>1, <2>2, <2>3, <2>4
  <1>13. CASE SelectDone
    <2> USE <1>13 DEF SelectDone
    <2>1. TypeOK'
      BY ZenonT(60) DEF TypeOK
    <2>2. (ServeInv /\ ShutdownInv /\ ReleaseAfterServing)'
      BY DEF TypeOK, ServeInv, ShutdownInv, ReleaseAfterServing, Active, Released
    <2>3. UseInv'
      BY DEF TypeOK, UseInv, ShutdownInv, Owned, Released
    <2>4. ResourceOrder'
      BY DEF TypeOK, UseInv, ResourceOrder, ShutdownInv, Owned, Released
    <2> QED
      BY <2>1, <2>2, <2>3, <2>4
  <1>14. CASE ShutdownDrains
    <2> USE <1>14 DEF ShutdownDrains, Drained
    <2>1. TypeOK'
      BY ZenonT(60) DEF TypeOK
    <2>2. (ServeInv /\ ShutdownInv /\ ReleaseAfterServing)'
      BY DEF TypeOK, ServeInv, ShutdownInv, ReleaseAfterServing, Active, Released
    <2>3. UseInv'
      BY DEF TypeOK, UseInv, ShutdownInv, Owned, Released
    <2>4. ResourceOrder'
      BY DEF TypeOK, UseInv, ResourceOrder, ShutdownInv, Owned, Released
    <2> QED
      BY <2>1, <2>2, <2>3, <2>4, ZenonT(60)
  <1>15. CASE ShutdownTimesOut
    <2> USE <1>15 DEF ShutdownTimesOut
    <2>1. TypeOK'
      BY ZenonT(60) DEF TypeOK
    <2>2. (ServeInv /\ ShutdownInv /\ ReleaseAfterServing)'
      BY DEF TypeOK, ServeInv, ShutdownInv, ReleaseAfterServing, Active, Released
    <2>3. UseInv'
      BY DEF TypeOK, UseInv, ShutdownInv, Owned, Released
    <2>4. ResourceOrder'
      BY DEF TypeOK, UseInv, ResourceOrder, ShutdownInv, Owned, Released
    <2> QED
      BY <2>1, <2>2, <2>3, <2>4
  <1>16. CASE ReceiveServe
    <2> USE <1>16 DEF ReceiveServe, ServeResult
    <2>1. TypeOK'
      BY ZenonT(60) DEF TypeOK
    <2>2. (ServeInv /\ ShutdownInv /\ ReleaseAfterServing)'
      BY DEF TypeOK, ServeInv, ShutdownInv, ReleaseAfterServing, Active, Released
    <2>3. UseInv'
      BY DEF TypeOK, UseInv, ShutdownInv, Owned, Released
    <2>4. ResourceOrder'
      BY DEF TypeOK, UseInv, ResourceOrder, ShutdownInv, Owned, Released
    <2> QED
      BY <2>1, <2>2, <2>3, <2>4
  <1>17. ASSUME NEW r \in Resource, CloseBegins(r) PROVE IInv'
    <2> USE <1>17 DEF CloseBegins, NextToClose
    <2>1. TypeOK'
      BY DEF TypeOK
    <2>2. (ServeInv /\ ShutdownInv /\ ReleaseAfterServing)'
      BY DEF TypeOK, ServeInv, ShutdownInv, ReleaseAfterServing, Active, Released
    <2>3. (UseInv /\ ResourceOrder)'
      BY CloseBeginsOrder, ZenonT(60) DEF TypeOK, UseInv, Owned, Released
    <2> QED
      BY <2>1, <2>2, <2>3
  <1>18. ASSUME NEW r \in Resource, CloseReturns(r) PROVE IInv'
    <2> USE <1>18 DEF CloseReturns
    <2>1. TypeOK'
      <3>1. resource' \in [Resource -> {"none", "open", "closing", "closed"}]
        BY DEF TypeOK
      <3>2. request' = request /\ using' = using
        OBVIOUS
      <3>3. UNCHANGED <<runVars, ctxDone, serverVars, stopVars>>
        BY ZenonT(60)
      <3> QED
        BY <3>1, <3>2, <3>3, TypesKept DEF TypeOK
    <2>2. (ServeInv /\ ShutdownInv /\ ReleaseAfterServing)'
      BY DEF TypeOK, ServeInv, ShutdownInv, ReleaseAfterServing, Active, Released
    <2>3. UseInv'
      BY DEF TypeOK, UseInv, ShutdownInv, Owned, Released
    <2>4. ResourceOrder'
      BY ZenonT(60) DEF TypeOK, UseInv, ResourceOrder, ShutdownInv, Owned, Released
    <2> QED
      BY <2>1, <2>2, <2>3, <2>4, ZenonT(60)
  <1>19. CASE Return
    <2> USE <1>19 DEF Return
    <2>1. TypeOK'
      BY DEF TypeOK
    <2>2. (ServeInv /\ ShutdownInv /\ ReleaseAfterServing)'
      BY DEF TypeOK, ServeInv, ShutdownInv, ReleaseAfterServing, Active, Released
    <2>3. UseInv'
      BY DEF TypeOK, UseInv, ShutdownInv, Owned, Released
    <2>4. ResourceOrder'
      BY DEF TypeOK, UseInv, ResourceOrder, ShutdownInv, Owned, Released
    <2> QED
      BY <2>1, <2>2, <2>3, <2>4
  <1>20. CASE UNCHANGED vars
    <2> USE <1>20
    <2>1. TypeOK'
      <3>1. request' = request /\ using' = using
        OBVIOUS
      <3>2. resource' = resource
        OBVIOUS
      <3>3. UNCHANGED <<runVars, ctxDone, serverVars, stopVars>>
        OBVIOUS
      <3> QED
        BY <3>1, <3>2, <3>3, TypesKept DEF TypeOK
    <2>2. (ServeInv /\ ShutdownInv /\ ReleaseAfterServing)'
      BY DEF TypeOK, ServeInv, ShutdownInv, ReleaseAfterServing, Active, Released
    <2>3. UseInv'
      BY DEF TypeOK, UseInv, ShutdownInv, Owned, Released
    <2>4. ResourceOrder'
      BY DEF TypeOK, UseInv, ResourceOrder, ShutdownInv, Owned, Released
    <2> QED
      BY <2>1, <2>2, <2>3, <2>4, ZenonT(60)
  <1> HIDE DEF IInv, vars, runVars, serverVars, stopVars, handlerVars
  <1> QED
    BY <1>1, <1>2, <1>3, <1>4, <1>5, <1>6, <1>7, <1>8, <1>9, <1>10, <1>11, <1>12,
       <1>13, <1>14, <1>15, <1>16, <1>17, <1>18, <1>19, <1>20 DEF Next, Run, Terminated

\* Every state of every run satisfies the inductive invariant.
THEOREM Invariance == Init /\ [][Next]_vars => []IInv
  BY InitIInv, NextIInv, PTL

\* Whatever ends Run, it goes on to its resources only when nothing is accepted
\* or served any more, and nil means that no request was cut off.
THEOREM ReleaseHolds == Spec => []ReleaseAfterServing
  <1>1. IInv => ReleaseAfterServing
    BY DEF IInv
  <1> QED
    BY <1>1, Invariance, PTL DEF Spec

\* Resources are closed in the reverse order of their registration, never under
\* a handler, and all of them.
THEOREM OrderHolds == Spec => []ResourceOrder
  <1>1. IInv => ResourceOrder
    BY DEF IInv
  <1> QED
    BY <1>1, Invariance, PTL DEF Spec

\* Requests arrive only once Serve was called, and errors keep their causes.
LEMMA NextCause == IInv /\ CauseInv /\ [Next]_vars => CauseInv'
  <1> SUFFICES ASSUME IInv, CauseInv, [Next]_vars PROVE CauseInv'
    OBVIOUS
  <1>1. /\ run = "start" => ~listening /\ serving = "no" /\ result = "none"
        /\ run \in {"select", "shutdown", "receive"} => serving # "no"
    BY Zenon DEF IInv, ServeInv, ShutdownInv
  <1>2. ASSUME NEW q \in Request, Arrive(q) PROVE CauseInv'
    BY <1>2, Zenon DEF Arrive, Connected, CauseInv, runVars, serverVars, stopVars
  <1>3. ASSUME NEW q \in Request, Finish(q) PROVE CauseInv'
    <2>1. Active' \subseteq Active
      BY <1>3 DEF Finish, Active, IInv, TypeOK
    <2>2. UNCHANGED <<runVars, serverVars, stopVars>>
      BY <1>3 DEF Finish
    <2> QED
      BY <2>1, <2>2 DEF CauseInv, runVars, serverVars, stopVars
  <1>4. ASSUME UNCHANGED <<runVars, serverVars, stopVars, request>> PROVE CauseInv'
    BY <1>4 DEF CauseInv, Active, runVars, serverVars, stopVars
  <1>5. CASE ServeFails \/ ServeCloses
    BY <1>5 DEF ServeFails, ServeCloses, ServeReturns, CauseInv, Active, runVars, stopVars,
                handlerVars
  <1>6. CASE NilContext \/ ListenFails \/ ListenSucceeds
    BY <1>1, <1>6 DEF NilContext, ListenFails, ListenSucceeds, CauseInv, Active, serverVars,
                      stopVars, handlerVars
  <1>7. CASE SelectError \/ SelectDone
    BY <1>1, <1>7 DEF SelectError, SelectDone, ServeResult, CauseInv, stopVars
  <1>8. CASE ShutdownDrains \/ ShutdownTimesOut \/ ReceiveServe
    BY <1>1, <1>8 DEF ShutdownDrains, ShutdownTimesOut, ReceiveServe, ServeResult, CauseInv,
                      serverVars, stopVars
  <1>9. CASE Return
    BY <1>9 DEF Return, CauseInv, Active, serverVars, stopVars, handlerVars
  <1>10. CASE \/ Cancel \/ Terminated \/ UNCHANGED vars
              \/ \E r \in Resource : Use(r) \/ CloseBegins(r) \/ CloseReturns(r)
              \/ \E q \in Request, r \in Resource : Acquire(q, r) \/ Release(q, r)
    <2>1. UNCHANGED <<runVars, serverVars, stopVars, request>>
      BY <1>10, Zenon DEF Cancel, Terminated, Use, CloseBegins, CloseReturns, Acquire, Release,
                          vars, handlerVars
    <2> QED
      BY <1>4, <2>1
  <1> QED
    BY <1>2, <1>3, <1>5, <1>6, <1>7, <1>8, <1>9, <1>10, Zenon DEF Next, Run

\* What the invariants say of the ways out of serving.
LEMMA DrainedByCause == Init /\ [][Next]_vars => []DrainedUnlessServeFailed
  <1>1. Init => CauseInv
    BY DEF Init, CauseInv, Active
  <1>2. IInv /\ CauseInv => DrainedUnlessServeFailed
    <2> SUFFICES ASSUME IInv, CauseInv, Released
                 PROVE  Active = {} \/ forced \/ (result = "serveError" /\ ~inShutdown)
      BY Zenon DEF DrainedUnlessServeFailed
    <2>1. result \in {"nil", "contextError", "listenError", "serveError", "shutdownError"}
      BY DEF IInv, TypeOK, ShutdownInv
    <2>2. (inShutdown => Active = {} \/ forced) /\ (result = "nil" => Active = {})
      BY Zenon DEF IInv, ReleaseAfterServing
    <2> QED
      BY <2>1, <2>2, Zenon DEF CauseInv
  <1> QED
    BY <1>1, <1>2, NextCause, Invariance, PTL

\* The order the documentation promises holds on every way out of serving but
\* the one on which Serve fails and Run has not begun to shut down.
THEOREM DrainHolds == Spec => []DrainedUnlessServeFailed
  BY DrainedByCause, PTL DEF Spec

\* The pool is one of the resources.
LEMMA PoolIsResource == Pool \in Resource
  BY AppAssumption, DatabaseAssumption DEF Pool, Resource

-----------------------------------------------------------------------------
(* The process takes the lifecycle's steps *)

\* A handler's step takes the pool, gives it back, returns, or leaves the
\* lifecycle alone.
LEMMA HandlerImplements ==
  ASSUME NEW q \in Request, HandlerStep(q)
  PROVE  Acquire(q, Pool) \/ Release(q, Pool) \/ Finish(q) \/ UNCHANGED vars
  <1>1. CASE WithinTransaction(q) \/ Append(q)
    BY <1>1 DEF WithinTransaction, Append
  <1>2. CASE CallbackReturns(q)
    BY <1>2 DEF CallbackReturns, CallbackFails, Commits, CommitFails, EndTx
  <1>3. CASE BeginSucceeds(q) \/ InsertBegins(q)
    BY <1>3 DEF BeginSucceeds, InsertBegins, Take
  <1>4. CASE BeginFails(q)
    BY <1>4 DEF BeginFails
  <1>5. CASE AppendFails(q) \/ Inserts(q) \/ InsertFails(q)
    BY <1>5 DEF AppendFails, Inserts, InsertFails, AppendReturns
  <1>6. CASE HandlerReturns(q)
    BY <1>6 DEF HandlerReturns
  <1> QED
    BY <1>1, <1>2, <1>3, <1>4, <1>5, <1>6 DEF HandlerStep, CallStep

\* Every step of the process is a step of the lifecycle or leaves it alone.
LEMMA StepImplements == [ApplicationNext]_allVars => [Next]_vars
  <1> SUFFICES ASSUME [ApplicationNext]_allVars PROVE [Next]_vars
    OBVIOUS
  <1>1. CASE Load \/ Create \/ Open \/ PingFails \/ Wire \/ RunReturns
    BY <1>1 DEF Load, Create, Open, PingFails, Wire, RunReturns
  <1>2. CASE PingSucceeds
    BY <1>2, PoolIsResource DEF PingSucceeds, Next
  <1>3. CASE \E r \in Resource : UseMore(r)
    BY <1>3 DEF UseMore, Next
  <1>4. CASE Listen
    BY <1>4 DEF Listen, Next, Run
  <1>5. CASE Serving
    BY <1>5 DEF Serving, Next, Run
  <1>6. CASE \E r \in Resource : CloseResource(r)
    BY <1>6 DEF CloseResource, Next, Run
  <1>7. CASE Signal \/ Server
    BY <1>7 DEF Signal, Server, Next
  <1>8. CASE Requests
    BY <1>8 DEF Requests, Next
  <1>9. CASE Handlers
    BY <1>9, PoolIsResource, HandlerImplements DEF Handlers, Alive, Next
  <1>10. CASE Exited \/ UNCHANGED allVars
    BY <1>10 DEF Exited, allVars
  <1> QED
    BY <1>1, <1>2, <1>3, <1>4, <1>5, <1>6, <1>7, <1>8, <1>9, <1>10 DEF ApplicationNext, Main

\* The process implements the lifecycle of AppLifecycle.
THEOREM ImplementsLifecycle == ApplicationSpec => Init /\ [][Next]_vars
  <1>1. ApplicationInit => Init
    BY DEF ApplicationInit
  <1> QED
    BY <1>1, StepImplements, PTL DEF ApplicationSpec

\* So the process releases its resources only after serving, and nil means
\* that no request was cut off.
THEOREM ProcessReleases == ApplicationSpec => []ReleaseAfterServing
  <1>1. IInv => ReleaseAfterServing
    BY DEF IInv
  <1> QED
    BY <1>1, ImplementsLifecycle, Invariance, PTL

\* So it closes them in order, never under a handler, and all of them.
THEOREM ProcessCloses == ApplicationSpec => []ResourceOrder
  <1>1. IInv => ResourceOrder
    BY DEF IInv
  <1> QED
    BY <1>1, ImplementsLifecycle, Invariance, PTL

\* So in a whole process, too, only a failed Serve leaves requests undrained.
THEOREM ProcessDrains == ApplicationSpec => []DrainedUnlessServeFailed
  BY ImplementsLifecycle, DrainedByCause, PTL

-----------------------------------------------------------------------------
(* What handlers are told *)

\* Before the first request nothing is stored or answered.
LEMMA InitHandlersInv == ApplicationInit => HandlersInv
  BY DEF ApplicationInit, DatabaseInit, HandlersInv, DatabaseTypeOK, HandlerInv

\* Steps of others leave the handlers and the tables alone.
LEMMA HandlersKept ==
  ASSUME HandlersInv, UNCHANGED <<handlerLocals, tables, using>>,
         \A q \in Request : request'[q] = request[q] \/ (request[q] = "none" /\ request'[q] = "active")
  PROVE  HandlersInv'
  <1> USE DEF handlerLocals, tables, HandlersInv
  <1>1. DatabaseTypeOK'
    BY ZenonT(60) DEF DatabaseTypeOK
  <1>2. \A q \in Request : HandlerInv(q)'
    BY ZenonT(60) DEF HandlerInv
  <1> QED
    BY <1>1, <1>2

\* A step of a handler leaves the other handlers alone.
LEMMA OthersKept ==
  ASSUME HandlersInv, NEW q \in Request, NEW u \in Request, u # q,
         call'[u] = call[u], inTx'[u] = inTx[u], answer'[u] = answer[u], appended'[u] = appended[u],
         row'[u] = row[u], event'[u] = event[u], using'[u] = using[u], request'[u] = request[u]
  PROVE  HandlerInv(u)'
  BY DEF HandlersInv, HandlerInv

\* The first event with an ID.
LEMMA FirstEvent ==
  ASSUME NEW e \in [Request -> Nat], NEW q \in Request, e[q] = 0
  PROVE  [e EXCEPT ![q] = e[q] + 1] \in [Request -> Nat] /\ [e EXCEPT ![q] = e[q] + 1][q] = 1
  <1>1. e[q] + 1 = 1 /\ 1 \in Nat
    OBVIOUS
  <1> QED
    BY <1>1, ZenonT(60)

\* A step of a handler preserves the invariant, for itself and the others.
LEMMA HandlersStep ==
  ASSUME HandlersInv, TypeOK, NEW q \in Request, HandlerStep(q)
  PROVE  HandlersInv'
  <1>0. request \in [Request -> {"none", "active", "done"}] /\ using \in [Request -> SUBSET Resource]
    BY DEF TypeOK
  <1> USE <1>0 DEF HandlersInv, DatabaseTypeOK, tables
  <1>1. CASE WithinTransaction(q)
    <2> USE <1>1 DEF WithinTransaction, MayCall, vars, handlerVars
    <2>1. DatabaseTypeOK'
      OBVIOUS
    <2>2. \A u \in Request : u # q => HandlerInv(u)'
      BY OthersKept, ZenonT(60)
    <2>3. HandlerInv(q)'
      BY DEF HandlerInv
    <2> QED
      BY <2>1, <2>2, <2>3
  <1>2. CASE Append(q)
    <2> USE <1>2 DEF Append, MayCall, vars, handlerVars
    <2>1. DatabaseTypeOK'
      OBVIOUS
    <2>2. \A u \in Request : u # q => HandlerInv(u)'
      BY OthersKept, ZenonT(60)
    <2>3. HandlerInv(q)'
      BY DEF HandlerInv
    <2> QED
      BY <2>1, <2>2, <2>3
  <1>3. CASE BeginFails(q)
    <2> USE <1>3 DEF BeginFails, vars, handlerVars
    <2>1. DatabaseTypeOK'
      OBVIOUS
    <2>2. \A u \in Request : u # q => HandlerInv(u)'
      BY OthersKept
    <2>3. ~row[q]
      BY ZenonT(60) DEF HandlerInv
    <2>4. HandlerInv(q)'
      BY <2>3, ZenonT(60) DEF HandlerInv
    <2> QED
      BY <2>1, <2>2, <2>4, ZenonT(60)
  <1>4. CASE BeginSucceeds(q)
    <2> USE <1>4 DEF BeginSucceeds, Take, Acquire
    <2>1. DatabaseTypeOK'
      OBVIOUS
    <2>2. \A u \in Request : u # q => HandlerInv(u)'
      BY OthersKept, ZenonT(60)
    <2>3. HandlerInv(q)'
      BY ZenonT(60) DEF HandlerInv
    <2> QED
      BY <2>1, <2>2, <2>3
  <1>5. CASE InsertBegins(q)
    <2> USE <1>5 DEF InsertBegins, Take, Acquire
    <2>1. DatabaseTypeOK'
      BY ZenonT(60)
    <2>2. \A u \in Request : u # q => HandlerInv(u)'
      BY OthersKept
    <2>3. HandlerInv(q)'
      BY ZenonT(60) DEF HandlerInv
    <2> QED
      BY <2>1, <2>2, <2>3
  <1>6. ASSUME NEW panics \in BOOLEAN, CallbackFails(q, panics) PROVE HandlersInv'
    <2> USE <1>6 DEF CallbackFails, EndTx, RollBack, Release
    <2>1. DatabaseTypeOK'
      OBVIOUS
    <2>2. \A u \in Request : u # q => HandlerInv(u)'
      BY OthersKept, ZenonT(60)
    <2>3. ~row[q]
      BY ZenonT(60) DEF HandlerInv
    <2>4. HandlerInv(q)'
      BY <2>3, ZenonT(60) DEF HandlerInv
    <2> QED
      BY <2>1, <2>2, <2>4
  <1>7. CASE Commits(q)
    <2> USE <1>7 DEF Commits, EndTx, Release
    <2>1. DatabaseTypeOK'
      BY SMTT(60)
    <2>2. \A u \in Request : u # q => HandlerInv(u)'
      BY OthersKept, ZenonT(60)
    <2>3. HandlerInv(q)'
      BY ZenonT(60) DEF HandlerInv
    <2> QED
      BY <2>1, <2>2, <2>3
  <1>8. CASE CommitFails(q)
    <2> USE <1>8 DEF CommitFails, EndTx, Release
    <2>1. DatabaseTypeOK'
      OBVIOUS
    <2>2. \A u \in Request : u # q => HandlerInv(u)'
      BY OthersKept, ZenonT(60)
    <2>3. HandlerInv(q)'
      BY DEF HandlerInv
    <2> QED
      BY <2>1, <2>2, <2>3, ZenonT(60)
  <1>9. CASE AppendFails(q)
    <2> USE <1>9 DEF AppendFails, AppendReturns, vars, handlerVars
    <2>1. DatabaseTypeOK'
      OBVIOUS
    <2>2. \A u \in Request : u # q => HandlerInv(u)'
      BY OthersKept, SMTT(60)
    <2>3. HandlerInv(q)'
      BY DEF HandlerInv
    <2> QED
      BY <2>1, <2>2, <2>3, ZenonT(60)
  <1>10. CASE Inserts(q)
    <2>1. PICK what \in {"nil", "unknown"} : AppendReturns(q, what)
      BY <1>10 DEF Inserts
    <2>2. event[q] = 0 /\ event' = [event EXCEPT ![q] = event[q] + 1]
      BY <1>10 DEF Inserts, NewID
    <2>3. /\ call' = [call EXCEPT ![q] = "nothing"] /\ inTx' = inTx /\ answer' = answer /\ row' = row
          /\ appended' = [appended EXCEPT ![q] = what]
      BY <2>1 DEF AppendReturns
    <2>4. request' = request /\ \A u \in Request : u # q => using'[u] = using[u]
      BY <2>1 DEF AppendReturns, Release, vars, handlerVars
    <2>5. inTx[q] => using' = using
      BY <2>1 DEF AppendReturns, vars, handlerVars
    <2>6. DatabaseTypeOK'
      <3>1. event' \in [Request -> Nat]
        BY <2>2, FirstEvent, ZenonT(60)
      <3> QED
        BY <2>3, <3>1, ZenonT(60)
    <2>7. \A u \in Request : u # q => HandlerInv(u)'
      BY <2>2, <2>3, <2>4, OthersKept, ZenonT(60)
    <2>8. HandlerInv(q)'
      <3>1. call'[q] = "nothing" /\ appended'[q] = what
        BY <2>3
      <3>2. event'[q] = 1 /\ event'[q] <= 1
        <4>1. event \in [Request -> Nat]
          OBVIOUS
        <4>2. event'[q] = 1
          BY ONLY <2>2, <4>1, FirstEvent, q \in Request, ZenonT(60)
        <4> QED
          BY ONLY <4>2
      <3>3. Pool \in using'[q] \/ ~inTx'[q]
        BY <2>3, <2>5 DEF HandlerInv
      <3> QED
        BY <2>3, <2>4, <3>1, <3>2, <3>3 DEF HandlerInv
    <2> QED
      BY <2>6, <2>7, <2>8
  <1>11. CASE InsertFails(q)
    <2>1. PICK what \in {"unknown", "duplicate"} :
             AppendReturns(q, what) /\ (what = "duplicate" => event[q] # 0)
      BY <1>11 DEF InsertFails, NewID
    <2>2. event' = event
      BY <1>11 DEF InsertFails
    <2>3. /\ call' = [call EXCEPT ![q] = "nothing"] /\ inTx' = inTx /\ answer' = answer /\ row' = row
          /\ appended' = [appended EXCEPT ![q] = what]
      BY <2>1 DEF AppendReturns
    <2>4. request' = request /\ \A u \in Request : u # q => using'[u] = using[u]
      BY <2>1, ZenonT(60) DEF AppendReturns, Release, vars, handlerVars
    <2>5. inTx[q] => using' = using
      BY <2>1 DEF AppendReturns, vars, handlerVars
    <2>6. DatabaseTypeOK'
      <3>1. event' \in [Request -> Nat]
        BY <2>2, ZenonT(60)
      <3> QED
        BY <2>3, <3>1, ZenonT(60)
    <2>7. \A u \in Request : u # q => HandlerInv(u)'
      BY <2>2, <2>3, <2>4, OthersKept
    <2>8. HandlerInv(q)'
      <3>1. call'[q] = "nothing" /\ appended'[q] = what
        BY <2>3, ZenonT(60)
      <3>2. event[q] \in Nat /\ event[q] <= 1 /\ event'[q] = event[q]
        BY <2>2 DEF HandlerInv
      <3>3. what \in {"nil", "duplicate"} => event[q] = 1
        <4>1. event[q] \in {0, 1}
          BY ONLY <3>2, SMTT(60)
        <4> QED
          BY ONLY <2>1, <4>1, ZenonT(60)
      <3>4. Pool \in using'[q] \/ ~inTx'[q]
        BY <2>3, <2>5, ZenonT(60) DEF HandlerInv
      <3> QED
        BY <2>3, <2>4, <3>1, <3>2, <3>3, <3>4 DEF HandlerInv
    <2> QED
      BY <2>6, <2>7, <2>8
  <1>12. CASE HandlerReturns(q)
    <2> USE <1>12 DEF HandlerReturns, Finish
    <2>1. DatabaseTypeOK'
      BY ZenonT(60)
    <2>2. \A u \in Request : u # q => HandlerInv(u)'
      BY OthersKept, ZenonT(60)
    <2>3. HandlerInv(q)'
      BY DEF HandlerInv
    <2> QED
      BY <2>1, <2>2, <2>3, SMTT(60)
  <1> HIDE <1>0 DEF HandlersInv, DatabaseTypeOK, tables
  <1> QED
    BY <1>1, <1>2, <1>3, <1>4, <1>5, <1>6, <1>7, <1>8, <1>9, <1>10, <1>11, <1>12
       DEF HandlerStep, CallStep, CallbackReturns

\* Every step of the process preserves what is known of handlers.
LEMMA HandlersNext == HandlersInv /\ TypeOK /\ [ApplicationNext]_allVars => HandlersInv'
  <1> SUFFICES ASSUME HandlersInv, TypeOK, [ApplicationNext]_allVars PROVE HandlersInv'
    OBVIOUS
  <1>1. CASE Handlers
    BY <1>1, HandlersStep, ZenonT(60) DEF Handlers, Alive
  <1>2. CASE Requests
    <2>1. PICK q \in Request : Arrive(q)
      BY <1>2 DEF Requests
    <2>2. UNCHANGED <<handlerLocals, tables, using>>
      BY <1>2, <2>1 DEF Requests, Arrive, databaseVars
    <2>3. \A u \in Request : \/ request'[u] = request[u]
                             \/ request[u] = "none" /\ request'[u] = "active"
      BY <2>1 DEF Arrive, TypeOK
    <2> QED
      BY <2>2, <2>3, HandlersKept
  <1>3. CASE UNCHANGED <<handlerLocals, tables, handlerVars>>
    BY <1>3, HandlersKept DEF handlerVars
  <1>4. ASSUME Main \/ Signal \/ Server \/ Exited \/ UNCHANGED allVars
        PROVE  UNCHANGED <<handlerLocals, tables, handlerVars>>
    <2> USE DEF databaseVars, vars
    <2>1. CASE Load \/ Create \/ Open \/ PingFails \/ Wire \/ RunReturns
      BY <2>1 DEF Load, Create, Open, PingFails, Wire, RunReturns
    <2>2. CASE PingSucceeds \/ \E r \in Resource : UseMore(r)
      BY <2>2 DEF PingSucceeds, UseMore, Use
    <2>3. CASE Listen
      BY <2>3, ZenonT(60) DEF Listen, ListenFails, ListenSucceeds
    <2>4. CASE Serving
      BY <2>4, SMTT(60)
         DEF Serving, SelectError, SelectDone, ShutdownDrains, ShutdownTimesOut, ReceiveServe,
                  Return
    <2>5. CASE \E r \in Resource : CloseResource(r)
      BY <2>5, ZenonT(60) DEF CloseResource, CloseBegins, CloseReturns
    <2>6. CASE Signal \/ Server
      BY <2>6 DEF Signal, Server, Cancel, ServeFails, ServeCloses, ServeReturns
    <2>7. CASE Exited \/ UNCHANGED allVars
      BY <2>7 DEF Exited, allVars
    <2> QED
      BY <1>4, <2>1, <2>2, <2>3, <2>4, <2>5, <2>6, <2>7, ZenonT(60) DEF Main
  <1> QED
    BY <1>1, <1>2, <1>3, <1>4 DEF ApplicationNext

\* Every state of every run satisfies the invariant of the handlers.
LEMMA HandlersInvariance == ApplicationSpec => []HandlersInv
  <1>1. IInv => TypeOK
    BY DEF IInv
  <1> QED
    BY <1>1, InitHandlersInv, HandlersNext, ImplementsLifecycle, Invariance, PTL DEF ApplicationSpec

\* WithinTransaction tells the truth about what is stored, whatever fails.
THEOREM OutcomeTold == ApplicationSpec => []AnswerTellsOutcome
  <1>1. HandlersInv => AnswerTellsOutcome
    BY DEF HandlersInv, HandlerInv, AnswerTellsOutcome
  <1> QED
    BY <1>1, HandlersInvariance, PTL

\* Repeating an Append does not store its event twice.
THEOREM StoredOnce == ApplicationSpec => []AppendedOnce
  <1>1. HandlersInv => AppendedOnce
    BY DEF HandlersInv, HandlerInv, AppendedOnce
  <1> QED
    BY <1>1, HandlersInvariance, PTL

-----------------------------------------------------------------------------
(* The start *)

\* A configuration that LoadWithOverrides returns is valid.
LEMMA LoadedIsValid ==
    ASSUME NEW g, LoadWithOverrides(g) # Bad
    PROVE  Validate(LoadWithOverrides(g))
  BY DEF LoadWithOverrides

\* What Validate accepts, New, Open and LimitConcurrency accept.
LEMMA ValidIsAccepted ==
    ASSUME NEW c, Validate(c)
    PROVE  AppAccepts(c) /\ LimiterAccepts(c) /\ (c["URL"] # Blank => PoolAccepts(c))
  <1>1. \A s \in (Duration \cup Count) \ {"QueueTimeout", "MinConnections"} : c[s] > 0
    BY DEF Validate
  <1>2. /\ {"ReadTimeout", "ReadHeaderTimeout", "WriteTimeout", "IdleTimeout", "ShutdownTimeout",
            "MaxHeaderBytes", "MaxConnections", "ConnectTimeout", "MaxMessageBytes",
            "MaxConcurrentRequests"} \subseteq (Duration \cup Count) \ {"QueueTimeout", "MinConnections"}
    BY DEF Duration, Count
  <1>3. \A s \in {"ReadTimeout", "ReadHeaderTimeout", "WriteTimeout", "IdleTimeout", "ShutdownTimeout",
            "MaxHeaderBytes", "MaxConnections", "ConnectTimeout", "MaxMessageBytes",
            "MaxConcurrentRequests"} : c[s] > 0
    BY <1>1, <1>2
  <1> QED
    BY <1>3 DEF Validate, AppAccepts, LimiterAccepts, PoolAccepts

\* The process starts as StartInv says.
LEMMA InitStartInv == ApplicationInit => StartInv /\ StartsOperable
  BY PoolIsResource, ZenonT(60) DEF ApplicationInit, Init, StartInv, StartsOperable

\* Every step of the process preserves what is known of its start.
LEMMA StartNext ==
    StartInv /\ StartsOperable /\ IInv /\ [ApplicationNext]_allVars => (StartInv /\ StartsOperable)'
  <1> SUFFICES ASSUME StartInv, StartsOperable, IInv, [ApplicationNext]_allVars
               PROVE  (StartInv /\ StartsOperable)'
    BY SMTT(60)
  <1> USE PoolIsResource DEF StartInv, StartsOperable, Goto, Exit
  <1>1. CASE Load
    <2>1. /\ main = "load" /\ run' = run /\ resource' = resource /\ result' = result
          /\ opened' = opened /\ checked' = checked
          /\ cfg' = LoadWithOverrides(given)
      BY <1>1, ZenonT(60) DEF Load, vars, runVars
    <2>2. CASE cfg' = Bad
      BY <1>1, <2>1, <2>2, ZenonT(60) DEF Load
    <2>3. CASE cfg' # Bad
      <3>1. Validate(cfg')
        BY <2>1, <2>3, LoadedIsValid
      <3>2. main' = "create" /\ exit' = exit
        BY <1>1, <2>3, ZenonT(60) DEF Load
      <3> HIDE DEF Goto, Exit
      <3> QED
        BY <2>1, <3>1, <3>2
    <2> QED
      BY <2>2, <2>3, ZenonT(60)
  <1>2. CASE Create
    <2>1. AppAccepts(cfg)
      BY <1>2, ValidIsAccepted, ZenonT(60) DEF Create
    <2> QED
      BY <1>2, <2>1, ZenonT(60) DEF Create, vars, runVars, Owned
  <1>3. CASE Open
    <2>1. PoolAccepts(cfg)
      BY <1>3, ValidIsAccepted, ZenonT(60) DEF Open
    <2> QED
      BY <1>3, <2>1 DEF Open, vars, runVars
  <1>4. CASE PingFails
    BY <1>4, SMTT(60) DEF PingFails, vars, runVars
  <1>5. CASE PingSucceeds
    <2>1. resource'[Pool] = "open"
      BY <1>5, ZenonT(60) DEF PingSucceeds, Use, IInv, TypeOK
    <2> QED
      BY <1>5, <2>1, ZenonT(60) DEF PingSucceeds, Use, runVars, OpenAccepts, Owned
  <1>6. ASSUME NEW r \in Resource, UseMore(r) PROVE (StartInv /\ StartsOperable)'
    <2>1. resource'[Pool] = resource[Pool]
      BY <1>6, ZenonT(60) DEF UseMore, Use, IInv, TypeOK
    <2> QED
      BY <1>6, <2>1 DEF UseMore, Use, runVars, mainVars, Owned
  <1>7. CASE Wire
    <2>1. LimiterAccepts(cfg)
      BY <1>7, ValidIsAccepted, ZenonT(60) DEF Wire
    <2> QED
      BY <1>7, <2>1, ZenonT(60) DEF Wire, vars, runVars, OpenAccepts, Owned
  <1>8. CASE Listen
    BY <1>8, ZenonT(60) DEF Listen, ListenFails, ListenSucceeds, runVars, Owned
  <1>9. CASE Serving
    <2>1. run # "start" /\ run' # "start" /\ result' # "contextError"
      BY <1>9, ZenonT(60)
         DEF Serving, SelectError, SelectDone, ShutdownDrains, ShutdownTimesOut, ReceiveServe, Return,
             ServeResult
    <2>2. UNCHANGED <<mainVars, resource>>
      BY <1>9, ZenonT(60)
         DEF Serving, SelectError, SelectDone, ShutdownDrains, ShutdownTimesOut, ReceiveServe, Return
    <2> QED
      BY <2>1, <2>2, ZenonT(60) DEF mainVars, Owned
  <1>10. ASSUME NEW r \in Resource, CloseResource(r) PROVE (StartInv /\ StartsOperable)'
    <2>1. CASE CloseBegins(r)
      <3>1. /\ run = "release" /\ run' = run /\ result' = result /\ opened' = opened
            /\ resource[r] = "open" /\ resource' = [resource EXCEPT ![r] = "closing"]
        BY <1>10, <2>1, ZenonT(60) DEF CloseResource, CloseBegins, CloseReturns, runVars
      <3>2. Owned(Pool)' <=> Owned(Pool)
        BY <3>1, ZenonT(60) DEF Owned, IInv, TypeOK
      <3> QED
        BY <1>10, <3>1, <3>2, ZenonT(60) DEF CloseResource
    <2>2. CASE CloseReturns(r)
      <3>1. /\ run' = run /\ result' = result
            /\ opened' = IF r = Pool THEN "closed" ELSE opened
            /\ resource[r] = "closing" /\ resource' = [resource EXCEPT ![r] = "closed"]
        BY <1>10, <2>2, ZenonT(60) DEF CloseResource, CloseBegins, CloseReturns, runVars
      <3>2. run # "start"
        BY <3>1, ZenonT(60) DEF IInv, UseInv, Released
      <3>3. /\ r = Pool => ~Owned(Pool)'
            /\ r # Pool => (Owned(Pool)' <=> Owned(Pool))
        BY <3>1, ZenonT(60) DEF Owned, IInv, TypeOK
      <3> QED
        BY <1>10, <3>1, <3>2, <3>3, ZenonT(60) DEF CloseResource
    <2> QED
      BY <1>10, <2>1, <2>2, ZenonT(60) DEF CloseResource
  <1>11. CASE RunReturns
    <2>1. ~Owned(Pool)
      BY <1>11, ZenonT(60) DEF RunReturns, IInv, ResourceOrder
    <2> QED
      BY <1>11, <2>1, ZenonT(60) DEF RunReturns, vars, runVars
  <1>12. CASE Signal \/ Requests \/ Handlers \/ Server \/ Exited \/ UNCHANGED allVars
    <2>1. /\ UNCHANGED mainVars
          /\ UNCHANGED <<run, result, resource>>
      <3>1. CASE Handlers
        <4>1. PICK q \in Request : HandlerStep(q)
          BY <3>1 DEF Handlers, Alive
        <4> QED
          BY <3>1, <4>1, ZenonT(60)
             DEF Handlers, Alive, HandlerStep, WithinTransaction, Append, CallbackReturns,
             CallbackFails, Commits, CommitFails, EndTx, CallStep, BeginSucceeds, BeginFails,
             InsertBegins, AppendFails, Inserts, InsertFails, AppendReturns, HandlerReturns, Take,
             Acquire, Release, Finish, vars, runVars
      <3> QED
        BY <1>12, <3>1, SMTT(60)
           DEF Signal, Requests, Server, Exited, Cancel, Arrive, ServeFails, ServeCloses,
           ServeReturns, allVars, vars, runVars
    <2> QED
      BY <2>1, ZenonT(60) DEF mainVars, Owned
  <1> QED
    BY <1>1, <1>2, <1>3, <1>4, <1>5, <1>6, <1>7, <1>8, <1>9, <1>10, <1>11, <1>12, ZenonT(60)
       DEF ApplicationNext, Main

\* A valid configuration starts an operable process, whatever it was given.
THEOREM Operable == ApplicationSpec => []StartsOperable
  BY InitStartInv, StartNext, ImplementsLifecycle, Invariance, PTL DEF ApplicationSpec

\* Only Load begins the stage at which the settings are complete.
LEMMA LayersNext == LayersInOrder /\ [ApplicationNext]_allVars => LayersInOrder'
  <1> SUFFICES ASSUME LayersInOrder, [ApplicationNext]_allVars, main' = "create",
                      NEW s \in Setting
               PROVE  cfg'[s] = Effective(given', s)
    BY DEF LayersInOrder
  <1>1. CASE Load
    <2>1. cfg' = LoadWithOverrides(given) /\ cfg' # Bad /\ given' = given
      BY <1>1 DEF Load, Goto, Exit
    <2> QED
      BY <2>1, LoadedIsEffective
  <1>2. CASE UNCHANGED <<main, given, cfg>>
    BY <1>2 DEF LayersInOrder
  <1>3. ASSUME ApplicationNext, ~Load PROVE UNCHANGED <<main, given, cfg>>
    <2>1. CASE Main
      BY <1>3, <2>1, ZenonT(60)
         DEF Main, Create, Open, PingFails, PingSucceeds, UseMore, Wire, Listen, Serving,
             CloseResource, RunReturns, Goto, Exit, mainVars
    <2>2. CASE Signal \/ Requests \/ Handlers \/ Server \/ Exited
      BY <2>2 DEF Signal, Requests, Handlers, Alive, Server, Exited, mainVars, allVars
    <2> QED
      BY <1>3, <2>1, <2>2, ZenonT(60) DEF ApplicationNext
  <1> QED
    BY <1>1, <1>2, <1>3, ZenonT(60) DEF allVars, mainVars

\* Every setting the process starts with has the value of the strongest layer
\* that gives it, for any flags, environment and files.
THEOREM LayersHold == ApplicationSpec => []LayersInOrder
  <1>1. ApplicationInit => LayersInOrder
    BY DEF ApplicationInit, LayersInOrder
  <1> QED
    BY <1>1, LayersNext, PTL DEF ApplicationSpec
=============================================================================

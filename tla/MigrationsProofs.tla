-------------------------- MODULE MigrationsProofs --------------------------
(***************************************************************************)
(* Proofs about Migrations for any number of instances, calls and          *)
(* releases.  The lock makes what an instance read stay what is recorded;  *)
(* the invariant of the work in an open transaction then gives each        *)
(* commit what it needs.                                                   *)
(***************************************************************************)
EXTENDS Migrations, SequenceTheorems, TLAPS

-----------------------------------------------------------------------------
(* Sequences of migrations *)

\* What has been executed are migrations.
LEMMA ExecutedType ==
    ASSUME NEW ms \in Seq(Migration)
    PROVE  Executed(ms) \subseteq Migration
  BY DEF Executed

\* Nothing is executed in an empty transaction.
LEMMA ExecutedEmpty == Executed(<<>>) = {}
  BY DEF Executed

\* Executing one more migration adds that one.
LEMMA ExecutedAppend ==
    ASSUME NEW ms \in Seq(Migration), NEW m \in Migration
    PROVE  Executed(Append(ms, m)) = Executed(ms) \cup {m}
  <1>1. DOMAIN Append(ms, m) = 1..(Len(ms) + 1) /\ DOMAIN ms = 1..Len(ms)
    OBVIOUS
  <1>2. \A i \in 1..Len(ms) : Append(ms, m)[i] = ms[i]
    OBVIOUS
  <1>3. Append(ms, m)[Len(ms) + 1] = m
    OBVIOUS
  <1> QED
    BY <1>1, <1>2, <1>3 DEF Executed

\* A commit adds what its transaction has executed.
LEMMA ExecutedConcat ==
    ASSUME NEW ms \in Seq(Migration), NEW ns \in Seq(Migration)
    PROVE  Executed(ms \o ns) = Executed(ms) \cup Executed(ns)
  <1> DEFINE all == ms \o ns
  <1>1. /\ DOMAIN all = 1..(Len(ms) + Len(ns))
        /\ DOMAIN ms = 1..Len(ms)
        /\ DOMAIN ns = 1..Len(ns)
    OBVIOUS
  <1>2. \A i \in 1..Len(ms) : all[i] = ms[i]
    OBVIOUS
  <1>3. \A i \in 1..Len(ns) : all[Len(ms) + i] = ns[i]
    OBVIOUS
  <1>4. \A i \in 1..(Len(ms) + Len(ns)) :
           i \in 1..Len(ms) \/ \E k \in 1..Len(ns) : i = Len(ms) + k
    <2> TAKE i \in 1..(Len(ms) + Len(ns))
    <2>1. CASE i <= Len(ms)
      BY <2>1
    <2>2. CASE i > Len(ms)
      <3>1. i - Len(ms) \in 1..Len(ns) /\ i = Len(ms) + (i - Len(ms))
        BY <2>2
      <3> QED
        BY <3>1, ZenonT(60)
    <2> QED
      BY <2>1, <2>2
  <1>5. Executed(all) \subseteq Executed(ms) \cup Executed(ns)
    BY <1>1, <1>2, <1>3, <1>4, SMTT(60) DEF Executed
  <1>6. Executed(ms) \subseteq Executed(all)
    BY <1>1, <1>2 DEF Executed
  <1>7. Executed(ns) \subseteq Executed(all)
    <2>1. \A k \in 1..Len(ns) : Len(ms) + k \in 1..(Len(ms) + Len(ns))
      OBVIOUS
    <2> QED
      BY <1>1, <1>3, <2>1, ZenonT(60) DEF Executed
  <1> QED
    BY <1>5, <1>6, <1>7

\* Versions are natural numbers.
LEMMA VersionType == \A m \in Migration : m.version \in Nat
  BY MigrationsAssumption DEF Migration

\* A migration above all those executed keeps them in order.
LEMMA OrderAppend ==
    ASSUME NEW ms \in Seq(Migration), NEW m \in Migration, InOrder(ms),
           \A n \in Executed(ms) : n.version < m.version
    PROVE  InOrder(Append(ms, m))
  <1>1. \A i \in 1..Len(ms) : ms[i].version < m.version
    BY DEF Executed
  <1>2. ASSUME NEW i \in DOMAIN Append(ms, m), NEW j \in DOMAIN Append(ms, m), i < j
        PROVE  Append(ms, m)[i].version < Append(ms, m)[j].version
    <2>1. i \in 1..Len(ms) /\ Append(ms, m)[i] = ms[i]
      BY <1>2
    <2>2. CASE j \in 1..Len(ms)
      <3>1. Append(ms, m)[j] = ms[j]
        BY <2>2
      <3> QED
        BY <1>2, <2>1, <2>2, <3>1 DEF InOrder
    <2>3. CASE j = Len(ms) + 1
      BY <1>1, <2>1, <2>3
    <2> QED
      BY <1>2, <2>2, <2>3
  <1> QED
    BY <1>2 DEF InOrder

\* Two histories of different versions make one without repetition.
LEMMA OnceConcat ==
    ASSUME NEW ms \in Seq(Migration), NEW ns \in Seq(Migration), Once(ms), InOrder(ns),
           \A n \in Executed(ns) : ~Recorded(Executed(ms), n.version)
    PROVE  Once(ms \o ns)
  <1> DEFINE all == ms \o ns
  <1>1. ASSUME NEW i \in DOMAIN all, NEW j \in DOMAIN all, i < j
        PROVE  all[i].version # all[j].version
    <2>1. i \in 1..(Len(ms) + Len(ns)) /\ j \in 1..(Len(ms) + Len(ns))
      OBVIOUS
    <2>2. CASE j <= Len(ms)
      <3>1. i \in DOMAIN ms /\ j \in DOMAIN ms /\ all[i] = ms[i] /\ all[j] = ms[j]
        BY <1>1, <2>1, <2>2
      <3> QED
        BY <1>1, <3>1 DEF Once
    <2>3. CASE i <= Len(ms) /\ j > Len(ms)
      <3>1. i \in DOMAIN ms /\ all[i] = ms[i]
        BY <2>1, <2>3
      <3>2. j - Len(ms) \in DOMAIN ns /\ all[j] = ns[j - Len(ms)]
        BY <2>1, <2>3
      <3>3. all[i] \in Executed(ms) /\ all[j] \in Executed(ns)
        BY <3>1, <3>2 DEF Executed
      <3> QED
        BY <3>3 DEF Recorded
    <2>4. CASE i > Len(ms)
      <3>1. i - Len(ms) \in DOMAIN ns /\ all[i] = ns[i - Len(ms)]
        BY <1>1, <2>1, <2>4
      <3>2. j - Len(ms) \in DOMAIN ns /\ all[j] = ns[j - Len(ms)]
        BY <1>1, <2>1, <2>4
      <3>3. all[i].version < all[j].version
        BY <1>1, <2>1, <3>1, <3>2 DEF InOrder
      <3>4. all[i] \in Migration /\ all[j] \in Migration
        BY <3>1, <3>2
      <3> QED
        BY <3>3, <3>4, VersionType
    <2> QED
      BY <2>1, <2>2, <2>3, <2>4
  <1> QED
    BY <1>1 DEF Once

\* Two ordered histories, one above the other, make one in order.
LEMMA OrderConcat ==
    ASSUME NEW ms \in Seq(Migration), NEW ns \in Seq(Migration), InOrder(ms), InOrder(ns),
           \A m \in Executed(ms), n \in Executed(ns) : m.version < n.version
    PROVE  InOrder(ms \o ns)
  <1> DEFINE all == ms \o ns
  <1>1. ASSUME NEW i \in DOMAIN all, NEW j \in DOMAIN all, i < j
        PROVE  all[i].version < all[j].version
    <2>1. i \in 1..(Len(ms) + Len(ns)) /\ j \in 1..(Len(ms) + Len(ns))
      OBVIOUS
    <2>2. CASE j <= Len(ms)
      <3>1. i \in DOMAIN ms /\ j \in DOMAIN ms /\ all[i] = ms[i] /\ all[j] = ms[j]
        BY <1>1, <2>1, <2>2
      <3> QED
        BY <1>1, <3>1 DEF InOrder
    <2>3. CASE i <= Len(ms) /\ j > Len(ms)
      <3>1. i \in DOMAIN ms /\ all[i] = ms[i]
        BY <2>1, <2>3
      <3>2. j - Len(ms) \in DOMAIN ns /\ all[j] = ns[j - Len(ms)]
        BY <2>1, <2>3
      <3>3. all[i] \in Executed(ms) /\ all[j] \in Executed(ns)
        BY <3>1, <3>2 DEF Executed
      <3> QED
        BY <3>3
    <2>4. CASE i > Len(ms)
      <3>1. i - Len(ms) \in DOMAIN ns /\ all[i] = ns[i - Len(ms)]
        BY <1>1, <2>1, <2>4
      <3>2. j - Len(ms) \in DOMAIN ns /\ all[j] = ns[j - Len(ms)]
        BY <1>1, <2>1, <2>4
      <3> QED
        BY <1>1, <2>1, <3>1, <3>2 DEF InOrder
    <2> QED
      BY <2>1, <2>2, <2>3, <2>4
  <1> QED
    BY <1>1 DEF InOrder

-----------------------------------------------------------------------------
(* The invariant *)

\* Before the first call nothing is recorded and nothing is open.
LEMMA InitIInv == Init => IInv
  <1> SUFFICES ASSUME Init PROVE IInv
    OBVIOUS
  <1>1. TypeOK
    BY MigrationsAssumption DEF Init, TypeOK
  <1>2. LockInv /\ WorkInv /\ SuccessMeansApplied
    BY DEF Init, LockInv, WorkInv, SuccessMeansApplied
  <1>3. applied = Executed(history) /\ Once(history)
    BY ExecutedEmpty DEF Init, Once
  <1> QED
    BY <1>1, <1>2, <1>3 DEF IInv

\* What an instance does outside its transaction, and the lock, the read, the
\* fault and the rollback of one, leave what is recorded alone.
LEMMA QuietStep ==
    ASSUME IInv, NEW r \in Runner,
           (\E ms \in Release : Begin(r, ms)) \/ Lock(r) \/ Read(r) \/ Fault(r) \/ Rollback(r)
    PROVE  IInv'
  <1> USE MigrationsAssumption DEF IInv, databaseVars, applyVars
  <1>1. UNCHANGED <<applied, history>>
    BY DEF Begin, Lock, Read, Fault, Rollback
  <1>2. (applied = Executed(history) /\ Once(history))'
    BY <1>1 DEF Executed, Once
  <1>3. ASSUME NEW ms \in Release, Begin(r, ms) PROVE IInv'
    <2> USE <1>3 DEF Begin
    <2>1. ms \in SUBSET Migration
      BY DEF Migration
    <2>2. TypeOK'
      BY <2>1, SMTT(60) DEF TypeOK
    <2>3. LockInv'
      BY DEF TypeOK, LockInv
    <2>4. WorkInv'
      BY DEF TypeOK, LockInv, WorkInv, InOrder
    <2>5. SuccessMeansApplied'
      BY DEF TypeOK, SuccessMeansApplied
    <2> QED
      BY <1>2, <2>2, <2>3, <2>4, <2>5
  <1>4. ASSUME Lock(r) PROVE IInv'
    <2> USE <1>4 DEF Lock, LockFree
    <2>1. TypeOK'
      BY DEF TypeOK
    <2>2. LockInv'
      BY DEF TypeOK, LockInv
    <2>3. WorkInv'
      BY DEF TypeOK, LockInv, WorkInv, InOrder
    <2>4. SuccessMeansApplied'
      BY DEF TypeOK, SuccessMeansApplied
    <2> QED
      BY <1>2, <2>1, <2>2, <2>3, <2>4
  <1>5. ASSUME Read(r) PROVE IInv'
    <2> USE <1>5 DEF Read
    <2>1. TypeOK'
      BY DEF TypeOK
    <2>2. LockInv'
      BY DEF TypeOK, LockInv
    <2>3. WorkInv'
      <3>1. work'[r] = <<>> /\ InOrder(work'[r]) /\ Executed(work'[r]) = {}
        <4>1. work'[r] = <<>>
          BY DEF LockInv
        <4> QED
          BY <4>1, ExecutedEmpty DEF InOrder
      <3>2. view'[r] = applied /\ todo'[r] = files[r] /\ files'[r] = files[r]
        BY DEF TypeOK
      <3>3. \A s \in Runner \ {r} : at'[s] # "apply"
        BY DEF TypeOK, LockInv
      <3> QED
        BY <1>1, <3>1, <3>2, <3>3 DEF WorkInv
    <2>4. SuccessMeansApplied'
      BY DEF TypeOK, SuccessMeansApplied
    <2> QED
      BY <1>2, <2>1, <2>2, <2>3, <2>4
  <1>6. ASSUME Fault(r) PROVE IInv'
    <2> USE <1>6 DEF Fault, Abort
    <2>1. TypeOK'
      BY DEF TypeOK
    <2>2. LockInv'
      BY DEF TypeOK, LockInv
    <2>3. WorkInv'
      BY DEF TypeOK, LockInv, WorkInv, InOrder
    <2>4. SuccessMeansApplied'
      BY DEF TypeOK, SuccessMeansApplied
    <2> QED
      BY <1>2, <2>1, <2>2, <2>3, <2>4
  <1>7. ASSUME Rollback(r) PROVE IInv'
    <2> USE <1>7 DEF Rollback, DropLock, FreeLock
    <2>1. TypeOK'
      BY DEF TypeOK
    <2>2. LockInv'
      BY DEF TypeOK, LockInv
    <2>3. WorkInv'
      BY DEF TypeOK, LockInv, WorkInv, InOrder
    <2>4. SuccessMeansApplied'
      BY DEF TypeOK, SuccessMeansApplied
    <2> QED
      BY <1>2, <2>1, <2>2, <2>3, <2>4
  <1> QED
    BY <1>3, <1>4, <1>5, <1>6, <1>7

\* A migration that was applied before is skipped or refused.
LEMMA KnownStep ==
    ASSUME IInv, NEW r \in Runner, NEW m \in todo[r], Known(r, m)
    PROVE  IInv'
  <1> USE DEF IInv, Known, databaseVars
  <1>1. m \in Migration
    BY DEF TypeOK
  <1>2. (applied = Executed(history) /\ Once(history))'
    BY DEF Executed, Once
  <1>3. CASE Unchanged(r, m)
    <2>1. UNCHANGED <<at, result, applied, lock, files, view, work>>
      BY <1>3
    <2>2. todo' = [todo EXCEPT ![r] = @ \ {m}]
      BY <1>3
    <2>3. TypeOK'
      BY <2>1, <2>2 DEF TypeOK
    <2>4. LockInv' /\ SuccessMeansApplied'
      BY <2>1 DEF LockInv, SuccessMeansApplied
    <2>5. m \in applied
      BY <1>3 DEF Unchanged, WorkInv
    <2>6. WorkInv'
      <3> SUFFICES ASSUME NEW s \in Runner, at[s] = "apply"
                   PROVE  /\ view[s] = applied
                          /\ todo'[s] \subseteq files[s]
                          /\ Executed(work[s]) \subseteq files[s]
                          /\ files[s] \ todo'[s] \subseteq applied \cup Executed(work[s])
                          /\ \A k \in Executed(work[s]) :
                                /\ ~Recorded(applied, k.version)
                                /\ \A n \in todo'[s] : k.version < n.version
                          /\ InOrder(work[s])
        BY <2>1 DEF WorkInv, InOrder, Executed, Recorded
      <3>1. todo'[s] = IF s = r THEN todo[s] \ {m} ELSE todo[s]
        BY <2>2, ZenonT(60) DEF TypeOK
      <3> QED
        BY <2>5, <3>1 DEF WorkInv
    <2> QED
      BY <1>2, <2>3, <2>4, <2>6
  <1>4. CASE ~Unchanged(r, m)
    <2>1. UNCHANGED <<applied, lock, files, view, work, todo>> /\ Abort(r, "changed")
      BY <1>4
    <2> USE <2>1 DEF Abort
    <2>2. TypeOK'
      BY DEF TypeOK
    <2>3. LockInv'
      BY DEF TypeOK, LockInv
    <2>4. SuccessMeansApplied'
      BY DEF TypeOK, SuccessMeansApplied
    <2>5. WorkInv'
      BY ZenonT(60) DEF TypeOK, LockInv, WorkInv, InOrder
    <2> QED
      BY <1>2, <2>2, <2>3, <2>4, <2>5
  <1> QED
    BY <1>3, <1>4

\* A pending migration never meets a record of its version: the rows the
\* holder of the lock has read are all there are.
LEMMA ExecuteStep ==
    ASSUME IInv, NEW r \in Runner, NEW m \in todo[r], Execute(r, m)
    PROVE  IInv'
  <1> USE DEF IInv, Execute, databaseVars
  <1>1. m \in Migration /\ m \in files[r] /\ Loadable(files[r]) /\ lock = r
    BY ZenonT(60) DEF TypeOK, LockInv, WorkInv
  <1>2. (applied = Executed(history) /\ Once(history))'
    BY DEF Executed, Once
  <1>3. ~Recorded(applied, m.version)
    BY DEF WorkInv
  <1>4. UNCHANGED <<applied, at, result, lock, files, view>>
    BY <1>3
  <1>5. /\ todo' = [todo EXCEPT ![r] = @ \ {m}]
        /\ work' = [work EXCEPT ![r] = Append(@, m)]
    BY <1>3
  <1>6. TypeOK'
    BY <1>1, <1>4, <1>5 DEF TypeOK
  <1>7. LockInv' /\ SuccessMeansApplied'
    BY <1>1, <1>4, <1>5, ZenonT(60) DEF TypeOK, LockInv, SuccessMeansApplied
  <1>8. \A s \in Runner : at[s] = "apply" => s = r
    BY <1>1 DEF LockInv
  <1>9. /\ work[r] \in Seq(Migration)
        /\ work'[r] = Append(work[r], m)
        /\ todo'[r] = todo[r] \ {m}
    BY <1>5 DEF TypeOK
  <1>10. Executed(work'[r]) = Executed(work[r]) \cup {m}
    BY <1>1, <1>9, ExecutedAppend, ZenonT(60)
  <1>11. InOrder(work'[r])
    <2>1. InOrder(work[r]) /\ \A n \in Executed(work[r]) : n.version < m.version
      BY DEF WorkInv
    <2> QED
      BY <1>1, <1>9, <2>1, OrderAppend, ZenonT(60)
  <1>12. \A n \in todo'[r] : m.version < n.version
    <2> TAKE n \in todo'[r]
    <2>1. n \in files[r] /\ n # m /\ n \in Migration /\ m.version <= n.version
      BY <1>9, ZenonT(60) DEF WorkInv, TypeOK, IsFirst
    <2>2. m.version # n.version
      BY <1>1, <2>1, ZenonT(60) DEF Loadable
    <2> QED
      BY <1>1, <2>1, <2>2, VersionType
  <1>13. /\ view'[r] = applied'
         /\ todo'[r] \subseteq files'[r]
         /\ Executed(work'[r]) \subseteq files'[r]
         /\ files'[r] \ todo'[r] \subseteq applied' \cup Executed(work'[r])
    BY <1>1, <1>4, <1>9, <1>10, ZenonT(60) DEF WorkInv
  <1>14. \A k \in Executed(work'[r]) :
            /\ ~Recorded(applied', k.version)
            /\ \A n \in todo'[r] : k.version < n.version
    BY <1>3, <1>4, <1>9, <1>10, <1>12, ZenonT(60) DEF WorkInv
  <1>15. WorkInv'
    BY <1>4, <1>8, <1>11, <1>13, <1>14, ZenonT(60) DEF WorkInv
  <1> QED
    BY <1>2, <1>6, <1>7, <1>15

\* A commit adds to what is recorded what takes effect, each version for the
\* first time, and completes the files of its caller.
LEMMA CommitStep ==
    ASSUME IInv, NEW r \in Runner, NEW heard \in BOOLEAN, Commit(r, heard)
    PROVE  IInv'
  <1> USE DEF IInv, Commit, Record, FreeLock
  <1>1. lock = r /\ work[r] \in Seq(Migration) /\ history \in Seq(Migration)
    BY DEF TypeOK, LockInv
  <1>2. applied' = applied \cup Executed(work[r]) /\ Executed(work[r]) \subseteq Migration
    BY <1>1, ExecutedType
  <1>3. TypeOK'
    BY <1>1, <1>2 DEF TypeOK
  <1>4. LockInv'
    BY <1>1, ZenonT(60) DEF TypeOK, LockInv
  <1>5. WorkInv'
    <2>1. \A s \in Runner : at'[s] # "apply"
      BY <1>1 DEF TypeOK, LockInv
    <2> QED
      BY <2>1 DEF WorkInv
  <1>6. SuccessMeansApplied'
    <2>1. files[r] \subseteq applied'
      BY <1>2 DEF WorkInv
    <2> SUFFICES ASSUME NEW s \in Runner
                 PROVE  result'[s] # "conflict" /\ (result'[s] = "ok" => files'[s] \subseteq applied')
      BY DEF SuccessMeansApplied
    <2>2. CASE s = r
      BY <2>1, <2>2, ZenonT(60) DEF TypeOK
    <2>3. CASE s # r
      BY <1>2, <2>3 DEF TypeOK, SuccessMeansApplied
    <2> QED
      BY <2>2, <2>3
  <1>7. applied' = Executed(history')
    BY <1>1, <1>2, ExecutedConcat
  <1>8. Once(history')
    <2>1. InOrder(work[r]) /\ \A n \in Executed(work[r]) : ~Recorded(Executed(history), n.version)
      BY DEF WorkInv
    <2> QED
      BY <1>1, <2>1, OnceConcat
  <1> QED
    BY <1>3, <1>4, <1>5, <1>6, <1>7, <1>8

\* A step that changes nothing.
LEMMA StutterStep == IInv /\ UNCHANGED vars => IInv'
  <1> SUFFICES ASSUME IInv, UNCHANGED vars PROVE IInv'
    OBVIOUS
  <1> USE DEF vars, databaseVars, applyVars, IInv
  <1>1. TypeOK' /\ LockInv' /\ SuccessMeansApplied'
    BY ZenonT(60) DEF TypeOK, LockInv, SuccessMeansApplied
  <1>2. WorkInv'
    <2> SUFFICES ASSUME NEW r \in Runner, at[r] = "apply"
                 PROVE  /\ view[r] = applied
                        /\ todo[r] \subseteq files[r]
                        /\ Executed(work[r]) \subseteq files[r]
                        /\ files[r] \ todo[r] \subseteq applied \cup Executed(work[r])
                        /\ \A m \in Executed(work[r]) :
                              /\ ~Recorded(applied, m.version)
                              /\ \A n \in todo[r] : m.version < n.version
                        /\ InOrder(work[r])
      BY DEF WorkInv
    <2> QED
      BY ZenonT(60) DEF WorkInv
  <1>3. (applied = Executed(history) /\ Once(history))'
    BY DEF Executed, Once
  <1> QED
    BY <1>1, <1>2, <1>3

\* Every step of an instance, the fault of any of them included, preserves the
\* invariant.
LEMMA NextIInv == IInv /\ [Next]_vars => IInv'
  <1> SUFFICES ASSUME IInv, [Next]_vars PROVE IInv'
    OBVIOUS
  <1>1. CASE UNCHANGED vars
    BY <1>1, StutterStep
  <1>2. ASSUME NEW r \in Runner, (\E ms \in Release : Begin(r, ms)) \/ Apply(r) \/ Fault(r)
        PROVE  IInv'
    <2>1. CASE (\E ms \in Release : Begin(r, ms)) \/ Lock(r) \/ Read(r) \/ Fault(r) \/ Rollback(r)
      BY <2>1, QuietStep
    <2>2. CASE \E m \in todo[r] : Known(r, m) \/ Execute(r, m)
      BY <2>2, KnownStep, ExecuteStep
    <2>3. CASE \E heard \in BOOLEAN : Commit(r, heard)
      BY <2>3, CommitStep
    <2> QED
      BY <1>2, <2>1, <2>2, <2>3 DEF Apply
  <1> QED
    BY <1>1, <1>2 DEF Next

\* The invariant holds in every state.
LEMMA Invariance == Spec => []IInv
  BY InitIInv, NextIInv, PTL DEF Spec

\* For any instances, releases and calls: Apply returns nil only when every
\* migration of the caller's release is in effect in the caller's form, and
\* instances that race never fail because of each other.
THEOREM SuccessHolds == Spec => []SuccessMeansApplied
  <1>1. IInv => SuccessMeansApplied
    BY DEF IInv
  <1> QED
    BY <1>1, Invariance, PTL

\* Whatever releases the instances run: exactly the migrations that took effect
\* are recorded, and the SQL of no version takes effect twice.
THEOREM OnceHolds == Spec => [](applied = Executed(history) /\ Once(history))
  <1>1. IInv => applied = Executed(history) /\ Once(history)
    BY DEF IInv
  <1> QED
    BY <1>1, Invariance, PTL

\* The lock keeps every other instance from the table until the transaction of
\* the one that works on it has ended, even if that one is gone.
THEOREM OneWorks == Spec => []OneMigrator
  <1>1. IInv => OneMigrator
    BY DEF IInv, LockInv, OneMigrator
  <1> QED
    BY <1>1, Invariance, PTL

\* For any releases, instances and faults: nothing that took effect is undone,
\* and a transaction brings a whole release into effect or nothing.
THEOREM WholeHolds == Spec => WholeReleases
  <1> DEFINE Whole ==
        /\ \A i \in DOMAIN history : i \in DOMAIN history' /\ history'[i] = history[i]
        /\ applied \subseteq applied'
        /\ applied' # applied =>
              \E r \in Runner : files[r] \in Release /\ files[r] \subseteq applied'
  <1>1. IInv /\ [Next]_vars => [Whole]_vars
    <2> SUFFICES ASSUME IInv, Next PROVE Whole
      OBVIOUS
    <2>1. ASSUME NEW r \in Runner, NEW heard \in BOOLEAN, Commit(r, heard) PROVE Whole
      <3>1. /\ at[r] = "apply" /\ todo[r] = {}
            /\ applied' = applied \cup Executed(work[r]) /\ history' = history \o work[r]
        BY <2>1 DEF Commit, Record
      <3>2. files[r] \in Release /\ files[r] \subseteq applied'
        BY <3>1 DEF IInv, LockInv, WorkInv
      <3>3. history \in Seq(Migration) /\ work[r] \in Seq(Migration)
        BY DEF IInv, TypeOK
      <3>4. \A i \in DOMAIN history : i \in DOMAIN history' /\ history'[i] = history[i]
        BY <3>1, <3>3
      <3> QED
        BY <3>1, <3>2, <3>4
    <2>2. ASSUME NEW r \in Runner,
                 \/ (\E ms \in Release : Begin(r, ms)) \/ Lock(r) \/ Read(r) \/ Fault(r) \/ Rollback(r)
                 \/ \E m \in todo[r] : Known(r, m) \/ Execute(r, m)
          PROVE  Whole
      <3>1. UNCHANGED databaseVars
        BY <2>2, Zenon DEF Begin, Lock, Read, Fault, Rollback, Known, Execute
      <3> QED
        BY <3>1, Zenon DEF databaseVars
    <2> HIDE DEF Whole
    <2> QED
      BY <2>1, <2>2, Zenon DEF Next, Apply
  <1> QED
    BY <1>1, Invariance, PTL DEF Spec, WholeReleases

-----------------------------------------------------------------------------
(* The order of versions *)

\* The order is there before the first call.
LEMMA InitOrder == Init => OrderInv
  BY DEF Init, OrderInv, InOrder, NoGaps

\* When releases only append, a pending migration leaves no gap below it, so a
\* commit adds only versions above all that are recorded.
LEMMA NextOrder ==
    ASSUME AppendOnly
    PROVE  IInv /\ OrderInv /\ [Next]_vars => OrderInv'
  <1> SUFFICES ASSUME IInv, OrderInv, [Next]_vars PROVE OrderInv'
    OBVIOUS
  <1> USE DEF IInv
  <1>1. ASSUME UNCHANGED <<applied, history, work>>, \A s \in Runner : at'[s] = "apply" => at[s] = "apply"
        PROVE  OrderInv'
    BY <1>1 DEF OrderInv, InOrder, NoGaps, Executed, Recorded
  <1>2. CASE UNCHANGED vars
    BY <1>1, <1>2 DEF vars, databaseVars, applyVars
  <1>3. ASSUME NEW r \in Runner, (\E ms \in Release : Begin(r, ms)) \/ Lock(r) \/ Fault(r)
        PROVE  OrderInv'
    <2>1. UNCHANGED <<applied, history, work>>
      BY <1>3 DEF Begin, Lock, Fault, databaseVars, applyVars
    <2>2. \A s \in Runner : at'[s] = "apply" => at[s] = "apply"
      BY <1>3, ZenonT(60) DEF Begin, Lock, Fault, Abort, TypeOK
    <2> QED
      BY <1>1, <2>1, <2>2
  <1>4. ASSUME NEW r \in Runner, Read(r) PROVE OrderInv'
    <2> USE <1>4 DEF Read, databaseVars
    <2>1. work[r] = <<>> /\ UNCHANGED <<applied, history, work>>
      BY DEF LockInv
    <2>2. \A s \in Runner : at'[s] = "apply" => s = r
      BY ZenonT(60) DEF TypeOK, LockInv
    <2>3. NoGaps(applied') /\ applied' \cup Executed(work'[r]) = applied'
      BY <2>1, ExecutedEmpty DEF OrderInv
    <2>4. InOrder(history')
      BY <2>1 DEF OrderInv
    <2> QED
      BY <2>2, <2>3, <2>4 DEF OrderInv
  <1>5. ASSUME NEW r \in Runner, Rollback(r) PROVE OrderInv'
    <2> USE <1>5 DEF Rollback, databaseVars
    <2>1. \A s \in Runner : at'[s] = "apply" => at[s] = "apply" /\ work'[s] = work[s]
      BY DEF TypeOK
    <2> QED
      BY <2>1 DEF OrderInv, InOrder, NoGaps, Executed, Recorded
  <1>6. ASSUME NEW r \in Runner, NEW m \in todo[r], Known(r, m) PROVE OrderInv'
    <2>1. UNCHANGED <<applied, history, work>>
      BY <1>6 DEF Known, databaseVars
    <2>2. \A s \in Runner : at'[s] = "apply" => at[s] = "apply"
      BY <1>6, SMTT(60) DEF Known, Abort, TypeOK
    <2> QED
      BY <1>1, <2>1, <2>2
  <1>7. ASSUME NEW r \in Runner, NEW m \in todo[r], Execute(r, m) PROVE OrderInv'
    <2> USE <1>7 DEF Execute, databaseVars
    <2> DEFINE rows == applied \cup Executed(work[r])
    <2>1. /\ UNCHANGED <<applied, history, at>>
          /\ work' = [work EXCEPT ![r] = Append(@, m)]
      BY DEF WorkInv
    <2>2. m \in Migration /\ m \in files[r] /\ files[r] \in Release /\ Loadable(files[r])
      BY DEF TypeOK, LockInv, WorkInv
    <2>3. Executed(work'[r]) = Executed(work[r]) \cup {m}
      BY <2>1, <2>2, ExecutedAppend, SMTT(60) DEF TypeOK
    <2>4. NoGaps(rows)
      BY DEF OrderInv
    <2>5. ASSUME NEW ns \in Release, Loadable(ns), NEW n \in ns, n.version < m.version
          PROVE  Recorded(rows, n.version)
      <3>1. PICK k \in files[r] : k.version = n.version
        BY <2>2, <2>5 DEF AppendOnly, Recorded
      <3>2. k \notin todo[r]
        <4>1. k \in Migration
          BY ZenonT(60) DEF TypeOK
        <4> QED
          BY <2>2, <2>5, <3>1, <4>1, VersionType DEF IsFirst
      <3>3. k \in rows
        BY <3>2, ZenonT(60) DEF WorkInv
      <3> QED
        BY <3>1, <3>3, ZenonT(60) DEF Recorded
    <2>6. NoGaps(rows \cup {m})
      BY <2>4, <2>5, SMTT(60) DEF NoGaps, Recorded
    <2>7. \A s \in Runner : at'[s] = "apply" => s = r
      BY <2>1, ZenonT(60) DEF TypeOK, LockInv
    <2>8. applied' \cup Executed(work'[r]) = rows \cup {m}
      BY <2>1, <2>3, ZenonT(60)
    <2>9. InOrder(history') /\ NoGaps(applied')
      BY <2>1, ZenonT(60) DEF OrderInv
    <2> QED
      BY <2>6, <2>7, <2>8, <2>9, ZenonT(60) DEF OrderInv
  <1>8. ASSUME NEW r \in Runner, NEW heard \in BOOLEAN, Commit(r, heard) PROVE OrderInv'
    <2> USE <1>8 DEF Commit, Record
    <2>1. applied' = applied \cup Executed(work[r]) /\ history' = history \o work[r]
      OBVIOUS
    <2>2. NoGaps(applied')
      BY <2>1, ZenonT(60) DEF OrderInv
    <2>3. \A s \in Runner : at'[s] # "apply"
      BY DEF TypeOK, LockInv
    <2>4. ASSUME NEW m \in applied, NEW n \in Executed(work[r])
          PROVE  m.version < n.version
      <3>1. n \in files[r] /\ files[r] \in Release /\ Loadable(files[r])
        BY DEF LockInv, WorkInv
      <3>2. ~Recorded(applied, n.version)
        BY DEF WorkInv
      <3>3. ~(n.version < m.version) /\ n.version # m.version
        BY <3>1, <3>2 DEF OrderInv, NoGaps, Recorded
      <3>4. m \in Migration /\ n \in Migration
        BY <3>1, ZenonT(60) DEF TypeOK, Migration
      <3> QED
        BY <3>3, <3>4, VersionType, SMTT(60)
    <2>5. InOrder(history')
      <3>1. history \in Seq(Migration) /\ work[r] \in Seq(Migration)
        BY ZenonT(60) DEF TypeOK
      <3>2. InOrder(history) /\ InOrder(work[r])
        BY DEF OrderInv, WorkInv
      <3> QED
        BY <2>1, <2>4, <3>1, <3>2, OrderConcat
    <2> QED
      BY <2>2, <2>3, <2>5 DEF OrderInv
  <1> QED
    BY <1>2, <1>3, <1>4, <1>5, <1>6, <1>7, <1>8 DEF Next, Apply

\* When releases only append versions, which the code leaves to those who write
\* them: the SQL of each version takes effect once and in the order of versions,
\* and exactly those versions are recorded, whatever fails and is retried.
THEOREM OrderHolds == ASSUME AppendOnly PROVE Spec => []OnceAndRecorded
  <1>1. IInv /\ OrderInv => OnceAndRecorded
    BY DEF IInv, OrderInv, OnceAndRecorded
  <1> QED
    BY <1>1, Invariance, InitOrder, NextOrder, PTL DEF Spec
=============================================================================

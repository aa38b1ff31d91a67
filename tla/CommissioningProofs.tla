------------------------ MODULE CommissioningProofs ------------------------
(***************************************************************************)
(* Commissioning for any number of fabrics, keys, roots and administrators *)
(* and any length of time: the bound on a fail-safe context, the books of  *)
(* the key store, the fate of an uncommitted fabric and of a committed     *)
(* one, and what a reused fabric index can still mean.                     *)
(***************************************************************************)
EXTENDS Commissioning, FiniteSetTheorems, WellFoundedInduction, TLAPS

USE FailSafeAssumption, CommissioningAssumption DEF Indexes, NoFabric

-----------------------------------------------------------------------------
\* A set of indexes has a least one, which Least names
LEMMA LeastIsLeast ==
    ASSUME NEW S, S \subseteq Indexes, S # {}
    PROVE  Least(S) \in S
<1> DEFINE R == {ss \in Nat \X Nat : ss[1] < ss[2]}
<1>1. IsWellFoundedOn(R, Nat)
  BY NatLessThanWellFounded DEF OpToRel
<1>2. S \subseteq Nat
  OBVIOUS
<1> HIDE DEF R
<1>3. PICK i \in S : \A j \in S : ~(<<j, i>> \in R)
  BY Zenon, <1>1, <1>2, WFMin
<1>4. \A j \in S : i <= j
  <2> SUFFICES ASSUME NEW j \in S, ~(i <= j) PROVE FALSE
    OBVIOUS
  <2>1. i \in Nat /\ j \in Nat /\ j < i
    BY <1>2
  <2>2. <<j, i>> \in R
    BY <2>1 DEF R
  <2> QED BY <2>2, <1>3
<1> QED BY Zenon, <1>4 DEF Least

\* While the table has room allocate_index finds an index that is not in use
LEMMA AllocatesFree ==
    ASSUME TypeOK, Cardinality(Joined) < Capacity
    PROVE  AllocateIndex \in Indexes \ Joined
<1>1. Indexes \ Joined # {}
  <2>1. Cardinality(Indexes) = MaxIndex
    BY FS_Interval
  <2>2. Joined # Indexes
    BY <2>1 DEF TypeOK
  <2> QED BY Zenon, <2>2 DEF TypeOK
<1>2. Above \subseteq Indexes \ Joined
  BY DEF Above
<1>3. CASE Above # {}
  BY Zenon, <1>2, <1>3, LeastIsLeast DEF AllocateIndex
<1>4. CASE Above = {}
  BY <1>1, <1>4, LeastIsLeast DEF AllocateIndex
<1> QED BY <1>3, <1>4

-----------------------------------------------------------------------------
\* The contexts arm and record make are contexts
LEMMA ContextTypes ==
    /\ \A seconds \in Nat, i \in Indexes \cup {NoFabric} : NewContext(seconds, i) \in Armed
    /\ \A a \in Armed, seconds \in Nat : Rearmed(a, seconds) \in Armed
    /\ \A a \in Armed : Elapsed(a) \in Armed
    /\ \A a \in Armed, step \in {"added_noc", "updated_noc", "csr_requested",
                                  "added_trusted_root"} : Recorded(a, step) \in Armed
    /\ \A a \in Armed : Cleanup(a) \in Cleanups
<1>1. \A seconds \in Nat, i \in Indexes \cup {NoFabric} : NewContext(seconds, i) \in Armed
  BY DEF NewContext, Deadline, Armed, Progress
<1>2. \A a \in Armed, seconds \in Nat : Rearmed(a, seconds) \in Armed
  BY DEF Rearmed, Deadline, Armed, Progress
<1>3. \A a \in Armed : Elapsed(a) \in Armed
  <2> TAKE a \in Armed
  <2>1. \A n \in 0 .. MaxCumulative : Elapse(n) \in 0 .. MaxCumulative
    BY DEF Elapse
  <2>2. Elapse(a.expires) \in 0 .. MaxCumulative /\ Elapse(a.cumulative) \in 0 .. MaxCumulative
    BY <2>1 DEF Armed
  <2>3. (IF a.held < MaxCumulative THEN a.held + 1 ELSE a.held) \in 0 .. MaxCumulative
    BY DEF Armed
  <2> QED BY Zenon, <2>2, <2>3 DEF Elapsed, Armed
<1>4. \A a \in Armed, step \in {"added_noc", "updated_noc", "csr_requested",
                                 "added_trusted_root"} : Recorded(a, step) \in Armed
  BY Zenon DEF Recorded, Armed, Progress
<1>5. \A a \in Armed : Cleanup(a) \in Cleanups
  BY DEF Cleanup, Cleanups, UsedNoc, Armed, Progress
<1> QED BY <1>1, <1>2, <1>3, <1>4, <1>5

\* The three things an ArmFailSafe can do: roll the context back, find none, or leave
\* the live one armed, by its own administrator's re-arming or by refusing another's
ArmRolls(s, seconds) ==
    /\ failsafe # None
    /\ failsafe' = None \/ failsafe' = NewContext(seconds, s.fabric)
    /\ \E anew \in BOOLEAN : Rollback(Cleanup(failsafe), anew)

ArmFinds(s, seconds) ==
    /\ failsafe = None
    /\ failsafe' = None \/ failsafe' = NewContext(seconds, s.fabric)
    /\ \E anew \in BOOLEAN : NoRollback(anew)

ArmKeeps(s, seconds) ==
    /\ failsafe # None
    /\ failsafe' = failsafe \/ failsafe' = Rearmed(failsafe, seconds)
    /\ NoRollback(FALSE)

\* FailSafe::arm, as the ArmFailSafe handler uses it, does one of the three
LEMMA ArmEffect ==
    ASSUME TypeOK, NEW s \in sessions, NEW seconds \in Lengths, ArmFailSafe(s, seconds)
    PROVE  ArmRolls(s, seconds) \/ ArmFinds(s, seconds) \/ ArmKeeps(s, seconds)
<1> DEFINE busy == WindowOpen /\ OverCase(s)
           result == Arm(failsafe, seconds, s.fabric, busy)
           anew == ~Live(failsafe) /\ result.fs # None
<1>1. /\ failsafe' = result.fs
      /\ IF result.cleanup = None THEN NoRollback(anew) ELSE Rollback(result.cleanup, anew)
  BY DEF ArmFailSafe
<1>2. failsafe # None => Cleanup(failsafe) # None
  BY ContextTypes DEF TypeOK
<1>3. anew \in BOOLEAN
  OBVIOUS
<1>4. CASE ~Live(failsafe)
  <2>1. /\ result.fs = None \/ result.fs = NewContext(seconds, s.fabric)
        /\ result.cleanup = LapsedCleanup(failsafe)
    BY <1>4 DEF Arm
  <2>2. failsafe = None => LapsedCleanup(failsafe) = None
    BY DEF LapsedCleanup, Lapsed
  <2>3. failsafe # None => LapsedCleanup(failsafe) = Cleanup(failsafe)
    BY <1>4 DEF LapsedCleanup, Lapsed, Live
  <2> HIDE DEF anew, result
  <2> QED BY <1>1, <1>2, <1>3, <2>1, <2>2, <2>3 DEF ArmRolls, ArmFinds
<1>5. CASE Live(failsafe)
  <2>1. failsafe # None
    BY <1>5 DEF Live
  <2>2. anew = FALSE
    BY <1>5
  <2>3. \/ result.fs = None /\ result.cleanup = Cleanup(failsafe)
        \/ /\ result.fs = failsafe \/ result.fs = Rearmed(failsafe, seconds)
           /\ result.cleanup = None
    BY <1>5, <2>1 DEF Arm
  <2> HIDE DEF anew, result
  <2> QED BY Zenon, <1>1, <1>2, <2>1, <2>2, <2>3 DEF ArmRolls, ArmKeeps
<1> QED BY <1>4, <1>5

-----------------------------------------------------------------------------
\* The fabric table holds finitely many fabrics
LEMMA JoinedFinite ==
    ASSUME TypeOK
    PROVE  IsFiniteSet(Joined)
<1>1. IsFiniteSet(1 .. MaxIndex)
  BY FS_Interval
<1>2. Joined \subseteq 1 .. MaxIndex
  BY DEF TypeOK
<1> QED BY Zenon, <1>1, <1>2, FS_Subset

\* Removing fabrics leaves a table, with the rest of them in it
LEMMA ForgetTypes ==
    ASSUME TypeOK, NEW gone, gone \subseteq Joined, NEW closing, ForgetFabric(gone, closing)
    PROVE  /\ Joined' = Joined \ gone
           /\ \A i \in Joined' : fabrics'[i] = fabrics[i]
           /\ fabrics' \in [Joined' -> Fabrics]
           /\ Joined' \in SUBSET Indexes /\ Cardinality(Joined') <= Capacity
           /\ sessions' \in SUBSET Sessions /\ scoped' \in SUBSET Indexes
           /\ committed' \in SUBSET Indexes
<1>1. Joined' = Joined \ gone /\ \A i \in Joined' : fabrics'[i] = fabrics[i]
  BY DEF ForgetFabric, Joined
<1>2. fabrics' \in [Joined' -> Fabrics] /\ Joined' \in SUBSET Indexes
  BY <1>1 DEF ForgetFabric, Joined, TypeOK
<1>3. Cardinality(Joined') <= Capacity
  <2>1. IsFiniteSet(Joined)
    BY JoinedFinite
  <2>2. Cardinality(Joined') <= Cardinality(Joined) /\ Cardinality(Joined) \in Nat
        /\ Cardinality(Joined') \in Nat
    BY <1>1, <2>1, FS_Subset, FS_CardinalityType
  <2> QED BY <2>2 DEF TypeOK
<1>4. sessions' \in SUBSET Sessions /\ scoped' \in SUBSET Indexes
      /\ committed' \in SUBSET Indexes
  BY DEF ForgetFabric, TypeOK
<1> QED BY <1>1, <1>2, <1>3, <1>4

\* What is left of pending_csr, pending_root, the keys and the window has its type,
\* whether a rollback, a reap or forget_fabric left it
LEMMA PendingTypes ==
    ASSUME TypeOK
    PROVE  /\ \A dropped, anew \in BOOLEAN :
                /\ Left(csr, dropped, anew) \in PendingCsrs \cup {None}
                /\ Left(root, dropped, anew) \in PendingRoots \cup {None}
           /\ ReapedCsr \in PendingCsrs \cup {None}
           /\ ReapedRoot \in PendingRoots \cup {None}
           /\ ReapedKeys \in SUBSET Handles
           /\ \A gone \in SUBSET Indexes : Forgotten(gone) \in Windows \cup {None}
<1>1. \A dropped, anew \in BOOLEAN :
        /\ Left(csr, dropped, anew) \in PendingCsrs \cup {None}
        /\ Left(root, dropped, anew) \in PendingRoots \cup {None}
  BY DEF Left, TypeOK, PendingCsrs, PendingRoots
<1>2. /\ ReapedCsr \in PendingCsrs \cup {None}
      /\ ReapedRoot \in PendingRoots \cup {None}
      /\ ReapedKeys \in SUBSET Handles
  BY DEF ReapedCsr, ReapedRoot, ReapedKeys, TypeOK
<1>3. \A gone \in SUBSET Indexes : Forgotten(gone) \in Windows \cup {None}
  BY DEF Forgotten, TypeOK, Windows
<1> QED BY <1>1, <1>2, <1>3

\* What the device does for a Cleanup keeps every type but the fail-safe's, which the
\* command itself sets
LEMMA RollbackTypes ==
    ASSUME TypeOK, failsafe \in Armed, NEW anew \in BOOLEAN,
           Rollback(Cleanup(failsafe), anew), failsafe' \in Armed \cup {None}
    PROVE  TypeOK'
<1> DEFINE cleanup == Cleanup(failsafe)
           gone == {cleanup.remove_fabric} \cap Joined
           closing == {cleanup.close_case_sessions_for} \ {NoFabric}
<1>1. cleanup.discard_pending \in BOOLEAN
  BY ContextTypes DEF Cleanups
<1>2. ForgetFabric(gone, closing) /\ gone \subseteq Joined
  BY DEF Rollback
<1> HIDE DEF closing
<1>3. /\ fabrics' \in [Joined' -> Fabrics]
      /\ Joined' \in SUBSET Indexes /\ Cardinality(Joined') <= Capacity
      /\ sessions' \in SUBSET Sessions /\ scoped' \in SUBSET Indexes
      /\ committed' \in SUBSET Indexes
  BY Zenon, <1>2, ForgetTypes
<1>4. csr' \in PendingCsrs \cup {None} /\ root' \in PendingRoots \cup {None}
  BY <1>1, PendingTypes DEF Rollback
<1>5. window' \in Windows \cup {None}
  BY <1>2, PendingTypes DEF Rollback, TypeOK
<1>6. keys' \in SUBSET Handles /\ last' = last /\ leaked' = leaked
  BY DEF Rollback, TypeOK
<1> QED BY <1>3, <1>4, <1>5, <1>6 DEF TypeOK

\* A command that reports no Cleanup keeps every type
LEMMA NoRollbackTypes ==
    ASSUME TypeOK, NEW anew \in BOOLEAN, NoRollback(anew), failsafe' \in Armed \cup {None}
    PROVE  TypeOK'
BY Zenon, PendingTypes DEF NoRollback, TypeOK, Joined

\* Joining a fabric at a free index keeps the table a table
LEMMA JoinTypes ==
    ASSUME TypeOK, NEW s \in sessions, AddNOC(s)
    PROVE  /\ Joined' = Joined \cup {AllocateIndex}
           /\ AllocateIndex \in Indexes \ Joined
           /\ csr \in PendingCsrs /\ root \in PendingRoots
           /\ fabrics'[AllocateIndex] = [root |-> root.root, key |-> csr.key]
           /\ \A i \in Joined : fabrics'[i] = fabrics[i]
           /\ fabrics' \in [Joined' -> Fabrics]
           /\ Joined' \in SUBSET Indexes /\ Cardinality(Joined') <= Capacity
<1>1. AllocateIndex \in Indexes \ Joined
  BY AllocatesFree DEF AddNOC
<1>2. csr \in PendingCsrs /\ root \in PendingRoots
  BY DEF AddNOC, ReapedCsr, ReapedRoot, TypeOK
<1>3. [root |-> root.root, key |-> csr.key] \in Fabrics
  BY <1>2 DEF Fabrics, PendingCsrs, PendingRoots
<1> DEFINE index == AllocateIndex
<1>4. fabrics' = [i \in Joined \cup {index} |->
                    IF i = index THEN [root |-> root.root, key |-> csr.key] ELSE fabrics[i]]
  BY DEF AddNOC
<1> HIDE DEF index
<1>5. /\ Joined' = Joined \cup {index}
      /\ fabrics'[index] = [root |-> root.root, key |-> csr.key]
      /\ \A i \in Joined : i # index => fabrics'[i] = fabrics[i]
  BY <1>4 DEF Joined
<1>6. fabrics' \in [Joined' -> Fabrics]
  BY Zenon, <1>3, <1>4, <1>5 DEF TypeOK
<1>7. Cardinality(Joined') <= Capacity
  <2>1. IsFiniteSet(Joined) /\ Cardinality(Joined) \in Nat
    BY JoinedFinite, FS_CardinalityType
  <2>2. Cardinality(Joined \cup {index}) = Cardinality(Joined) + 1
    BY Zenon, <1>1, <2>1, FS_AddElement DEF index
  <2> QED BY <1>5, <2>1, <2>2 DEF AddNOC
<1> QED BY Zenon, <1>1, <1>2, <1>5, <1>6, <1>7 DEF TypeOK, index

\* Every step keeps the types
LEMMA TypeStep ==
    ASSUME TypeOK, [Next]_vars
    PROVE  TypeOK'
<1> USE DEF credentials
<1>1. CASE EstablishPase
  BY <1>1 DEF EstablishPase, TypeOK, Sessions, Joined
<1>2. ASSUME NEW i \in Indexes, EstablishCase(i) PROVE TypeOK'
  BY <1>2 DEF EstablishCase, TypeOK, Sessions, Joined
<1>3. ASSUME NEW s \in sessions, CloseSession(s) PROVE TypeOK'
  BY <1>3 DEF CloseSession, TypeOK, Joined
<1>4. ASSUME NEW s \in sessions, NEW seconds \in Lengths, ArmFailSafe(s, seconds)
      PROVE  TypeOK'
  <2>1. failsafe \in Armed \cup {None} /\ s.fabric \in Indexes \cup {NoFabric}
    BY DEF TypeOK, Sessions
  <2>2. seconds \in Nat
    OBVIOUS
  <2>3. NewContext(seconds, s.fabric) \in Armed
    BY <2>1, <2>2, ContextTypes
  <2>4. CASE ArmRolls(s, seconds)
    BY <2>1, <2>3, <2>4, RollbackTypes DEF ArmRolls
  <2>5. CASE ArmFinds(s, seconds)
    BY <2>3, <2>5, NoRollbackTypes DEF ArmFinds
  <2>6. CASE ArmKeeps(s, seconds)
    <3>1. failsafe' \in Armed
      BY <2>1, <2>2, <2>6, ContextTypes DEF ArmKeeps
    <3> QED BY Zenon, <2>6, <3>1, NoRollbackTypes DEF ArmKeeps
  <2> QED BY <1>4, <2>4, <2>5, <2>6, ArmEffect
<1>5. ASSUME NEW s \in sessions, CompleteTooLate(s) PROVE TypeOK'
  BY Zenon, <1>5, RollbackTypes DEF CompleteTooLate, Lapsed, TypeOK
<1>6. ASSUME NEW s \in sessions, CommissioningComplete(s) PROVE TypeOK'
  BY <1>6 DEF CommissioningComplete, TypeOK, Joined
<1>7. ASSUME NEW s \in sessions, OpenCommissioningWindow(s) PROVE TypeOK'
  BY <1>7 DEF OpenCommissioningWindow, TypeOK, Joined, Windows, Sessions
<1>8. CASE RevokeCommissioning
  BY <1>8 DEF RevokeCommissioning, TypeOK, Joined
<1>9. CASE OtherCommand
  BY Zenon, <1>9, PendingTypes DEF OtherCommand, TypeOK, Joined
<1>10. ASSUME NEW s \in sessions, NEW for_update \in BOOLEAN, CSRRequest(s, for_update)
       PROVE  TypeOK'
  <2>1. failsafe \in Armed /\ Recorded(failsafe, "csr_requested") \in Armed
    BY <1>10, ContextTypes DEF CSRRequest, MayChange, Live, TypeOK
  <2>2. failsafe' \in Armed
    BY <1>10, <2>1 DEF CSRRequest
  <2>3. csr' \in PendingCsrs \cup {None}
    <3>1. \/ csr' = None
          \/ \E k \in Handles :
                csr' = [key |-> k, for_update |-> for_update, stale |-> FALSE]
      BY <1>10 DEF CSRRequest
    <3>2. \A k \in Handles, update \in BOOLEAN :
            [key |-> k, for_update |-> update, stale |-> FALSE] \in PendingCsrs
      BY DEF PendingCsrs
    <3> QED BY <3>1, <3>2
  <2>4. keys' \in SUBSET Handles /\ leaked' \in SUBSET Handles
    BY <1>10 DEF CSRRequest, TypeOK
  <2>5. root' \in PendingRoots \cup {None}
    BY Zenon, <1>10, PendingTypes DEF CSRRequest
  <2> QED BY Zenon, <1>10, <2>2, <2>3, <2>4, <2>5 DEF CSRRequest, TypeOK, Joined
<1>11. ASSUME NEW r \in Roots, AddTrustedRootCertificate(r) PROVE TypeOK'
  <2>1. failsafe' \in Armed
    BY <1>11, ContextTypes DEF AddTrustedRootCertificate, MayChange, Live, TypeOK
  <2>2. root' \in PendingRoots
    BY Zenon, <1>11 DEF AddTrustedRootCertificate, PendingRoots
  <2> QED BY Zenon, <1>11, <2>1, <2>2, PendingTypes DEF AddTrustedRootCertificate, TypeOK, Joined
<1>12. ASSUME NEW s \in sessions, AddNOC(s) PROVE TypeOK'
  <2>1. failsafe \in Armed
    BY <1>12 DEF AddNOC, MayChange, Live, TypeOK
  <2>2. failsafe' \in Armed
    <3>1. Recorded(failsafe, "added_noc") \in Armed /\ AllocateIndex \in Indexes
      BY <1>12, <2>1, ContextTypes, JoinTypes
    <3> QED BY <1>12, <3>1 DEF AddNOC, Adopted, Armed
  <2>3. sessions' \in SUBSET Sessions
    BY ZenonT(60), <1>12, JoinTypes DEF AddNOC, Bound, TypeOK, Sessions
  <2>4. last' \in 0 .. MaxIndex /\ scoped' \in SUBSET Indexes
    <3>1. AllocateIndex \in 1 .. MaxIndex
      BY <1>12, JoinTypes
    <3>2. last' = AllocateIndex /\ scoped' = scoped \cup {AllocateIndex}
      BY <1>12 DEF AddNOC
    <3> QED BY <3>1, <3>2 DEF TypeOK
  <2>5. UNCHANGED <<window, keys, committed, leaked>> /\ csr' = None /\ root' = None
    BY <1>12 DEF AddNOC, UsedCsr
  <2> QED BY Zenon, <1>12, <2>2, <2>3, <2>4, <2>5, JoinTypes DEF TypeOK
<1>13. ASSUME NEW s \in sessions, UpdateNOC(s) PROVE TypeOK'
  <2>1. csr \in PendingCsrs
    BY <1>13 DEF UpdateNOC, ReapedCsr, TypeOK
  <2>2. Joined' = Joined /\ fabrics' \in [Joined -> Fabrics]
    BY <1>13, <2>1 DEF UpdateNOC, Joined, TypeOK, PendingCsrs, Fabrics
  <2>3. failsafe' \in Armed
    BY <1>13, ContextTypes DEF UpdateNOC, MayChange, Live, TypeOK
  <2>4. /\ keys' \in SUBSET Handles /\ csr' = None /\ root' \in PendingRoots \cup {None}
        /\ UNCHANGED <<window, last, sessions, scoped, committed, leaked>>
    BY Zenon, <1>13, PendingTypes DEF UpdateNOC, UsedCsr, TypeOK
  <2> QED BY <2>2, <2>3, <2>4 DEF TypeOK
<1>14. ASSUME NEW i \in Indexes, RemoveFabric(i) PROVE TypeOK'
  <2>1. ForgetFabric({i}, {}) /\ {i} \subseteq Joined
    BY <1>14 DEF RemoveFabric
  <2>2. /\ csr' \in PendingCsrs \cup {None} /\ root' \in PendingRoots \cup {None}
        /\ keys' \in SUBSET Handles /\ window' \in Windows \cup {None}
        /\ UNCHANGED <<failsafe, last, leaked>>
    BY <1>14, PendingTypes DEF RemoveFabric
  <2> QED BY Zenon, <2>1, <2>2, ForgetTypes DEF TypeOK
<1>15. CASE Tick
  <2>1. failsafe' \in Armed \cup {None}
    BY <1>15, ContextTypes DEF Tick, TypeOK
  <2>2. window' \in Windows \cup {None}
    BY <1>15 DEF Tick, TypeOK, Windows, Elapse
  <2> QED BY <1>15, <2>1, <2>2 DEF Tick, TypeOK, Joined
<1>16. CASE UNCHANGED vars
  BY <1>16 DEF vars, TypeOK, Joined
<1> QED BY Zenon, <1>1, <1>2, <1>3, <1>4, <1>5, <1>6, <1>7, <1>8, <1>9, <1>10, <1>11, <1>12,
           <1>13, <1>14, <1>15, <1>16 DEF Next, Command

\* Type correctness of the handlers and of what the device does after them
THEOREM TypeCorrect == Spec => []TypeOK
<1>1. Init => TypeOK
  <2> SUFFICES ASSUME Init PROVE TypeOK
    OBVIOUS
  <2>1. Joined = {} /\ fabrics \in [{} -> Fabrics]
    BY DEF Init, Joined
  <2>2. Cardinality(Joined) <= Capacity
    BY <2>1, FS_EmptySet
  <2> QED BY <2>1, <2>2 DEF Init, TypeOK
<1> QED BY <1>1, TypeStep, PTL DEF Spec

-----------------------------------------------------------------------------
\* What a context has been armed for and what is left to its cumulative deadline make
\* up the whole: the strengthening HoldBounded needs
Hold == failsafe # None => failsafe.cumulative + failsafe.held = MaxCumulative

\* Every step keeps the two times of a context adding up
LEMMA HoldStep ==
    ASSUME TypeOK, Hold, [Next]_vars
    PROVE  Hold'
<1> USE DEF credentials
<1>0. failsafe \in Armed \cup {None}
  BY DEF TypeOK
<1>1. CASE UNCHANGED failsafe \/ failsafe' = None
  BY <1>1 DEF Hold
<1>2. ASSUME NEW s \in sessions, NEW seconds \in Lengths, ArmFailSafe(s, seconds)
      PROVE  Hold'
  <2>1. failsafe' = NewContext(seconds, s.fabric) => Hold'
    BY DEF NewContext, Hold
  <2>2. failsafe # None /\ failsafe' = Rearmed(failsafe, seconds) => Hold'
    BY <1>0 DEF Rearmed, Hold, Armed
  <2> QED BY Zenon, <1>1, <1>2, <2>1, <2>2, ArmEffect DEF ArmRolls, ArmFinds, ArmKeeps
<1>3. ASSUME NEW step, failsafe # None, failsafe' = Recorded(failsafe, step) PROVE Hold'
  BY <1>0, <1>3 DEF Recorded, Hold, Armed
<1>4. ASSUME NEW s \in sessions, AddNOC(s) PROVE Hold'
  <2>1. failsafe \in Armed
    BY <1>0, <1>4 DEF AddNOC, MayChange, Live
  <2> QED BY ZenonT(60), <1>4, <2>1 DEF AddNOC, Adopted, Recorded, Hold, Armed
<1>5. CASE Tick
  <2>1. CASE failsafe = None
    BY <1>5, <2>1 DEF Tick, Hold
  <2>2. CASE failsafe # None
    <3>1. failsafe \in Armed /\ failsafe' = Elapsed(failsafe)
      BY <1>0, <1>5, <2>2 DEF Tick
    <3>2. /\ failsafe'.cumulative = Elapse(failsafe.cumulative)
          /\ failsafe'.held = IF failsafe.held < MaxCumulative
                              THEN failsafe.held + 1 ELSE failsafe.held
      BY <3>1 DEF Elapsed, Armed
    <3>3. failsafe.cumulative \in 0 .. MaxCumulative /\ failsafe.held \in 0 .. MaxCumulative
      BY <3>1 DEF Armed
    <3> QED BY <2>2, <3>2, <3>3 DEF Hold, Elapse
  <2> QED BY <2>1, <2>2
<1>6. ASSUME NEW s \in sessions, NEW for_update \in BOOLEAN, CSRRequest(s, for_update)
      PROVE  Hold'
  BY <1>1, <1>3, <1>6 DEF CSRRequest, MayChange, Live
<1>7. ASSUME NEW r \in Roots, AddTrustedRootCertificate(r) PROVE Hold'
  BY <1>3, <1>7 DEF AddTrustedRootCertificate, MayChange, Live
<1>8. ASSUME NEW s \in sessions, UpdateNOC(s) PROVE Hold'
  BY <1>3, <1>8 DEF UpdateNOC, MayChange, Live
<1>9. ASSUME NEW s \in sessions,
             CompleteTooLate(s) \/ CommissioningComplete(s) \/ RevokeCommissioning
      PROVE  Hold'
  BY Zenon, <1>1, <1>9 DEF CompleteTooLate, CommissioningComplete, RevokeCommissioning
<1>10. ASSUME NEW s \in sessions,
              OpenCommissioningWindow(s) \/ CloseSession(s) \/ OtherCommand
       PROVE  Hold'
  BY <1>1, <1>10 DEF OpenCommissioningWindow, CloseSession, OtherCommand
<1>11. ASSUME NEW i \in Indexes, EstablishCase(i) \/ RemoveFabric(i) PROVE Hold'
  BY <1>1, <1>11 DEF EstablishCase, RemoveFabric
<1>12. CASE EstablishPase \/ UNCHANGED vars
  BY <1>1, <1>12 DEF EstablishPase, vars
<1> QED BY Zenon, <1>2, <1>4, <1>5, <1>6, <1>7, <1>8, <1>9, <1>10, <1>11, <1>12 DEF Next, Command

\* FailSafe::arm never moves the cumulative deadline: whoever re-arms a context, and
\* however often, it is live for less than max_cumulative_seconds
THEOREM HoldIsBounded == Spec => []HoldBounded
<1>1. Init => Hold
  BY DEF Init, Hold
<1>2. TypeOK /\ Hold => HoldBounded
  BY DEF TypeOK, Hold, HoldBounded, Live, HasExpired, Armed
<1> QED BY <1>1, <1>2, HoldStep, TypeCorrect, PTL DEF Spec

-----------------------------------------------------------------------------
\* What the cleanup of a context takes out of the table: the fabric it added, if that is
\* still there, and nothing else
LEMMA RollbackEffect ==
    ASSUME TypeOK, failsafe \in Armed, NEW anew \in BOOLEAN,
           Rollback(Cleanup(failsafe), anew)
    PROVE  \E gone \in SUBSET Joined, closing \in SUBSET Indexes :
              /\ ForgetFabric(gone, closing)
              /\ Joined' = Joined \ gone
              /\ gone = IF failsafe.progress.added_noc
                        THEN {failsafe.fabric} \cap Joined ELSE {}
<1> DEFINE cleanup == Cleanup(failsafe)
           gone == {cleanup.remove_fabric} \cap Joined
           closing == {cleanup.close_case_sessions_for} \ {NoFabric}
<1>1. ForgetFabric(gone, closing) /\ gone \in SUBSET Joined
  BY DEF Rollback
<1>2. cleanup \in Cleanups
  BY ContextTypes
<1>3. closing \in SUBSET Indexes
  BY <1>2 DEF Cleanups
<1>4. cleanup.remove_fabric = IF failsafe.progress.added_noc THEN failsafe.fabric ELSE 0
  BY DEF Cleanup
<1>5. gone = IF failsafe.progress.added_noc THEN {failsafe.fabric} \cap Joined ELSE {}
  BY <1>4 DEF TypeOK
<1> HIDE DEF gone, closing
<1>6. Joined' = Joined \ gone
  BY Zenon, <1>1, ForgetTypes
<1> QED BY Zenon, <1>1, <1>3, <1>5, <1>6

\* UncommittedIsHeld with what its induction needs: the fabric a context added is not a
\* committed one, and only fabrics in the table are committed
Commitment ==
    /\ committed \subseteq Joined
    /\ UncommittedIsHeld
    /\ failsafe # None /\ failsafe.progress.added_noc => failsafe.fabric \notin committed

\* Rolling a context back leaves no uncommitted fabric and removes no committed one
LEMMA RollbackCommits ==
    ASSUME TypeOK, Commitment, failsafe \in Armed, NEW anew \in BOOLEAN,
           Rollback(Cleanup(failsafe), anew)
    PROVE  /\ committed' = Joined' /\ committed' = committed
<1>1. PICK gone \in SUBSET Joined, closing \in SUBSET Indexes :
        /\ ForgetFabric(gone, closing)
        /\ Joined' = Joined \ gone
        /\ gone = IF failsafe.progress.added_noc THEN {failsafe.fabric} \cap Joined ELSE {}
  BY RollbackEffect
<1>2. failsafe # None
  OBVIOUS
<1>3. committed' = committed \ gone
  BY <1>1 DEF ForgetFabric
<1>4. Joined \ committed \subseteq gone /\ gone \cap committed = {}
  BY <1>1, <1>2 DEF Commitment, UncommittedIsHeld
<1> QED BY <1>1, <1>3, <1>4 DEF Commitment

\* Every step keeps Commitment
LEMMA CommitmentStep ==
    ASSUME TypeOK, Commitment, [Next]_vars
    PROVE  Commitment'
<1> USE DEF credentials
<1>0. failsafe \in Armed \cup {None} /\ Joined \in SUBSET Indexes
  BY DEF TypeOK
<1>1. ASSUME UNCHANGED <<failsafe, fabrics, committed>> PROVE Commitment'
  BY <1>1 DEF Commitment, UncommittedIsHeld, Joined
<1>2. ASSUME committed' = Joined',
             failsafe' = None \/ (failsafe' \in Armed /\ ~failsafe'.progress.added_noc)
      PROVE  Commitment'
  BY <1>2 DEF Commitment, UncommittedIsHeld, Joined
<1>3. ASSUME failsafe \in Armed, failsafe' \in Armed,
             failsafe'.fabric = failsafe.fabric,
             failsafe'.progress.added_noc = failsafe.progress.added_noc,
             UNCHANGED committed, Joined' = Joined
      PROVE  Commitment'
  BY <1>3 DEF Commitment, UncommittedIsHeld
<1>4. ASSUME NEW s \in sessions, NEW seconds \in Lengths, ArmFailSafe(s, seconds)
      PROVE  Commitment'
  <2>1. s.fabric \in Indexes \cup {NoFabric} /\ seconds \in Nat
    BY Zenon DEF TypeOK, Sessions
  <2>2. NewContext(seconds, s.fabric) \in Armed
        /\ ~NewContext(seconds, s.fabric).progress.added_noc
    BY <2>1, ContextTypes DEF NewContext
  <2>3. CASE ArmRolls(s, seconds)
    BY <1>0, <1>2, <2>2, <2>3, RollbackCommits DEF ArmRolls
  <2>4. CASE ArmFinds(s, seconds)
    <3>1. committed = Joined
      BY Zenon, <2>4 DEF ArmFinds, Commitment, UncommittedIsHeld
    <3>2. UNCHANGED <<fabrics, committed>>
      BY <2>4 DEF ArmFinds, NoRollback
    <3> QED BY <1>2, <2>2, <2>4, <3>1, <3>2 DEF ArmFinds, Joined
  <2>5. CASE ArmKeeps(s, seconds)
    <3>1. failsafe \in Armed /\ UNCHANGED <<fabrics, committed>>
      BY <1>0, <2>5 DEF ArmKeeps, NoRollback
    <3>2. failsafe' \in Armed
      BY <2>1, <2>5, <3>1, ContextTypes DEF ArmKeeps
    <3>3. /\ failsafe'.fabric = failsafe.fabric
          /\ failsafe'.progress.added_noc = failsafe.progress.added_noc
      BY <2>5, <3>1 DEF ArmKeeps, Rearmed, Armed
    <3> QED BY <1>3, <3>1, <3>2, <3>3 DEF Joined
  <2> QED BY <1>4, <2>3, <2>4, <2>5, ArmEffect
<1>5. ASSUME NEW s \in sessions, CompleteTooLate(s) PROVE Commitment'
  BY Zenon, <1>0, <1>2, <1>5, RollbackCommits DEF CompleteTooLate, Lapsed
<1>6. ASSUME NEW s \in sessions, CommissioningComplete(s) PROVE Commitment'
  <2>1. Joined' = Joined /\ failsafe' = None /\ failsafe # None
        /\ committed' = committed \cup ({failsafe.fabric} \cap Joined)
    BY <1>6 DEF CommissioningComplete, MayComplete, Live, Joined
  <2>2. committed' = Joined'
    BY <2>1 DEF Commitment, UncommittedIsHeld
  <2> QED BY <1>2, <2>1, <2>2
<1>7. CASE RevokeCommissioning
  <2>1. CASE UNCHANGED failsafe
    BY <1>1, <1>7, <2>1 DEF RevokeCommissioning
  <2>2. CASE failsafe.fabric = NoFabric /\ failsafe' = None
    <3>1. ASSUME NEW i \in Joined \ committed PROVE FALSE
      <4>1. i = 0
        BY <2>2 DEF Commitment, UncommittedIsHeld
      <4> QED BY <1>0, <4>1
    <3>2. committed = Joined
      BY Zenon, <3>1 DEF Commitment
    <3> QED BY <1>2, <1>7, <2>2, <3>2 DEF RevokeCommissioning, Joined
  <2> QED BY <1>7, <2>1, <2>2 DEF RevokeCommissioning
<1>8. ASSUME NEW step \in {"updated_noc", "csr_requested", "added_trusted_root"},
             failsafe # None, failsafe' = Recorded(failsafe, step),
             UNCHANGED committed, Joined' = Joined
      PROVE  Commitment'
  <2>1. failsafe \in Armed /\ failsafe' \in Armed
    BY <1>0, <1>8, ContextTypes
  <2>2. /\ failsafe'.fabric = failsafe.fabric
        /\ failsafe'.progress.added_noc = failsafe.progress.added_noc
    BY Zenon, <1>8, <2>1 DEF Recorded, Armed, Progress
  <2> QED BY <1>3, <1>8, <2>1, <2>2
<1>9. ASSUME NEW s \in sessions, NEW for_update \in BOOLEAN, CSRRequest(s, for_update)
      PROVE  Commitment'
  <2>1. failsafe # None /\ UNCHANGED <<fabrics, committed>> /\ Joined' = Joined
    BY Zenon, <1>9 DEF CSRRequest, MayChange, Live, Joined
  <2>2. UNCHANGED failsafe \/ failsafe' = Recorded(failsafe, "csr_requested")
    BY <1>9 DEF CSRRequest
  <2> QED BY Zenon, <1>1, <1>8, <2>1, <2>2
<1>10. ASSUME NEW r \in Roots, AddTrustedRootCertificate(r) PROVE Commitment'
  BY ZenonT(60), <1>8, <1>10 DEF AddTrustedRootCertificate, MayChange, Live, Joined
<1>11. ASSUME NEW s \in sessions, AddNOC(s) PROVE Commitment'
  <2>1. failsafe \in Armed /\ ~failsafe.progress.added_noc
    BY <1>0, <1>11 DEF AddNOC, MayChange, Live, UsedNoc
  <2>2. committed = Joined
    BY ZenonT(60), <2>1 DEF Commitment, UncommittedIsHeld
  <2>3. failsafe' = Adopted(AllocateIndex) /\ UNCHANGED committed
    BY <1>11 DEF AddNOC
  <2>4. failsafe'.fabric = AllocateIndex /\ failsafe'.progress.added_noc /\ failsafe' # None
    <3>1. AllocateIndex \in Indexes /\ Recorded(failsafe, "added_noc") \in Armed
      BY <1>11, <2>1, JoinTypes, ContextTypes
    <3>2. Adopted(AllocateIndex) \in Armed
      BY <3>1 DEF Adopted, Armed
    <3> QED BY Zenon, <2>1, <2>3, <3>2 DEF Adopted, Recorded, Armed, Progress
  <2> QED BY ZenonT(60), <1>11, <2>2, <2>3, <2>4, JoinTypes DEF Commitment, UncommittedIsHeld
<1>12. ASSUME NEW s \in sessions, UpdateNOC(s) PROVE Commitment'
  <2>1. Joined' = Joined
    BY <1>12 DEF UpdateNOC, Joined
  <2> QED BY <1>8, <1>12, <2>1 DEF UpdateNOC, MayChange, Live
<1>13. ASSUME NEW i \in Indexes, RemoveFabric(i) PROVE Commitment'
  <2>1. ForgetFabric({i}, {}) /\ {i} \subseteq Joined /\ UNCHANGED failsafe
    BY <1>13 DEF RemoveFabric
  <2>2. Joined' = Joined \ {i} /\ committed' = committed \ {i}
    BY Zenon, <2>1, ForgetTypes DEF ForgetFabric
  <2> QED BY <2>1, <2>2 DEF Commitment, UncommittedIsHeld
<1>14. CASE Tick
  <2>1. CASE failsafe = None
    BY <1>1, <1>14, <2>1 DEF Tick
  <2>2. CASE failsafe # None
    <3>1. failsafe \in Armed /\ failsafe' = Elapsed(failsafe) /\ failsafe' \in Armed
      BY <1>0, <1>14, <2>2, ContextTypes DEF Tick
    <3>2. /\ failsafe'.fabric = failsafe.fabric
          /\ failsafe'.progress.added_noc = failsafe.progress.added_noc
      BY Zenon, <3>1 DEF Elapsed, Armed
    <3> QED BY <1>3, <1>14, <3>1, <3>2 DEF Tick, Joined
  <2> QED BY <2>1, <2>2
<1>15. ASSUME NEW s \in sessions,
              OpenCommissioningWindow(s) \/ CloseSession(s) \/ OtherCommand
       PROVE  Commitment'
  BY Zenon, <1>1, <1>15 DEF OpenCommissioningWindow, CloseSession, OtherCommand
<1>16. ASSUME NEW i \in Indexes, EstablishCase(i) PROVE Commitment'
  BY Zenon, <1>1, <1>16 DEF EstablishCase
<1>17. CASE EstablishPase \/ UNCHANGED vars
  BY <1>1, <1>17 DEF EstablishPase, vars
<1> QED BY Zenon, <1>4, <1>5, <1>6, <1>7, <1>9, <1>10, <1>11, <1>12, <1>13, <1>14, <1>15, <1>16,
           <1>17 DEF Next, Command

\* A fabric that AddNOC put in the table and CommissioningComplete has not accepted is
\* the fabric of the armed context, whose expiry removes it
THEOREM UncommittedAreHeld == Spec => []UncommittedIsHeld
<1>1. Init => Commitment
  BY DEF Init, Commitment, UncommittedIsHeld, Joined
<1>2. Commitment => UncommittedIsHeld
  BY Zenon DEF Commitment
<1> QED BY <1>1, <1>2, CommitmentStep, TypeCorrect, PTL DEF Spec

\* No step but RemoveFabric takes a committed fabric out of the table
LEMMA CommittedStaysStep ==
    ASSUME TypeOK, Commitment, [Next]_vars, NEW i \in committed, i \notin DOMAIN fabrics'
    PROVE  RemoveFabric(i)
<1> USE DEF credentials
<1>0. failsafe \in Armed \cup {None} /\ i \in Joined
  BY DEF TypeOK, Commitment
<1>1. fabrics' # fabrics /\ i \notin Joined'
  BY <1>0 DEF Joined
<1>2. ASSUME failsafe \in Armed, NEW anew \in BOOLEAN, Rollback(Cleanup(failsafe), anew)
      PROVE  FALSE
  BY <1>1, <1>2, RollbackCommits
<1>3. ASSUME NEW s \in sessions, NEW seconds \in Lengths, ArmFailSafe(s, seconds)
      PROVE  FALSE
  BY Zenon, <1>0, <1>1, <1>2, <1>3, ArmEffect DEF ArmRolls, ArmFinds, ArmKeeps, NoRollback
<1>4. ASSUME NEW s \in sessions, CompleteTooLate(s) PROVE FALSE
  BY Zenon, <1>0, <1>2, <1>4 DEF CompleteTooLate, Lapsed
<1>5. ASSUME NEW s \in sessions, AddNOC(s) PROVE FALSE
  BY <1>0, <1>1, <1>5, JoinTypes
<1>6. ASSUME NEW s \in sessions, UpdateNOC(s) PROVE FALSE
  BY <1>0, <1>1, <1>6 DEF UpdateNOC, Joined
<1>7. ASSUME NEW j \in Indexes, RemoveFabric(j) PROVE RemoveFabric(i)
  <2>1. ForgetFabric({j}, {}) /\ {j} \subseteq Joined
    BY <1>7 DEF RemoveFabric
  <2>2. Joined' = Joined \ {j}
    BY ZenonT(60), <2>1, ForgetTypes
  <2> QED BY Zenon, <1>0, <1>1, <1>7, <2>2
<1>8. ASSUME NEW s \in sessions,
             \/ CloseSession(s) \/ CommissioningComplete(s) \/ OpenCommissioningWindow(s)
             \/ RevokeCommissioning \/ OtherCommand
             \/ \E for_update \in BOOLEAN : CSRRequest(s, for_update)
             \/ \E r \in Roots : AddTrustedRootCertificate(r)
      PROVE  FALSE
  BY <1>1, <1>8 DEF CloseSession, CommissioningComplete, OpenCommissioningWindow,
     RevokeCommissioning, OtherCommand, CSRRequest, AddTrustedRootCertificate
<1>9. CASE EstablishPase \/ (\E j \in Indexes : EstablishCase(j)) \/ Tick \/ UNCHANGED vars
  BY <1>1, <1>9 DEF EstablishPase, EstablishCase, Tick, vars
<1> QED BY Zenon, <1>3, <1>4, <1>5, <1>6, <1>7, <1>8, <1>9 DEF Next, Command

\* The rollbacks of arm, complete and expiry remove no fabric that CommissioningComplete
\* was accepted for: it stays until a RemoveFabric command names it
THEOREM CommittedStay == Spec => CommittedStays
<1>1. Init => Commitment
  BY DEF Init, Commitment, UncommittedIsHeld, Joined
<1>2. TypeOK /\ Commitment /\ [Next]_vars
        => [\A i \in committed : i \notin DOMAIN fabrics' => RemoveFabric(i)]_vars
  BY CommittedStaysStep
<1> QED BY <1>1, <1>2, CommitmentStep, TypeCorrect, PTL DEF Spec, CommittedStays

-----------------------------------------------------------------------------
\* Forgetting a fabric forgets every index of it
LEMMA ForgetResolves ==
    ASSUME TypeOK, IndexesResolve, NEW gone \in SUBSET Joined, NEW closing,
           ForgetFabric(gone, closing), window' = Forgotten(gone)
    PROVE  IndexesResolve'
<1>1. Joined' = Joined \ gone
  BY Zenon, ForgetTypes
<1>2. \A s \in sessions' : s.fabric \in Joined' \cup {NoFabric}
  BY Zenon, <1>1 DEF ForgetFabric, IndexesResolve
<1>3. scoped' \subseteq Joined'
  BY <1>1 DEF ForgetFabric, IndexesResolve
<1>4. window' # None => window'.admin \in Joined' \cup {NoFabric}
  BY Zenon, <1>1 DEF Forgotten, IndexesResolve, TypeOK, Windows
<1> QED BY <1>2, <1>3, <1>4 DEF IndexesResolve

\* Every step keeps the indexes that are held anywhere within the table
LEMMA IndexesStep ==
    ASSUME TypeOK, IndexesResolve, [Next]_vars
    PROVE  IndexesResolve'
<1> USE DEF credentials
<1>0. failsafe \in Armed \cup {None} /\ window \in Windows \cup {None}
      /\ sessions \in SUBSET Sessions
  BY DEF TypeOK
<1>1. ASSUME Joined' = Joined, sessions' \subseteq sessions, scoped' = scoped,
             window' = window \/ window' = None
      PROVE  IndexesResolve'
  BY <1>1 DEF IndexesResolve
<1>2. ASSUME failsafe \in Armed, NEW anew \in BOOLEAN, Rollback(Cleanup(failsafe), anew)
      PROVE  IndexesResolve'
  <2> DEFINE cleanup == Cleanup(failsafe)
             gone == {cleanup.remove_fabric} \cap Joined
             closing == {cleanup.close_case_sessions_for} \ {NoFabric}
  <2>1. ForgetFabric(gone, closing) /\ window' = Forgotten(gone) /\ gone \in SUBSET Joined
    BY <1>2 DEF Rollback
  <2> HIDE DEF gone, closing
  <2> QED BY ZenonT(60), <2>1, ForgetResolves
<1>3. ASSUME NEW s \in sessions, NEW seconds \in Lengths, ArmFailSafe(s, seconds)
      PROVE  IndexesResolve'
  BY Zenon, <1>0, <1>1, <1>2, <1>3, ArmEffect DEF ArmRolls, ArmFinds, ArmKeeps, NoRollback, Joined
<1>4. ASSUME NEW s \in sessions, CompleteTooLate(s) PROVE IndexesResolve'
  BY Zenon, <1>0, <1>2, <1>4 DEF CompleteTooLate, Lapsed
<1>5. ASSUME NEW s \in sessions, OpenCommissioningWindow(s) PROVE IndexesResolve'
  BY Zenon, <1>0, <1>5 DEF OpenCommissioningWindow, IndexesResolve, Joined
<1>6. ASSUME NEW s \in sessions, AddNOC(s) PROVE IndexesResolve'
  <2>1. Joined' = Joined \cup {AllocateIndex} /\ AllocateIndex \in Indexes
    BY Zenon, <1>6, JoinTypes
  <2>2. /\ sessions' = Bound(s, AllocateIndex) /\ scoped' = scoped \cup {AllocateIndex}
        /\ window' = window
    BY Zenon, <1>6 DEF AddNOC
  <2>3. \A t \in Bound(s, AllocateIndex) : t \in sessions \/ t.fabric = AllocateIndex
    BY <1>0 DEF Bound, Sessions
  <2> QED BY <2>1, <2>2, <2>3 DEF IndexesResolve
<1>7. ASSUME NEW s \in sessions, UpdateNOC(s) PROVE IndexesResolve'
  BY <1>1, <1>7 DEF UpdateNOC, Joined
<1>8. ASSUME NEW i \in Indexes, RemoveFabric(i) PROVE IndexesResolve'
  <2>1. ForgetFabric({i}, {}) /\ window' = Forgotten({i}) /\ {i} \in SUBSET Joined
    BY <1>8 DEF RemoveFabric
  <2> QED BY Zenon, <2>1, ForgetResolves
<1>9. CASE Tick
  <2>1. window # None => window' # None /\ window'.admin = window.admin
    BY <1>0, <1>9 DEF Tick, Windows, Elapse
  <2>2. window = None => window' = None
    BY <1>9 DEF Tick
  <2>3. UNCHANGED <<sessions, scoped>> /\ Joined' = Joined
    BY Zenon, <1>9 DEF Tick, Joined
  <2> QED BY <2>1, <2>2, <2>3 DEF IndexesResolve
<1>10. CASE EstablishPase
  BY <1>10 DEF EstablishPase, IndexesResolve, Joined
<1>11. ASSUME NEW i \in Indexes, EstablishCase(i) PROVE IndexesResolve'
  <2>1. /\ i \in Joined /\ sessions' = sessions \cup {[kind |-> "Case", fabric |-> i]}
        /\ UNCHANGED <<window, scoped, fabrics>>
    BY Zenon, <1>11 DEF EstablishCase, credentials
  <2>2. [kind |-> "Case", fabric |-> i].fabric \in Joined
    BY <2>1
  <2>3. \A s \in sessions' : s.fabric \in Joined \cup {NoFabric}
    BY Zenon, <2>1, <2>2 DEF IndexesResolve
  <2> QED BY Zenon, <2>1, <2>3 DEF IndexesResolve, Joined
<1>12. ASSUME NEW s \in sessions,
              \/ CloseSession(s) \/ CommissioningComplete(s)
              \/ RevokeCommissioning \/ OtherCommand
              \/ \E for_update \in BOOLEAN : CSRRequest(s, for_update)
              \/ \E r \in Roots : AddTrustedRootCertificate(r)
       PROVE  IndexesResolve'
  BY Zenon, <1>1, <1>12 DEF CloseSession, CommissioningComplete, RevokeCommissioning,
     OtherCommand, CSRRequest, AddTrustedRootCertificate, Joined
<1>13. CASE UNCHANGED vars
  BY <1>1, <1>13 DEF vars, Joined
<1> QED BY Zenon, <1>3, <1>4, <1>5, <1>6, <1>7, <1>8, <1>9, <1>10, <1>11, <1>12, <1>13
        DEF Next, Command

\* Whatever ends a fabric (RemoveFabric, or the rollback of its context), no session, no
\* fabric-scoped data and no window is left with its index, which the next may be given
THEOREM IndexesAlwaysResolve == Spec => []IndexesResolve
<1>1. Init => IndexesResolve
  BY Zenon DEF Init, IndexesResolve
<1> QED BY <1>1, IndexesStep, TypeCorrect, PTL DEF Spec

-----------------------------------------------------------------------------
\* Taking fabrics out of the table with their keys, and a pending CSR with its own,
\* leaves the books of the key store right
LEMMA DropAccounts ==
    ASSUME KeysAccounted, NEW gone \in SUBSET Joined, NEW dropped \in SUBSET KeyOf(csr),
           Joined' = Joined \ gone, \A i \in Joined' : fabrics'[i] = fabrics[i],
           keys' = (keys \ {fabrics[i].key : i \in gone}) \ dropped,
           KeyOf(csr') = KeyOf(csr) \ dropped, leaked' = leaked
    PROVE  KeysAccounted'
<1> DEFINE owned == {fabrics[i].key : i \in Joined}
           going == {fabrics[i].key : i \in gone}
<1>1. {fabrics'[i].key : i \in Joined'} = owned \ going
  BY DEF KeysAccounted
<1>2. \A i, j \in Joined' : fabrics'[i].key = fabrics'[j].key => i = j
  BY DEF KeysAccounted
<1>3. going \subseteq owned
  BY Zenon
<1>4. /\ keys = owned \cup KeyOf(csr) \cup leaked
      /\ owned \cap (KeyOf(csr) \cup leaked) = {} /\ KeyOf(csr) \cap leaked = {}
  BY Zenon DEF KeysAccounted
<1>5. keys' = (keys \ going) \ dropped
  BY Zenon
<1> HIDE DEF owned, going
<1>6. /\ keys' = (owned \ going) \cup KeyOf(csr') \cup leaked'
      /\ (owned \ going) \cap (KeyOf(csr') \cup leaked') = {}
      /\ KeyOf(csr') \cap leaked' = {}
  BY <1>3, <1>4, <1>5
<1> QED BY ZenonT(60), <1>1, <1>2, <1>6 DEF KeysAccounted

\* What reap drops
LEMMA ReapedAccounts ==
    ASSUME TypeOK
    PROVE  \E dropped \in SUBSET KeyOf(csr) :
              /\ ReapedKeys = keys \ dropped
              /\ KeyOf(ReapedCsr) = KeyOf(csr) \ dropped
<1>1. CASE Reaps("csr_requested")
  <2>1. ReapedKeys = keys \ KeyOf(csr) /\ KeyOf(ReapedCsr) = KeyOf(csr) \ KeyOf(csr)
    BY <1>1 DEF ReapedKeys, ReapedCsr, KeyOf
  <2> QED BY <2>1
<1>2. CASE ~Reaps("csr_requested")
  <2>1. ReapedKeys = keys \ {} /\ KeyOf(ReapedCsr) = KeyOf(csr) \ {}
    BY Zenon, <1>2 DEF ReapedKeys, ReapedCsr
  <2> QED BY Zenon, <2>1
<1> QED BY <1>1, <1>2

\* Every step keeps the books of the key store right
LEMMA KeysStep ==
    ASSUME TypeOK, KeysAccounted, [Next]_vars
    PROVE  KeysAccounted'
<1> USE DEF credentials
<1>0. failsafe \in Armed \cup {None} /\ csr \in PendingCsrs \cup {None}
  BY Zenon DEF TypeOK
<1>1. ASSUME UNCHANGED <<fabrics, keys, leaked>>, KeyOf(csr') = KeyOf(csr)
      PROVE  KeysAccounted'
  BY <1>1 DEF KeysAccounted, Joined
<1>2. \A anew \in BOOLEAN : KeyOf(Left(csr, FALSE, anew)) = KeyOf(csr)
  BY Zenon, <1>0 DEF Left, KeyOf, PendingCsrs
<1>3. ASSUME UNCHANGED <<fabrics, leaked>>, keys' = ReapedKeys, csr' = ReapedCsr
      PROVE  KeysAccounted'
  <2>1. PICK dropped \in SUBSET KeyOf(csr) :
          ReapedKeys = keys \ dropped /\ KeyOf(ReapedCsr) = KeyOf(csr) \ dropped
    BY ReapedAccounts
  <2> DEFINE gone == {}
  <2>2. /\ Joined' = Joined \ gone /\ \A i \in Joined' : fabrics'[i] = fabrics[i]
        /\ keys' = (keys \ {fabrics[i].key : i \in gone}) \ dropped
        /\ KeyOf(csr') = KeyOf(csr) \ dropped
    BY <1>3, <2>1 DEF Joined
  <2>3. gone \in SUBSET Joined
    OBVIOUS
  <2> HIDE DEF gone
  <2> QED BY Zenon, <1>3, <2>2, <2>3, DropAccounts
<1>4. ASSUME failsafe \in Armed, NEW anew \in BOOLEAN, Rollback(Cleanup(failsafe), anew)
      PROVE  KeysAccounted'
  <2> DEFINE cleanup == Cleanup(failsafe)
             gone == {cleanup.remove_fabric} \cap Joined
             closing == {cleanup.close_case_sessions_for} \ {NoFabric}
             dropped == IF cleanup.discard_pending THEN KeyOf(csr) ELSE {}
  <2>1. /\ ForgetFabric(gone, closing) /\ gone \in SUBSET Joined
        /\ keys' = (keys \ {fabrics[i].key : i \in gone}) \ dropped
        /\ csr' = Left(csr, cleanup.discard_pending, anew) /\ leaked' = leaked
    BY <1>4 DEF Rollback
  <2>2. cleanup.discard_pending \in BOOLEAN
    BY <1>4, ContextTypes DEF Cleanups
  <2>3. KeyOf(csr') = KeyOf(csr) \ dropped
    <3>1. CASE cleanup.discard_pending
      BY <2>1, <3>1 DEF Left, KeyOf
    <3>2. CASE cleanup.discard_pending = FALSE
      <4>1. csr' = Left(csr, FALSE, anew) /\ dropped = {}
        BY Zenon, <2>1, <3>2
      <4> QED BY Zenon, <1>2, <4>1
    <3> QED BY Zenon, <2>2, <3>1, <3>2
  <2>4. dropped \in SUBSET KeyOf(csr)
    OBVIOUS
  <2> HIDE DEF gone, closing, dropped
  <2>5. Joined' = Joined \ gone /\ \A i \in Joined' : fabrics'[i] = fabrics[i]
    BY Zenon, <2>1, ForgetTypes
  <2> QED BY ZenonT(60), <2>1, <2>3, <2>4, <2>5, DropAccounts
<1>5. ASSUME NEW anew \in BOOLEAN, NoRollback(anew) PROVE KeysAccounted'
  BY Zenon, <1>1, <1>2, <1>5 DEF NoRollback
<1>6. ASSUME NEW s \in sessions, NEW seconds \in Lengths, ArmFailSafe(s, seconds)
      PROVE  KeysAccounted'
  BY Zenon, <1>0, <1>4, <1>5, <1>6, ArmEffect DEF ArmRolls, ArmFinds, ArmKeeps
<1>7. ASSUME NEW s \in sessions, CompleteTooLate(s) PROVE KeysAccounted'
  BY Zenon, <1>0, <1>4, <1>7 DEF CompleteTooLate, Lapsed
<1>8. ASSUME NEW s \in sessions, NEW for_update \in BOOLEAN, CSRRequest(s, for_update)
      PROVE  KeysAccounted'
  <2> DEFINE others == keys \ KeyOf(csr)
             owned == {fabrics[i].key : i \in Joined}
  <2>1. UNCHANGED fabrics /\ owned' = owned
    BY Zenon, <1>8 DEF CSRRequest, Joined
  <2>2. \A i, j \in Joined' : fabrics'[i].key = fabrics'[j].key => i = j
    BY Zenon, <2>1 DEF KeysAccounted, Joined
  <2>3. others = owned \cup leaked /\ owned \cap leaked = {}
    BY Zenon DEF KeysAccounted
  <2>4. \/ \E k \in Handles \ others :
             keys' = others \cup {k} /\ KeyOf(csr') = {k} /\ leaked' = leaked
        \/ \E k \in Handles \ others :
             keys' = others \cup {k} /\ KeyOf(csr') = {} /\ leaked' = leaked \cup {k}
        \/ keys' = others /\ KeyOf(csr') = {} /\ leaked' = leaked
    <3>1. \A k \in Handles :
            KeyOf([key |-> k, for_update |-> for_update, stale |-> FALSE]) = {k}
      <4>1. \A k \in Handles, u \in BOOLEAN :
              [key |-> k, for_update |-> u, stale |-> FALSE] \in PendingCsrs
        BY DEF PendingCsrs
      <4> QED BY <4>1 DEF KeyOf
    <3>2. KeyOf(None) = {}
      BY Zenon DEF KeyOf
    <3>3. \/ \E k \in Handles \ others :
               /\ keys' = others \cup {k} /\ leaked' = leaked
               /\ csr' = [key |-> k, for_update |-> for_update, stale |-> FALSE]
          \/ \E k \in Handles \ others :
               keys' = others \cup {k} /\ csr' = None /\ leaked' = leaked \cup {k}
          \/ keys' = others /\ csr' = None /\ leaked' = leaked
      BY <1>8 DEF CSRRequest
    <3> HIDE DEF others
    <3> QED BY <3>1, <3>2, <3>3
  <2> HIDE DEF others, owned
  <2>5. /\ keys' = owned \cup KeyOf(csr') \cup leaked'
        /\ owned \cap (KeyOf(csr') \cup leaked') = {} /\ KeyOf(csr') \cap leaked' = {}
    BY ZenonT(60), <2>3, <2>4
  <2> QED BY Zenon, <2>1, <2>2, <2>5 DEF KeysAccounted, owned
<1>9. ASSUME NEW s \in sessions, AddNOC(s) PROVE KeysAccounted'
  <2> DEFINE index == AllocateIndex
             owned == {fabrics[i].key : i \in Joined}
  <2>1. /\ Joined' = Joined \cup {index} /\ index \notin Joined
        /\ fabrics'[index].key = csr.key
        /\ \A i \in Joined : fabrics'[i] = fabrics[i]
        /\ csr \in PendingCsrs
    BY SMTT(20), <1>9, JoinTypes
  <2>2. UNCHANGED <<keys, leaked>> /\ csr' = None
    BY Zenon, <1>9 DEF AddNOC, UsedCsr
  <2>3. KeyOf(csr) = {csr.key} /\ KeyOf(csr') = {}
    BY Zenon, <2>1, <2>2 DEF KeyOf
  <2> HIDE DEF index
  <2>4. {fabrics'[i].key : i \in Joined'} = owned \cup {csr.key}
    BY Zenon, <2>1
  <2>5. /\ keys = owned \cup {csr.key} \cup leaked
        /\ owned \cap ({csr.key} \cup leaked) = {} /\ csr.key \notin leaked
    BY <2>3 DEF KeysAccounted
  <2>6. \A i \in Joined : fabrics[i].key # csr.key
    BY Zenon, <2>5
  <2>7. \A i, j \in Joined' : fabrics'[i].key = fabrics'[j].key => i = j
    <3> SUFFICES ASSUME NEW i \in Joined', NEW j \in Joined',
                        fabrics'[i].key = fabrics'[j].key
                 PROVE  i = j
      OBVIOUS
    <3>1. (i \in Joined \/ i = index) /\ (j \in Joined \/ j = index)
      BY Zenon, <2>1
    <3>2. CASE i \in Joined /\ j \in Joined
      BY Zenon, <2>1, <3>2 DEF KeysAccounted
    <3>3. CASE i \in Joined /\ j = index
      BY Zenon, <2>1, <2>6, <3>3
    <3>4. CASE i = index /\ j \in Joined
      BY Zenon, <2>1, <2>6, <3>4
    <3> QED BY Zenon, <3>1, <3>2, <3>3, <3>4
  <2> HIDE DEF owned
  <2>8. /\ keys' = (owned \cup {csr.key}) \cup {} \cup leaked'
        /\ (owned \cup {csr.key}) \cap ({} \cup leaked') = {} /\ {} \cap leaked' = {}
    BY Zenon, <2>2, <2>5
  <2> QED BY Zenon, <2>3, <2>4, <2>7, <2>8 DEF KeysAccounted
<1>10. ASSUME NEW s \in sessions, UpdateNOC(s) PROVE KeysAccounted'
  <2> DEFINE mine == s.fabric
             rest == {fabrics[i].key : i \in Joined \ {mine}}
  <2>1. /\ mine \in Joined /\ csr \in PendingCsrs /\ csr' = None
        /\ keys' = keys \ {fabrics[mine].key} /\ leaked' = leaked
    BY <1>0, <1>10 DEF UpdateNOC, UsedCsr, ReapedCsr
  <2>2. /\ Joined' = Joined /\ fabrics'[mine].key = csr.key
        /\ \A i \in Joined \ {mine} : fabrics'[i] = fabrics[i]
    BY Zenon, <1>10, <2>1 DEF UpdateNOC, Joined, TypeOK, Fabrics
  <2>3. KeyOf(csr) = {csr.key} /\ KeyOf(csr') = {}
    BY <2>1 DEF KeyOf
  <2> HIDE DEF mine
  <2>4. {fabrics[i].key : i \in Joined} = rest \cup {fabrics[mine].key}
    BY <2>1
  <2>5. {fabrics'[i].key : i \in Joined'} = rest \cup {csr.key}
    BY Zenon, <2>1, <2>2
  <2>6. fabrics[mine].key \notin rest
    BY Zenon, <2>1 DEF KeysAccounted
  <2>7. /\ keys = rest \cup {fabrics[mine].key} \cup {csr.key} \cup leaked
        /\ (rest \cup {fabrics[mine].key}) \cap ({csr.key} \cup leaked) = {}
        /\ csr.key \notin leaked
    BY Zenon, <2>3, <2>4 DEF KeysAccounted
  <2>8. \A i \in Joined \ {mine} : fabrics[i].key # csr.key
    BY Zenon, <2>7
  <2>9. \A i, j \in Joined' : fabrics'[i].key = fabrics'[j].key => i = j
    <3> SUFFICES ASSUME NEW i \in Joined, NEW j \in Joined,
                        fabrics'[i].key = fabrics'[j].key
                 PROVE  i = j
      BY Zenon, <2>2
    <3>1. CASE i # mine /\ j # mine
      BY Zenon, <2>2, <3>1 DEF KeysAccounted
    <3>2. CASE i # mine /\ j = mine
      BY Zenon, <2>2, <2>8, <3>2
    <3>3. CASE i = mine /\ j # mine
      BY Zenon, <2>2, <2>8, <3>3
    <3> QED BY Zenon, <3>1, <3>2, <3>3
  <2> HIDE DEF rest
  <2> QED BY <2>1, <2>3, <2>5, <2>6, <2>7, <2>9 DEF KeysAccounted
<1>11. ASSUME NEW i \in Indexes, RemoveFabric(i) PROVE KeysAccounted'
  <2>1. /\ ForgetFabric({i}, {}) /\ {i} \subseteq Joined /\ leaked' = leaked
        /\ csr' = ReapedCsr /\ keys' = ReapedKeys \ {fabrics[i].key}
    BY <1>11 DEF RemoveFabric
  <2>2. PICK dropped \in SUBSET KeyOf(csr) :
          ReapedKeys = keys \ dropped /\ KeyOf(ReapedCsr) = KeyOf(csr) \ dropped
    BY ReapedAccounts
  <2> DEFINE gone == {i}
  <2>3. {fabrics[j].key : j \in gone} = {fabrics[i].key}
    BY Zenon
  <2>4. keys' = (keys \ {fabrics[j].key : j \in gone}) \ dropped
    BY <2>1, <2>2, <2>3
  <2>5. Joined' = Joined \ gone /\ \A j \in Joined' : fabrics'[j] = fabrics[j]
    BY Zenon, <2>1, ForgetTypes
  <2>6. gone \in SUBSET Joined
    BY Zenon, <2>1
  <2> HIDE DEF gone
  <2> QED BY Zenon, <2>1, <2>2, <2>4, <2>5, <2>6, DropAccounts
<1>12. ASSUME NEW r \in Roots, AddTrustedRootCertificate(r) PROVE KeysAccounted'
  BY Zenon, <1>3, <1>12 DEF AddTrustedRootCertificate
<1>13. CASE OtherCommand
  BY <1>3, <1>13 DEF OtherCommand
<1>14. ASSUME NEW s \in sessions,
              \/ CloseSession(s) \/ CommissioningComplete(s)
              \/ OpenCommissioningWindow(s) \/ RevokeCommissioning
       PROVE  KeysAccounted'
  BY Zenon, <1>1, <1>14 DEF CloseSession, CommissioningComplete, OpenCommissioningWindow,
     RevokeCommissioning
<1>15. CASE EstablishPase \/ (\E i \in Indexes : EstablishCase(i)) \/ Tick \/ UNCHANGED vars
  BY Zenon, <1>1, <1>15 DEF EstablishPase, EstablishCase, Tick, vars
<1> QED BY Zenon, <1>6, <1>7, <1>8, <1>9, <1>10, <1>11, <1>12, <1>13, <1>14, <1>15
        DEF Next, Command

\* Over any run of the commands and any rollbacks between them, the key store holds a
\* key for each fabric in the table and the pending CSR, and no other but the leaked ones
THEOREM KeysAreAccounted == Spec => []KeysAccounted
<1>1. Init => KeysAccounted
  BY DEF Init, KeysAccounted, KeyOf, Joined
<1> QED BY <1>1, KeysStep, TypeCorrect, PTL DEF Spec

-----------------------------------------------------------------------------
\* What a context says it has seen is its own: NoStaleCredential with its induction
OwnCredentials ==
    failsafe # None =>
        /\ failsafe.progress.csr_requested /\ csr # None => ~csr.stale
        /\ failsafe.progress.added_trusted_root /\ root # None => ~root.stale

\* Every step keeps a context's credentials its own
LEMMA OwnStep ==
    ASSUME TypeOK, OwnCredentials, [Next]_vars
    PROVE  OwnCredentials'
<1> USE DEF credentials
<1>0. /\ failsafe \in Armed \cup {None}
      /\ csr \in PendingCsrs \cup {None} /\ root \in PendingRoots \cup {None}
  BY DEF TypeOK
<1>1. CASE failsafe' = None
  BY Zenon, <1>1 DEF OwnCredentials
<1>2. ASSUME UNCHANGED failsafe, csr' \in {csr, ReapedCsr, None}, root' \in {root, ReapedRoot}
      PROVE  OwnCredentials'
  BY <1>2 DEF OwnCredentials, ReapedCsr, ReapedRoot
<1>3. ASSUME NEW s \in sessions, NEW seconds \in Lengths, ArmFailSafe(s, seconds)
      PROVE  OwnCredentials'
  <2>1. CASE failsafe' = NewContext(seconds, s.fabric)
    BY Zenon, <2>1 DEF NewContext, OwnCredentials
  <2>2. CASE ArmKeeps(s, seconds)
    <3>1. failsafe \in Armed /\ failsafe'.progress = failsafe.progress
      BY <1>0, <2>2 DEF ArmKeeps, Rearmed, Armed
    <3>2. /\ csr' # None => csr # None /\ (csr'.stale <=> csr.stale)
          /\ root' # None => root # None /\ (root'.stale <=> root.stale)
      BY Zenon, <1>0, <2>2 DEF ArmKeeps, NoRollback, Left, PendingCsrs, PendingRoots
    <3> QED BY <3>1, <3>2 DEF OwnCredentials
  <2> QED BY ZenonT(60), <1>1, <1>3, <2>1, <2>2, ArmEffect DEF ArmRolls, ArmFinds
<1>4. ASSUME NEW s \in sessions, NEW for_update \in BOOLEAN, CSRRequest(s, for_update)
      PROVE  OwnCredentials'
  <2>1. failsafe \in Armed /\ root' = ReapedRoot
    BY Zenon, <1>0, <1>4 DEF CSRRequest, MayChange, Live
  <2>2. CASE UNCHANGED failsafe /\ csr' = None
    BY Zenon, <1>2, <2>1, <2>2
  <2>3. ASSUME NEW k \in Handles, failsafe' = Recorded(failsafe, "csr_requested"),
               csr' = [key |-> k, for_update |-> for_update, stale |-> FALSE]
        PROVE  OwnCredentials'
    <3>1. ~csr'.stale
      BY <2>3
    <3>2. failsafe'.progress.added_trusted_root = failsafe.progress.added_trusted_root
      BY Zenon, <2>1, <2>3 DEF Recorded, Armed, Progress
    <3> QED BY Zenon, <2>1, <3>1, <3>2 DEF OwnCredentials, ReapedRoot
  <2> QED BY Zenon, <1>4, <2>2, <2>3 DEF CSRRequest
<1>5. ASSUME NEW r \in Roots, AddTrustedRootCertificate(r) PROVE OwnCredentials'
  <2>1. /\ failsafe \in Armed /\ csr' = ReapedCsr /\ ~root'.stale
        /\ failsafe' = Recorded(failsafe, "added_trusted_root")
    BY <1>0, <1>5 DEF AddTrustedRootCertificate, MayChange, Live
  <2>2. failsafe'.progress.csr_requested = failsafe.progress.csr_requested
    BY ZenonT(60), <2>1 DEF Recorded, Armed, Progress
  <2> QED BY Zenon, <2>1, <2>2 DEF OwnCredentials, ReapedCsr
<1>6. ASSUME NEW s \in sessions, AddNOC(s) PROVE OwnCredentials'
  BY Zenon, <1>6 DEF AddNOC, UsedCsr, OwnCredentials
<1>7. ASSUME NEW s \in sessions, UpdateNOC(s) PROVE OwnCredentials'
  <2>1. /\ failsafe \in Armed /\ csr' = None /\ root' = ReapedRoot
        /\ failsafe' = Recorded(failsafe, "updated_noc")
    BY <1>0, <1>7 DEF UpdateNOC, UsedCsr, MayChange, Live
  <2>2. failsafe'.progress.added_trusted_root = failsafe.progress.added_trusted_root
    BY <2>1 DEF Recorded, Armed, Progress
  <2> QED BY <2>1, <2>2 DEF OwnCredentials, ReapedRoot
<1>8. CASE Tick
  <2>1. failsafe # None => failsafe'.progress = failsafe.progress
    BY Zenon, <1>0, <1>8 DEF Tick, Elapsed, Armed
  <2> QED BY <1>8, <2>1 DEF Tick, OwnCredentials
<1>9. ASSUME NEW s \in sessions,
             \/ CloseSession(s) \/ CompleteTooLate(s) \/ CommissioningComplete(s)
             \/ OpenCommissioningWindow(s) \/ RevokeCommissioning \/ OtherCommand
             \/ \E i \in Indexes : RemoveFabric(i)
      PROVE  OwnCredentials'
  BY Zenon, <1>1, <1>2, <1>9 DEF CloseSession, CompleteTooLate, CommissioningComplete,
     OpenCommissioningWindow, RevokeCommissioning, OtherCommand, RemoveFabric
<1>10. CASE EstablishPase \/ (\E i \in Indexes : EstablishCase(i)) \/ UNCHANGED vars
  BY Zenon, <1>2, <1>10 DEF EstablishPase, EstablishCase, vars
<1> QED BY Zenon, <1>3, <1>4, <1>5, <1>6, <1>7, <1>8, <1>9, <1>10 DEF Next, Command

\* A step that uses a NOC, in a context that had not, is AddNOC or UpdateNOC, and what
\* reap left them is the context's own
LEMMA NocUseStep ==
    ASSUME TypeOK, OwnCredentials, Next,
           Live(failsafe), ~UsedNoc(failsafe), failsafe' # None, UsedNoc(failsafe')
    PROVE  ~csr.stale /\ (failsafe'.progress.added_noc => ~root.stale)
<1> USE DEF credentials
<1>0. failsafe \in Armed /\ failsafe' # failsafe
  BY Zenon DEF TypeOK, Live
<1>1. ReapedCsr # None => failsafe.progress.csr_requested /\ csr # None
  BY DEF ReapedCsr, Reaps
<1>2. ReapedRoot # None => failsafe.progress.added_trusted_root /\ root # None
  BY Zenon DEF ReapedRoot, Reaps
<1>3. ASSUME NEW s \in sessions, AddNOC(s) PROVE ~csr.stale /\ ~root.stale
  BY Zenon, <1>0, <1>1, <1>2, <1>3 DEF AddNOC, OwnCredentials
<1>4. ASSUME NEW s \in sessions, UpdateNOC(s)
      PROVE  ~csr.stale /\ ~failsafe'.progress.added_noc
  <2>1. failsafe' = Recorded(failsafe, "updated_noc") /\ ReapedCsr # None
    BY <1>4 DEF UpdateNOC
  <2>2. failsafe'.progress.added_noc = failsafe.progress.added_noc
    BY Zenon, <1>0, <2>1 DEF Recorded, Armed, Progress
  <2> QED BY <1>0, <1>1, <2>1, <2>2 DEF OwnCredentials, UsedNoc
<1>5. ASSUME failsafe'.progress = failsafe.progress PROVE FALSE
  BY <1>5 DEF UsedNoc
<1>6. ASSUME NEW s \in sessions, NEW seconds \in Lengths, ArmFailSafe(s, seconds) PROVE FALSE
  <2>1. CASE failsafe' = NewContext(seconds, s.fabric)
    BY <2>1 DEF NewContext, UsedNoc
  <2>2. CASE failsafe' = Rearmed(failsafe, seconds)
    BY <1>0, <1>5, <2>2 DEF Rearmed, Armed
  <2> QED BY Zenon, <1>0, <1>6, <2>1, <2>2, ArmEffect DEF ArmRolls, ArmFinds, ArmKeeps
<1>7. ASSUME NEW step \in {"csr_requested", "added_trusted_root"},
             failsafe' = Recorded(failsafe, step)
      PROVE  FALSE
  BY <1>0, <1>7 DEF Recorded, UsedNoc, Armed, Progress
<1>8. CASE Tick
  BY <1>0, <1>5, <1>8 DEF Tick, Elapsed, Armed
<1>9. ASSUME NEW s \in sessions,
             \/ CloseSession(s) \/ CompleteTooLate(s) \/ CommissioningComplete(s)
             \/ OpenCommissioningWindow(s) \/ RevokeCommissioning \/ OtherCommand
             \/ \E for_update \in BOOLEAN : CSRRequest(s, for_update)
             \/ \E r \in Roots : AddTrustedRootCertificate(r)
             \/ \E i \in Indexes : RemoveFabric(i)
      PROVE  FALSE
  BY Zenon, <1>0, <1>7, <1>9 DEF CloseSession, CompleteTooLate, CommissioningComplete, CSRRequest,
     OpenCommissioningWindow, RevokeCommissioning, OtherCommand, RemoveFabric,
     AddTrustedRootCertificate
<1>10. CASE EstablishPase \/ (\E i \in Indexes : EstablishCase(i))
  BY <1>0, <1>10 DEF EstablishPase, EstablishCase
<1> QED BY Zenon, <1>3, <1>4, <1>6, <1>8, <1>9, <1>10 DEF Next, Command

\* reap keeps the fail-safe contexts apart: AddNOC and UpdateNOC never use a CSR or a
\* root that was left pending by an earlier context
THEOREM NoStaleCredentialUsed == Spec => NoStaleCredential
<1>1. Init => OwnCredentials
  BY DEF Init, OwnCredentials
<1>2. TypeOK /\ OwnCredentials /\ [Next]_vars
        => [Live(failsafe) /\ ~UsedNoc(failsafe) /\ failsafe' # None /\ UsedNoc(failsafe')
              => /\ ~csr.stale
                 /\ failsafe'.progress.added_noc => ~root.stale]_vars
  BY NocUseStep
<1> QED BY <1>1, <1>2, OwnStep, TypeCorrect, PTL DEF Spec, NoStaleCredential
=============================================================================

------------------------- MODULE IndexerDrainProofs -------------------------
(***************************************************************************)
(* Proofs about IndexerDrain, for every number of replicas, set of shards, *)
(* kind of fault and number of restarts and spec changes.                  *)
(***************************************************************************)
EXTENDS IndexerDrain, TLAPS

\* TransitionTo, StartDrain, MarkFailed and MarkComplete yield a drain status.
LEMMA StatusType ==
  ASSUME NEW Targets, NEW st \in DrainStatus(Targets), NEW p \in Phases, NEW t \in Targets
  PROVE  /\ TransitionTo(st, p) \in DrainStatus(Targets)
         /\ StartDrain(st, t) \in DrainStatus(Targets)
         /\ MarkFailed(st) \in DrainStatus(Targets)
         /\ MarkComplete(st) \in DrainStatus(Targets)
  BY DEF DrainStatus, TransitionTo, StartDrain, MarkFailed, MarkComplete, Phases

\* A drain that starts from Idle is Draining on its target once the exclusion
\* is set, and stays Pending when the start failed: Pending has no transition
\* to Failed.
LEMMA StartFromIdle ==
  ASSUME NEW Targets, NEW st \in DrainStatus(Targets), st.phase = "Idle", NEW t \in Targets
  PROVE  /\ TransitionTo(StartDrain(st, t), "Draining")
              = [phase |-> "Draining", targetPod |-> t]
         /\ MarkFailed(StartDrain(st, t)) = [phase |-> "Pending", targetPod |-> t]
  BY DEF DrainStatus, TransitionTo, StartDrain, MarkFailed, ValidTransitions,
         Phases

\* Completed monitoring moves Draining to Verifying and leaves Pending alone.
LEMMA MonitorTransition ==
  ASSUME NEW Targets, NEW st \in DrainStatus(Targets), st.phase \in {"Pending", "Draining"}
  PROVE  TransitionTo(st, "Verifying")
           = IF st.phase = "Pending" THEN st
             ELSE [phase |-> "Verifying", targetPod |-> st.targetPod]
  BY DEF DrainStatus, TransitionTo, ValidTransitions, Phases

\* Completed verification moves Verifying to Complete.
LEMMA VerifyTransition ==
  ASSUME NEW Targets, NEW st \in DrainStatus(Targets), st.phase = "Verifying"
  PROVE  MarkComplete(st).phase = "Complete"
  BY DEF DrainStatus, TransitionTo, MarkComplete, ValidTransitions, Phases

USE ReplicasAssumption, ChangesAssumption, RestartsAssumption,
    EnvironmentsAssumption

-----------------------------------------------------------------------------
(***************************************************************************)
(* Type correctness.                                                       *)
(***************************************************************************)

\* The initial states have the types TypeOK gives.
LEMMA TypeCorrectInit == Init => TypeOK
<1> SUFFICES ASSUME Init PROVE TypeOK
  OBVIOUS
<1>1. InitializeDrainStatus \in DrainStatus(Pods)
  BY DEF InitializeDrainStatus, DrainStatus, Phases
<1>2. loc \in [Shards -> Pods]
  <2>1. 0 .. pods - 1 \subseteq Pods
    BY DEF Init, Replicas, Pods
  <2> QED
    BY <2>1 DEF Init
<1>3. desired \in Replicas /\ replicas \in Replicas /\ pods \in Replicas
  BY DEF Init
<1>4. work \in [desired : Replicas, enabled : BOOLEAN, st : DrainStatus(Pods)]
  BY <1>1, <1>3 DEF Init
<1>5. changes \in 0 .. MaxChanges /\ restarts \in 0 .. MaxRestarts
  BY DEF Init
<1>6. dest \in [Shards -> Pods \cup {NoPod}] /\ excl \in Pods \cup {NoPod}
  BY DEF Init
<1>7. enabled \in BOOLEAN /\ drainer \in BOOLEAN /\ deferred \in BOOLEAN
  BY Zenon DEF Init
<1>10. faults \in Environments
  BY DEF Init
<1>8. pc \in {"idle", "check", "monitor", "verify", "cancel", "saveDrain",
             "apply", "save"}
  BY DEF Init
<1>9. status \in DrainStatus(Pods)
  BY <1>1 DEF Init
<1> QED
  BY <1>2, <1>3, <1>4, <1>5, <1>6, <1>7, <1>8, <1>9, <1>10 DEF TypeOK

\* Every state of the drain has the types TypeOK gives: no operation of the
\* reconcile, of the StatefulSet controller or of OpenSearch leaves them.
THEOREM TypeCorrect == Spec => []TypeOK
<1>1. TypeOK /\ [Next]_vars => TypeOK'
  <2> SUFFICES ASSUME TypeOK, [Next]_vars
               PROVE  TypeOK'
    OBVIOUS
  <2> USE DEF TypeOK
  <2>0. Target \in Pods
    BY DEF Target, TargetPod, Pods, Replicas
  <2>1. CASE BeginReconcile
    BY <2>1 DEF BeginReconcile, outside, spec, search
  <2>2. CASE CheckNoDrain
    BY <2>2 DEF CheckNoDrain, Proceed, outside, spec, search
  <2>3. CASE StartDrainOK
    BY <2>3, <2>0, StatusType, StartFromIdle, Zenon
       DEF StartDrainOK, Wait, SetDrain, outside, spec, DrainStatus, Phases
  <2>4. CASE StartDrainClientError
    BY <2>4 DEF StartDrainClientError, Proceed, outside, spec, search
  <2>5. CASE StartDrainError
    BY <2>5, <2>0, StatusType, StartFromIdle
       DEF StartDrainError, Proceed, SetDrain, outside, spec, DrainStatus, Phases
  <2>6. CASE MonitorCount
    BY <2>6 DEF MonitorCount, outside, spec, search
  <2>7. CASE MonitorRelocations
    <3>1. TransitionTo(work.st, "Verifying") \in DrainStatus(Pods)
      BY <2>0, StatusType DEF Phases
    <3> QED
      BY <2>7, <3>1 DEF MonitorRelocations, Wait, SetDrain, outside, spec, search
  <2>8. CASE VerifyCount
    BY <2>8 DEF VerifyCount, outside, spec, search
  <2>9. CASE VerifyRelocations
    <3>1. MarkComplete(work.st) \in DrainStatus(Pods)
      BY <2>0, StatusType DEF Phases
    <3> QED
      BY <2>9, <3>1 DEF VerifyRelocations, SetDrain, outside, spec, search
  <2>10. CASE CancelDrain
    BY <2>10 DEF CancelDrain, outside, spec
  <2>11. CASE CheckComplete
    BY <2>11 DEF CheckComplete, outside, spec, search
  <2>12. CASE ReconcileStatefulSet
    BY <2>12 DEF ReconcileStatefulSet, spec, search
  <2>13. InitializeDrainStatus \in DrainStatus(Pods)
    BY DEF InitializeDrainStatus, DrainStatus, Phases
  <2>14. CASE SaveStatus
    BY <2>14, <2>13, Zenon DEF SaveStatus, Return, outside, spec, search
  <2>15. CASE ReconcileError
    BY <2>15, <2>13, Zenon DEF ReconcileError, Return, outside, spec, search
  <2>16. CASE OperatorRestart
    <3>1. restarts' \in 0 .. MaxRestarts
      BY <2>16 DEF OperatorRestart
    <3>2. UNCHANGED <<spec, replicas, pods, search, status, work>>
      BY <2>16 DEF OperatorRestart
    <3>3. pc' = "idle" /\ drainer' = FALSE /\ deferred' = FALSE
      BY <2>16 DEF OperatorRestart
    <3> QED
      BY <3>1, <3>2, <3>3, Zenon DEF spec, search
  <2>17. CASE UserScales
    BY <2>17 DEF UserScales, search, operator
  <2>18. CASE UserTogglesDrain
    BY <2>18 DEF UserTogglesDrain, search, operator
  <2>19. CASE PodCreated
    BY <2>19 DEF PodCreated, spec, search, operator, Replicas
  <2>20. CASE PodRemoved
    BY <2>20 DEF PodRemoved, spec, operator, Replicas
  <2>21. CASE OpenSearch
    BY <2>21 DEF OpenSearch, StartRelocation, FinishRelocation, AbortRelocation,
                 spec, operator
  <2>22. CASE UNCHANGED vars
    BY <2>22 DEF vars, spec, search, operator
  <2> QED
    BY <2>1, <2>2, <2>3, <2>4, <2>5, <2>6, <2>7, <2>8, <2>9, <2>10, <2>11,
       <2>12, <2>14, <2>15, <2>16, <2>17, <2>18, <2>19, <2>20, <2>21, <2>22
       DEF Next, Reconcile
<1> QED
  BY TypeCorrectInit, <1>1, PTL DEF Spec

-----------------------------------------------------------------------------
(***************************************************************************)
(* The inductive invariant.  ExclusionHeld alone is not inductive: it      *)
(* speaks of the stored status, and the step that stores it copies the     *)
(* reconcile's own.  So the invariant follows the reconcile: what its copy *)
(* holds at each point (CopyFollowsStatus), that the exclusion belongs to  *)
(* the copy as well (CopyExclusion), and that the drain check lets no      *)
(* Draining copy through to a StatefulSet it would shrink (DrainingWaits). *)
(***************************************************************************)
CopyFollowsStatus ==
  /\ pc = "check" => work.st = status
  /\ pc = "monitor" => /\ work.st = status
                       /\ status.phase \in {"Pending", "Draining"}
  /\ pc = "verify" => work.st = status /\ status.phase = "Verifying"
  /\ pc = "cancel" => status.phase = "Verifying" /\ work.st.phase = "Complete"

CopyExclusion ==
  pc \in {"saveDrain", "apply", "save"} /\ work.st.phase = "Draining"
    => excl = work.st.targetPod

DrainingWaits ==
  "get" \notin faults /\ pc = "apply" /\ work.enabled
    /\ work.st.phase = "Draining" => work.desired >= replicas

\* No error path of the drain check makes a legal transition to Failed.
RollbackUnreachable ==
  /\ status.phase \notin {"Failed", "RollingBack"}
  /\ work.st.phase \notin {"Failed", "RollingBack"}

IndInv ==
  /\ TypeOK
  /\ RollbackUnreachable
  /\ ExclusionHeld
  /\ CopyFollowsStatus
  /\ CopyExclusion
  /\ DrainingWaits

\* The inductive invariant holds initially and every step preserves it.
LEMMA IndInvInductive ==
  /\ Init => IndInv
  /\ IndInv /\ TypeOK' /\ [Next]_vars => IndInv'
<1>1. Init => IndInv
  BY TypeCorrectInit, SMTT(20)
     DEF Init, IndInv, RollbackUnreachable, ExclusionHeld, CopyFollowsStatus,
         CopyExclusion, DrainingWaits, InitializeDrainStatus
<1>2. IndInv /\ TypeOK' /\ [Next]_vars => IndInv'
  <2> SUFFICES ASSUME IndInv, TypeOK', [Next]_vars
               PROVE  IndInv'
    OBVIOUS
  <2> USE DEF spec, IndInv, RollbackUnreachable, ExclusionHeld, CopyFollowsStatus,
              CopyExclusion, DrainingWaits
  <2>0. /\ Target \in Pods
        /\ work.st \in DrainStatus(Pods) /\ status \in DrainStatus(Pods)
        /\ work \in [desired : Replicas, enabled : BOOLEAN,
                      st : DrainStatus(Pods)]
    BY DEF TypeOK, Target, TargetPod, Pods, Replicas
  <2>1. CASE BeginReconcile
    BY <2>1 DEF BeginReconcile, outside, search
  <2>2. CASE CheckNoDrain
    \* Without a read error a Draining copy passes only if there is nothing to
    \* shrink.
    BY <2>2 DEF CheckNoDrain, Proceed, DrainNeeded, ScaleDownDetected, outside,
                search, TypeOK, Replicas
  <2>3. CASE StartDrainOK
    \* The exclusion moves to the target while the stored phase is Idle.
    BY <2>3, <2>0, StartFromIdle DEF StartDrainOK, Wait, SetDrain, outside
  <2>4. CASE StartDrainClientError
    BY <2>4 DEF StartDrainClientError, Proceed, outside, search
  <2>5. CASE StartDrainError
    BY <2>5, <2>0, StartFromIdle DEF StartDrainError, Proceed, SetDrain, outside
  <2>6. CASE MonitorCount
    BY <2>6 DEF MonitorCount, outside, search
  <2>7. CASE MonitorRelocations
    BY <2>7, <2>0, MonitorTransition
       DEF MonitorRelocations, Wait, SetDrain, outside, search
  <2>8. CASE VerifyCount
    BY <2>8 DEF VerifyCount, outside, search
  <2>9. CASE VerifyRelocations
    BY <2>9, <2>0, VerifyTransition
       DEF VerifyRelocations, SetDrain, outside, search
  <2>10. CASE CancelDrain
    \* The exclusion is cleared while the stored phase is Verifying.
    BY <2>10 DEF CancelDrain, outside
  <2>11. CASE CheckComplete
    BY <2>11 DEF CheckComplete, outside, search
  <2>12. CASE ReconcileStatefulSet
    BY <2>12 DEF ReconcileStatefulSet, search
  <2>13. CASE SaveStatus
    BY <2>13, <2>0 DEF SaveStatus, Return, InitializeDrainStatus, outside, search
  <2>14. CASE ReconcileError
    BY <2>14, <2>0
       DEF ReconcileError, Return, InitializeDrainStatus, outside, search
  <2>15. CASE OperatorRestart
    BY <2>15 DEF OperatorRestart, search
  <2>16. CASE UserScales \/ UserTogglesDrain
    BY <2>16 DEF UserScales, UserTogglesDrain, search, operator
  <2>17. CASE PodCreated \/ PodRemoved
    BY <2>17 DEF PodCreated, PodRemoved, search, operator
  <2>18. CASE OpenSearch
    BY <2>18 DEF OpenSearch, StartRelocation, FinishRelocation, AbortRelocation,
                 operator
  <2>19. CASE UNCHANGED vars
    BY <2>19 DEF vars, search, operator
  <2> QED
    BY <2>1, <2>2, <2>3, <2>4, <2>5, <2>6, <2>7, <2>8, <2>9, <2>10, <2>11,
       <2>12, <2>13, <2>14, <2>15, <2>16, <2>17, <2>18, <2>19 DEF Next, Reconcile
<1> QED
  BY <1>1, <1>2

\* The inductive invariant is an invariant.
LEMMA IndInvInvariant == Spec => []IndInv
  BY IndInvInductive, TypeCorrect, PTL DEF Spec

\* While the stored phase is Draining the pod it names is excluded from
\* allocation, whatever faults, restarts and spec changes occur.
THEOREM ExclusionIsHeld == Spec => []ExclusionHeld
  BY IndInvInvariant, PTL DEF IndInv

\* Where the StatefulSet can always be read, no reconcile that read the phase
\* Draining shrinks it while drain is enabled.
THEOREM DrainingNeverShrinks == Spec => NoShrinkWhileDraining
<1>1. IndInv /\ [Next]_vars
        => [replicas' < replicas /\ work.enabled /\ "get" \notin faults
              => work.st.phase # "Draining"]_vars
  <2> SUFFICES ASSUME IndInv, [Next]_vars, replicas' < replicas, work.enabled,
                      "get" \notin faults
               PROVE  work.st.phase # "Draining"
    OBVIOUS
  <2>1. CASE ReconcileStatefulSet
    BY <2>1 DEF ReconcileStatefulSet, IndInv, DrainingWaits, TypeOK, Replicas
  <2>2. CASE ~ReconcileStatefulSet
    <3>1. UNCHANGED replicas
      BY <2>2 DEF Next, Reconcile, BeginReconcile, CheckNoDrain, StartDrainOK,
        StartDrainClientError, StartDrainError, MonitorCount,
        MonitorRelocations, VerifyCount, VerifyRelocations, CancelDrain,
        CheckComplete, SaveStatus, ReconcileError, OperatorRestart, UserScales,
        UserTogglesDrain, PodCreated, PodRemoved, OpenSearch, StartRelocation,
        FinishRelocation, AbortRelocation, outside, vars
    <3> QED
      BY <3>1 DEF IndInv, TypeOK, Replicas
  <2> QED
    BY <2>1, <2>2
<1> QED
  BY <1>1, IndInvInvariant, PTL DEF Spec, NoShrinkWhileDraining

-----------------------------------------------------------------------------
(***************************************************************************)
(* The drain that is verified.  VerifiedTargetEmpty looks back over three  *)
(* reconciles: Draining was stored after the exclusion was set, Verifying  *)
(* was stored after no relocation was left, and the count and the          *)
(* relocations were read once more.  The invariant says what each of them  *)
(* leaves behind: where a drain check stands (CheckInProgress), what one   *)
(* change of the spec can have led to (FirstChange), that the drain is     *)
(* about the pod that goes (TargetKept), and that from Verifying on        *)
(* nothing moves to it (ExclusionKept).                                    *)
(***************************************************************************)
CheckInProgress ==
  /\ pc \in {"monitor", "verify", "cancel"} => drainer /\ work.desired < replicas
  /\ deferred => pc \in {"apply", "save"}
  /\ pc = "saveDrain" => work.st.phase \in {"Pending", "Draining", "Verifying"}
  /\ pc = "saveDrain" /\ work.st.phase = "Verifying" => drainer
  /\ pc = "save" => replicas = work.desired

FirstChange ==
  /\ changes = 0 => /\ desired = replicas /\ pods = replicas
                    /\ work.desired = replicas
                    /\ status.phase = "Idle" /\ work.st.phase = "Idle"
  /\ changes <= 1 =>
       /\ \/ replicas = pods /\ work.desired \in {replicas, desired}
          \/ replicas = desired /\ work.desired = desired
       /\ work.desired # desired
            => status.phase = "Idle" /\ work.st.phase = "Idle"

TargetKept ==
  changes <= 1 /\ desired < replicas =>
    /\ status.phase \in {"Draining", "Verifying"} => status.targetPod = Target
    /\ work.st.phase \in {"Draining", "Verifying"} => work.st.targetPod = Target

Excludes(t) == excl = t /\ \A s \in Shards : dest[s] = NoPod \/ dest[s] # t

ExclusionKept ==
  drainer /\ ~deferred =>
    /\ status.phase = "Verifying" => Excludes(status.targetPod)
    /\ pc \in {"saveDrain", "apply", "save"} /\ work.st.phase = "Verifying"
         => Excludes(work.st.targetPod)

DrainInv == CheckInProgress /\ FirstChange /\ TargetKept /\ ExclusionKept

\* Every step preserves what is known of the drain and of the first change.
LEMMA DrainInvInductive ==
  /\ Init => DrainInv
  /\ IndInv /\ IndInv' /\ DrainInv /\ [Next]_vars => DrainInv'
<1>1. Init => DrainInv
  BY DEF Init, DrainInv, CheckInProgress, FirstChange, TargetKept, ExclusionKept,
         InitializeDrainStatus
<1>2. IndInv /\ IndInv' /\ DrainInv /\ [Next]_vars => DrainInv'
  <2> SUFFICES ASSUME IndInv, IndInv', DrainInv, [Next]_vars
               PROVE  DrainInv'
    OBVIOUS
  <2> USE DEF spec, DrainInv, CheckInProgress, FirstChange, TargetKept,
              ExclusionKept, Excludes
  <2>0. /\ TypeOK /\ CopyFollowsStatus /\ ExclusionHeld
        /\ work.st \in DrainStatus(Pods) /\ status \in DrainStatus(Pods)
        /\ work \in [desired : Replicas, enabled : BOOLEAN,
                      st : DrainStatus(Pods)]
        /\ desired \in Int /\ replicas \in Int /\ pods \in Int
        /\ changes \in Nat /\ work.desired \in Int
        /\ Target \in Pods
    BY DEF IndInv, TypeOK, Replicas, Target, TargetPod, Pods
  <2>1. CASE BeginReconcile
    BY <2>0, <2>1 DEF BeginReconcile, outside, search, Target
  <2>2. CASE CheckNoDrain
    BY <2>0, <2>2 DEF CheckNoDrain, Proceed, outside, search, Target,
                      CopyFollowsStatus
  <2>3. CASE StartDrainOK
    BY <2>0, <2>3, StartFromIdle
       DEF StartDrainOK, Wait, SetDrain, outside, Target, CopyFollowsStatus,
           DrainNeeded, ScaleDownDetected
  <2>4. CASE StartDrainClientError
    BY <2>0, <2>4 DEF StartDrainClientError, Proceed, outside, search, Target,
                      CopyFollowsStatus
  <2>5. CASE StartDrainError
    BY <2>0, <2>5, StartFromIdle
       DEF StartDrainError, Proceed, SetDrain, outside, Target,
           CopyFollowsStatus, DrainNeeded, ScaleDownDetected
  <2>6. CASE MonitorCount
    BY <2>0, <2>6 DEF MonitorCount, outside, search, Target, CopyFollowsStatus,
                      DrainNeeded, ScaleDownDetected
  <2>7. CASE MonitorRelocations
    BY <2>0, <2>7, MonitorTransition
       DEF MonitorRelocations, Wait, SetDrain, outside, search, Target,
           CopyFollowsStatus, HasRelocatingShards, ExclusionHeld
  <2>8. CASE VerifyCount
    BY <2>0, <2>8 DEF VerifyCount, outside, search, Target, CopyFollowsStatus,
                      DrainNeeded, ScaleDownDetected
  <2>9. CASE VerifyRelocations
    BY <2>0, <2>9, VerifyTransition
       DEF VerifyRelocations, SetDrain, outside, search, Target,
           CopyFollowsStatus
  <2>10. CASE CancelDrain
    BY <2>0, <2>10 DEF CancelDrain, outside, Target, CopyFollowsStatus
  <2>11. CASE CheckComplete
    BY <2>0, <2>11 DEF CheckComplete, outside, search, Target, CopyFollowsStatus
  <2>12. CASE ReconcileStatefulSet
    BY <2>0, <2>12 DEF ReconcileStatefulSet, search, Target, TargetPod
  <2>13. CASE SaveStatus
    BY <2>0, <2>13, Zenon DEF SaveStatus, Return, InitializeDrainStatus, outside,
                       search, Target
  <2>14. CASE ReconcileError
    BY <2>0, <2>14, Zenon DEF ReconcileError, Return, InitializeDrainStatus, outside,
                       search, Target
  <2>15. CASE OperatorRestart
    BY <2>0, <2>15 DEF OperatorRestart, search, Target
  <2>16. CASE UserScales \/ UserTogglesDrain
    BY <2>0, <2>16 DEF UserScales, UserTogglesDrain, search, operator, Target
  <2>17. CASE PodCreated \/ PodRemoved
    BY <2>0, <2>17 DEF PodCreated, PodRemoved, search, operator, Target
  <2>18. CASE OpenSearch
    \* A relocation that begins avoids the excluded pod.
    <3>1. \A r \in Shards : dest'[r] \in {dest[r], NoPod} \/ dest'[r] # excl
      BY <2>0, <2>18 DEF TypeOK, OpenSearch, StartRelocation, FinishRelocation,
                         AbortRelocation
    <3>2. UNCHANGED <<spec, replicas, pods, excl, status, operator>>
      BY <2>18 DEF OpenSearch, StartRelocation, FinishRelocation,
                   AbortRelocation
    <3> QED
      BY <2>0, <3>1, <3>2 DEF operator, Target
  <2>19. CASE UNCHANGED vars
    BY <2>19 DEF vars, search, operator, Target
  <2> QED
    BY <2>1, <2>2, <2>3, <2>4, <2>5, <2>6, <2>7, <2>8, <2>9, <2>10, <2>11,
       <2>12, <2>13, <2>14, <2>15, <2>16, <2>17, <2>18, <2>19, Zenon DEF Next, Reconcile
<1> QED
  BY <1>1, <1>2

\* What is known of the drain is an invariant.
LEMMA DrainInvInvariant == Spec => []DrainInv
  BY DrainInvInductive, IndInvInvariant, PTL DEF Spec

(***************************************************************************)
(* Between the two calls of verifyDrainComplete every shard on the target  *)
(* is on its way to another pod, and after them there is none.             *)
(***************************************************************************)
VerifySound ==
  changes <= 1 /\ "abort" \notin faults =>
    /\ pc = "verify" => \A s \in Shards : loc[s] = Target => dest[s] # NoPod
    /\ pc = "cancel" => \A s \in Shards : Target \notin {loc[s], dest[s]}

\* Every step preserves it, given what is known of the drain.
LEMMA VerifySoundInductive ==
  /\ Init => VerifySound
  /\ IndInv /\ DrainInv /\ DrainInv' /\ VerifySound /\ [Next]_vars => VerifySound'
<1>1. Init => VerifySound
  BY DEF Init, VerifySound
<1>2. IndInv /\ DrainInv /\ DrainInv' /\ VerifySound /\ [Next]_vars => VerifySound'
  <2> SUFFICES ASSUME IndInv, DrainInv, DrainInv', VerifySound, [Next]_vars,
                      (changes <= 1)', ("abort" \notin faults)'
               PROVE  /\ (pc = "verify" => \A s \in Shards :
                                    loc[s] = Target => dest[s] # NoPod)'
                      /\ (pc = "cancel" => \A s \in Shards :
                                    Target \notin {loc[s], dest[s]})'
    BY DEF VerifySound
  <2> USE DEF VerifySound
  <2>0. /\ TypeOK /\ CopyFollowsStatus
        /\ desired \in Int /\ replicas \in Int /\ pods \in Int /\ changes \in Nat
        /\ work.desired \in Int /\ Target \in Pods /\ Target # NoPod
        /\ NoPod = -1
    BY DEF IndInv, TypeOK, Replicas, Target, TargetPod, Pods, NoPod
  \* While it verifies, no scale-down has been carried out and the target is
  \* excluded.
  <2>1. ASSUME pc \in {"verify", "cancel"}, changes <= 1
        PROVE  /\ Target < pods /\ pods = replicas /\ desired < replicas
               /\ Excludes(Target)
    <3>1. /\ work.desired < replicas /\ work.desired = desired
          /\ pods = replicas /\ drainer /\ ~deferred
      BY <2>0, <2>1 DEF DrainInv, CheckInProgress, FirstChange, CopyFollowsStatus
    <3>2. status.phase = "Verifying" /\ status.targetPod = Target
      BY <2>0, <2>1, <3>1 DEF CopyFollowsStatus, DrainInv, TargetKept
    <3> QED
      BY <2>0, <3>1, <3>2 DEF DrainInv, ExclusionKept, Target, TargetPod
  <2>2. CASE VerifyCount
    <3>1. ASSUME pc' = "verify" PROVE Target < pods
      <4>1. changes <= 1 /\ work.desired < replicas
        BY <2>2 DEF VerifyCount, DrainNeeded, ScaleDownDetected, outside, spec
      <4> QED
        BY <2>0, <4>1 DEF DrainInv, FirstChange, Target, TargetPod
    <3> QED
      BY <2>2, <3>1 DEF VerifyCount, GetShardsOnNode, outside, spec, search,
                        Target
  <2>3. CASE VerifyRelocations
    BY <2>0, <2>3 DEF VerifyRelocations, HasRelocatingShards, outside, spec,
                      search, Target
  <2>4. CASE OpenSearch
    <3>1. UNCHANGED <<spec, replicas, pods, excl, status, operator>>
      BY <2>4 DEF OpenSearch, StartRelocation, FinishRelocation,
                  AbortRelocation
    <3>2. \A r \in Shards : \/ loc'[r] = loc[r] /\ dest'[r] = dest[r]
                            \/ loc'[r] = loc[r] /\ dest'[r] \in Pods \ {excl}
                            \/ /\ dest[r] # NoPod
                               /\ loc'[r] = dest[r] /\ dest'[r] = NoPod
      BY <2>0, <2>4, <3>1 DEF TypeOK, OpenSearch, StartRelocation,
        FinishRelocation, AbortRelocation, spec
    <3>3. Target' = Target /\ NoPod \notin Pods
      BY <3>1 DEF Target, NoPod, Pods
    <3> QED
      BY <2>0, <2>1, <3>1, <3>2, <3>3 DEF Excludes, spec, operator
  <2>5. CASE PodCreated \/ PodRemoved
    BY <2>0, <2>1, <2>5 DEF PodCreated, PodRemoved, spec, search, operator,
                            Target
  <2>6. CASE UserScales \/ UserTogglesDrain
    BY <2>0, <2>6 DEF UserScales, UserTogglesDrain, search, operator, Target
  <2>7. CASE UNCHANGED vars
    BY <2>7, SMTT(20) DEF vars, spec, search, operator, Target
  <2>8. CASE BeginReconcile \/ CheckNoDrain \/ StartDrainOK
               \/ StartDrainClientError \/ StartDrainError \/ MonitorCount
               \/ MonitorRelocations
    BY <2>8 DEF BeginReconcile, CheckNoDrain, Proceed, StartDrainOK, Wait,
      StartDrainClientError, StartDrainError, MonitorCount, MonitorRelocations
  <2>9. CASE CancelDrain \/ CheckComplete \/ ReconcileStatefulSet \/ SaveStatus
               \/ ReconcileError \/ OperatorRestart
    BY <2>9 DEF CancelDrain, CheckComplete, ReconcileStatefulSet, SaveStatus,
      Return, ReconcileError, OperatorRestart
  <2> QED
    BY <2>2, <2>3, <2>4, <2>5, <2>6, <2>7, <2>8, <2>9 DEF Next, Reconcile
<1> QED
  BY <1>1, <1>2

\* VerifySound is an invariant.
LEMMA VerifySoundInvariant == Spec => []VerifySound
  BY VerifySoundInductive, DrainInvInvariant, IndInvInvariant, PTL DEF Spec

\* When verifyDrainComplete reports completion of the first scale-down, the
\* target pod holds no shard and none is moving to it, for any number of shards
\* and pods, unless relocations are aborted.
THEOREM VerifiedIsEmpty == Spec => []VerifiedTargetEmpty
<1>1. VerifySound => VerifiedTargetEmpty
  BY DEF VerifySound, VerifiedTargetEmpty
<1> QED
  BY <1>1, VerifySoundInvariant, PTL

-----------------------------------------------------------------------------
(***************************************************************************)
(* No shard goes offline in the first scale-down.  The StatefulSet shrinks *)
(* after the exclusion has been cleared, in a reconcile that completed the *)
(* drain or, when that one failed before it got there, in a later one that *)
(* finds Verifying stored and no drainer.  In both the target is empty and *)
(* stays so, because nothing moves any more (Drained).                     *)
(***************************************************************************)
Drained == excl = NoPod /\ \A s \in Shards : Target \notin {loc[s], dest[s]}

ScaleDownSafe ==
  FirstScaleDown /\ "abort" \notin faults =>
    /\ enabled /\ work.enabled
    /\ desired >= replicas - 1
    /\ \A s \in Shards : /\ loc[s] < pods /\ loc[s] < replicas
                         /\ dest[s] < pods /\ dest[s] < replicas
    /\ replicas < pods => excl = NoPod
    /\ pc = "apply" /\ work.desired < replicas => Drained
    /\ status.phase = "Verifying" /\ ~drainer /\ desired < replicas => Drained
    /\ status.phase = "Complete" => desired >= replicas

\* Every step preserves it, given what is known of the drain.
LEMMA ScaleDownSafeInductive ==
  /\ Init => ScaleDownSafe
  /\ IndInv /\ DrainInv /\ VerifySound /\ ScaleDownSafe /\ [Next]_vars
       => ScaleDownSafe'
<1>1. Init => ScaleDownSafe
  <2> SUFFICES ASSUME Init PROVE ScaleDownSafe
    OBVIOUS
  <2>1. desired \in Int /\ desired > 0
    BY DEF Init, Replicas
  <2> QED
    BY <2>1 DEF Init, ScaleDownSafe, InitializeDrainStatus, NoPod
<1>2. IndInv /\ DrainInv /\ VerifySound /\ ScaleDownSafe /\ [Next]_vars
        => ScaleDownSafe'
  <2> SUFFICES ASSUME IndInv, DrainInv, VerifySound, ScaleDownSafe, [Next]_vars,
                      (FirstScaleDown /\ "abort" \notin faults)'
               PROVE  ScaleDownSafe'
    BY DEF ScaleDownSafe
  <2>0. /\ TypeOK /\ CopyFollowsStatus
        /\ work.st \in DrainStatus(Pods) /\ status \in DrainStatus(Pods)
        /\ work \in [desired : Replicas, enabled : BOOLEAN,
                      st : DrainStatus(Pods)]
        /\ desired \in Int /\ replicas \in Int /\ pods \in Int /\ changes \in Nat
        /\ work.desired \in Int /\ replicas > 0 /\ NoPod = -1
        /\ \A s \in Shards : /\ loc[s] \in Int /\ loc[s] # NoPod
                             /\ dest[s] \in Int
        /\ Target = replicas - 1 /\ Target' = replicas' - 1
    BY SMTT(20) DEF IndInv, TypeOK, Replicas, Target, TargetPod, Pods, NoPod
  <2>a. UNCHANGED faults
    BY DEF Next, Reconcile, BeginReconcile, CheckNoDrain, StartDrainOK,
      StartDrainClientError, StartDrainError, MonitorCount, MonitorRelocations,
      VerifyCount, VerifyRelocations, CancelDrain, CheckComplete,
      ReconcileStatefulSet, SaveStatus, ReconcileError, OperatorRestart,
      UserScales, UserTogglesDrain, PodCreated, PodRemoved, OpenSearch,
      StartRelocation, FinishRelocation, AbortRelocation, outside, spec, vars
  <2>b. changes <= 1
    <3>1. UNCHANGED changes \/ UserScales \/ UserTogglesDrain
      BY DEF Next, Reconcile, BeginReconcile, CheckNoDrain, StartDrainOK,
        StartDrainClientError, StartDrainError, MonitorCount, MonitorRelocations,
        VerifyCount, VerifyRelocations, CancelDrain, CheckComplete,
        ReconcileStatefulSet, SaveStatus, ReconcileError, OperatorRestart,
        PodCreated, PodRemoved, OpenSearch, StartRelocation, FinishRelocation,
        AbortRelocation, outside, spec, vars
    <3>2. changes' \in {changes, changes + 1}
      BY <3>1 DEF UserScales, UserTogglesDrain
    <3> QED  BY <2>0, <3>2, SMTT(20) DEF FirstScaleDown
  <2>c. /\ FirstScaleDown /\ "abort" \notin faults
        /\ "get" \notin faults /\ ~ApiError /\ "rebalance" \notin faults
        /\ "restart" \notin faults /\ "toggle" \notin faults
        /\ "multi" \notin faults
    BY <2>a, <2>b DEF FirstScaleDown, ApiError
  <2> USE <2>0, <2>a, <2>b, <2>c DEF ScaleDownSafe, spec
  \* A reconcile that would shrink the StatefulSet has read the one change.
  <2>d. work.desired < replicas \/ desired < replicas
          => pods = replicas /\ desired < replicas
             /\ (work.desired < replicas => desired = work.desired)
    BY DEF DrainInv, FirstChange
  <2>1. CASE BeginReconcile
    BY <2>1, Zenon DEF BeginReconcile, outside, search, Drained
  <2>2. CASE CheckNoDrain
    <3>1. work.st.phase \notin {"Failed", "RollingBack"}
      BY DEF IndInv, RollbackUnreachable
    <3> QED
      BY <2>2, <3>1 DEF CheckNoDrain, Proceed, DrainNeeded, ScaleDownDetected,
                        outside, search, Drained
  <2>3. CASE StartDrainOK
    BY <2>3, <2>d DEF StartDrainOK, SetDrain, Wait, DrainNeeded,
      ScaleDownDetected, outside, CopyFollowsStatus
  <2>4. CASE StartDrainClientError \/ StartDrainError
    BY <2>4 DEF StartDrainClientError, StartDrainError
  <2>5. CASE MonitorCount
    BY <2>5 DEF MonitorCount, outside, search, Drained
  <2>6. CASE MonitorRelocations
    BY <2>6 DEF MonitorRelocations, Wait, SetDrain, outside, search, Drained
  <2>7. CASE VerifyCount
    \* A lost drainer: the drain had been completed.
    BY <2>7, <2>d DEF VerifyCount, DrainNeeded, ScaleDownDetected, outside,
      search, Drained, CopyFollowsStatus
  <2>8. CASE VerifyRelocations
    BY <2>8 DEF VerifyRelocations, SetDrain, outside, search, Drained
  <2>9. CASE CancelDrain
    <3>1. \A s \in Shards : Target \notin {loc[s], dest[s]}
      BY <2>9 DEF CancelDrain, VerifySound
    <3>2. drainer
      BY <2>9 DEF CancelDrain, DrainInv, CheckInProgress
    <3> QED
      BY <2>9, <3>1, <3>2 DEF CancelDrain, outside, Drained
  <2>10. CASE CheckComplete
    \* Complete is stored only after the StatefulSet has shrunk.
    BY <2>10, <2>d DEF CheckComplete, CopyFollowsStatus, DrainNeeded,
      ScaleDownDetected
  <2>11. CASE ReconcileStatefulSet
    <3>1. CASE work.desired < replicas
      <4>1. Drained /\ work.desired = replicas - 1 /\ desired = work.desired
        BY <2>11, <2>d, <3>1 DEF ReconcileStatefulSet
      <4> QED
        BY <2>11, <4>1 DEF ReconcileStatefulSet, search, Drained
    <3>2. CASE work.desired >= replicas
      <4>1. work.desired \in {replicas, desired}
        BY DEF DrainInv, FirstChange
      <4> QED
        BY <2>11, <2>d, <3>2, <4>1 DEF ReconcileStatefulSet, search, Drained
    <3> QED
      BY <3>1, <3>2, SMTT(20)
  <2>12. CASE SaveStatus \/ ReconcileError
    <3>1. UNCHANGED <<outside, search>> /\ pc' = "idle"
          /\ work'.enabled = work.enabled
      BY <2>12 DEF SaveStatus, ReconcileError, Return
    <3>2. (status.phase = "Complete" => desired >= replicas)'
      <4>1. CASE pc = "save" /\ SaveStatus
        BY <3>1, <4>1 DEF SaveStatus, outside, DrainInv, CheckInProgress,
                          FirstChange
      <4>2. CASE pc # "save" /\ SaveStatus
        BY <3>1, <4>2 DEF SaveStatus, outside, DrainInv, CheckInProgress
      <4>3. CASE ReconcileError
        BY <3>1, <4>3 DEF ReconcileError, outside
      <4> QED
        BY <2>12, <4>1, <4>2, <4>3
    <3>3. (status.phase = "Verifying" /\ ~drainer /\ desired < replicas
             => Drained)'
      <4> SUFFICES ASSUME status'.phase = "Verifying", ~drainer',
                          desired < replicas
                   PROVE  Drained
        BY <3>1 DEF outside, search, Drained
      <4>1. CASE ~drainer /\ status.phase = "Verifying"
        BY <4>1
      <4>2. CASE pc = "apply"
        \* The reconcile that completed the drain fails on its way.
        BY <2>12, <2>d, <4>1, <4>2 DEF SaveStatus, ReconcileError, Return,
          DrainInv, FirstChange
      <4>3. CASE pc \in {"save", "saveDrain"}
        BY <2>12, <2>d, <4>1, <4>3 DEF SaveStatus, ReconcileError, Return,
          DrainInv, FirstChange, CheckInProgress
      <4> QED
        BY <2>12, <4>1, <4>2, <4>3 DEF SaveStatus, ReconcileError
    <3> QED
      BY <3>1, <3>2, <3>3 DEF outside, search
  <2>13. CASE OperatorRestart \/ UserTogglesDrain
    BY <2>13, Zenon DEF OperatorRestart, UserTogglesDrain
  <2>14. CASE UserScales
    BY <2>14, <2>d DEF UserScales, search, operator, Drained, DrainInv, FirstChange,
      FirstScaleDown
  <2>15. CASE PodCreated
    BY <2>15, <2>d DEF PodCreated, search, operator, Drained
  <2>16. CASE PodRemoved
    BY <2>16, <2>d DEF PodRemoved, operator, Drained
  <2>17. CASE OpenSearch
    <3>1. UNCHANGED <<spec, replicas, pods, excl, status, operator>>
      BY <2>17, Zenon DEF OpenSearch, StartRelocation, FinishRelocation,
                   AbortRelocation
    <3>2. \A r \in Shards : \/ loc'[r] = loc[r] /\ dest'[r] = dest[r]
                            \/ /\ excl # NoPod /\ loc'[r] = loc[r]
                               /\ dest'[r] \in Pods /\ dest'[r] < pods
                            \/ /\ dest[r] # NoPod
                               /\ loc'[r] = dest[r] /\ dest'[r] = NoPod
      BY <2>17, <3>1, SMTT(20) DEF TypeOK, OpenSearch, StartRelocation, FinishRelocation,
                         AbortRelocation
    <3>3. \A r \in Shards : /\ loc'[r] < pods /\ loc'[r] < replicas
                            /\ dest'[r] < pods /\ dest'[r] < replicas
      <4> TAKE r \in Shards
      <4>1. /\ loc[r] < pods /\ loc[r] < replicas
            /\ dest[r] < pods /\ dest[r] < replicas
            /\ pods > 0 /\ (replicas < pods => excl = NoPod)
        BY DEF TypeOK, Replicas
      <4>2. \A n \in Pods : n \in Int
        BY DEF Pods
      <4> HIDE DEF ScaleDownSafe
      <4> QED
        BY <3>2, <4>1, <4>2
    <3>4. Target' = Target /\ (Drained => Drained')
      BY <3>1, <3>2 DEF Drained
    <3> QED
      BY <3>1, <3>3, <3>4 DEF operator
  <2>18. CASE UNCHANGED vars
    BY <2>18 DEF vars, search, operator, Drained
  <2> QED
    BY <2>1, <2>2, <2>3, <2>4, <2>5, <2>6, <2>7, <2>8, <2>9, <2>10, <2>11,
       <2>12, <2>13, <2>14, <2>15, <2>16, <2>17, <2>18, Zenon DEF Next, Reconcile
<1> QED
  BY <1>1, <1>2

\* The first scale-down by one pod leaves no shard on a removed pod, for any
\* number of shards and pods, as long as OpenSearch answers and moves shards off
\* the excluded pod only.  A late error may repeat any part of it.
THEOREM FirstScaleDownLosesNothing == Spec => []NoShardOffline
<1>1. ScaleDownSafe => NoShardOffline
  BY DEF ScaleDownSafe, NoShardOffline
<1>2. Spec => []ScaleDownSafe
  BY ScaleDownSafeInductive, VerifySoundInvariant, DrainInvInvariant,
     IndInvInvariant, PTL DEF Spec
<1> QED
  BY <1>1, <1>2, PTL

=============================================================================

------------------------- MODULE WorkerDrainProofs -------------------------
(***************************************************************************)
(* Proofs about WorkerDrain, for every worker count, queue depth, grace    *)
(* period and set of environments.                                         *)
(***************************************************************************)
EXTENDS WorkerDrain, TLAPS

\* TransitionTo, StartDrain, MarkFailed and MarkComplete yield a drain status.
LEMMA StatusType ==
  ASSUME NEW Targets, NEW st \in DrainStatus(Targets), NEW p \in Phases, NEW t \in Targets
  PROVE  /\ TransitionTo(st, p) \in DrainStatus(Targets)
         /\ StartDrain(st, t) \in DrainStatus(Targets)
         /\ MarkFailed(st) \in DrainStatus(Targets)
         /\ MarkComplete(st) \in DrainStatus(Targets)
  BY DEF DrainStatus, TransitionTo, StartDrain, MarkFailed, MarkComplete, Phases

\* A drain that starts from Idle is Draining on its target once the exclusion
\* is set, and stays Pending when the start failed: Pending has no transition
\* to Failed.
LEMMA StartFromIdle ==
  ASSUME NEW Targets, NEW st \in DrainStatus(Targets), st.phase = "Idle", NEW t \in Targets
  PROVE  /\ TransitionTo(StartDrain(st, t), "Draining")
              = [phase |-> "Draining", targetPod |-> t]
         /\ MarkFailed(StartDrain(st, t)) = [phase |-> "Pending", targetPod |-> t]
  BY DEF DrainStatus, TransitionTo, StartDrain, MarkFailed, ValidTransitions,
         Phases

\* Completed monitoring moves Draining to Verifying and leaves Pending alone.
LEMMA MonitorTransition ==
  ASSUME NEW Targets, NEW st \in DrainStatus(Targets), st.phase \in {"Pending", "Draining"}
  PROVE  TransitionTo(st, "Verifying")
           = IF st.phase = "Pending" THEN st
             ELSE [phase |-> "Verifying", targetPod |-> st.targetPod]
  BY DEF DrainStatus, TransitionTo, ValidTransitions, Phases

\* Completed verification moves Verifying to Complete.
LEMMA VerifyTransition ==
  ASSUME NEW Targets, NEW st \in DrainStatus(Targets), st.phase = "Verifying"
  PROVE  MarkComplete(st).phase = "Complete"
  BY DEF DrainStatus, TransitionTo, MarkComplete, ValidTransitions, Phases

-----------------------------------------------------------------------------
(***************************************************************************)
(* Type correctness.                                                       *)
(***************************************************************************)

\* The pod to be removed is a pod that may exist.
LEMMA TargetIsPod ==
  ASSUME DrainConstants, TypeOK
  PROVE  Target \in Pods
  BY DEF DrainConstants, TypeOK, Target, TargetPod, Pods, Replicas

\* What the copy of the status can become in a drain check is a drain status.
LEMMA CopyType ==
  ASSUME DrainConstants, TypeOK
  PROVE  /\ TransitionTo(StartDrain(work.st, Target), "Draining")
              \in DrainStatus(Pods)
         /\ MarkFailed(StartDrain(work.st, Target)) \in DrainStatus(Pods)
         /\ TransitionTo(work.st, "Verifying") \in DrainStatus(Pods)
         /\ MarkComplete(work.st) \in DrainStatus(Pods)
         /\ InitializeDrainStatus \in DrainStatus(Pods)
<1>1. work.st \in DrainStatus(Pods) /\ Target \in Pods
  BY TargetIsPod DEF TypeOK
<1>2. StartDrain(work.st, Target) \in DrainStatus(Pods)
  BY <1>1, StatusType DEF Phases
<1>3. InitializeDrainStatus \in DrainStatus(Pods)
  BY DEF InitializeDrainStatus, DrainStatus, Phases
<1> QED  BY <1>1, <1>2, <1>3, StatusType DEF Phases

\* A sample leaves a pod and an age in the history.
LEMMA SampleType ==
  ASSUME DrainConstants, TypeOK, Sample
  PROVE  observed' \in [pod : Pods \cup {NoPod}, age : Age]
  BY TargetIsPod DEF DrainConstants, TypeOK, Sample, Age, Nil

\* Ages stay within the grace period.
LEMMA OlderType ==
  ASSUME DrainConstants, NEW age \in Age
  PROVE  Older(age) \in Age
  BY DEF DrainConstants, Age, Nil, Older

\* Every step keeps the types.
LEMMA TypeInductive ==
  ASSUME DrainConstants, TypeOK, [Next]_vars
  PROVE  TypeOK'
<1> USE DEF outside, operator
<1>1. CASE BeginReconcile  BY <1>1 DEF BeginReconcile, TypeOK
<1>2. CASE CheckNoDrain  BY <1>2 DEF CheckNoDrain, TypeOK
<1>3. CASE StartDrainOK
  BY <1>3, CopyType, SampleType
  DEF StartDrainOK, SetDrain, TypeOK, Age, Nil, DrainConstants
<1>4. CASE StartDrainError
  BY <1>4, CopyType, Zenon DEF StartDrainError, SetDrain, TypeOK
<1>5. CASE Monitor
  <2>1. EmptySeen \in Age
    BY TargetIsPod DEF EmptySeen, TypeOK, Age, Nil, DrainConstants
  <2> QED
    BY <1>5, <2>1, CopyType, SampleType DEF Monitor, SetDrain, TypeOK
<1>6. CASE MonitorError  BY <1>6 DEF MonitorError, TypeOK
<1>7. CASE VerifyWaits
  BY <1>7, SampleType DEF VerifyWaits, TypeOK, Age, Nil, DrainConstants
<1>8. CASE VerifyComplete
  BY <1>8, CopyType, SampleType
  DEF VerifyComplete, SetDrain, TypeOK, Age, Nil, DrainConstants
<1>9. CASE VerifyError  BY <1>9 DEF VerifyError, TypeOK
<1>10. CASE CheckComplete  BY <1>10 DEF CheckComplete, TypeOK
<1>11. CASE ReconcileStatefulSet  BY <1>11 DEF ReconcileStatefulSet, TypeOK
<1>12. ASSUME Return
       PROVE  /\ pc' = "idle" /\ drainer' \in BOOLEAN /\ deferred' \in BOOLEAN
              /\ seen' \in Age /\ observed' = observed
              /\ work' \in [desired : Replicas, st : DrainStatus(Pods)]
  <2>1. drainer' \in BOOLEAN /\ deferred' \in BOOLEAN
    BY <1>12, Zenon DEF Return
  <2>2. seen' \in Age
    BY <1>12 DEF Return, TypeOK, Age, Nil, DrainConstants
  <2>3. work' \in [desired : Replicas, st : DrainStatus(Pods)]
    BY <1>12, CopyType DEF Return, TypeOK
  <2> QED  BY <1>12, <2>1, <2>2, <2>3 DEF Return
<1>13. CASE SaveStatus  BY <1>12, <1>13 DEF SaveStatus, TypeOK
<1>14. CASE ReconcileError  BY <1>12, <1>14 DEF ReconcileError, TypeOK
<1>15. CASE OperatorRestart
  <2>1. restarts' \in 0 .. MaxRestarts /\ seen' \in Age
    BY <1>15 DEF OperatorRestart, TypeOK, Age, Nil, DrainConstants
  <2> QED  BY <1>15, <2>1, Zenon DEF OperatorRestart, TypeOK
<1>16. CASE UserScales  BY <1>16 DEF UserScales, TypeOK, DrainConstants
<1>17. CASE PodCreated \/ PodRemoved
  BY <1>17 DEF PodCreated, PodRemoved, TypeOK, Replicas, DrainConstants
<1>18. CASE EventsFlow
  BY <1>18 DEF EventsFlow, EventArrives, EventProcessed, TypeOK, DrainConstants
<1>19. CASE Tick  BY <1>19, OlderType DEF Tick, TypeOK
<1>20. CASE UNCHANGED vars  BY <1>20 DEF vars, TypeOK
<1> QED
  BY <1>1, <1>2, <1>3, <1>4, <1>5, <1>6, <1>7, <1>8, <1>9, <1>10, <1>11, <1>13,
     <1>14, <1>15, <1>16, <1>17, <1>18, <1>19, <1>20 DEF Next, Reconcile

\* WorkerReconciler and the ManagerDrainer keep every count, age and status of
\* a drain in its range, whatever fails.
THEOREM WorkerTypeCorrect == ASSUME DrainConstants PROVE Spec => []TypeOK
<1>1. Init => TypeOK
  <2> SUFFICES ASSUME Init PROVE TypeOK  OBVIOUS
  <2>1. status \in DrainStatus(Pods) /\ work.st \in DrainStatus(Pods)
    BY DEF Init, InitializeDrainStatus, DrainStatus, Phases
  <2>2. /\ Nil \in Age /\ changes \in 0 .. MaxChanges
        /\ restarts \in 0 .. MaxRestarts
    BY DEF DrainConstants, Init, Age, Nil
  <2>3. work \in [desired : Replicas, st : DrainStatus(Pods)]
    BY <2>1 DEF Init
  <2>4. observed \in [pod : Pods \cup {NoPod}, age : Age]
    BY <2>2 DEF Init
  <2> QED  BY <2>1, <2>2, <2>3, <2>4, Zenon DEF Init, TypeOK
<1>2. TypeOK /\ [Next]_vars => TypeOK'
  BY TypeInductive
<1> QED  BY <1>1, <1>2, PTL DEF Spec

-----------------------------------------------------------------------------
(***************************************************************************)
(* The grace period.  That the time of the first empty sample is the       *)
(* target's own follows neither from the status nor from the drainer: it   *)
(* takes that the target is the same as long as one scale-down is on its   *)
(* way, and that VerifyQueueEmpty, which leaves the time alone when it     *)
(* finds events, is never followed by MonitorQueueDepth.                   *)
(***************************************************************************)

\* The reconcile's copy follows the stored status: it is what the check found,
\* and from Verifying it does not go back.
CopyFollowsStatus ==
  /\ pc = "check" => work.st = status
  /\ pc = "save" => replicas = work.desired
  /\ pc = "saveDrain" /\ status.phase = "Verifying" => work.st.phase = "Verifying"
  /\ status.phase = "Verifying" => work.st.phase # "Draining"

\* Before the first change of the worker count no drain is on its way.
NothingYet ==
  changes = 0 =>
    /\ desired = replicas /\ work.desired = replicas
    /\ status.phase = "Idle" /\ work.st.phase = "Idle" /\ seen = Nil

\* With one change the reconcile works with the count before it, and then no
\* drain is on its way, or with the one after it.
OneCount ==
  changes <= 1 =>
    /\ work.desired \in {replicas, desired}
    /\ work.desired # desired => status.phase = "Idle" /\ work.st.phase = "Idle"

\* The time of the first empty sample belongs to the target, and every later
\* sample was empty.
SeenIsTargets ==
  changes <= 1 /\ desired < replicas /\ status.phase # "Verifying" /\ seen # Nil
    => observed.pod = Target /\ observed.age >= seen

GraceInv == CopyFollowsStatus /\ NothingYet /\ OneCount /\ SeenIsTargets

\* No step lets the copy go back behind the stored status.
LEMMA CopyInductive ==
  ASSUME DrainConstants, TypeOK, CopyFollowsStatus, [Next]_vars
  PROVE  CopyFollowsStatus'
<1> USE DEF outside, operator, CopyFollowsStatus
<1>0. work.st \in DrainStatus(Pods) /\ status \in DrainStatus(Pods)
      /\ Target \in Pods /\ work \in [desired : Replicas, st : DrainStatus(Pods)]
  BY TargetIsPod DEF TypeOK
<1>1. CASE BeginReconcile  BY <1>1 DEF BeginReconcile
<1>2. CASE CheckNoDrain  BY <1>2 DEF CheckNoDrain
<1>3. CASE StartDrainOK
  BY <1>0, <1>3 DEF StartDrainOK, SetDrain
<1>4. CASE StartDrainError
  BY <1>0, <1>4, StartFromIdle DEF StartDrainError, SetDrain
<1>5. CASE Monitor
  BY <1>0, <1>5, MonitorTransition DEF Monitor, SetDrain
<1>6. CASE MonitorError  BY <1>6 DEF MonitorError
<1>7. CASE VerifyWaits  BY <1>7 DEF VerifyWaits
<1>8. CASE VerifyComplete
  BY <1>0, <1>8, VerifyTransition DEF VerifyComplete, SetDrain
<1>9. CASE VerifyError  BY <1>9 DEF VerifyError
<1>10. CASE CheckComplete  BY <1>10 DEF CheckComplete
<1>11. CASE ReconcileStatefulSet  BY <1>11 DEF ReconcileStatefulSet
<1>12. CASE SaveStatus
  BY <1>0, <1>12 DEF SaveStatus, Return, InitializeDrainStatus
<1>13. CASE ReconcileError
  BY <1>0, <1>13 DEF ReconcileError, Return, InitializeDrainStatus
<1>14. CASE OperatorRestart  BY <1>14 DEF OperatorRestart
<1>15. CASE UserScales \/ PodCreated \/ PodRemoved
  BY <1>15 DEF UserScales, PodCreated, PodRemoved
<1>16. CASE EventsFlow  BY <1>16 DEF EventsFlow, EventArrives, EventProcessed
<1>17. CASE Tick  BY <1>17 DEF Tick
<1>18. CASE UNCHANGED vars  BY <1>18 DEF vars
<1> QED
  BY <1>1, <1>2, <1>3, <1>4, <1>5, <1>6, <1>7, <1>8, <1>9, <1>10, <1>11, <1>12,
     <1>13, <1>14, <1>15, <1>16, <1>17, <1>18 DEF Next, Reconcile

\* A drain, and so a new count in the copy, takes a change of the spec.
LEMMA CountsInductive ==
  ASSUME DrainConstants, TypeOK, CopyFollowsStatus, NothingYet, OneCount,
         [Next]_vars
  PROVE  NothingYet' /\ OneCount'
<1> USE DEF outside, operator, CopyFollowsStatus, NothingYet, OneCount
<1>0. /\ work \in [desired : Replicas, st : DrainStatus(Pods)]
      /\ changes \in Nat /\ desired \in Int /\ replicas \in Int /\ work.desired \in Int
  BY DEF TypeOK, Replicas
<1>1. CASE BeginReconcile  BY <1>1 DEF BeginReconcile
<1>2. CASE CheckNoDrain  BY <1>2 DEF CheckNoDrain
<1>3. ASSUME pc = "check", DrainNeeded, changes' = changes, desired' = desired,
             replicas' = replicas, work'.desired = work.desired, status' = status
      PROVE  NothingYet' /\ OneCount'
  BY <1>0, <1>3 DEF DrainNeeded, ScaleDownDetected
<1>4. CASE \/ StartDrainOK \/ StartDrainError \/ Monitor \/ MonitorError
           \/ VerifyWaits \/ VerifyComplete \/ VerifyError \/ CheckComplete
  <2>1. work'.desired = work.desired
    BY <1>0, <1>4
    DEF StartDrainOK, StartDrainError, Monitor, MonitorError, VerifyWaits,
        VerifyComplete, VerifyError, CheckComplete, SetDrain
  <2>2. /\ pc = "check" /\ DrainNeeded /\ changes' = changes
        /\ desired' = desired /\ replicas' = replicas /\ status' = status
    BY <1>4
    DEF StartDrainOK, StartDrainError, Monitor, MonitorError, VerifyWaits,
        VerifyComplete, VerifyError, CheckComplete
  <2> QED  BY <1>3, <2>1, <2>2
<1>5. CASE ReconcileStatefulSet  BY <1>0, <1>5 DEF ReconcileStatefulSet
<1>6. CASE SaveStatus \/ ReconcileError
  BY <1>0, <1>6 DEF SaveStatus, ReconcileError, Return, InitializeDrainStatus
<1>7. CASE OperatorRestart  BY <1>7 DEF OperatorRestart
<1>8. CASE UserScales  BY <1>0, <1>8 DEF UserScales
<1>9. CASE PodCreated \/ PodRemoved  BY <1>9 DEF PodCreated, PodRemoved
<1>10. CASE EventsFlow  BY <1>10 DEF EventsFlow, EventArrives, EventProcessed
<1>11. CASE Tick  BY <1>11 DEF Tick, Older
<1>12. CASE UNCHANGED vars  BY <1>12 DEF vars
<1> QED
  BY <1>1, <1>2, <1>4, <1>5, <1>6, <1>7, <1>8, <1>9, <1>10, <1>11, <1>12
  DEF Next, Reconcile

\* A sample of an empty queue keeps the run of empty samples going or begins it.
LEMMA EmptySample ==
  ASSUME DrainConstants, TypeOK, Sample, queue[Target] = 0
  PROVE  /\ observed'.pod = Target /\ observed'.age >= 0
         /\ observed.pod = Target /\ observed.age # Nil => observed' = observed
  BY TargetIsPod DEF DrainConstants, TypeOK, Sample, Age, Nil

\* Every step keeps the time of the first empty sample the target's.
LEMMA SeenInductive ==
  ASSUME DrainConstants, TypeOK, GraceInv, [Next]_vars
  PROVE  SeenIsTargets'
<1> USE DEF outside, operator, GraceInv, SeenIsTargets
<1>0. /\ work \in [desired : Replicas, st : DrainStatus(Pods)]
      /\ changes \in Nat /\ desired \in Int /\ replicas \in Int /\ work.desired \in Int
      /\ seen \in Age /\ observed \in [pod : Pods \cup {NoPod}, age : Age]
  BY DEF TypeOK, Replicas
<1>1. CASE BeginReconcile  BY <1>1 DEF BeginReconcile, Target
<1>2. CASE CheckNoDrain  BY <1>2 DEF CheckNoDrain, Target
<1>3. CASE StartDrainOK  BY <1>3 DEF StartDrainOK
<1>4. CASE StartDrainError  BY <1>4 DEF StartDrainError, Target
<1>5. CASE Monitor
  <2> SUFFICES ASSUME changes' <= 1, desired' < replicas', seen' # Nil
               PROVE  observed'.pod = Target' /\ observed'.age >= seen'
    OBVIOUS
  <2>1. /\ seen' = EmptySeen /\ Sample /\ Target' = Target
        /\ changes <= 1 /\ desired < replicas /\ status.phase # "Verifying"
    BY <1>5 DEF Monitor, Target, CopyFollowsStatus
  <2>2. queue[Target] = 0 /\ seen' = IF seen = Nil THEN 0 ELSE seen
    BY <2>1, TargetIsPod DEF EmptySeen, TypeOK, DrainConstants
  <2>3. CASE seen = Nil  BY <2>1, <2>2, <2>3, EmptySample
  <2>4. CASE seen # Nil
    BY <1>0, <2>1, <2>2, <2>4, EmptySample DEF Age, Nil, DrainConstants
  <2> QED  BY <2>3, <2>4
<1>6. CASE MonitorError  BY <1>6 DEF MonitorError, Target
<1>7. CASE VerifyWaits  BY <1>7 DEF VerifyWaits, CopyFollowsStatus
<1>8. CASE VerifyComplete  BY <1>8 DEF VerifyComplete
<1>9. CASE VerifyError  BY <1>9 DEF VerifyError, Target
<1>10. CASE CheckComplete  BY <1>10 DEF CheckComplete, Target
<1>11. CASE ReconcileStatefulSet
  BY <1>0, <1>11 DEF ReconcileStatefulSet, Target, OneCount
<1>12. CASE SaveStatus
  BY <1>0, <1>12 DEF SaveStatus, Return, Target, CopyFollowsStatus, OneCount
<1>13. CASE ReconcileError  BY <1>13 DEF ReconcileError, Return, Target
<1>14. CASE OperatorRestart  BY <1>14 DEF OperatorRestart
<1>15. CASE UserScales  BY <1>0, <1>15 DEF UserScales, NothingYet
<1>16. CASE PodCreated \/ PodRemoved
  BY <1>16 DEF PodCreated, PodRemoved, Target
<1>17. CASE EventsFlow
  BY <1>17 DEF EventsFlow, EventArrives, EventProcessed, Target
<1>18. CASE Tick
  <2>1. /\ observed'.pod = observed.pod /\ observed'.age = Older(observed.age)
        /\ seen' = Older(seen) /\ Target' = Target
        /\ UNCHANGED <<changes, desired, replicas, status>>
    BY <1>0, <1>18 DEF Tick, Target
  <2>2. /\ Older(seen) # Nil => seen # Nil
        /\ seen # Nil /\ observed.age >= seen => Older(observed.age) >= Older(seen)
    BY <1>0 DEF Older, Age, Nil, DrainConstants
  <2> QED  BY <2>1, <2>2
<1>19. CASE UNCHANGED vars  BY <1>19 DEF vars, Target
<1> QED
  BY <1>1, <1>2, <1>3, <1>4, <1>5, <1>6, <1>7, <1>8, <1>9, <1>10, <1>11, <1>12,
     <1>13, <1>14, <1>15, <1>16, <1>17, <1>18, <1>19 DEF Next, Reconcile

\* The inductive invariant holds throughout.
LEMMA GraceInvInvariant == ASSUME DrainConstants PROVE Spec => [](TypeOK /\ GraceInv)
<1>1. Init => GraceInv
  BY DEF Init, GraceInv, CopyFollowsStatus, NothingYet, OneCount, SeenIsTargets,
         InitializeDrainStatus
<1>2. TypeOK /\ GraceInv /\ [Next]_vars => GraceInv'
  BY CopyInductive, CountsInductive, SeenInductive DEF GraceInv
<1> QED  BY <1>1, <1>2, WorkerTypeCorrect, PTL DEF Spec

\* Only a drain check that finds the queue of the target empty, the grace
\* period over, moves a drain from Draining to Verifying.
LEMMA VerifyingIsEarned ==
  ASSUME DrainConstants, TypeOK, GraceInv, [Next]_vars, changes <= 1,
         work.st.phase = "Draining", work'.st.phase = "Verifying"
  PROVE  observed' = [pod |-> Target, age |-> GracePeriod]
<1> USE DEF outside, operator
<1>0. /\ work.st \in DrainStatus(Pods) /\ Target \in Pods
      /\ work \in [desired : Replicas, st : DrainStatus(Pods)]
  BY TargetIsPod DEF TypeOK
<1>1. CASE BeginReconcile
  BY <1>1 DEF BeginReconcile, GraceInv, CopyFollowsStatus
<1>2. CASE Monitor
  <2>1. EmptySeen # Nil /\ EmptySeen >= GracePeriod /\ Sample
    BY <1>2 DEF Monitor
  <2>2. /\ changes <= 1 /\ desired < replicas /\ status.phase # "Verifying"
    BY <1>0, <1>2
    DEF Monitor, GraceInv, CopyFollowsStatus, NothingYet, OneCount, DrainNeeded,
        ScaleDownDetected, TypeOK, Replicas
  <2>3. queue[Target] = 0 /\ EmptySeen = IF seen = Nil THEN 0 ELSE seen
    BY <2>1, <1>0 DEF EmptySeen, TypeOK, DrainConstants
  <2>4. observed'.pod = Target /\ observed'.age >= GracePeriod
    <3>1. CASE seen = Nil
      BY <2>1, <2>3, <3>1, EmptySample, SampleType DEF Age, Nil, DrainConstants
    <3>2. CASE seen # Nil
      BY <2>1, <2>2, <2>3, <3>2, EmptySample
      DEF GraceInv, SeenIsTargets, TypeOK, Age, Nil, DrainConstants
    <3> QED  BY <3>1, <3>2
  <2> QED
    BY <2>1, <2>4, SampleType DEF Age, Nil, DrainConstants
<1>3. CASE StartDrainOK \/ StartDrainError
  BY <1>3 DEF StartDrainOK, StartDrainError
<1>4. CASE VerifyComplete  BY <1>4 DEF VerifyComplete
<1>5. CASE SaveStatus \/ ReconcileError
  BY <1>0, <1>5 DEF SaveStatus, ReconcileError, Return, InitializeDrainStatus
<1>6. CASE UNCHANGED work  BY <1>6
<1> QED
  BY <1>1, <1>2, <1>3, <1>4, <1>5, <1>6
  DEF Next, Reconcile, CheckNoDrain, MonitorError, VerifyWaits, VerifyError,
      CheckComplete, ReconcileStatefulSet, OperatorRestart, UserScales, PodCreated,
      PodRemoved, EventsFlow, EventArrives, EventProcessed, Tick, vars

\* MonitorQueueDepth finds a drain finished only after every sample of the
\* target's queue over the grace period was empty, whatever fails in between,
\* as long as the worker count is not changed again.
THEOREM MonitorWaitsForGrace == ASSUME DrainConstants PROVE Spec => GraceBeforeVerifying
<1>1. TypeOK /\ GraceInv /\ [Next]_vars
      => [ work'.st.phase = "Verifying" /\ work.st.phase = "Draining"
             /\ changes <= 1
           => observed' = [pod |-> Target, age |-> GracePeriod] ]_vars
  BY VerifyingIsEarned
<1> QED  BY <1>1, GraceInvInvariant, PTL DEF Spec, GraceBeforeVerifying

=============================================================================

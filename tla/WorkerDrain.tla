----------------------------- MODULE WorkerDrain -----------------------------
(***************************************************************************)
(* Scale-down of the Wazuh manager workers: WorkerReconciler's drain check *)
(* and the ManagerDrainer, which watches the event queue of the worker to  *)
(* be removed until it has been empty for a grace period.                  *)
(*                                                                         *)
(* As in IndexerDrain, `work' is the reconcile's copy of the WazuhCluster  *)
(* and the drainer lives in operator memory.  Time is counted in ticks and *)
(* only ages up to the grace period are told apart.                        *)
(***************************************************************************)
EXTENDS DrainState

CONSTANTS MaxReplicas,  \* largest spec.manager.workers replica count
          MaxChanges,   \* bound on the spec changes of a behaviour
          MaxRestarts,  \* bound on the operator restarts of a behaviour
          MaxDepth,     \* largest event queue depth
          GracePeriod,  \* the drainer's gracePeriod, in ticks
          Environments  \* the sets of FaultKinds that may occur together

\* At least one worker; the bounds and the grace period are natural numbers.
DrainConstants ==
  /\ MaxReplicas \in Nat \ {0}
  /\ {MaxChanges, MaxRestarts, MaxDepth, GracePeriod} \subseteq Nat

(***************************************************************************)
(* get       the drain check fails to read the StatefulSet                 *)
(* api       a call to the Wazuh API fails                                 *)
(* late      a reconcile step after the drain check returns an error       *)
(* events    agents keep sending events to the workers                     *)
(* restart   the operator is restarted, MaxRestarts times at most          *)
(***************************************************************************)
FaultKinds == {"get", "api", "late", "events", "restart"}

VARIABLES
  faults,    \* what may go wrong in this behaviour
  desired,   \* spec.manager.workers replicas
  changes,   \* number of spec changes so far
  replicas,  \* spec.replicas of the worker StatefulSet
  pods,      \* number of worker pods that exist: ordinals 0 .. pods-1
  queue,     \* the depth of each worker's event queue
  status,    \* status.drain.manager as stored by the API server
  drainer,   \* r.drainer # nil
  seen,      \* age of drainer.emptyQueueSeenTime, or Nil
  pc,        \* where the reconcile stands
  work,      \* the reconcile's copy: desired and the drain status
  deferred,  \* a deferred ResetDrainState is pending
  restarts,  \* number of operator restarts so far
  observed   \* history: the worker sampled last and the age of the unbroken
             \* run of empty samples of it, or Nil

outside  == <<faults, desired, changes, replicas, pods, queue, restarts>>
operator == <<drainer, seen, pc, work, deferred, observed>>
vars     == <<outside, status, operator>>

Replicas == 1 .. MaxReplicas
Pods     == 0 .. MaxReplicas - 1
Nil      == -1
Age      == Nil .. GracePeriod

TypeOK ==
  /\ faults \in Environments
  /\ desired \in Replicas
  /\ changes \in 0 .. MaxChanges
  /\ replicas \in Replicas
  /\ pods \in Replicas
  /\ queue \in [Pods -> 0 .. MaxDepth]
  /\ status \in DrainStatus(Pods)
  /\ drainer \in BOOLEAN
  /\ seen \in Age
  /\ pc \in {"idle", "check", "saveDrain", "apply", "save"}
  /\ work \in [desired : Replicas, st : DrainStatus(Pods)]
  /\ deferred \in BOOLEAN
  /\ restarts \in 0 .. MaxRestarts
  /\ observed \in [pod : Pods \cup {NoPod}, age : Age]

Init ==
  /\ faults \in Environments
  /\ desired \in Replicas
  /\ replicas = desired /\ pods = desired
  /\ changes = 0
  /\ queue \in [Pods -> 0 .. MaxDepth]
  /\ \A n \in Pods : n >= pods => queue[n] = 0
  /\ status = InitializeDrainStatus
  /\ drainer = FALSE
  /\ seen = Nil
  /\ pc = "idle"
  /\ work = [desired |-> desired, st |-> InitializeDrainStatus]
  /\ deferred = FALSE
  /\ restarts = 0
  /\ observed = [pod |-> NoPod, age |-> Nil]

-----------------------------------------------------------------------------
(***************************************************************************)
(* The reconcile, with drain.manager.enabled true; disabled, the check     *)
(* goes on to the StatefulSet, as without a scale-down.                    *)
(***************************************************************************)
Target == TargetPod(replicas)

ApiError == "api" \in faults

SetDrain(st) == work' = [work EXCEPT !.st = st]

\* GetQueueStatus answered for the target: remember what was seen.
Sample ==
  observed' =
    IF queue[Target] > 0 THEN [pod |-> Target, age |-> Nil]
    ELSE IF observed.pod = Target /\ observed.age # Nil THEN observed
    ELSE [pod |-> Target, age |-> 0]

BeginReconcile ==
  /\ pc = "idle"
  /\ pc' = "check"
  /\ work' = [desired |-> desired, st |-> status]
  /\ UNCHANGED <<outside, status, drainer, seen, deferred, observed>>

DrainNeeded == ScaleDownDetected(replicas, work.desired)

CheckNoDrain ==
  /\ pc = "check"
  /\ \/ ~DrainNeeded
     \/ "get" \in faults
     \/ work.st.phase \in {"Failed", "RollingBack"}
  /\ pc' = "apply"
  /\ UNCHANGED <<outside, status, drainer, seen, work, deferred, observed>>

\* An error of startDrain is logged and the reconcile goes on.
StartDrainOK ==
  /\ pc = "check" /\ DrainNeeded /\ work.st.phase = "Idle"
  /\ drainer' = TRUE
  /\ seen' = Nil
  /\ SetDrain(TransitionTo(StartDrain(work.st, Target), "Draining"))
  /\ pc' = "saveDrain"
  /\ Sample
  /\ UNCHANGED <<outside, status, deferred>>

StartDrainError ==
  /\ pc = "check" /\ DrainNeeded /\ work.st.phase = "Idle" /\ ApiError
  /\ \/ UNCHANGED <<drainer, work>>    \* no Wazuh client
     \/ /\ drainer' = TRUE             \* no answer from GetQueueStatus
        /\ SetDrain(MarkFailed(StartDrain(work.st, Target)))
  /\ pc' = "apply"
  /\ UNCHANGED <<outside, status, seen, deferred, observed>>

\* Mutant: the time of the first empty sample outlives a non-empty one.
EmptySeenSticky ==
  IF seen # Nil THEN seen ELSE IF queue[Target] > 0 THEN Nil ELSE 0

\* MonitorQueueDepth.
EmptySeen == IF queue[Target] > 0 THEN Nil ELSE IF seen = Nil THEN 0 ELSE seen

Monitor ==
  /\ pc = "check" /\ DrainNeeded /\ work.st.phase \in {"Pending", "Draining"}
  /\ drainer
  /\ seen' = EmptySeen
  /\ IF EmptySeen # Nil /\ EmptySeen >= GracePeriod
       THEN SetDrain(TransitionTo(work.st, "Verifying"))
       ELSE UNCHANGED work
  /\ pc' = "saveDrain"
  /\ Sample
  /\ UNCHANGED <<outside, status, drainer, deferred>>

MonitorError ==
  /\ pc = "check" /\ DrainNeeded /\ work.st.phase \in {"Pending", "Draining"}
  /\ ~drainer \/ ApiError
  /\ pc' = "saveDrain"
  /\ UNCHANGED <<outside, status, drainer, seen, work, deferred, observed>>

\* VerifyQueueEmpty.  A queue that is not empty leaves emptyQueueSeenTime as it
\* is.
VerifyWaits ==
  /\ pc = "check" /\ DrainNeeded /\ work.st.phase = "Verifying" /\ drainer
  /\ queue[Target] > 0 \/ seen = Nil \/ seen < GracePeriod
  /\ seen' = IF queue[Target] = 0 /\ seen = Nil THEN 0 ELSE seen
  /\ pc' = "saveDrain"
  /\ Sample
  /\ UNCHANGED <<outside, status, drainer, work, deferred>>

\* MarkComplete and CancelDrain, then ResetDrainState is deferred.
VerifyComplete ==
  /\ pc = "check" /\ DrainNeeded /\ work.st.phase = "Verifying" /\ drainer
  /\ queue[Target] = 0 /\ seen # Nil /\ seen >= GracePeriod
  /\ seen' = Nil
  /\ SetDrain(MarkComplete(work.st))
  /\ deferred' = TRUE
  /\ pc' = "apply"
  /\ Sample
  /\ UNCHANGED <<outside, status, drainer>>

VerifyError ==
  /\ pc = "check" /\ DrainNeeded /\ work.st.phase = "Verifying"
  /\ ~drainer \/ ApiError
  /\ pc' = "apply"
  /\ UNCHANGED <<outside, status, drainer, seen, work, deferred, observed>>

CheckComplete ==
  /\ pc = "check" /\ DrainNeeded /\ work.st.phase = "Complete"
  /\ deferred' = TRUE
  /\ pc' = "apply"
  /\ UNCHANGED <<outside, status, drainer, seen, work, observed>>

\* Mutant: every reconcile starts with a new reconciler.
ReturnForgets ==
  /\ pc' = "idle" /\ drainer' = FALSE /\ seen' = Nil /\ deferred' = FALSE
  /\ UNCHANGED <<work, observed>>

Return ==
  /\ pc' = "idle"
  /\ drainer' = (drainer /\ ~deferred)
  /\ seen' = IF deferred THEN Nil ELSE seen
  /\ work' = IF deferred THEN [work EXCEPT !.st = InitializeDrainStatus]
                         ELSE work
  /\ deferred' = FALSE
  /\ UNCHANGED observed

ReconcileStatefulSet ==
  /\ pc = "apply"
  /\ replicas' = work.desired
  /\ pc' = "save"
  /\ UNCHANGED <<faults, desired, changes, pods, queue, restarts, status,
                 drainer, seen, work, deferred, observed>>

SaveStatus ==
  /\ pc \in {"save", "saveDrain"}
  /\ status' = work.st
  /\ Return
  /\ UNCHANGED outside

ReconcileError ==
  /\ "late" \in faults
  /\ pc \in {"apply", "save", "saveDrain"}
  /\ Return
  /\ UNCHANGED <<outside, status>>

OperatorRestart ==
  /\ "restart" \in faults /\ restarts < MaxRestarts
  /\ restarts' = restarts + 1
  /\ pc' = "idle"
  /\ drainer' = FALSE
  /\ seen' = Nil
  /\ deferred' = FALSE
  /\ UNCHANGED <<faults, desired, changes, replicas, pods, queue, status, work,
                 observed>>

Reconcile ==
  \/ BeginReconcile \/ CheckNoDrain \/ StartDrainOK \/ StartDrainError
  \/ Monitor \/ MonitorError \/ VerifyWaits \/ VerifyComplete \/ VerifyError
  \/ CheckComplete \/ ReconcileStatefulSet \/ SaveStatus \/ ReconcileError

-----------------------------------------------------------------------------
(***************************************************************************)
(* The environment: the user, the StatefulSet controller, the workers and  *)
(* the clock.                                                              *)
(***************************************************************************)
UserScales ==
  /\ changes < MaxChanges
  /\ changes' = changes + 1
  /\ desired' \in Replicas \ {desired}
  /\ UNCHANGED <<faults, replicas, pods, queue, restarts, status, operator>>

PodCreated ==
  /\ pods < replicas
  /\ pods' = pods + 1
  /\ UNCHANGED <<faults, desired, changes, replicas, queue, restarts, status,
                 operator>>

PodRemoved ==
  /\ pods > replicas
  /\ pods' = pods - 1
  /\ UNCHANGED <<faults, desired, changes, replicas, queue, restarts, status,
                 operator>>

EventArrives(n) ==
  /\ "events" \in faults
  /\ n < pods /\ queue[n] < MaxDepth
  /\ queue' = [queue EXCEPT ![n] = @ + 1]
  /\ UNCHANGED <<faults, desired, changes, replicas, pods, restarts, status,
                 operator>>

EventProcessed(n) ==
  /\ n < pods /\ queue[n] > 0
  /\ queue' = [queue EXCEPT ![n] = @ - 1]
  /\ UNCHANGED <<faults, desired, changes, replicas, pods, restarts, status,
                 operator>>

Older(age) == IF age = Nil \/ age >= GracePeriod THEN age ELSE age + 1

Tick ==
  /\ pc = "idle"
  /\ seen' = Older(seen)
  /\ observed' = [observed EXCEPT !.age = Older(@)]
  /\ UNCHANGED <<outside, status, drainer, pc, work, deferred>>

EventsFlow == \E n \in Pods : EventArrives(n) \/ EventProcessed(n)

Next ==
  \/ Reconcile \/ OperatorRestart
  \/ UserScales \/ PodCreated \/ PodRemoved
  \/ EventsFlow \/ Tick

Spec == Init /\ [][Next]_vars

(***************************************************************************)
(* Fairness: reconciles run, time passes, the StatefulSet controller keeps *)
(* up and the workers process their queues.                                *)
(***************************************************************************)
FairSpec ==
  /\ Spec
  /\ WF_vars(Reconcile) /\ SF_vars(Tick)
  /\ WF_vars(PodCreated) /\ WF_vars(PodRemoved)
  /\ \A n \in Pods : WF_vars(EventProcessed(n))

-----------------------------------------------------------------------------
(***************************************************************************)
(* MonitorQueueDepth finds a drain finished only after every sample of the *)
(* target's queue over at least the grace period was empty, whatever fails *)
(* in between.  The time of the first empty sample is not kept per worker, *)
(* so it takes that the worker count is not changed again.                 *)
(***************************************************************************)
GraceBeforeVerifying ==
  [][ work'.st.phase = "Verifying" /\ work.st.phase = "Draining"
        /\ changes <= 1
        => observed' = [pod |-> Target, age |-> GracePeriod] ]_vars

(***************************************************************************)
(* Without faults every change of the worker count is carried out.         *)
(***************************************************************************)
ScaleApplied == faults = {} => <>[](replicas = desired /\ pods = desired)

(***************************************************************************)
(* A drain is Complete only after the queue was seen empty for the whole   *)
(* grace period.                                                           *)
(***************************************************************************)
GraceBeforeComplete ==
  [][ work'.st.phase = "Complete" /\ work.st.phase = "Verifying"
        => observed' = [pod |-> Target, age |-> GracePeriod] ]_vars

=============================================================================

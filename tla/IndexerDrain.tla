---------------------------- MODULE IndexerDrain ----------------------------
(***************************************************************************)
(* Scale-down of the OpenSearch indexer StatefulSet: the path one          *)
(* WazuhCluster reconcile takes through CheckScaleDownDrain, the indexer   *)
(* StatefulSet update and the status write, interleaved with the user, the *)
(* StatefulSet controller, OpenSearch's allocator and operator restarts.   *)
(*                                                                         *)
(* A reconcile works on a copy of the WazuhCluster read when it begins     *)
(* (`work'); the drain status it changes in that copy reaches the API      *)
(* server only by updateDrainStatus or updateStatus.  r.drainer and the    *)
(* deferred ResetDrainState live in operator memory.  Pods are named by    *)
(* their ordinals.                                                         *)
(***************************************************************************)
EXTENDS DrainState

CONSTANTS MaxReplicas,  \* largest spec.indexer.replicas
          MaxChanges,   \* bound on the spec changes of a behaviour
          MaxRestarts,  \* bound on the operator restarts of a behaviour
          Shards,       \* the shards of the OpenSearch cluster
          Environments  \* the sets of FaultKinds that may occur together

(***************************************************************************)
(* get       the drain check fails to read the StatefulSet                 *)
(* api       a call to OpenSearch fails or its answer is lost              *)
(* late      a reconcile step after the drain check returns an error       *)
(* rebalance OpenSearch moves shards between nodes that are not excluded   *)
(* abort     a started relocation fails and the shard stays where it was   *)
(* restart   the operator is restarted, MaxRestarts times at most          *)
(* toggle    the user switches drain on and off                            *)
(* multi     one spec change removes several pods                          *)
(***************************************************************************)
FaultKinds == {"get", "api", "late", "rebalance", "abort", "restart", "toggle",
               "multi"}

ASSUME ReplicasAssumption == MaxReplicas \in Nat \ {0}
ASSUME ChangesAssumption == MaxChanges \in Nat
ASSUME RestartsAssumption == MaxRestarts \in Nat
ASSUME EnvironmentsAssumption == Environments \subseteq SUBSET FaultKinds

VARIABLES
  faults,    \* what may go wrong in this behaviour
  desired,   \* spec.indexer.replicas
  enabled,   \* spec.drain.indexer.enabled
  changes,   \* number of spec changes so far
  replicas,  \* spec.replicas of the indexer StatefulSet
  pods,      \* number of indexer pods that exist: ordinals 0 .. pods-1
  loc,       \* the pod each shard is on; a shard on a removed pod is offline
  dest,      \* the pod a shard is relocating to, or NoPod
  excl,      \* cluster.routing.allocation.exclude._name, or NoPod
  status,    \* status.drain.indexer as stored by the API server
  drainer,   \* r.drainer # nil
  pc,        \* where the reconcile stands
  work,      \* the reconcile's copy: desired, enabled and the drain status
  deferred,  \* a deferred ResetDrainState is pending
  restarts   \* number of operator restarts so far

spec     == <<faults, desired, enabled, changes>>
search   == <<loc, dest, excl>>
operator == <<drainer, pc, work, deferred, restarts>>
outside  == <<spec, replicas, pods, restarts>>
vars     == <<spec, replicas, pods, search, status, operator>>

Replicas == 1 .. MaxReplicas
Pods     == 0 .. MaxReplicas - 1

TypeOK ==
  /\ faults \in Environments
  /\ desired \in Replicas
  /\ enabled \in BOOLEAN
  /\ changes \in 0 .. MaxChanges
  /\ replicas \in Replicas
  /\ pods \in Replicas
  /\ loc \in [Shards -> Pods]
  /\ dest \in [Shards -> Pods \cup {NoPod}]
  /\ excl \in Pods \cup {NoPod}
  /\ status \in DrainStatus(Pods)
  /\ drainer \in BOOLEAN
  /\ pc \in {"idle", "check", "monitor", "verify", "cancel", "saveDrain",
             "apply", "save"}
  /\ work \in [desired : Replicas, enabled : BOOLEAN, st : DrainStatus(Pods)]
  /\ deferred \in BOOLEAN
  /\ restarts \in 0 .. MaxRestarts

Init ==
  /\ faults \in Environments
  /\ desired \in Replicas
  /\ replicas = desired /\ pods = desired
  /\ enabled = TRUE
  /\ changes = 0
  /\ loc \in [Shards -> 0 .. pods - 1]
  /\ dest = [s \in Shards |-> NoPod]
  /\ excl = NoPod
  /\ status = InitializeDrainStatus
  /\ drainer = FALSE
  /\ pc = "idle"
  /\ work = [desired |-> desired, enabled |-> TRUE,
             st |-> InitializeDrainStatus]
  /\ deferred = FALSE
  /\ restarts = 0

-----------------------------------------------------------------------------
(***************************************************************************)
(* What the OpenSearch API answers.  _cat/shards gives a relocating shard  *)
(* the node "source -> target", which equals no node name, so              *)
(* GetShardsOnNode leaves it out; HasRelocatingShards reads the cluster    *)
(* health.                                                                 *)
(***************************************************************************)
GetShardsOnNode(n) ==
  {s \in Shards : loc[s] = n /\ n < pods /\ dest[s] = NoPod}

\* Mutant: relocations are not looked at.
IgnoreRelocations == FALSE

HasRelocatingShards == \E s \in Shards : dest[s] # NoPod

\* A call to OpenSearch that returns an error.
ApiError == "api" \in faults

-----------------------------------------------------------------------------
(***************************************************************************)
(* The reconcile.  Dry-run mode returns before the drain check and changes *)
(* nothing here, so it is the same as not reconciling.  The spec hash that *)
(* guards the StatefulSet update contains the replica count, so the update *)
(* is made exactly when the count differs.                                 *)
(***************************************************************************)
Target == TargetPod(replicas)

SetDrain(st) == work' = [work EXCEPT !.st = st]

BeginReconcile ==
  /\ pc = "idle"
  /\ pc' = "check"
  /\ work' = [desired |-> desired, enabled |-> enabled, st |-> status]
  /\ UNCHANGED <<outside, search, status, drainer, deferred>>

\* The drain check lets the reconcile go on to the StatefulSet.
Proceed == pc' = "apply" /\ UNCHANGED deferred

\* The drain check reports DrainInProgress: the reconcile saves the drain
\* status and returns.
Wait == pc' = "saveDrain" /\ UNCHANGED deferred

DrainNeeded == ScaleDownDetected(replicas, work.desired) /\ work.enabled

\* Mutant: an abandoned scale-down clears the exclusion and not the status.
CheckNoDrainClears ==
  /\ pc = "check" /\ ~DrainNeeded
  /\ Proceed
  /\ excl' = NoPod
  /\ UNCHANGED <<outside, loc, dest, status, drainer, work>>

\* No scale-down, drain not enabled, the StatefulSet could not be read, or a
\* phase the switch has no way on from.
CheckNoDrain ==
  /\ pc = "check"
  /\ \/ ~DrainNeeded
     \/ "get" \in faults
     \/ work.st.phase \in {"Failed", "RollingBack"}
  /\ Proceed
  /\ UNCHANGED <<outside, search, status, drainer, work>>

\* startDrain: an error is returned to the controller, which logs it and goes
\* on to the StatefulSet.
StartDrainOK ==
  /\ pc = "check" /\ DrainNeeded /\ work.st.phase = "Idle"
  /\ drainer' = TRUE
  /\ excl' = Target
  /\ SetDrain(TransitionTo(StartDrain(work.st, Target), "Draining"))
  /\ Wait
  /\ UNCHANGED <<outside, loc, dest, status>>

StartDrainClientError ==
  /\ pc = "check" /\ DrainNeeded /\ work.st.phase = "Idle" /\ ApiError
  /\ Proceed
  /\ UNCHANGED <<outside, search, status, drainer, work>>

StartDrainError ==
  /\ pc = "check" /\ DrainNeeded /\ work.st.phase = "Idle" /\ ApiError
  /\ drainer' = TRUE
  /\ excl' \in {excl, Target}
  /\ SetDrain(MarkFailed(StartDrain(work.st, Target)))
  /\ Proceed
  /\ UNCHANGED <<outside, loc, dest, status>>

\* Mutant: a lost drainer is passed over, as verifyDrainComplete does.
MonitorCountSkips ==
  /\ pc = "check" /\ DrainNeeded /\ work.st.phase \in {"Pending", "Draining"}
  /\ pc' = IF drainer THEN "monitor" ELSE "apply"
  /\ UNCHANGED <<outside, search, status, drainer, work, deferred>>

\* monitorDrainProgress reads the shard count and then the relocations.
MonitorCount ==
  /\ pc = "check" /\ DrainNeeded /\ work.st.phase \in {"Pending", "Draining"}
  /\ IF drainer /\ GetShardsOnNode(Target) = {}
       THEN pc' \in {"monitor"} \cup (IF ApiError THEN {"saveDrain"} ELSE {})
       ELSE pc' = "saveDrain"
  /\ UNCHANGED <<outside, search, status, drainer, work, deferred>>

MonitorRelocations ==
  /\ pc = "monitor"
  /\ \/ HasRelocatingShards /\ UNCHANGED work
     \/ ApiError /\ UNCHANGED work
     \/ ~HasRelocatingShards /\ SetDrain(TransitionTo(work.st, "Verifying"))
  /\ Wait
  /\ UNCHANGED <<outside, search, status, drainer>>

\* verifyDrainComplete reads them again.  An error leaves DrainInProgress and
\* DrainComplete false, and the reconcile goes on to the StatefulSet.
VerifyCount ==
  /\ pc = "check" /\ DrainNeeded /\ work.st.phase = "Verifying"
  /\ \/ (~drainer \/ ApiError) /\ pc' = "apply"
     \/ drainer /\ GetShardsOnNode(Target) # {} /\ pc' = "saveDrain"
     \/ drainer /\ GetShardsOnNode(Target) = {} /\ pc' = "verify"
  /\ UNCHANGED <<outside, search, status, drainer, work, deferred>>

VerifyRelocations ==
  /\ pc = "verify"
  /\ \/ ApiError /\ pc' = "apply" /\ UNCHANGED work
     \/ HasRelocatingShards /\ pc' = "saveDrain" /\ UNCHANGED work
     \/ /\ ~HasRelocatingShards /\ pc' = "cancel"
        /\ SetDrain(MarkComplete(work.st))
  /\ UNCHANGED <<outside, search, status, drainer, deferred>>

\* CancelDrain clears the exclusion; its error is only logged.
CancelDrain ==
  /\ pc = "cancel"
  /\ excl' \in {NoPod} \cup (IF ApiError THEN {excl} ELSE {})
  /\ pc' = "apply"
  /\ deferred' = TRUE
  /\ UNCHANGED <<outside, loc, dest, status, drainer, work>>

CheckComplete ==
  /\ pc = "check" /\ DrainNeeded /\ work.st.phase = "Complete"
  /\ pc' = "apply"
  /\ deferred' = TRUE
  /\ UNCHANGED <<outside, search, status, drainer, work>>

\* Mutant: every reconcile starts with a new reconciler.
ReturnForgets ==
  /\ pc' = "idle" /\ drainer' = FALSE /\ deferred' = FALSE /\ UNCHANGED work

\* The reconcile returns.  The deferred ResetDrainState resets the drain
\* status of the in-memory copy, which nobody saves, and drops the drainer.
Return ==
  /\ pc' = "idle"
  /\ drainer' = (drainer /\ ~deferred)
  /\ work' = IF deferred THEN [work EXCEPT !.st = InitializeDrainStatus]
                         ELSE work
  /\ deferred' = FALSE

ReconcileStatefulSet ==
  /\ pc = "apply"
  /\ replicas' = work.desired
  /\ pc' = "save"
  /\ UNCHANGED <<spec, pods, restarts, search, status, drainer, work, deferred>>

\* updateStatus at the end, or updateDrainStatus when the worker drain waits.
SaveStatus ==
  /\ pc \in {"save", "saveDrain"}
  /\ status' = work.st
  /\ Return
  /\ UNCHANGED <<outside, search>>

\* The StatefulSet, a later component or the status write fails: the reconcile
\* returns the error without saving the drain status.
ReconcileError ==
  /\ "late" \in faults
  /\ pc \in {"apply", "save", "saveDrain"}
  /\ Return
  /\ UNCHANGED <<outside, search, status>>

OperatorRestart ==
  /\ "restart" \in faults /\ restarts < MaxRestarts
  /\ restarts' = restarts + 1
  /\ pc' = "idle"
  /\ drainer' = FALSE
  /\ deferred' = FALSE
  /\ UNCHANGED <<spec, replicas, pods, search, status, work>>

Reconcile ==
  \/ BeginReconcile \/ CheckNoDrain
  \/ StartDrainOK \/ StartDrainClientError \/ StartDrainError
  \/ MonitorCount \/ MonitorRelocations
  \/ VerifyCount \/ VerifyRelocations \/ CancelDrain \/ CheckComplete
  \/ ReconcileStatefulSet \/ SaveStatus \/ ReconcileError

-----------------------------------------------------------------------------
(***************************************************************************)
(* The environment: the user, the StatefulSet controller and OpenSearch.   *)
(***************************************************************************)
UserScales ==
  /\ changes < MaxChanges
  /\ changes' = changes + 1
  /\ desired' \in {n \in Replicas :
                     n # desired /\ (n >= desired - 1 \/ "multi" \in faults)}
  /\ UNCHANGED <<faults, enabled, replicas, pods, search, status, operator>>

UserTogglesDrain ==
  /\ "toggle" \in faults /\ changes < MaxChanges
  /\ changes' = changes + 1
  /\ enabled' = ~enabled
  /\ UNCHANGED <<faults, desired, replicas, pods, search, status, operator>>

PodCreated ==
  /\ pods < replicas
  /\ pods' = pods + 1
  /\ UNCHANGED <<spec, replicas, search, status, operator>>

\* The highest ordinal goes.  What is still on the pod goes offline with it
\* (its volume stays), and the relocations from and to it stop.
PodRemoved ==
  /\ pods > replicas
  /\ pods' = pods - 1
  /\ dest' = [s \in Shards |->
                IF pods - 1 \in {loc[s], dest[s]} THEN NoPod ELSE dest[s]]
  /\ UNCHANGED <<spec, replicas, loc, excl, status, operator>>

StartRelocation(s, n) ==
  /\ loc[s] < pods /\ dest[s] = NoPod
  /\ n < pods /\ n \notin {loc[s], excl}
  /\ loc[s] = excl \/ "rebalance" \in faults
  /\ dest' = [dest EXCEPT ![s] = n]
  /\ UNCHANGED <<spec, replicas, pods, loc, excl, status, operator>>

FinishRelocation(s) ==
  /\ dest[s] # NoPod
  /\ loc' = [loc EXCEPT ![s] = dest[s]]
  /\ dest' = [dest EXCEPT ![s] = NoPod]
  /\ UNCHANGED <<spec, replicas, pods, excl, status, operator>>

AbortRelocation(s) ==
  /\ "abort" \in faults
  /\ dest[s] # NoPod
  /\ dest' = [dest EXCEPT ![s] = NoPod]
  /\ UNCHANGED <<spec, replicas, pods, loc, excl, status, operator>>

OpenSearch ==
  \E s \in Shards :
    \/ \E n \in Pods : StartRelocation(s, n)
    \/ FinishRelocation(s)
    \/ AbortRelocation(s)

Next ==
  \/ Reconcile
  \/ OperatorRestart
  \/ UserScales \/ UserTogglesDrain
  \/ PodCreated \/ PodRemoved
  \/ OpenSearch

Spec == Init /\ [][Next]_vars

(***************************************************************************)
(* Fairness: the workqueue keeps running reconciles (every reconcile ends  *)
(* in a requeue), the StatefulSet controller keeps up, and OpenSearch moves*)
(* the shards off an excluded node and finishes each move.                 *)
(***************************************************************************)
FairSpec ==
  /\ Spec
  /\ WF_vars(Reconcile)
  /\ WF_vars(PodCreated) /\ WF_vars(PodRemoved)
  /\ \A s \in Shards :
       /\ WF_vars(loc[s] = excl /\ \E n \in Pods : StartRelocation(s, n))
       /\ WF_vars(FinishRelocation(s))

-----------------------------------------------------------------------------
(***************************************************************************)
(* While the stored status says Draining, OpenSearch excludes the very pod *)
(* the status names, whatever restarts, lost answers and spec changes came *)
(* between: SetAllocationExclusion is acknowledged before Draining is      *)
(* stored, and only a drain that reached Complete clears it.               *)
(***************************************************************************)
ExclusionHeld ==
  status.phase = "Draining" => excl = status.targetPod

(***************************************************************************)
(* As long as the StatefulSet can be read, a reconcile that read the phase *)
(* Draining never shrinks it while drain is enabled: every outcome of      *)
(* monitorDrainProgress, errors and a lost drainer included, waits.        *)
(***************************************************************************)
NoShrinkWhileDraining ==
  [][ replicas' < replicas /\ work.enabled /\ "get" \notin faults
        => work.st.phase # "Draining" ]_vars

(***************************************************************************)
(* When verifyDrainComplete reports completion the target pod holds no     *)
(* shard and none is moving to it, although the count and the relocations  *)
(* are two calls, shards move in between and reconciles fail and restart.  *)
(* It takes that no relocation is aborted between the calls, by itself or  *)
(* by an earlier scale-down's pod going away: neither call would count it. *)
(***************************************************************************)
VerifiedTargetEmpty ==
  pc = "cancel" /\ "abort" \notin faults /\ changes <= 1
    => \A s \in Shards : Target \notin {loc[s], dest[s]}

(***************************************************************************)
(* What the drain promises holds for the first scale-down, by one pod,     *)
(* while OpenSearch can be reached and moves shards only off the excluded  *)
(* node: a failed call, a restart, a lost read of the StatefulSet, a       *)
(* rebalance after the exclusion is cleared or a stored Complete that was  *)
(* never reset each let a pod go with its shards.                          *)
(***************************************************************************)
FirstScaleDown == changes <= 1 /\ faults \subseteq {"late", "abort"}

(***************************************************************************)
(* The first scale-down leaves no shard on a removed pod.                  *)
(***************************************************************************)
NoShardOffline ==
  FirstScaleDown /\ "abort" \notin faults => \A s \in Shards : loc[s] < pods

(***************************************************************************)
(* Without faults every change of spec.indexer.replicas is carried out,    *)
(* however changes and drains follow each other.                           *)
(***************************************************************************)
ScaleApplied == faults = {} => <>[](replicas = desired /\ pods = desired)

(***************************************************************************)
(* A drain that has failed is rolled back: the replica count is not given  *)
(* the lower value by the reconcile whose drain failed.  startDrain leaves *)
(* Pending in the copy when the exclusion could not be set: the transition *)
(* to Failed, from which a rollback would start, is refused from Pending.  *)
(***************************************************************************)
FailedDrainRollsBack ==
  [][ replicas' < replicas /\ work.enabled => work.st.phase # "Pending" ]_vars

(***************************************************************************)
(* With drain enabled the StatefulSet is shrunk only by a reconcile whose  *)
(* drain of the removed pod is Complete.                                   *)
(***************************************************************************)
DrainedBeforeRemoval ==
  [][ replicas' < replicas /\ work.enabled
        => work.st = [phase |-> "Complete", targetPod |-> Target] ]_vars

=============================================================================

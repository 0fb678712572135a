----------------------------- MODULE DrainState -----------------------------
(***************************************************************************)
(* The drain state machine of internal/shared/drain: the phases a          *)
(* component's drain goes through, the table of legal transitions, and the *)
(* functions the reconcilers use to move a ComponentDrainStatus along it.  *)
(* Messages, timestamps and progress percentages are left out.             *)
(***************************************************************************)
EXTENDS Integers

Phases == {"Idle", "Pending", "Draining", "Verifying", "Complete", "Failed",
           "RollingBack"}

NoPod == -1

\* A ComponentDrainStatus: the phase and the ordinal of the pod being drained.
DrainStatus(Pods) == [phase : Phases, targetPod : Pods \cup {NoPod}]

\* Mutant: the zero ComponentDrainStatus, whose phase is "".
ZeroDrainStatus == [phase |-> "", targetPod |-> NoPod]

InitializeDrainStatus == [phase |-> "Idle", targetPod |-> NoPod]

ValidTransitions ==
  [p \in Phases |->
     CASE p = "Idle"        -> {"Pending"}
       [] p = "Pending"     -> {"Draining", "Idle"}
       [] p = "Draining"    -> {"Verifying", "Failed"}
       [] p = "Verifying"   -> {"Complete", "Failed"}
       [] p = "Complete"    -> {"Idle"}
       [] p = "Failed"      -> {"RollingBack", "Idle"}
       [] p = "RollingBack" -> {"Pending", "Failed", "Idle"}]

\* An illegal transition is refused with an error that the callers only log,
\* so the status is left as it was.
TransitionTo(status, to) ==
  IF to \notin ValidTransitions[status.phase] THEN status
  ELSE [phase |-> to,
        targetPod |-> IF to = "Idle" THEN NoPod ELSE status.targetPod]

StartDrain(status, pod) ==
  IF status.phase # "Idle" THEN status
  ELSE [phase |-> "Pending", targetPod |-> pod]

MarkFailed(status) == TransitionTo(status, "Failed")

MarkComplete(status) == TransitionTo(status, "Complete")

(***************************************************************************)
(* detection.go: a scale-down is a desired count below the StatefulSet's   *)
(* spec.replicas, and its target is the pod with the highest ordinal.      *)
(***************************************************************************)
ScaleDownDetected(replicas, wanted) == wanted < replicas

\* Mutant: ordinals taken to start at 1.
TargetPodFromOne(replicas) == replicas

TargetPod(replicas) == replicas - 1

=============================================================================

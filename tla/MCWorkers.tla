------------------------------ MODULE MCWorkers ------------------------------
(***************************************************************************)
(* The two ways the operator takes worker pods away, for TLC: the rolling  *)
(* restart, and the scale-down with its drain.  They have no state in      *)
(* common; a behaviour follows the one in focus.                           *)
(***************************************************************************)
EXTENDS RollingRestart

CONSTANTS MaxReplicas, MaxChanges, MaxRestarts, MaxDepth, GracePeriod

VARIABLES focus,
  \* WorkerDrain
  dFaults, desired, changes, replicas, pods, queue, status, drainer, seen, dpc,
  work, deferred, restarts, observed

\* Nothing on the way; delays and reverts in a settled cluster; templates that
\* change, or pods that are replaced, in the middle of a restart.
MCEnvironments ==
  {{}, {"observe"}, {"recreate", "observe", "revert"}, {"midway"}, {"slow"}}

\* No fault; everything but arriving events; everything.
MCDrainEnvironments ==
  {{}, {"get", "api", "late", "restart"},
   {"get", "api", "late", "restart", "events"}}

Drain == INSTANCE WorkerDrain
           WITH faults <- dFaults, pc <- dpc,
                Environments <- MCDrainEnvironments

ASSUME DrainAssumption == Drain!DrainConstants

drainVars == <<dFaults, desired, changes, replicas, pods, queue, status,
               drainer, seen, dpc, work, deferred, restarts, observed>>
workersVars == <<focus, vars, drainVars>>

\* The component that is not in focus stays in one initial state.
WorkersInit ==
  /\ focus \in {"restart", "drain"}
  /\ Init /\ (focus = "drain" => faults = {})
  /\ Drain!Init
  /\ focus = "restart" => dFaults = {} /\ desired = 1 /\ queue[0] = 0

RestartTurn(A) == focus = "restart" /\ A /\ UNCHANGED <<focus, drainVars>>
DrainTurn(A) == focus = "drain" /\ A /\ UNCHANGED <<focus, vars>>

WorkersNext == RestartTurn(Next) \/ DrainTurn(Drain!Next)

\* As in the two specifications.
RestartFairness ==
  /\ WF_workersVars(RestartTurn(Reconcile))
  /\ \A s \in StatefulSets : WF_workersVars(RestartTurn(ObserveTemplate(s)))
  /\ \A p \in Pods :
       WF_workersVars(RestartTurn(PodGone(p) \/ PodRecreated(p) \/ PodReady(p)))
  /\ WF_workersVars(RestartTurn(ShardsRecovered))
DrainFairness ==
  /\ WF_workersVars(DrainTurn(Drain!Reconcile))
  /\ SF_workersVars(DrainTurn(Drain!Tick))
  /\ WF_workersVars(DrainTurn(Drain!PodCreated))
  /\ WF_workersVars(DrainTurn(Drain!PodRemoved))
  /\ \A n \in Drain!Pods : WF_workersVars(DrainTurn(Drain!EventProcessed(n)))

WorkersSpec ==
  WorkersInit /\ [][WorkersNext]_workersVars /\ RestartFairness /\ DrainFairness

WorkersTypeOK == TypeOK /\ Drain!TypeOK
GraceBeforeVerifying == Drain!GraceBeforeVerifying
ScaleApplied == Drain!ScaleApplied

=============================================================================

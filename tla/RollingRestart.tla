--------------------------- MODULE RollingRestart ---------------------------
(***************************************************************************)
(* The quorum-safe rolling restart at the end of every WazuhCluster        *)
(* reconcile: RollingRestartOrchestrator takes at most one step for the    *)
(* indexer, then for the manager workers and, once these are done, for the *)
(* manager master.  The StatefulSets use the OnDelete strategy, so a pod   *)
(* takes a new template only when the operator deletes it.                 *)
(*                                                                         *)
(* An API error in a step has the effect of an unhealthy answer (the step  *)
(* is given up until the next reconcile) and is not modelled on its own.   *)
(***************************************************************************)
EXTENDS Integers, FiniteSets, FiniteSetsExt

CONSTANTS Indexers, Workers,  \* number of indexer and worker pods
          MaxUpdates,         \* bound on the template changes of a behaviour
          Environments        \* the sets of FaultKinds that may occur together

(***************************************************************************)
(* recreate  the StatefulSet controller takes time to recreate a pod       *)
(* observe   it takes time to put a new template into status.updateRevision*)
(* slow      a pod restarts completely between two calls of a reconcile    *)
(* midway    the template changes again while pods are being restarted     *)
(* revert    the user goes back to an earlier template                     *)
(***************************************************************************)
FaultKinds == {"recreate", "observe", "slow", "midway", "revert"}

ASSUME IndexersAssumption == Indexers \in Nat \ {0}
ASSUME WorkersAssumption == Workers \in Nat \ {0}
ASSUME UpdatesAssumption == MaxUpdates \in Nat
ASSUME EnvironmentsAssumption == Environments \subseteq SUBSET FaultKinds

StatefulSets == {"indexer", "worker", "master"}

\* Templates, numbered in the order the user introduces them.
Revisions == 0 .. MaxUpdates
FirstRevision == 0

Ordinals(s) ==
  0 .. (CASE s = "indexer" -> Indexers [] s = "worker" -> Workers
          [] s = "master" -> 1) - 1

Pods == UNION {{<<s, i>> : i \in Ordinals(s)} : s \in StatefulSets}

VARIABLES
  faults,      \* what may happen on the way in this behaviour
  wanted,      \* the template the WazuhCluster spec asks for
  newest,      \* the newest template
  updates,     \* number of template changes so far
  template,    \* spec.template of each StatefulSet
  updateRev,   \* status.updateRevision of each StatefulSet
  phase,       \* each pod: "ready", "terminating", "absent" or "starting"
  revision,    \* each pod's controller-revision-hash
  recovering,  \* OpenSearch has initializing or relocating shards
  pc,          \* the StatefulSet the orchestrator is at, or "idle"
  chosen       \* the pod it is about to delete, or NoPod

user    == <<faults, wanted, newest, updates>>
cluster == <<template, updateRev>>
podVars == <<phase, revision, recovering>>
vars    == <<user, cluster, podVars, pc, chosen>>

NoPod == <<"none", 0>>

TypeOK ==
  /\ faults \in Environments
  /\ wanted \in Revisions /\ newest \in Revisions
  /\ updates \in 0 .. MaxUpdates
  /\ template \in [StatefulSets -> Revisions]
  /\ updateRev \in [StatefulSets -> Revisions]
  /\ phase \in [Pods -> {"ready", "terminating", "absent", "starting"}]
  /\ revision \in [Pods -> Revisions]
  /\ recovering \in BOOLEAN
  /\ pc \in StatefulSets \cup {"idle"}
  /\ chosen \in Pods \cup {NoPod}

Init ==
  /\ faults \in Environments
  /\ wanted = FirstRevision /\ newest = FirstRevision
  /\ updates = 0
  /\ template = [s \in StatefulSets |-> FirstRevision]
  /\ updateRev = template
  /\ phase = [p \in Pods |-> "ready"]
  /\ revision = [p \in Pods |-> FirstRevision]
  /\ recovering = FALSE
  /\ pc = "idle"
  /\ chosen = NoPod

-----------------------------------------------------------------------------
(***************************************************************************)
(* The StatefulSet API as the orchestrator uses it.  Under OnDelete the    *)
(* controller never moves status.currentRevision off the revision the      *)
(* StatefulSet was created with.                                           *)
(***************************************************************************)
CurrentRevision(s) == FirstRevision

PodsOf(s) == {p \in Pods : p[1] = s}

ListedPods == {p \in Pods : phase[p] # "absent"}

\* Mutant: a pod that exists is taken to be ready.
IsPodListed(p) == phase[p] # "absent"

\* A terminating pod keeps its Ready condition until its containers stop.
IsPodReady(p) == phase[p] \in {"ready", "terminating"}

Outdated(s) == {p \in PodsOf(s) \cap ListedPods : revision[p] # updateRev[s]}

-----------------------------------------------------------------------------
(***************************************************************************)
(* Health checks.                                                          *)
(***************************************************************************)
NumberOfNodes == Cardinality({p \in PodsOf("indexer") : IsPodReady(p)})

\* Mutants: the number of nodes is not looked at, or compared with >.
NoRecovery == ~recovering

MoreNodesThanDesired == ~recovering /\ NumberOfNodes > Indexers

IndexerHealthy == ~recovering /\ NumberOfNodes >= Indexers

\* The worker checker selects the worker pods, the master checker all manager
\* pods.
ManagerHealthy(ss) ==
  \A s \in ss : \A p \in PodsOf(s) \cap ListedPods : IsPodReady(p)

IsHealthyForRestart(s) ==
  CASE s = "indexer" -> IndexerHealthy
    [] s = "worker"  -> ManagerHealthy({"worker"})
    [] s = "master"  -> ManagerHealthy({"worker", "master"})

-----------------------------------------------------------------------------
(***************************************************************************)
(* The reconcile.  It writes the templates and then orchestrates; a        *)
(* restart of the workers that is still in progress keeps the master back. *)
(***************************************************************************)
Observed(tmpl) == IF "observe" \in faults THEN updateRev ELSE tmpl

BeginReconcile ==
  /\ pc = "idle"
  /\ pc' = "indexer"
  /\ template' = [s \in StatefulSets |-> wanted]
  /\ updateRev' = Observed(template')
  /\ UNCHANGED <<user, podVars, chosen>>

AfterComplete(s) ==
  CASE s = "indexer" -> "worker" [] s = "worker" -> "master"
    [] s = "master" -> "idle"

\* Mutant: the master does not wait for the workers.
MasterAnyway(s) == AfterComplete(s)

AfterInProgress(s) == IF s = "indexer" THEN "worker" ELSE "idle"

\* Steps 1 to 3: nothing to restart.
NothingToRestart(s) ==
  /\ pc = s /\ chosen = NoPod
  /\ updateRev[s] = CurrentRevision(s) \/ Outdated(s) = {}
  /\ pc' = AfterComplete(s)
  /\ UNCHANGED <<user, cluster, podVars, chosen>>

RestartNeeded(s) ==
  /\ pc = s /\ chosen = NoPod
  /\ updateRev[s] # CurrentRevision(s) /\ Outdated(s) # {}

\* Step 4: wait for a pod that is not ready.
WaitForPod(s) ==
  /\ RestartNeeded(s)
  /\ \E p \in PodsOf(s) \cap ListedPods : ~IsPodReady(p)
  /\ pc' = AfterInProgress(s)
  /\ UNCHANGED <<user, cluster, podVars, chosen>>

\* Mutant: the ordinal is off by one.
ChooseNextOrdinal(s) ==
  /\ RestartNeeded(s)
  /\ \A p \in PodsOf(s) \cap ListedPods : IsPodReady(p)
  /\ chosen' = <<s, Max({p[2] : p \in Outdated(s)}) + 1>>
  /\ UNCHANGED <<user, cluster, podVars, pc>>

\* Steps 4 and 6: every listed pod is ready; the highest outdated ordinal of
\* this list is the one to delete.
ChoosePod(s) ==
  /\ RestartNeeded(s)
  /\ \A p \in PodsOf(s) \cap ListedPods : IsPodReady(p)
  /\ chosen' = <<s, Max({p[2] : p \in Outdated(s)})>>
  /\ UNCHANGED <<user, cluster, podVars, pc>>

\* Step 5 with an unhealthy answer, or step 6 failing because the pod is gone.
GiveUp(s) ==
  /\ pc = s /\ chosen # NoPod
  /\ ~IsHealthyForRestart(s) \/ phase[chosen] = "absent"
  /\ chosen' = NoPod
  /\ pc' = AfterInProgress(s)
  /\ UNCHANGED <<user, cluster, podVars>>

\* Steps 5 to 7.  The delete names the pod and nothing else: it also hits a
\* replacement.
DeletePod(s) ==
  /\ pc = s /\ chosen # NoPod
  /\ IsHealthyForRestart(s) /\ phase[chosen] # "absent"
  /\ phase' = [phase EXCEPT ![chosen] = "terminating"]
  /\ chosen' = NoPod
  /\ pc' = AfterInProgress(s)
  /\ UNCHANGED <<user, cluster, revision, recovering>>

Reconcile ==
  \/ BeginReconcile
  \/ \E s \in StatefulSets :
       \/ NothingToRestart(s) \/ WaitForPod(s) \/ ChoosePod(s)
       \/ GiveUp(s) \/ DeletePod(s)

-----------------------------------------------------------------------------
(***************************************************************************)
(* The environment: the user, the StatefulSet controller and OpenSearch.   *)
(***************************************************************************)
AllOnWanted == \A p \in Pods : phase[p] = "ready" /\ revision[p] = wanted

UserUpdates ==
  /\ updates < MaxUpdates
  /\ "midway" \in faults \/ (AllOnWanted /\ ~recovering)
  /\ updates' = updates + 1
  /\ \/ newest' = newest + 1 /\ wanted' = newest'
     \/ /\ "revert" \in faults
        /\ wanted' \in (0 .. newest) \ {wanted}
        /\ newest' = newest
  /\ UNCHANGED <<faults, cluster, podVars, pc, chosen>>

ObserveTemplate(s) ==
  /\ updateRev[s] # template[s]
  /\ updateRev' = [updateRev EXCEPT ![s] = template[s]]
  /\ UNCHANGED <<user, template, podVars, pc, chosen>>

\* The pod is gone.  Without the delay its replacement is there at once.
PodGone(p) ==
  /\ phase[p] = "terminating"
  /\ IF "recreate" \in faults
       THEN /\ phase' = [phase EXCEPT ![p] = "absent"]
            /\ UNCHANGED revision
       ELSE /\ phase' = [phase EXCEPT ![p] = "starting"]
            /\ revision' = [revision EXCEPT ![p] = updateRev[p[1]]]
  /\ UNCHANGED <<user, cluster, recovering, pc, chosen>>

PodRecreated(p) ==
  /\ phase[p] = "absent"
  /\ phase' = [phase EXCEPT ![p] = "starting"]
  /\ revision' = [revision EXCEPT ![p] = updateRev[p[1]]]
  /\ UNCHANGED <<user, cluster, recovering, pc, chosen>>

\* An indexer node that joins recovers its shards.
PodReady(p) ==
  /\ phase[p] = "starting"
  /\ p # chosen \/ "slow" \in faults
  /\ phase' = [phase EXCEPT ![p] = "ready"]
  /\ recovering' = (recovering \/ p[1] = "indexer")
  /\ UNCHANGED <<user, cluster, revision, pc, chosen>>

ShardsRecovered ==
  /\ recovering
  /\ recovering' = FALSE
  /\ UNCHANGED <<user, cluster, phase, revision, pc, chosen>>

Environment ==
  \/ \E s \in StatefulSets : ObserveTemplate(s)
  \/ \E p \in Pods : PodGone(p) \/ PodRecreated(p) \/ PodReady(p)
  \/ ShardsRecovered

Next == Reconcile \/ UserUpdates \/ Environment

Spec == Init /\ [][Next]_vars

(***************************************************************************)
(* Fairness: reconciles run (each ends in a requeue), and Kubernetes and   *)
(* OpenSearch make progress on every pod.                                  *)
(***************************************************************************)
FairSpec ==
  /\ Spec
  /\ WF_vars(Reconcile)
  /\ \A s \in StatefulSets : WF_vars(ObserveTemplate(s))
  /\ \A p \in Pods : WF_vars(PodGone(p) \/ PodRecreated(p) \/ PodReady(p))
  /\ WF_vars(ShardsRecovered)

-----------------------------------------------------------------------------
Down(s) == {p \in PodsOf(s) : phase[p] # "ready"}

(***************************************************************************)
(* At most one indexer pod is out, and none while the shards of the one    *)
(* restarted before it are still recovering, although pods are recreated   *)
(* late, the StatefulSet status lags and templates are taken back.  A      *)
(* terminating pod counts as ready and a pod is deleted by name, so it     *)
(* takes that templates change only in a settled cluster and that no pod   *)
(* is replaced within a reconcile.                                         *)
(***************************************************************************)
OneIndexerOut ==
  {"slow", "midway"} \cap faults = {}
    => /\ Cardinality(Down("indexer")) <= 1
       /\ recovering => Down("indexer") = {}

(***************************************************************************)
(* No two worker pods are down at the same time, if a deleted pod is       *)
(* recreated before the next reconcile (the health checker does not miss a *)
(* pod that is not listed) and templates change in a settled cluster.      *)
(***************************************************************************)
OneWorkerDown ==
  {"slow", "midway", "recreate"} \cap faults = {}
    => Cardinality(Down("worker")) <= 1

(***************************************************************************)
(* The master is deleted only when every worker is ready and runs the      *)
(* template its StatefulSet was given, even if templates change in the     *)
(* middle of a restart; Kubernetes has to keep up, and no template may be  *)
(* taken back (going back to the first one counts as nothing to restart).  *)
(***************************************************************************)
MasterRestartedLast ==
  [][ faults \subseteq {"midway"}
        => \A p \in PodsOf("master") :
             phase[p] = "ready" /\ phase'[p] = "terminating"
               => \A w \in PodsOf("worker") :
                    phase[w] = "ready" /\ revision[w] = template["worker"] ]_vars

(***************************************************************************)
(* A template change ends with every pod ready and on it, however slow and *)
(* interleaved the restarts are, if no template is taken back.             *)
(***************************************************************************)
AllUpdated == "revert" \notin faults => <>[]AllOnWanted

(***************************************************************************)
(* No two worker pods are down at the same time.                           *)
(***************************************************************************)
NoTwoWorkersDown == Cardinality(Down("worker")) <= 1

=============================================================================

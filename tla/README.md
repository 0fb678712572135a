# Verification of the Wazuh operator

The operator keeps Wazuh clusters (OpenSearch indexer, Wazuh managers, dashboard)
in the state a `WazuhCluster` and some twenty other custom resources ask for. It
is a set of level-triggered reconcilers: each reads an object, changes the world
in several calls that may fail one by one, and stores what it did in the object's
status. What is hard to get right is what happens *between* those calls: the user
edits, pods go and come, OpenSearch moves shards, a second worker writes the same
object, a cache is behind, or the operator restarts and loses what it held in
memory. That is what the modules here model, TLC checks on small instances and
TLAPS proves for instances of any size.

`PROJECT.json` maps every definition to the lines it translates, and lists the
components, runs, mutants, findings, hazards and theorems.

## 1. The system and its modules

| Part of the operator | Modules |
|---|---|
| Drain state machine (`internal/shared/drain`) | `DrainState` |
| Scale-down of the indexer (`indexer_reconciler.go`, `indexer_drain.go`) | `IndexerDrain` |
| Scale-down of the workers (`worker_reconciler.go`, `manager_drain.go`) | `WorkerDrain` |
| Rolling restart (`internal/shared/rolling`, health checkers) | `RollingRestart` |
| Certificates of a cluster, hot reload | `CertificateRenewal`, `HotReload` |
| Stand-alone `WazuhCertificate` | `StandaloneCertificate`, `CertificateFields` |
| Ten kinds of OpenSearch resources, security synchronizer | `ResourceSync`, `ResourceFields` |
| Snapshots, repositories, restores in OpenSearch | `ManualSnapshot`, `SnapshotRepository`, `OpenSearchRestore`, `OneShot` |
| Backup and restore Jobs of the managers | `BackupJob`, `RestoreJob`, `JobFields` |
| `OpenSearchAuthConfig`, `WazuhFilebeat` | `AuthConfig`, `AuthFields`, `FilebeatConfig`, `FilebeatFields` |
| Configuration, hashes, templates and pods of nine workloads | `ConfigRollout`, `WorkloadFields`, `RenderedFields` |
| A whole pass of the `WazuhCluster` controller, objects it owns | `ClusterPass`, `OwnedFields` |
| NetworkPolicies | `NetworkPolicies` |
| Rules and decoders | `ManagerContent` |
| Volume expansion | `VolumeExpansion` |
| Passwords, security initialisation | `CredentialSync` |

How they interact: `WazuhClusterReconciler.Reconcile` runs the certificates, the
indexer drain check, the indexer, the security synchronizer, the worker drain
check, the managers, the dashboard and the rolling restarts in this order and
writes the status at the end; a drain in progress returns early (`ClusterPass` has
the order and which errors end a pass). The controllers of the other resources are
separate workers: they meet the cluster's controller in OpenSearch
(`ResourceSync`), in ConfigMaps (`ManagerContent`) and in the API server.

## 2. Conventions

* **Copy and store.** A reconcile works on a copy read at its start (`work`,
  `copy`, `view`, `mem`); changes reach the API server only in the action that
  writes it. One action is one call that another actor can see, with the code up
  to the next.
* **Environments.** What may go wrong is a variable (`faults`, `env`, `hEnv` ...)
  that `Init` picks from a constant; the comment of the module's fault kinds says
  what each means. A property says in which environments it holds, and the
  condition is part of the result: it tells what the code relies on.
* **Fields.** The `...Fields` modules are tables read off the API types, builders
  and templates: which field of a specification a builder looks at, which a hash
  contains, which are noticed when they change. A behaviour follows one field, and
  the `gaps` of the tables are the fields that do not arrive.
* **Values are generations.** Where only "the old or the new one" matters, a text,
  certificate or setting is the number of the edit that made it.
* **Bounds.** The constants named `Max...`, `...Edits` and `...Faults` bound what
  the user, the clock and faults do, never what the operator does, so liveness is
  about the time after they stop.
* **Focus.** Components that share no state of the operator are checked in one run:
  `MCWorkers`, `MCResources` and `MCClusterConfiguration` extend one component
  (`RollingRestart`, `ResourceSync`, `ConfigRollout`) and instantiate the others; the
  initial state picks one (`focus`) and the rest stay where they are. A type invariant
  of each run (`WorkersTypeOK` ...) puts the components' own together.
* **Mutants.** An operator commented "Mutant" is a plausible bug; `PROJECT.json`
  pairs it with the property that fails when it replaces the definition after it.

## 3. Modules

**`DrainState`** translates the transition table and its functions. An illegal
transition leaves the status as it was, since every caller only logs the error.

**`IndexerDrain`** is one reconcile as `pc` = check, monitor, verify, cancel,
saveDrain, apply, save. `CheckNoDrain` to `CheckComplete` are the cases of
`CheckScaleDownDrain`; `ReconcileStatefulSet` is the update; `SaveStatus` is
`updateStatus` or `updateDrainStatus`; `Return` includes the deferred
`ResetDrainState`, which changes the copy after it was saved. Reading the shard
count and reading the relocations are separate steps, as they are separate calls.
A relocating shard is invisible to `GetShardsOnNode` because `_cat/shards`
prints `source -> target` for it. The allocator, the StatefulSet controller and
the user are actions of the environment.

**`WorkerDrain`** has the same frame. `Monitor` is `MonitorQueueDepth`, the two
`Verify` actions `VerifyQueueEmpty`. Times are ages capped at the grace period, so
the clock adds no states. `observed` is a history variable: how long the sampled
queue has really been empty.

**`RollingRestart`** takes the orchestrator's seven steps for indexer, workers and
master. Listing the pods (`ChoosePod`) and deleting one by name after the health
check (`DeletePod`) are separate. Pods are ready, terminating (still Ready to the
API), absent or starting. Under OnDelete `currentRevision` stays the first.

**`CertificateRenewal`** goes through the CA, the certificates, the hashes, the
hot reload and the workloads step by step; days pass between reconciles. A
certificate is a number, its signer, its expiry and whether it is usable. `env`
fixes the renewal policy (always, windows, manual), whether the window parses, the
kind of hot reload and the faults. **`HotReload`** opens up what is one step there: the wait for the first
pod's volume, the call to each pod with its retries, and the restart of all pods
when something failed. The Secret the first pod's file is compared with is read
through the cache and may be the one before. **`StandaloneCertificate`** is the `WazuhCertificate`, whose
every pass makes a new certificate.

**`ResourceSync`** follows one resource of any of ten kinds; the differences of
their reconcilers are the record `kind`. `fresh` holds the workers whose copy is
the stored version, which is all that optimistic concurrency needs. The
synchronizer of the WazuhCluster controller is a second writer.

**`ManualSnapshot`, `SnapshotRepository`, `OpenSearchRestore`** are the three
reconcilers of data in OpenSearch: which status is stored before and which after
the request, and what a pass does that finds either. **`OneShot`** is the abstract
specification of a resource that stands for one operation.

**`BackupJob`** keeps a CronJob or a Job and their ServiceAccount; **`RestoreJob`** has the Job, its pods
and the restore script line by line. **`AuthConfig`** and **`FilebeatConfig`** render
ConfigMaps from a resource and from Secrets or files beside it.

**`ConfigRollout`** follows one field of one of nine workloads from the
specification through ConfigMap, hash, template and update to the pods, with a
cache that may be behind. An edit of annotations may take keys away, which the merge
of the update keeps, and a StatefulSet may be one that an earlier version of the
operator made with another `podManagementPolicy` and has to be made anew. **`ClusterPass`** takes the steps of `Reconcile` in order
and follows one owned object. **`NetworkPolicies`** has the pods and links that the
policies leave. **`ManagerContent`** brings two resources with rules or decoders
through validation, ConfigMap, mount and start. **`VolumeExpansion`** patches claims
one by one; what it reports is lost with the copy of the cluster it is written to. **`CredentialSync`** follows three passwords to the Secret, the security
index, the pods, the status and the operator's own client.

The modules `...Proofs` hold the theorems (section 6).

## 4. What TLC checks

Run one with `tlc -config X.cfg Module`. Deadlock is checked except where the
system may come to rest: `Resources.cfg` and `ClusterConfiguration.cfg`, in which
an object that is in place and unedited is left alone.

### `indexer_drain` (`IndexerDrain.cfg`, 639,988 states)

Three replicas, two shards, two spec changes, one restart: a scale-down after
another, an abandoned one, and one by two pods all occur; two shards tell "some"
from "all" moved. From a fault-free environment to all faults at once.

* `ExclusionHeld`: a stored Draining names the excluded pod, whatever happens.
* `NoShrinkWhileDraining`: a reconcile that read Draining does not shrink the
  StatefulSet, as long as it can be read.
* `VerifiedTargetEmpty`: when the two reads of the verification agree, the pod
  holds nothing and nothing is on its way to it, provided no relocation is aborted.
* `NoShardOffline`: the first scale-down, by one pod, with OpenSearch in reach,
  leaves no shard on a removed pod.
* `ScaleApplied`: without faults the wanted count is reached.

`indexer_drain_stale_complete` (violation of `DrainedBeforeRemoval`): without any
fault the *second* scale-down is not drained. Complete was stored by `updateStatus`
before the deferred reset, and nothing stores the reset.
`indexer_drain_rollback` (violation of `FailedDrainRollsBack`): the documentation
promises that a failed drain restores the replica count. The failure of a start is
marked in Pending, from which Failed is no legal transition; the error is logged, and
the same reconcile takes the pod away.

### `workers` (`Workers.cfg`, 356,010 states)

The two ways worker pods go away. Rolling restart: three indexers, two workers, the
master, two template changes. Scale-down: three workers, queues of depth 0 or 1, a
grace period of two ticks, long enough to be interrupted in the middle.

* `OneIndexerOut`: at most one indexer is out and none while shards recover, with
  late recreation, lagging status and reverts. It relies on no pod being replaced
  within one reconcile and no template changing midway, because a terminating pod
  still counts as ready and pods are deleted by name.
* `OneWorkerDown`: the same for the workers, if recreation is not late.
* `MasterRestartedLast`: the master goes when all workers run the new template.
* `AllUpdated`: every change reaches every pod, unless one is taken back: going
  back to the first template makes the revisions equal and nothing restarts.
* `GraceBeforeVerifying`: the monitor sees a full grace period of empty samples of
  this worker. With a second change of the count this fails, since the time of the
  first empty sample is not kept per worker.
* `ScaleApplied`: without faults the wanted count of workers is reached.

`rolling_restart_gap` (violation of `NoTwoWorkersDown`): a worker that is deleted
and not yet recreated is not in the list, and the next one is deleted.
`worker_drain_grace` (violation of `GraceBeforeComplete`): the verification keeps
the time of an empty sample across a non-empty one.

### `certificate_renewal` (`CertificateRenewal.cfg`, 1,012,429 states)

CA valid for 6 days, renewed from 2 before; node certificates 3 and 1; a window of
2 days every 5, at every offset; a maximal wait of 2; 7 days and one fault. So the
CA is renewed, node certificates are renewed more than once, and windows come in
time, too late, or never because none parses. Five of six certificates: worker is treated as master.

* `CAOutlivesItsWindows`: the CA is renewed in time, if renewal is automatic and, with
  windows, one parses and the maximal wait is not zero (`Renewable`). Without a window
  that parses the next one is the zero time and nothing is forced: the CA expires.
* `ExpiresOnlyWhileCAWaits`: no node certificate expires, except while the renewal
  of the CA waits, be it for ever: then all renewals are skipped.
* `WorkloadsCatchUp`: manager and dashboard pods end up with their Secret's
  certificate, whatever is interrupted, unreadable or deleted.
* `IndexerCatchesUp`: so do the indexer's, if hot reload is supported and the
  reconcile that renews is not cut short: its restart depends on flags that last
  for one reconcile.

`certificate_resign` (violation of `CertsVerifyAgainstCA`): after a CA renewal the
other Secrets keep certificates of the old CA.

### `resources` (`Resources.cfg`, 672,410 states)

The reconcilers of the resources beside the cluster, each with one or two edits and
faults and every combination of field and kind. `ResourceSync` has two bodies, two
clusters and three user actions, so that a resource can be deleted and created
again under a running reconcile, and one run of the synchronizer.

* `ObjectIsOwned`: an object in OpenSearch always has a resource that names its
  cluster and carries the finalizer, through restarts, conflicts and lost answers.
* `RestsWhenApplied`: with nothing queued or running the resource is Ready and
  OpenSearch holds what it asks for, but for the fields of `gaps`.
* `OneSnapshot`: one snapshot for a resource, and one more at most for each status
  write that was refused or overtaken or snapshot deleted behind its back.
* `RestoresOnce`: `OpenSearchRestore` implements `OneShot` (refinement:
  `stage` from the stored phase, `lost` the records that were not written), and a
  completed `WazuhRestore` is not carried out again.
* `StatusIsTrue`: what Ready, Completed, Failed and their like say has happened, in
  eight reconcilers (one arm each, named in `MCResources`). The arms of `AuthConfig` and
  `FilebeatConfig` are about the ConfigMap, not about what mounts it.
* `GoneIsUnregistered`: a deleted repository is gone from OpenSearch, unless the one
  attempt to delete it failed.
* `SavedBeforeOverwritten`: a `WazuhRestore` unpacks over nothing it has not saved,
  whatever pods are killed and Jobs expire in between.
* `Settles`: edits, deletions, retries and restores come to their end, in each of
  the nine reconcilers. Left out are deletions whose own calls fail, annotations of a
  ServiceAccount that was there, and `WazuhRestore`s from anything but a bucket.

`resource_sync_orphan` (violation of `CleanDeletion`): the synchronizer writes an
object back after its resource's controller has deleted it.
`backup_job_repeats` (violation of `OneShotIsOne`): a backup without a schedule runs
again whenever its finished Job has expired.

### `cluster_configuration` (`ClusterConfiguration.cfg`, 899,670 states)

What the operator keeps in step with a cluster's specification. Each component has
two to four edits (in `ConfigRollout` one of the followed field and one of another)
and one to three faults: enough for an edit to fall between any two steps of a pass
and for a fault in the retry of a failed pass.

* `RolloutsAreEarned`: pods are never replaced more often than edits that concern
  them, hashes of a stale cache, restart stamps and unreadable inputs account for.
* `ConfigBeforePods`: a pod that carries the hash of a configuration has mounted
  that configuration or a newer one.
* `ObservedIsApplied`: what `observedGeneration` names has been applied, unless the
  step that applies it only logs its errors.
* `LinksKept`: no combination of NetworkPolicies cuts more links than the wrong
  label of the managers does.
* `LoadedIsValid`: no manager starts with a rule or decoder that was not validated.
* `ReportIsTrue`: Applied resources are in their ConfigMaps, synchronised passwords
  are in OpenSearch and, save where a restart failed, in the pods; after a reload that
  went well the pod waited for uses the newest certificate, and so does every pod whose
  volume had it when it was told.
* `EditsArrive`: in the end pods, objects, policies, texts, claims, passwords and
  certificates are what the specification asks for, each with the exceptions that
  the arm in its module states.

### Where documents and comments say otherwise

A property above holds of the code. Its exceptions, stated in its definition, are also
where a text of the repository promises more than the code keeps. Besides the
violations above:

| The text | The code, and the exception |
|---|---|
| `docs/reference/api-contracts.md:480-495`: an error of the deletion is returned | it is logged and the finalizer removed; `ObjectIsOwned`, `DeletionCompleted` |
| `docs/usage/features/backup-restore.md:511-600`: restores from GCS, Azure, HDFS, a `WazuhBackup` | they fail; `RestoreJobEnded` |
| `docs/reference/api-contracts.md:134`: rules are reloaded "no pod restart" | pods restart; a restart between hash and ConfigMap keeps the old rules; `ContentFollowed` |
| `docs/usage/CRD-REFERENCE.md:985`, `:1006`: `targetNodes` | every manager loads the rule; `ManagerContent` |
| `docs/usage/CRD-REFERENCE.md:176`: `filebeatSSLVerificationMode` | no container reads the file it is written to; `Unserved` |
| `docs/usage/features/volume-expansion.md:10-11`: claims of the managers grow | they are searched by a label they lack; `VolumesFollow` |
| `docs/usage/features/volume-expansion.md:84-124`: `status.volumeExpansion` | it is never stored; nothing is said of it |
| `propagation.go:41-50`: the wait is for all pods | for the first; `ReloadIsTrue`, `PodsCatchUp` |
| `wazuhcluster_types.go`, `MaxWaitDuration`: "before forcing a restart anyway" | not without a window that parses; `Renewable` |
| `networkpolicy_builder.go:44`: "Allow from indexer, manager, and dashboard pods" | managers have another label; `LinksKept` |

## 5. Fairness

* Reconciles run (`WF` on `Reconcile`, `Controller`, and `Operator` of the component
  in focus): the cluster controller always asks to be called again (30 s, 10 s in a
  drain or restart, 5 s with pending roll-outs), errors are retried by the work
  queue, and resource controllers are called for every event. Where a reconciler
  swallows an error and asks for nothing, its model has no step that retries.
* The periodic resync of the informers (`Resync` of `AuthConfig`, `FilebeatConfig` and
  `ManagerContent`, the start of a pass at any time in `BackupJob`): their
  reconcilers ask for no retry after some failures, so it is all that brings the
  resource back.
* StatefulSet controller, kubelet, pods, Jobs, shard moves and shard recovery
  progress (`Others`, `World`): they do in a working Kubernetes and OpenSearch.
  Relocation is fair only off an excluded pod.
* `SF` on the clock of `WorkerDrain`: reconciles are short and 10 s apart, so time
  passes between them although `Tick` is disabled during one.
* In `MCResources` and `MCClusterConfiguration` fairness is of the component in
  focus, the only one that moves.
* No fairness for users, faults, restarts, agents' events and rebalancing.

## 6. What is proved

TLAPS checks the theorems for every value of the constants: any number of pods,
shards, workers, edits, restarts and faults, and any set of environments
(`ConfigRollout` has one edit of each of its two fields, for any faults). The only assumptions are the named `ASSUME`s of `IndexerDrain`,
`RollingRestart` and `CertificateRenewal`, and the constant predicates that the
other theorems have as hypotheses (`DrainConstants`, `ResourceConstants`,
`RestoreConstants`, `ReloadConstants` ...): they give bounds and environments their
types, and the runs evaluate them for their own constants. Of `CertificateRenewal`
they also say that windows last two days or more and that the certificates are
treated in the order of the code. Every proof has the same shape: `Init => Inv`,
`Inv /\ [Next]_vars => Inv'` with one step per action, and `Inv =>` the property.
What follows is the invariant that makes each of them inductive.

### `IndexerDrainProofs`

`TypeCorrect`, `ExclusionIsHeld`, `DrainingNeverShrinks`.
`ExclusionHeld` is about the stored status, and what stores it is the reconcile's
copy. `IndInv` adds that Failed and RollingBack are entered nowhere
(`RollbackUnreachable`), what the copy is at each `pc` (`CopyFollowsStatus`), that a
Draining copy on its way to be stored has its exclusion too (`CopyExclusion`), and
that the check lets a Draining copy reach the StatefulSet only if it does not shrink
it (`DrainingWaits`).

`VerifiedIsEmpty` looks back over three reconciles. `DrainInv` says what each leaves
behind: where a drain check stands, what one change of the spec can have led to, that
the drain is about the pod that goes, and that from Verifying on nothing moves to it.
`VerifySound` is the state between the two calls: every shard still on the target is
moving away. `FirstScaleDownLosesNothing` adds `ScaleDownSafe`: the StatefulSet shrinks
only once the target is empty with the exclusion cleared (`Drained`), also in a later
reconcile that finds Verifying stored and no drainer.

### `WorkerDrainProofs`

`WorkerTypeCorrect`, and `MonitorWaitsForGrace`: `emptyQueueSeenTime` belongs to the
worker that goes, and every sample since was empty, as long as the count changed once
(`SeenIsTargets`, with the two counts a reconcile may work with, `OneCount`).

### `RollingRestartProofs`

`RestartTypeCorrect`, `IndexerRestartsOneByOne`, `WorkersRestartOneByOne`. A
terminating pod counts as ready, so the health check alone would let a second pod go.
What prevents it is that the second choice falls on the same pod: it has the old
revision and every pod above it the new one (`AboveAreUpdated`). That needs only two
revisions around, the one all pods had when the template last changed and the wanted
one (`TwoRevisions`). `MasterGoesLast` holds also with templates changed midway:
revisions only go forward, so a terminating worker is behind (`MasterInv`).

### `ResourceSyncProofs`

`ResourceTypeCorrect`; `NoObjectIsForgotten`, since the controller acts on OpenSearch
only under the finalizer of the stored resource and is the only one to remove it
(`OwnedInv`); `RestMeansApplied`, since with no event queued the copy of a pass is the
stored resource (`RestInv`).

### `DataProtectionProofs`

* `RestoreTypeCorrect`, `RestoreImplementsOneShot`: a refinement, step by step
  (`StepRefines`). Each request made, and the one a pass is about to make, is covered
  by a lost record or is the one that is due (`RequestsCovered`).
  `FailedIsNotRestored`: what Failed means.
* `ReadyRepositoryIsRegistered`, `DeletedRepositoryIsGone`: generations only grow from
  OpenSearch to the pass to the resource (`GenerationsGrow`).
* `SnapshotTypeCorrect`, `SnapshotIsTakenOnce`, `SnapshotPhaseIsTrue`: the last attempt
  beyond the excused ones is the snapshot the status names (`AttemptsCovered`); a pass
  that did not read the name, or did not get to write it, has an excuse.
* `OldDataIsSaved`, `CompletedRestoreIsTrue`, `CompletedRestoreIsFinal`: the order of
  the script's lines for every combination of options (`ScriptLines`), and what has
  happened when a pod has a line behind it (`JobInv`).

### `CertificateRenewalProofs`

`RenewalTypeCorrect`. `CANeverExpires`: the days to the next window are fewer than the
period, and the renewal is forced when the window is too late, so after a day's
reconcile the CA is good for another day (`CALasts`), for every validity, threshold,
period and wait, where the CA is `Renewable`. `CertsExpireOnlyWhileCAWaits`: the same for each certificate the
reconcile has behind it, by the position in the list (`CertsLast`).

### `ConfigRolloutProofs`

`ConfigurationComesFirst`: versions are ordered from pods to object
to cache to ConfigMap (`ConfigOrder`). `PodsAreReplacedForAReason` is a potential
argument: each change of the template on the way from the pods to the object, to what
the pass builds, to the specification costs one rollout; rollouts so far and rollouts
due are within the budget that edits and faults pay into (`Earned`). The subject of the
indexer's certificate is hashed from the cache and may be unreadable, so there every
version on the way counts (`SubjectDue`, with `CacheOrder`).

### `ClusterConfigurationProofs`

* `LoadedTextsAreValid`, `AppliedContentIsWritten` (`ManagerContent`): only validated
  texts are in ConfigMaps and pods (`WrittenIsValid`), and the resource in work may have
  been edited but not replaced, since it has its finalizer (`ViewHolds`).
* `ReloadedPodsAreCurrent` (`HotReload`): the pods that had their turn use the newest
  certificate or were told before their volume had it, unless one failed or the first
  pod's file was compared with no Secret or a stale one (`PodsAreTold`).

### Only model-checked

* Liveness (`ScaleApplied`, `AllUpdated`, `WorkloadsCatchUp`, `IndexerCatchesUp`,
  `Settles`, `EditsArrive`): fairness and `ENABLED` are beyond the prover.
* `LinksKept`: about a fixed, finite table of pods and policies, which TLC enumerates.
* `ObservedIsApplied`, `SyncedIsTrue` of `CredentialSync` (it filters sequences of
  workloads, which takes induction), and the arms of `StatusIsTrue` for `BackupJob`,
  `AuthConfig`, `FilebeatConfig` and `StandaloneCertificate`: not proved yet.

## 7. Not modelled

* Texts, JSON, HTTP, formatting, hashing: data no property tells apart. A hash is the
  value hashed.
* Node pools (advanced indexer mode) with their drains and restarts; in particular the
  drains of two pools write one allocation exclusion.
* Several clusters that share the reconcilers' OpenSearch client and drainer; pods
  that never become ready.
* Certificates the user supplies, the authd password, pending roll-outs, conditions
  and events; which pods trust each other while old and new CA coexist.
* Retry, rollback and dry run of drains: the indexer's drain never reaches the first
  two (`RollbackUnreachable`) and the worker's fails the same way, from Pending; the
  third changes nothing.
* `internal/opensearch/securityconfig`, the indexer's own volume expansion and
  `TriggerCertificateHotReloadWithFallback`: they have no caller.
* Metrics, health reports, validation and the set-up of the process: they keep no state
  between reconciles.
* A reconcile takes no time in `CertificateRenewal`.

---------------------------- MODULE ConfigRollout ----------------------------
(***************************************************************************)
(* How an edit of a specification comes to run in the pods.  One workload  *)
(* and one of its fields are followed; a second field, which every         *)
(* workload notices, changes independently.  A reconcile renders the       *)
(* ConfigMap, takes its hash, builds the workload and writes it only when  *)
(* it notices a difference; pods are replaced when their template changed. *)
(*                                                                         *)
(* A value is a version: the user's edits count up from First.  Unread     *)
(* stands for what is used when an input cannot be read.                   *)
(***************************************************************************)
EXTENDS Naturals, WorkloadFields

CONSTANTS RolloutEnvironments, \* sets of what may happen besides one edit
          RolloutFaults        \* how often it may happen, together

VARIABLES cEnv, cFaults,
          wl, field, drops,    \* what is followed; the edit takes keys away
          want, otherWant,     \* the versions the custom resource holds
          followed,            \* the other field was edited since
          cm, seenCm,          \* the ConfigMap, and what the cache holds
          object,              \* the StatefulSet or Deployment
          pods,                \* what the running pods were made from
          cpc, cCopy, cHash,   \* the reconcile under way
          cQueued,
          rollouts, budget     \* pods replaced; replacements accounted for

cVars == <<cEnv, cFaults, wl, field, drops, want, otherWant, followed, cm,
           seenCm, object, pods, cpc, cCopy, cHash, cQueued, rollouts, budget>>

\* What the constants are.
RolloutConstants == RolloutFaults \in Nat

Missing == 0
Unread == 1
First == 2
Versions == 0..4

NoObject == [pod |-> Missing, own |-> Missing, spec |-> Missing,
             config |-> Missing, other |-> Missing, restart |-> 0,
             policy |-> "Parallel"]
NoPods == [pod |-> Missing, config |-> Missing, other |-> Missing,
           restart |-> 0, mounted |-> Missing]

\* Read with the custom resource, but a failure only leaves it out.
Fallible ==
  CASE wl \in {"master", "worker"} -> {"indexerCredentials", "rules", "decoders"}
    [] wl = "indexer" -> {"certificateSubject"}
    [] OTHER -> {}
\* What may change without any pod being replaced.
Quiet ==
  {"annotations", "updateStrategy", "storageSize", "storageClass",
   "storageClassName"} \cup
  (IF wl \in {"indexer", "soloIndexer"} THEN {} ELSE {"replicas"})
\* The workloads whose pods something replaces when the template changes:
\* the orchestrator of the cluster, or the Deployment controller.
Replaced == ClusterWorkloads \cup {"soloDashboard"}

StatefulSets == {"master", "worker", "indexer"}

\* What an earlier version of the operator left, made as the specification is
\* but with the other podManagementPolicy.
Older == [pod |-> First, own |-> First, spec |-> First, config |-> First,
          other |-> First, restart |-> 0, policy |-> "OrderedReady"]

Init ==
  /\ cEnv \in RolloutEnvironments /\ cFaults = 0
  /\ wl \in Workloads /\ field \in Fields[wl]
  /\ drops \in BOOLEAN /\ (drops => field = "annotations")
  /\ want = First /\ otherWant = First /\ followed = FALSE
  /\ IF "older" \in cEnv /\ wl \in StatefulSets
       THEN /\ cm = First /\ object = Older
            /\ pods = [pod |-> First, config |-> First, other |-> First,
                       restart |-> 0, mounted |-> First]
       ELSE cm = Missing /\ object = NoObject /\ pods = NoPods
  /\ seenCm = cm
  /\ cpc = "idle" /\ cCopy = [field |-> Missing, other |-> Missing]
  /\ cHash = Missing /\ cQueued = (wl \in SoloWorkloads)
  /\ rollouts = 0 /\ budget = 0

Fault(kind) ==
  kind \in cEnv /\ cFaults < RolloutFaults /\ cFaults' = cFaults + 1
Fixed == UNCHANGED <<cEnv, wl, field, drops>>
Spec0 == UNCHANGED <<want, otherWant, followed>>
\* A reconcile ends, with an error when it is to be retried.
Ends(again) ==
  cpc' = "idle" /\ cQueued' = (cQueued \/ (again /\ wl \in SoloWorkloads))

-----------------------------------------------------------------------------
(***************************************************************************)
(* The reconcile.                                                          *)
(***************************************************************************)
\* The cluster is requeued after every pass, the others only on events.
Begin ==
  /\ cpc = "idle" /\ (cQueued \/ wl \in ClusterWorkloads)
  /\ cpc' = "config" /\ cQueued' = FALSE
  /\ \/ /\ cCopy' = [field |-> want, other |-> otherWant]
        /\ UNCHANGED <<cFaults, budget>>
     \/ /\ field \in Fallible /\ Fault("read")
        /\ cCopy' = [field |-> Unread, other |-> otherWant]
        /\ budget' = budget + 2
  /\ Fixed /\ Spec0 /\ UNCHANGED <<cm, seenCm, object, pods, cHash, rollouts>>

Rendered == IF field \in ConfigFields[wl] THEN cCopy.field ELSE First

ConfigMapErrorIgnored ==
  /\ cpc = "config"
  /\ \/ cm' = Rendered /\ cFaults' = cFaults
     \/ cm' = cm /\ Fault("write")
  /\ seenCm' = cm' /\ cpc' = "hash"
  /\ Fixed /\ Spec0
  /\ UNCHANGED <<object, pods, cCopy, cHash, cQueued, rollouts, budget>>

createOrUpdateConfigMap ==
  /\ cpc = "config"
  /\ cm' = Rendered
  /\ \/ cFaults' = cFaults /\ seenCm' = cm'
     \/ cm' # cm /\ Fault("lag") /\ seenCm' = seenCm
  /\ cpc' = "hash"
  /\ Fixed /\ Spec0
  /\ UNCHANGED <<object, pods, cCopy, cHash, cQueued, rollouts, budget>>

\* Managers hash what they just rendered; indexer and dashboard hash the
\* ConfigMap as the cache has it; the standalone ones hash nothing.
getConfigHash ==
  /\ cpc = "hash"
  /\ cHash' = CASE wl \in {"master", "worker"} -> Rendered
                [] wl \in {"indexer", "dashboard"} ->
                     IF field \in SecretFields THEN First ELSE seenCm
                [] OTHER -> Missing
  /\ budget' = IF wl \in {"indexer", "dashboard"} /\ seenCm # cm
                 THEN budget + 1 ELSE budget
  /\ cpc' = "workload"
  /\ Fixed /\ Spec0
  /\ UNCHANGED <<cFaults, cm, seenCm, object, pods, cCopy, cQueued, rollouts>>

Held(set) == IF field \in set THEN cCopy.field ELSE First

StampEveryBuild ==
  [pod |-> Held(PodFields[wl]), own |-> Held(ObjectFields[wl]),
   spec |-> Held(Hashed[wl]), config |-> cHash, other |-> cCopy.other,
   restart |-> object.restart + 1, policy |-> "Parallel"]

\* The workload as the builder makes it: no restart stamp is carried over.
Desired ==
  [pod |-> Held(PodFields[wl]), own |-> Held(ObjectFields[wl]),
   spec |-> Held(Hashed[wl]), config |-> cHash, other |-> cCopy.other,
   restart |-> 0, policy |-> "Parallel"]

NeedsStatefulSetRecreation ==
  /\ wl \in StatefulSets
  /\ \/ Desired.policy # object.policy
     \/ field = "securityContext" /\ Desired.pod # object.pod

\* A Deployment carries an annotation of its controller that the standalone
\* dashboard's own annotations never equal.
NeedsUpdate ==
  LET made == Desired
  IN \/ wl = "soloDashboard"
     \/ made.spec # object.spec \/ made.other # object.other
     \/ cHash # Missing /\ cHash # object.config
     \/ /\ field \in Compared[wl]
        /\ made.pod # object.pod \/ made.own # object.own

Create ==
  /\ cpc = "workload" /\ object = NoObject
  /\ object' = Desired /\ Ends(TRUE)
  /\ Fixed /\ Spec0
  /\ UNCHANGED <<cFaults, cm, seenCm, pods, cCopy, cHash, rollouts, budget>>

\* Deleting the StatefulSet takes its pods with it.
DeleteForRecreation ==
  /\ cpc = "workload" /\ object # NoObject /\ NeedsStatefulSetRecreation
  /\ object' = NoObject /\ pods' = NoPods
  /\ Fixed /\ Spec0
  /\ UNCHANGED <<cFaults, cm, seenCm, cpc, cCopy, cHash, cQueued, rollouts,
                 budget>>

KeepTemplate ==
  /\ cpc = "workload" /\ object # NoObject /\ NeedsUpdate
  /\ object' = [Desired EXCEPT !.pod = object.pod] /\ Ends(object' # object)
  /\ Fixed /\ Spec0
  /\ UNCHANGED <<cFaults, cm, seenCm, pods, cCopy, cHash, rollouts, budget>>

\* The template is replaced as a whole; the annotations around it are merged,
\* and one that was taken away stays.
MergeUpdate ==
  /\ cpc = "workload" /\ object # NoObject /\ ~NeedsStatefulSetRecreation
  /\ NeedsUpdate
  /\ object' = [Desired EXCEPT !.own = IF drops THEN object.own ELSE @]
  /\ Ends(object' # object)
  /\ Fixed /\ Spec0
  /\ UNCHANGED <<cFaults, cm, seenCm, pods, cCopy, cHash, rollouts, budget>>

NothingToDo ==
  /\ cpc = "workload" /\ object # NoObject /\ ~NeedsStatefulSetRecreation
  /\ ~NeedsUpdate
  /\ Ends(FALSE)
  /\ Fixed /\ Spec0
  /\ UNCHANGED <<cFaults, cm, seenCm, object, pods, cCopy, cHash, rollouts,
                 budget>>

\* A write of the ConfigMap or the workload is refused, or the operator
\* restarts: the reconcile starts again.
WriteFails ==
  /\ cpc \in {"config", "workload"} /\ Fault("write")
  /\ Ends(TRUE)
  /\ Fixed /\ Spec0
  /\ UNCHANGED <<cm, seenCm, object, pods, cCopy, cHash, rollouts, budget>>

Crash ==
  /\ cpc # "idle" /\ Fault("crash")
  /\ Ends(TRUE)
  /\ Fixed /\ Spec0
  /\ UNCHANGED <<cm, seenCm, object, pods, cCopy, cHash, rollouts, budget>>

-----------------------------------------------------------------------------
(***************************************************************************)
(* The cluster around the reconcile.                                       *)
(***************************************************************************)
CacheCatchesUp ==
  /\ seenCm # cm
  /\ seenCm' = cm /\ cQueued' = (wl \in SoloWorkloads)
  /\ Fixed /\ Spec0
  /\ UNCHANGED <<cFaults, cm, object, pods, cpc, cCopy, cHash, rollouts, budget>>

Template(mounted) ==
  [pod |-> object.pod, config |-> object.config, other |-> object.other,
   restart |-> object.restart, mounted |-> mounted]

StartPods ==
  /\ object # NoObject /\ pods = NoPods
  /\ pods' = Template(cm)
  /\ Fixed /\ Spec0
  /\ UNCHANGED <<cFaults, cm, seenCm, object, cpc, cCopy, cHash, cQueued,
                 rollouts, budget>>

ReplacePods ==
  /\ wl \in Replaced /\ object # NoObject /\ pods # NoPods
  /\ pods # Template(pods.mounted)
  /\ pods' = Template(cm) /\ rollouts' = rollouts + 1
  /\ Fixed /\ Spec0
  /\ UNCHANGED <<cFaults, cm, seenCm, object, cpc, cCopy, cHash, cQueued, budget>>

Evict ==
  /\ object # NoObject /\ pods # NoPods /\ Fault("evict")
  /\ pods' = Template(cm)
  /\ Fixed /\ Spec0
  /\ UNCHANGED <<cm, seenCm, object, cpc, cCopy, cHash, cQueued, rollouts, budget>>

\* Credentials changed: the template is stamped for a restart.
triggerRestartWithHash ==
  /\ wl \in ClusterWorkloads /\ object # NoObject /\ cpc = "idle"
  /\ Fault("restart")
  /\ object' = [object EXCEPT !.restart = @ + 1] /\ budget' = budget + 2
  /\ Fixed /\ Spec0
  /\ UNCHANGED <<cm, seenCm, pods, cpc, cCopy, cHash, cQueued, rollouts>>

Edit ==
  /\ want = First /\ want' = want + 1
  /\ followed' = FALSE /\ cQueued' = (wl \in SoloWorkloads)
  /\ budget' = IF field \in Quiet THEN budget ELSE budget + 1
  /\ Fixed
  /\ UNCHANGED <<cFaults, otherWant, cm, seenCm, object, pods, cpc, cCopy,
                 cHash, rollouts>>

EditOther ==
  /\ otherWant = First /\ Fault("other") /\ otherWant' = otherWant + 1
  /\ followed' = TRUE /\ cQueued' = (wl \in SoloWorkloads)
  /\ budget' = budget + 1
  /\ Fixed
  /\ UNCHANGED <<want, cm, seenCm, object, pods, cpc, cCopy, cHash, rollouts>>

Reconciles ==
  Begin \/ createOrUpdateConfigMap \/ getConfigHash \/ Create
    \/ DeleteForRecreation \/ MergeUpdate \/ NothingToDo
World == CacheCatchesUp \/ StartPods \/ ReplacePods
Next ==
  Reconciles \/ World \/ WriteFails \/ Crash \/ Evict
    \/ triggerRestartWithHash \/ Edit \/ EditOther

Spec == Init /\ [][Next]_cVars

-----------------------------------------------------------------------------
TypeOK ==
  /\ cEnv \in RolloutEnvironments /\ cFaults \in 0..RolloutFaults
  /\ wl \in Workloads /\ field \in Fields[wl]
  /\ want \in {First, First + 1} /\ otherWant \in {First, First + 1}
  /\ followed \in BOOLEAN /\ cQueued \in BOOLEAN
  /\ cm \in Versions /\ seenCm \in Versions /\ cHash \in Versions
  /\ object \in [pod : Versions, own : Versions, spec : Versions,
                 config : Versions, other : Versions, restart : 0..RolloutFaults,
                 policy : {"Parallel", "OrderedReady"}]
  /\ pods \in [pod : Versions, config : Versions, other : Versions,
               restart : 0..RolloutFaults, mounted : Versions]
  /\ cpc \in {"idle", "config", "hash", "workload"}
  /\ cCopy \in [field : Versions, other : Versions]
  /\ rollouts \in 0..(4 * RolloutFaults) /\ budget \in 0..(4 * RolloutFaults)

\* The pods and the object around them are what the specification asks for.
Reached ==
  /\ pods # NoPods
  /\ field \in PodFields[wl] \cup ConfigFields[wl] \cup ObjectFields[wl]
  /\ field \in PodFields[wl] => pods.pod = want
  /\ field \in ConfigFields[wl] => pods.mounted = want
  /\ field \in ObjectFields[wl] => object.own = want

\* Fields the custom resource accepts and no pod ever sees; filebeat.yml is
\* mounted, but the image makes its own from the environment.
Unserved ==
  CASE wl = "master" ->
         {"image", "securityContext", "containerSecurityContext",
          "updateStrategy", "localInternalOptions", "clusterKeySecretRef",
          "storageClass", "storageClassName", "storageSize",
          "auth.enabledOnMasterOnly", "filebeatSSLVerificationMode"}
    [] wl = "worker" ->
         {"image", "securityContext", "containerSecurityContext",
          "updateStrategy", "localInternalOptions", "clusterKeySecretRef",
          "storageClass", "storageClassName", "storageSize", "env",
          "envFrom", "overrides", "filebeatSSLVerificationMode"}
    [] wl = "indexer" -> {"storageClass", "storageClassName", "storageSize"}
    [] wl = "dashboard" ->
         {"plugin.enabled", "plugin.endpoint.credentialsSecretRef"}
    [] OTHER -> {}
\* Fields that wait for a change of another field.
Late ==
  CASE wl = "worker" -> {"authdPasswordSecretRef", "auth.passwordSecretRef"}
    [] wl = "indexer" -> {"repositoryPluginKeys"}
    [] wl = "dashboard" -> WazuhPlugin \ Unserved
    [] OTHER -> {}
SoloServed ==
  {"version", "replicas", "resources", "tolerations", "affinity",
   "annotations", "podAnnotations", "imagePullPolicy"}

Served ==
  /\ wl \in Replaced
  /\ ~(field \in Fallible \cap ConfigFields[wl] /\ "read" \in cEnv)
  /\ wl = "soloDashboard" => field \in SoloServed
  /\ field \notin Unserved \cup Late /\ ~drops

EditReached == Served => Reached

\* An edit reaches the pods: every field that ReconcileNonBlocking serves is
\* in the running pods at last, although writes fail, inputs cannot be read
\* for a while, the cache lags and the operator restarts.  The standalone
\* dashboard serves few fields.  Left out: an annotation that is taken away,
\* and a value read into the ConfigMap that cannot be read once.  A pod that
\* starts before it is rendered again keeps the ConfigMap without it, for the
\* hash in the template then returns to the one the pod carries.
EditReachesPods == <>[]EditReached

LateFieldFollowed == field \in Late /\ followed => Reached

\* A field the hashes leave out is carried by the next change that is
\* noticed, since the update replaces the template as a whole.
LateFieldsFollow == <>[]LateFieldFollowed

SoloEditReached ==
  wl \in SoloWorkloads /\ ~drops /\
  field \in {"annotations", "podAnnotations", "tolerations", "affinity"}
    => object # NoObject /\ want \in {object.pod, object.own}

\* The standalone StatefulSets are updated OnDelete and no orchestrator runs
\* for them: what they compare is in the object at last, and a pod that
\* is deleted by hand comes back with it.
SoloEditReachesObject == <>[]SoloEditReached

\* Pods are replaced for a reason: no more often than fields that concern
\* them were edited, and once more for a ConfigMap hashed from a stale cache,
\* twice for a restart stamp (set, then dropped by the next update) and for
\* an input that could not be read (left out, then back).  Scaling workers or
\* dashboards, changing annotations or storage restarts nobody.
RolloutsAreEarned == rollouts <= budget

\* A pod that carries the hash of a configuration runs that configuration or
\* a newer one: the ConfigMap is written before the template.
ConfigBeforePods ==
  field \notin Fallible /\ pods.config # Missing => pods.mounted >= pods.config

=============================================================================

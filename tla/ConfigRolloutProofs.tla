------------------------ MODULE ConfigRolloutProofs ------------------------
(***************************************************************************)
(* Proofs about how an edit reaches the pods of a workload, for any faults *)
(* and any number of them.                                                 *)
(***************************************************************************)
EXTENDS ConfigRollout, TLAPS

\* The version a specification asks for in the ConfigMap.
Latest == IF field \in ConfigFields[wl] THEN want ELSE First

Objects ==
  [pod : Nat, own : Nat, spec : Nat, config : Nat, other : Nat, restart : Nat,
   policy : {"Parallel", "OrderedReady"}]
PodSets == [pod : Nat, config : Nat, other : Nat, restart : Nat, mounted : Nat]

RolloutTypes ==
  /\ wl \in Workloads
  /\ want \in {First, First + 1} /\ otherWant \in Nat
  /\ cm \in Nat /\ seenCm \in Nat /\ cHash \in Nat
  /\ rollouts \in Nat /\ budget \in Nat
  /\ object \in Objects /\ pods \in PodSets
  /\ cpc \in {"idle", "config", "hash", "workload"}
  /\ cCopy \in [field : Nat, other : Nat]

\* Nothing is built with a version that is missing, and a field that the pods
\* do not have never changes them.
Built ==
  /\ cpc # "idle" => cCopy.field # Missing
  /\ cpc \in {"hash", "workload"} => cm = Rendered
  /\ object # NoObject =>
       /\ object.pod # Missing
       /\ field \notin PodFields[wl] => object.pod = First
  /\ pods # NoPods => object # NoObject

\* What can always be read only becomes newer on its way to the pods.
ConfigOrder ==
  field \notin Fallible =>
    /\ cm <= Latest /\ seenCm <= cm /\ object.config <= cm
    /\ pods.config <= pods.mounted
    /\ cpc # "idle" => First <= cCopy.field /\ cCopy.field <= want
                         /\ cm <= Rendered
    /\ cpc = "workload" => cHash <= cm

\* Indexer and dashboard hash what the cache holds, which may be behind.
HashesCache == wl \in {"indexer", "dashboard"} /\ field \notin SecretFields
\* The one input of such a hash that the reconcile may fail to read.
Subject == wl = "indexer" /\ field = "certificateSubject"
CacheOrder ==
  /\ seenCm # 0 => cm # 0
  /\ HashesCache =>
       /\ field \notin Fallible =>
            object.config <= seenCm /\ (cpc = "workload" => cHash <= seenCm)
       /\ seenCm = 0 => object.config = 0 /\ (cpc = "workload" => cHash = 0)

\* The indexer's builder is not given the subject of its certificate.
LEMMA NotInThePods == "certificateSubject" \notin PodFields["indexer"]
<1>1. "indexer" \in Workloads
  BY DEF Workloads, ClusterWorkloads
<1>2. Passed["indexer"] = IndexerPassed
  BY <1>1 DEF Passed
<1>3. "certificateSubject" \notin IndexerPassed
  BY DEF IndexerPassed, Placement, Storage, Extras
<1>4. \A w \in Workloads : PodFields[w] \subseteq Passed[w]
  BY DEF PodFields
<1> QED  BY <1>1, <1>2, <1>3, <1>4

\* What counts as quiet changes no pods, and no ConfigMap of the cluster.
LEMMA QuietIsQuiet ==
  ASSUME wl \in Workloads, field \in Quiet
  PROVE  /\ field \notin PodFields[wl]
         /\ wl \in ClusterWorkloads => field \notin ConfigFields[wl]
<1>1. /\ field \in {"annotations", "updateStrategy", "storageSize", "storageClass",
                    "storageClassName", "replicas"}
      /\ field = "replicas" => wl \notin {"indexer", "soloIndexer"}
  BY DEF Quiet
<1>2. Setter(field) = IF field = "storageClassName" THEN "storageClass" ELSE field
  BY <1>1 DEF Setter
<1>3. field \notin PodFields[wl]
  <2>1. Setter(field) \notin PodReads[wl]
    <3>1. CASE wl \in {"master", "soloMaster"}
      BY <1>1, <1>2, <3>1
      DEF PodReads, ManagerPod, ManagerContainers,
          ManagerExporter, ManagerVolumes, ManagerMounts,
          ManagerInit, ManagerEnv
    <3>2. CASE wl \in {"worker", "soloWorkers", "soloWorker"}
      BY <1>1, <1>2, <3>2
      DEF PodReads, WorkerPod, WorkerContainers,
          WorkerVolumes, WorkerMounts, WorkerInit, WorkerEnv
    <3>3. CASE wl \in {"indexer", "soloIndexer"}
      BY <1>1, <1>2, <3>3
      DEF PodReads, IndexerPod, IndexerContainers,
          IndexerVolumes, IndexerMounts, IndexerInit,
          IndexerEnv
    <3>4. CASE wl \in {"dashboard", "soloDashboard"}
      BY <1>1, <1>2, <3>4
      DEF PodReads, DashboardPod, DashboardContainers,
          DashboardVolumes, DashboardMounts, DashboardEnv
    <3> QED
      BY <3>1, <3>2, <3>3, <3>4
      DEF Workloads, ClusterWorkloads, SoloWorkloads
  <2> QED  BY <1>1, <2>1 DEF PodFields
<1>4. ASSUME wl \in ClusterWorkloads
      PROVE  field \notin ConfigFields[wl]
  <2>1. CASE wl \in {"master", "worker"}
    BY <1>1, <2>1
    DEF ConfigFields, BuildMasterConfig, BuildWorkerConfig,
        ClusterFilebeat, ossecConfTemplate
  <2>2. CASE wl = "indexer"
    BY <1>1, <2>2 DEF ConfigFields, OpenSearchYml
  <2>3. CASE wl = "dashboard"
    BY <1>1, <2>3
    DEF ConfigFields, DashboardsYml, buildWazuhConfig,
        WazuhYmlHosts, WazuhYmlSettings,
        resolveAPIEndpointCredentials, WazuhPluginConfig,
        WazuhMonitoringConfig, WazuhChecksConfig,
        WazuhCronStatisticsConfig
  <2> QED  BY <1>4, <2>1, <2>2, <2>3 DEF ClusterWorkloads
<1> QED  BY <1>3, <1>4

\* What a pass makes.
LEMMA DesiredIsObject ==
  ASSUME RolloutTypes
  PROVE  /\ Rendered \in Nat /\ Desired \in Objects
         /\ \A S : Held(S) \in Nat
<1>1. Rendered \in Nat
  BY DEF RolloutTypes, Rendered, First
<1>2. \A S : Held(S) \in Nat
  BY DEF RolloutTypes, Held, First
<1>3. Desired \in Objects
  BY <1>2 DEF RolloutTypes, Desired, Objects
<1> QED  BY <1>1, <1>2, <1>3

LEMMA RolloutTypesInductive ==
  ASSUME RolloutTypes, [Next]_(cVars)
  PROVE  RolloutTypes'
<1> USE DEF Fixed, Spec0
<1>1. CASE Begin
  <2>1. cCopy' \in [field : Nat, other : Nat] /\ budget' \in Nat
    BY <1>1 DEF Begin, RolloutTypes, First, Unread
  <2> QED  BY <1>1, <2>1 DEF Begin, RolloutTypes
<1>2. CASE createOrUpdateConfigMap
  BY <1>2, DesiredIsObject DEF createOrUpdateConfigMap, RolloutTypes
<1>3. CASE getConfigHash
  <2>1. cHash' \in Nat /\ budget' \in Nat
    <3>1. cHash' \in {Rendered, First, seenCm, Missing}
      BY <1>3 DEF getConfigHash
    <3>2. budget' \in {budget, budget + 1}
      BY <1>3 DEF getConfigHash
    <3> QED
      BY <3>1, <3>2, DesiredIsObject DEF RolloutTypes, First, Missing
  <2> QED  BY <1>3, <2>1 DEF getConfigHash, RolloutTypes
<1>4. CASE Create
  BY <1>4, DesiredIsObject DEF Create, Ends, RolloutTypes
<1>5. CASE DeleteForRecreation
  <2>1. NoObject \in Objects /\ NoPods \in PodSets
    BY DEF NoObject, NoPods, Objects, PodSets, Missing
  <2> QED  BY <1>5, <2>1 DEF DeleteForRecreation, RolloutTypes
<1>6. CASE MergeUpdate
  <2>1. Desired \in Objects /\ object \in Objects
    BY DesiredIsObject DEF RolloutTypes
  <2>2. object' \in Objects
    BY <1>6, <2>1 DEF MergeUpdate, Objects
  <2> QED  BY <1>6, <2>2 DEF MergeUpdate, Ends, RolloutTypes
<1>7. CASE NothingToDo \/ WriteFails \/ Crash
  BY <1>7 DEF NothingToDo, WriteFails, Crash, Ends,
              RolloutTypes
<1>8. CASE CacheCatchesUp
  BY <1>8 DEF CacheCatchesUp, RolloutTypes
<1>9. CASE StartPods \/ ReplacePods \/ Evict
  <2>1. Template(cm) \in PodSets
    BY DEF RolloutTypes, Template, Objects, PodSets
  <2>2. pods' = Template(cm) /\ rollouts' \in {rollouts, rollouts + 1}
    BY <1>9 DEF StartPods, ReplacePods, Evict
  <2>3. UNCHANGED <<wl, want, otherWant, cm, seenCm, object, cpc, cCopy, cHash, budget>>
    BY <1>9 DEF StartPods, ReplacePods, Evict
  <2> QED  BY <2>1, <2>2, <2>3 DEF RolloutTypes
<1>10. CASE triggerRestartWithHash
  <2>1. object' \in Objects /\ budget' \in Nat
    BY <1>10 DEF triggerRestartWithHash, RolloutTypes, Objects
  <2> QED  BY <1>10, <2>1 DEF triggerRestartWithHash, RolloutTypes
<1>11. CASE Edit
  BY <1>11 DEF Edit, RolloutTypes
<1>12. CASE EditOther
  BY <1>12 DEF EditOther, RolloutTypes
<1>13. CASE UNCHANGED cVars
  BY <1>13 DEF cVars, RolloutTypes
<1> QED
  BY <1>1, <1>2, <1>3, <1>4, <1>5, <1>6, <1>7, <1>8, <1>9, <1>10, <1>11, <1>12, <1>13
  DEF Next, Reconciles, World

\* What a pass builds is an object, with the version of its pods.
LEMMA DesiredIsBuilt ==
  ASSUME RolloutTypes, Built, cpc = "workload"
  PROVE  /\ Desired # NoObject /\ Desired.pod # Missing
         /\ Desired.config = cHash /\ Desired.other = cCopy.other
         /\ Desired.restart = 0
         /\ Desired.pod = Held(PodFields[wl])
         /\ field \notin PodFields[wl] => Desired.pod = First
<1>1. \A S : Held(S) # Missing
  BY DEF Built, Held, First, Missing
<1>2. Desired.pod # NoObject.pod
  BY <1>1 DEF Desired, NoObject
<1> QED  BY <1>1, <1>2 DEF Desired, Held

\* The workload is written as built, but for annotations that are kept.
LEMMA WorkloadWritten ==
  ASSUME RolloutTypes, Built, Create \/ MergeUpdate
  PROVE  /\ cpc = "workload" /\ cpc' = "idle"
         /\ object' # NoObject /\ object'.pod # Missing
         /\ object'.config = cHash /\ object'.other = cCopy.other
         /\ object'.restart = 0
         /\ object'.pod = Held(PodFields[wl])
         /\ field \notin PodFields[wl] => object'.pod = First
         /\ UNCHANGED <<wl, field, want, otherWant, cm, seenCm, pods, cCopy, cHash,
                        rollouts, budget>>
<1> USE DEF Fixed, Spec0
<1>1. /\ cpc = "workload" /\ cpc' = "idle"
      /\ UNCHANGED <<wl, field, want, otherWant, cm, seenCm, pods, cCopy, cHash,
                     rollouts, budget>>
      /\ \/ object' = Desired
         \/ object' = [Desired EXCEPT !.own = IF drops THEN object.own ELSE @]
  BY DEF Create, MergeUpdate, Ends
<1>2. Desired \in Objects
  BY DesiredIsObject
<1>3. /\ object'.pod = Desired.pod /\ object'.config = Desired.config
      /\ object'.other = Desired.other /\ object'.restart = Desired.restart
  BY <1>1, <1>2 DEF Objects
<1>4. object'.pod # NoObject.pod
  BY <1>1, <1>3, DesiredIsBuilt DEF NoObject
<1> QED  BY <1>1, <1>3, <1>4, DesiredIsBuilt

LEMMA BuiltInductive ==
  ASSUME RolloutTypes, Built, [Next]_(cVars)
  PROVE  Built'
<1> USE DEF Fixed, Spec0
<1>1. CASE Begin
  <2>1. cCopy'.field # Missing
    BY <1>1 DEF Begin, RolloutTypes, First, Unread, Missing
  <2> QED  BY <1>1, <2>1 DEF Begin, Built
<1>2. CASE createOrUpdateConfigMap
  BY <1>2 DEF createOrUpdateConfigMap, Built, Rendered
<1>3. CASE getConfigHash
  BY <1>3 DEF getConfigHash, Built, Rendered
<1>4. CASE Create \/ MergeUpdate
  BY <1>4, WorkloadWritten DEF Built
<1>5. CASE DeleteForRecreation
  BY <1>5 DEF DeleteForRecreation, Built, Rendered
<1>6. CASE NothingToDo \/ WriteFails \/ Crash
  BY <1>6 DEF NothingToDo, WriteFails, Crash, Ends, Built
<1>7. CASE CacheCatchesUp
  BY <1>7 DEF CacheCatchesUp, Built, Rendered
<1>8. CASE StartPods \/ ReplacePods \/ Evict
  <2>1. /\ object # NoObject /\ UNCHANGED <<wl, field, cm, object, cpc, cCopy>>
    BY <1>8 DEF StartPods, ReplacePods, Evict
  <2> QED  BY <2>1 DEF Built, Rendered
<1>9. CASE triggerRestartWithHash
  <2>1. /\ object # NoObject /\ object'.pod = object.pod
        /\ UNCHANGED <<wl, field, cm, pods, cpc, cCopy>> /\ cpc = "idle"
    BY <1>9 DEF triggerRestartWithHash, RolloutTypes, Objects
  <2>2. object' # NoObject
    BY <2>1 DEF Built, NoObject
  <2> QED  BY <2>1, <2>2 DEF Built
<1>10. CASE Edit \/ EditOther
  BY <1>10 DEF Edit, EditOther, Built, Rendered
<1>11. CASE UNCHANGED cVars
  BY <1>11 DEF cVars, Built, Rendered
<1> QED
  BY <1>1, <1>2, <1>3, <1>4, <1>5, <1>6, <1>7, <1>8, <1>9, <1>10, <1>11
  DEF Next, Reconciles, World

\* What is followed is fixed.
LEMMA FollowedStays ==
  ASSUME [Next]_(cVars)
  PROVE  /\ UNCHANGED <<wl, field>> /\ HashesCache' = HashesCache /\ Subject' = Subject
         /\ (field \notin Fallible)' = (field \notin Fallible)
  BY Zenon DEF Next, Reconciles, World, Begin,
        createOrUpdateConfigMap, getConfigHash, NothingToDo,
        WriteFails, Crash, CacheCatchesUp, StartPods,
        ReplacePods, Evict, Edit, EditOther,
        Create, MergeUpdate, DeleteForRecreation,
        triggerRestartWithHash, cVars, Fallible, HashesCache,
        Subject, Fixed

LEMMA ConfigOrderInductive ==
  ASSUME RolloutTypes, Built, ConfigOrder, [Next]_(cVars)
  PROVE  ConfigOrder'
<1> USE DEF Fixed, Spec0, First, Missing
<1>1. /\ UNCHANGED <<wl, field>>
      /\ (field \notin Fallible)' = (field \notin Fallible)
  BY FollowedStays
<1> SUFFICES ASSUME field \notin Fallible
             PROVE  /\ cm' <= Latest' /\ seenCm' <= cm' /\ object'.config <= cm'
                    /\ pods'.config <= pods'.mounted
                    /\ cpc' # "idle" => First <= cCopy'.field /\ cCopy'.field <= want'
                                          /\ cm' <= Rendered'
                    /\ cpc' = "workload" => cHash' <= cm'
  BY <1>1 DEF ConfigOrder
<1>2. /\ cm <= Latest /\ seenCm <= cm /\ object.config <= cm
      /\ pods.config <= pods.mounted
      /\ cpc # "idle" => First <= cCopy.field /\ cCopy.field <= want
                           /\ cm <= Rendered
      /\ cpc = "workload" => cHash <= cm
  BY DEF ConfigOrder
<1>3. /\ cm \in Nat /\ seenCm \in Nat /\ cHash \in Nat /\ object.config \in Nat
      /\ cCopy.field \in Nat /\ want \in {2, 3} /\ Rendered \in Nat /\ Latest \in Nat
      /\ 2 <= Latest /\ Latest <= want
  BY DesiredIsObject DEF RolloutTypes, Objects, Latest
<1>4. CASE Begin
  <2>1. /\ cpc' = "config" /\ cCopy'.field = want
        /\ UNCHANGED <<want, cm, seenCm, object, pods>>
    BY <1>4 DEF Begin
  <2>2. Latest' = Latest /\ Rendered' = Latest
    BY <1>1, <2>1 DEF Latest, Rendered
  <2> QED  BY <1>2, <1>3, <2>1, <2>2
<1>5. CASE createOrUpdateConfigMap
  <2>1. /\ cpc = "config" /\ cpc' = "hash" /\ cm' = Rendered /\ seenCm' \in {seenCm, cm'}
        /\ UNCHANGED <<want, object, pods, cCopy>>
    BY <1>5 DEF createOrUpdateConfigMap
  <2>2. Latest' = Latest /\ Rendered' = Rendered /\ Rendered <= Latest
    BY <1>1, <1>2, <1>3, <2>1 DEF Latest, Rendered
  <2> QED  BY <1>2, <1>3, <2>1, <2>2
<1>6. CASE getConfigHash
  <2>1. /\ cpc = "hash" /\ cpc' = "workload"
        /\ cHash' \in {Rendered, 2, seenCm, 0}
        /\ UNCHANGED <<want, cm, seenCm, object, pods, cCopy>>
    BY <1>6 DEF getConfigHash
  <2>2. /\ Latest' = Latest /\ Rendered' = Rendered /\ cm = Rendered
        /\ 2 <= Rendered
    BY <1>1, <1>2, <1>3, <2>1 DEF Latest, Rendered, Built
  <2> QED  BY <1>2, <1>3, <2>1, <2>2
<1>7. CASE Create \/ MergeUpdate
  <2>1. /\ cpc = "workload" /\ cpc' = "idle" /\ object'.config = cHash
        /\ UNCHANGED <<want, cm, seenCm, pods>>
    BY <1>7, WorkloadWritten
  <2>2. Latest' = Latest
    BY <1>1, <2>1 DEF Latest
  <2> QED  BY <1>2, <2>1, <2>2
<1>8. CASE DeleteForRecreation
  <2>1. /\ object' = NoObject /\ pods' = NoPods
        /\ UNCHANGED <<want, cm, seenCm, cpc, cCopy, cHash>>
    BY <1>8 DEF DeleteForRecreation
  <2>2. object'.config = 0 /\ pods'.config = 0 /\ pods'.mounted = 0
    BY <2>1 DEF NoObject, NoPods
  <2>3. Latest' = Latest /\ Rendered' = Rendered
    BY <1>1, <2>1 DEF Latest, Rendered
  <2> QED  BY <1>2, <1>3, <2>1, <2>2, <2>3
<1>9. CASE NothingToDo \/ WriteFails \/ Crash
  <2>1. cpc' = "idle" /\ UNCHANGED <<want, cm, seenCm, object, pods>>
    BY <1>9 DEF NothingToDo, WriteFails, Crash, Ends
  <2>2. Latest' = Latest
    BY <1>1, <2>1 DEF Latest
  <2> QED  BY <1>2, <2>1, <2>2
<1>10. CASE CacheCatchesUp
  <2>1. seenCm' = cm /\ UNCHANGED <<want, cm, object, pods, cpc, cCopy, cHash>>
    BY <1>10 DEF CacheCatchesUp
  <2>2. Latest' = Latest /\ Rendered' = Rendered
    BY <1>1, <2>1 DEF Latest, Rendered
  <2> QED  BY <1>2, <1>3, <2>1, <2>2
<1>11. CASE StartPods \/ ReplacePods \/ Evict
  <2>1. /\ pods' = Template(cm)
        /\ UNCHANGED <<want, cm, seenCm, object, cpc, cCopy, cHash>>
    BY <1>11 DEF StartPods, ReplacePods, Evict
  <2>2. pods'.config = object.config /\ pods'.mounted = cm
    BY <2>1 DEF Template
  <2>3. Latest' = Latest /\ Rendered' = Rendered
    BY <1>1, <2>1 DEF Latest, Rendered
  <2> QED  BY <1>2, <2>1, <2>2, <2>3
<1>12. CASE triggerRestartWithHash
  <2>1. /\ object'.config = object.config
        /\ UNCHANGED <<want, cm, seenCm, pods, cpc, cCopy, cHash>>
    BY <1>12 DEF triggerRestartWithHash, RolloutTypes, Objects
  <2>2. Latest' = Latest /\ Rendered' = Rendered
    BY <1>1, <2>1 DEF Latest, Rendered
  <2> QED  BY <1>2, <2>1, <2>2
<1>13. CASE Edit \/ EditOther \/ UNCHANGED cVars
  <2>1. /\ want' \in {want, want + 1}
        /\ UNCHANGED <<cm, seenCm, object, pods, cpc, cCopy, cHash>>
    BY <1>13 DEF Edit, EditOther, cVars
  <2>2. Latest <= Latest' /\ Latest' \in Nat /\ Rendered' = Rendered
    BY <1>1, <1>3, <2>1 DEF Latest, Rendered
  <2> QED  BY <1>2, <1>3, <2>1, <2>2
<1> QED
  BY <1>4, <1>5, <1>6, <1>7, <1>8, <1>9, <1>10, <1>11, <1>12, <1>13
  DEF Next, Reconciles, World

\* A pod that carries the hash of a configuration runs that configuration or a
\* newer one: a pass writes the ConfigMap, then takes the hash, then writes the
\* template, and a pod mounts the ConfigMap when it starts.
THEOREM ConfigurationComesFirst == Spec => []ConfigBeforePods
<1>1. Init => RolloutTypes /\ Built /\ ConfigOrder
  BY DEF Init, RolloutTypes, Built, ConfigOrder, Latest, Objects, PodSets,
         NoObject, NoPods, Older, Missing, First
<1>2. RolloutTypes /\ Built /\ ConfigOrder /\ [Next]_(cVars)
        => RolloutTypes' /\ Built' /\ ConfigOrder'
  BY RolloutTypesInductive, BuiltInductive, ConfigOrderInductive
<1>3. RolloutTypes /\ ConfigOrder => ConfigBeforePods
  BY DEF RolloutTypes, PodSets, ConfigOrder, ConfigBeforePods
<1> QED  BY <1>1, <1>2, <1>3, PTL DEF Spec

LEMMA CacheOrderInductive ==
  ASSUME RolloutTypes, Built, ConfigOrder, CacheOrder, [Next]_(cVars)
  PROVE  CacheOrder'
<1> USE DEF Fixed, Spec0, First, Missing
<1>1. /\ UNCHANGED <<wl, field>> /\ HashesCache' = HashesCache
      /\ (field \notin Fallible)' = (field \notin Fallible)
  BY FollowedStays
<1>2. /\ cm \in Nat /\ seenCm \in Nat /\ cHash \in Nat /\ object.config \in Nat
      /\ Rendered \in Nat /\ (cpc # "idle" => Rendered # 0)
  BY DesiredIsObject DEF RolloutTypes, Objects, Built, Rendered
<1>3. CASE createOrUpdateConfigMap
  <2>1. /\ cpc = "config" /\ cpc' = "hash" /\ cm' = Rendered /\ seenCm' \in {seenCm, cm'}
        /\ UNCHANGED object
    BY <1>3 DEF createOrUpdateConfigMap
  <2>2. field \notin Fallible => seenCm <= seenCm'
    BY <1>2, <2>1 DEF ConfigOrder
  <2> QED  BY <1>1, <1>2, <2>1, <2>2 DEF CacheOrder
<1>4. CASE getConfigHash
  <2>1. UNCHANGED <<cm, seenCm, object>> /\ (HashesCache => cHash' = seenCm)
    BY <1>4 DEF getConfigHash, HashesCache
  <2> QED  BY <1>1, <1>2, <2>1 DEF CacheOrder
<1>5. CASE Create \/ MergeUpdate
  <2>1. /\ cpc = "workload" /\ cpc' = "idle" /\ object'.config = cHash
        /\ UNCHANGED <<cm, seenCm>>
    BY <1>5, WorkloadWritten
  <2> QED  BY <1>1, <2>1 DEF CacheOrder
<1>6. CASE DeleteForRecreation
  <2>1. object'.config = 0 /\ UNCHANGED <<cm, seenCm, cpc, cHash>>
    BY <1>6 DEF DeleteForRecreation, NoObject
  <2> QED  BY <1>1, <1>2, <2>1 DEF CacheOrder
<1>7. CASE Begin \/ NothingToDo \/ WriteFails \/ Crash
  <2>1. cpc' # "workload" /\ UNCHANGED <<cm, seenCm, object>>
    BY <1>7 DEF Begin, NothingToDo, WriteFails, Crash,
                Ends
  <2> QED  BY <1>1, <2>1 DEF CacheOrder
<1>8. CASE CacheCatchesUp
  <2>1. seenCm' = cm /\ seenCm # cm /\ UNCHANGED <<cm, object, cpc, cHash>>
    BY <1>8 DEF CacheCatchesUp
  <2> QED  BY <1>1, <1>2, <2>1 DEF CacheOrder, ConfigOrder
<1>9. CASE triggerRestartWithHash
  <2>1. object'.config = object.config /\ UNCHANGED <<cm, seenCm, cpc, cHash>>
    BY <1>9 DEF triggerRestartWithHash, RolloutTypes, Objects
  <2> QED  BY <1>1, <2>1 DEF CacheOrder
<1>10. CASE \/ StartPods \/ ReplacePods \/ Evict
            \/ Edit \/ EditOther \/ UNCHANGED cVars
  <2>1. UNCHANGED <<cm, seenCm, object, cpc, cHash>>
    BY <1>10 DEF StartPods, ReplacePods, Evict, Edit,
                 EditOther, cVars
  <2> QED  BY <1>1, <2>1 DEF CacheOrder
<1> QED
  BY <1>3, <1>4, <1>5, <1>6, <1>7, <1>8, <1>9, <1>10
  DEF Next, Reconciles, World

\* Each change of the template between the pods and the specification costs one
\* rollout: from the pods to the object, to what the pass under way builds, to
\* what the specification asks for.
Link(a, b) == IF a = b THEN 0 ELSE 1
Chain(a, b, c, d) ==
  (IF pods = NoPods THEN 0 ELSE Link(a, b))
    + (IF object = NoObject THEN 0 ELSE Link(b, c)) + Link(c, d)

HashOf(v) ==
  IF wl \in {"master", "worker"} THEN v
  ELSE IF wl \notin {"indexer", "dashboard"} THEN Missing
  ELSE IF field \in SecretFields THEN First ELSE v

OfPods == <<pods.pod, pods.other, pods.restart>>
OfObject == <<object.pod, object.other, object.restart>>
OfSpec ==
  <<IF field \in PodFields[wl] THEN want ELSE First, otherWant, 0>>
OfPass ==
  IF cpc = "idle" THEN OfSpec
  ELSE <<Held(PodFields[wl]), cCopy.other, 0>>

HashOfSpec == HashOf(Latest)
HashOfPass ==
  CASE cpc = "idle" -> HashOfSpec
    [] cpc \in {"config", "hash"} -> HashOf(Rendered)
    [] cpc = "workload" -> cHash
Due ==
  Chain(<<OfPods, pods.config>>, <<OfObject, object.config>>, <<OfPass, HashOfPass>>,
        <<OfSpec, HashOfSpec>>)

\* The subject of the indexer's certificate is hashed from the cache and may be
\* left out when it cannot be read, so versions come and go: all that are on
\* their way to the hash count.
ToRender == IF cpc = "config" THEN Rendered ELSE Latest
ToCache == IF cm = 0 THEN ToRender ELSE cm
ToHash == IF seenCm = 0 THEN ToCache ELSE seenCm
ToBuild == IF cpc = "workload" THEN cHash ELSE ToHash
SubjectDue ==
  Chain(OfPods, OfObject, OfPass, OfSpec)
    + Chain(pods.config, object.config, ToBuild, ToHash)
    + Link(ToHash, ToCache) + Link(ToCache, ToRender) + Link(ToRender, Latest)

Earned == rollouts + (IF Subject THEN SubjectDue ELSE Due) <= budget

LEMMA LinkFacts ==
  /\ \A a, b : Link(a, b) \in {0, 1} /\ Link(a, a) = 0 /\ (a # b => Link(a, b) = 1)
  /\ \A a, b, c : Link(a, c) <= Link(a, b) + Link(b, c)
  BY DEF Link

\* The subject of the certificate is not in the pods, but in the ConfigMap that
\* the cache holds; nothing else that is hashed from the cache can be unreadable.
LEMMA SubjectFacts ==
  /\ Subject => field \notin PodFields[wl] /\ HashesCache /\ field \notin Quiet
  /\ HashesCache /\ ~Subject => field \notin Fallible
<1>1. "certificateSubject" \notin SecretFields
  BY DEF SecretFields, WazuhPlugin, WazuhPluginConfig,
         WazuhMonitoringConfig, WazuhChecksConfig,
         WazuhCronStatisticsConfig, WazuhAPIEndpoint
<1>2. ASSUME Subject
      PROVE  field \notin PodFields[wl] /\ HashesCache /\ field \notin Quiet
  BY <1>1, <1>2, NotInThePods DEF Subject, HashesCache, Quiet
<1>3. ASSUME HashesCache, ~Subject
      PROVE  field \notin Fallible
  BY <1>3 DEF Subject, HashesCache, Fallible
<1> QED  BY <1>2, <1>3

RolloutBase == RolloutTypes /\ Built /\ ConfigOrder /\ CacheOrder

\* A pass begins.
LEMMA EarnedBegin ==
  ASSUME RolloutBase, Earned, Begin, UNCHANGED <<wl, field>>, Subject' = Subject
  PROVE  Earned'
<1> USE DEF Fixed, Spec0
<1>1. /\ cpc = "idle" /\ cpc' = "config" /\ rollouts \in Nat /\ budget \in Nat
      /\ UNCHANGED <<want, otherWant, cm, seenCm, object, pods, rollouts>>
  BY DEF Begin, RolloutBase, RolloutTypes
<1>2. /\ OfPods' = OfPods /\ OfObject' = OfObject /\ OfSpec' = OfSpec /\ OfPass = OfSpec
      /\ HashOfSpec' = HashOfSpec /\ HashOfPass = HashOfSpec /\ Latest' = Latest
  BY <1>1 DEF OfPods, OfObject, OfSpec, OfPass, HashOfSpec, HashOfPass, HashOf, Latest
<1>3. CASE cCopy' = [field |-> want, other |-> otherWant] /\ UNCHANGED budget
  <2>1. Rendered' = Latest
    BY <1>3 DEF Rendered, Latest
  <2>2. OfPass' = OfSpec
    BY <1>1, <1>3 DEF OfPass, OfSpec, Held
  <2>3. HashOfPass' = HashOfSpec
    BY <1>1, <2>1 DEF HashOfPass, HashOfSpec, HashOf
  <2>4. Due' = Due
    BY <1>1, <1>2, <2>2, <2>3 DEF Due, Chain
  <2>5. /\ ToRender' = ToRender /\ ToCache' = ToCache /\ ToHash' = ToHash
        /\ ToBuild' = ToBuild
    BY <1>1, <2>1 DEF ToRender, ToCache, ToHash, ToBuild
  <2>6. SubjectDue' = SubjectDue
    BY <1>1, <1>2, <2>2, <2>5 DEF SubjectDue, Chain
  <2> QED  BY <1>1, <1>3, <2>4, <2>6 DEF Earned
<1>4. CASE cCopy' = [field |-> Unread, other |-> otherWant] /\ budget' = budget + 2
  <2>1. ASSUME ~Subject  PROVE Earned'
    BY <1>1, <1>2, <1>4, <2>1, LinkFacts DEF Due, Chain, Earned
  <2>2. ASSUME Subject  PROVE Earned'
    <3>1. OfPass' = OfSpec
      BY <1>1, <1>4, <2>2, SubjectFacts DEF OfPass, OfSpec, Held
    <3> QED
      BY <1>1, <1>2, <1>4, <2>2, <3>1, LinkFacts
      DEF SubjectDue, Chain, ToRender, ToCache, ToHash, ToBuild, Earned
  <2> QED  BY <2>1, <2>2
<1> QED  BY <1>3, <1>4 DEF Begin

\* The ConfigMap is written.
LEMMA EarnedConfigMap ==
  ASSUME RolloutBase, Earned, createOrUpdateConfigMap, UNCHANGED <<wl, field>>,
         Subject' = Subject
  PROVE  Earned'
<1> USE DEF Fixed, Spec0
<1>1. /\ cpc = "config" /\ cpc' = "hash" /\ rollouts \in Nat /\ budget \in Nat
      /\ UNCHANGED <<want, otherWant, object, pods, cCopy, rollouts, budget>>
      /\ cm' = Rendered /\ seenCm' \in {seenCm, cm'}
  BY DEF createOrUpdateConfigMap, RolloutBase, RolloutTypes
<1>2. Rendered' = Rendered /\ Rendered # 0 /\ Latest' = Latest
  BY <1>1 DEF Rendered, RolloutBase, Built, Missing, First, Latest
<1>3. /\ OfPods' = OfPods /\ OfObject' = OfObject /\ OfSpec' = OfSpec /\ OfPass' = OfPass
      /\ HashOfSpec' = HashOfSpec /\ HashOfPass' = HashOfPass
  BY <1>1, <1>2 DEF OfPods, OfObject, OfSpec, OfPass, HashOfSpec, HashOfPass, HashOf,
                    Held
<1>4. ASSUME ~Subject  PROVE Earned'
  BY <1>1, <1>3, <1>4 DEF Due, Chain, Earned
<1>5. ASSUME Subject  PROVE Earned'
  BY <1>1, <1>2, <1>3, <1>5, LinkFacts
  DEF SubjectDue, Chain, ToRender, ToCache, ToHash, ToBuild, Earned
<1> QED  BY <1>4, <1>5

\* The hash is taken.  If it is stale then the object, too, is behind what the
\* pass renders, and the detour costs no more than one rollout.
LEMMA EarnedHash ==
  ASSUME RolloutBase, Earned, getConfigHash, UNCHANGED <<wl, field>>,
         Subject' = Subject
  PROVE  Earned'
<1> USE DEF Fixed, Spec0
<1>1. /\ cpc = "hash" /\ cpc' = "workload" /\ rollouts \in Nat /\ budget \in Nat
      /\ UNCHANGED <<want, otherWant, cm, seenCm, object, pods, cCopy, rollouts>>
      /\ budget' = IF wl \in {"indexer", "dashboard"} /\ seenCm # cm
                     THEN budget + 1 ELSE budget
  BY DEF getConfigHash, RolloutBase, RolloutTypes
<1>2. /\ Rendered' = Rendered /\ Rendered = cm /\ cm # 0
      /\ Latest' = Latest
  BY <1>1 DEF Rendered, RolloutBase, Built, Missing, First, Latest
<1>3. /\ OfPods' = OfPods /\ OfObject' = OfObject /\ OfSpec' = OfSpec /\ OfPass' = OfPass
      /\ HashOfSpec' = HashOfSpec /\ HashOfPass' = cHash' /\ HashOfPass = HashOf(cm)
  BY <1>1, <1>2 DEF OfPods, OfObject, OfSpec, OfPass, HashOfSpec, HashOfPass, HashOf,
                    Held
<1>4. cHash' = IF HashesCache THEN seenCm ELSE HashOf(cm)
  BY <1>2 DEF getConfigHash, HashesCache, HashOf
<1>5. CASE ~Subject /\ (HashesCache => seenCm = cm)
  <2>1. HashOfPass' = HashOfPass /\ budget' \in {budget, budget + 1}
    BY <1>1, <1>3, <1>4, <1>5 DEF HashesCache, HashOf
  <2> QED  BY <1>1, <1>3, <1>5, <2>1, LinkFacts DEF Due, Chain, Earned
<1>6. CASE ~Subject /\ HashesCache /\ seenCm # cm
  <2>1. budget' = budget + 1 /\ HashOfPass = cm
    BY <1>1, <1>3, <1>6 DEF HashesCache, HashOf
  <2>2. object.config # cm
    <3>1. object.config <= seenCm /\ seenCm <= cm
      BY <1>6, SubjectFacts DEF RolloutBase, ConfigOrder, CacheOrder
    <3>2. object.config \in Nat /\ seenCm \in Nat /\ cm \in Nat
      BY DEF RolloutBase, RolloutTypes, Objects
    <3> QED  BY <1>6, <3>1, <3>2
  <2>3. <<OfObject, object.config>> # <<OfPass, HashOfPass>>
    BY <2>1, <2>2
  <2>4. object = NoObject => pods = NoPods
    BY DEF RolloutBase, Built
  <2> QED  BY <1>1, <1>3, <1>6, <2>1, <2>3, <2>4, LinkFacts DEF Due, Chain, Earned
<1>7. CASE Subject
  <2>1. cHash' = seenCm /\ (seenCm # cm => budget' = budget + 1)
    BY <1>1, <1>4, <1>7, SubjectFacts DEF HashesCache
  <2>2. seenCm = 0 => object.config = 0
    BY <1>7, SubjectFacts DEF RolloutBase, CacheOrder
  <2> QED
    BY <1>1, <1>2, <1>3, <1>7, <2>1, <2>2, LinkFacts
    DEF SubjectDue, Chain, ToRender, ToCache, ToHash, ToBuild, Earned
<1> QED  BY <1>5, <1>6, <1>7

\* The workload is written, or deleted to be made anew.
LEMMA EarnedWorkload ==
  ASSUME RolloutBase, Earned, UNCHANGED <<wl, field>>, Subject' = Subject,
         Create \/ MergeUpdate \/ DeleteForRecreation
  PROVE  Earned'
<1> USE DEF Fixed, Spec0
<1>1. /\ cpc = "workload" /\ rollouts \in Nat /\ budget \in Nat
      /\ UNCHANGED <<want, otherWant, cm, seenCm, cCopy, cHash, rollouts, budget>>
  BY Zenon DEF Create, MergeUpdate, DeleteForRecreation, RolloutBase,
         RolloutTypes
<1>2. OfSpec' = OfSpec /\ HashOfSpec' = HashOfSpec /\ HashOfPass = cHash /\ Latest' = Latest
  BY <1>1 DEF OfSpec, HashOfSpec, HashOfPass, HashOf, Latest
<1>3. CASE Create \/ MergeUpdate
  <2>1. /\ cpc' = "idle" /\ object'.config = cHash /\ object'.other = cCopy.other
        /\ object'.restart = 0 /\ object'.pod = Held(PodFields[wl])
        /\ object' # NoObject /\ UNCHANGED pods
    BY <1>3, WorkloadWritten DEF RolloutBase
  <2>2. /\ OfPods' = OfPods /\ OfObject' = OfPass
        /\ OfPass' = OfSpec' /\ HashOfPass' = HashOfSpec'
    BY <1>1, <2>1 DEF OfPods, OfObject, OfPass, HashOfPass
  <2>3. object = NoObject => pods = NoPods
    BY DEF RolloutBase, Built
  <2>4. ASSUME ~Subject  PROVE Earned'
    BY <1>1, <1>2, <2>1, <2>2, <2>3, <2>4, LinkFacts DEF Due, Chain, Earned
  <2>5. ASSUME Subject  PROVE Earned'
    BY <1>1, <1>2, <2>1, <2>2, <2>3, <2>5, LinkFacts
    DEF SubjectDue, Chain, ToRender, ToCache, ToHash, ToBuild, Earned
  <2> QED  BY <2>4, <2>5
<1>4. CASE DeleteForRecreation
  <2>1. cpc' = cpc /\ object' = NoObject /\ pods' = NoPods
    BY <1>4 DEF DeleteForRecreation
  <2>2. OfPass' = OfPass /\ HashOfPass' = cHash
    BY <1>1, <1>2, <2>1 DEF OfPass, HashOfPass, Held
  <2>3. ASSUME ~Subject  PROVE Earned'
    BY <1>1, <1>2, <2>1, <2>2, <2>3, LinkFacts DEF Due, Chain, Earned
  <2>4. ASSUME Subject  PROVE Earned'
    BY <1>1, <1>2, <2>1, <2>2, <2>4, LinkFacts
    DEF SubjectDue, Chain, ToRender, ToCache, ToHash, ToBuild, Earned
  <2> QED  BY <2>3, <2>4
<1> QED  BY <1>3, <1>4

\* The pass ends with nothing written, or the cache catches up.
LEMMA EarnedNothing ==
  ASSUME RolloutBase, Earned, UNCHANGED <<wl, field>>, Subject' = Subject,
         NothingToDo \/ WriteFails \/ Crash \/ CacheCatchesUp
  PROVE  Earned'
<1> USE DEF Fixed, Spec0
<1>1. /\ rollouts \in Nat /\ budget \in Nat
      /\ UNCHANGED <<want, otherWant, cm, object, pods, rollouts, budget>>
  BY Zenon DEF NothingToDo, WriteFails, Crash, CacheCatchesUp,
         RolloutBase, RolloutTypes
<1>2. /\ OfPods' = OfPods /\ OfObject' = OfObject /\ OfSpec' = OfSpec
      /\ HashOfSpec' = HashOfSpec /\ Latest' = Latest
  BY <1>1 DEF OfPods, OfObject, OfSpec, HashOfSpec, HashOf, Latest
<1>3. object = NoObject => pods = NoPods
  BY DEF RolloutBase, Built
<1>4. CASE NothingToDo \/ WriteFails \/ Crash
  <2>1. cpc' = "idle" /\ UNCHANGED seenCm
    BY <1>4 DEF NothingToDo, WriteFails, Crash, Ends
  <2>2. OfPass' = OfSpec' /\ HashOfPass' = HashOfSpec'
    BY <2>1 DEF OfPass, HashOfPass
  <2>3. ASSUME ~Subject  PROVE Earned'
    BY <1>1, <1>2, <2>2, <2>3, LinkFacts DEF Due, Chain, Earned
  <2>4. ASSUME Subject  PROVE Earned'
    BY <1>1, <1>2, <2>1, <2>2, <2>4, LinkFacts
    DEF SubjectDue, Chain, ToRender, ToCache, ToHash, ToBuild, Earned
  <2> QED  BY <2>3, <2>4
<1>5. CASE CacheCatchesUp
  <2>1. seenCm' = cm /\ UNCHANGED <<cpc, cCopy, cHash>>
    BY <1>5 DEF CacheCatchesUp
  <2>2. /\ OfPass' = OfPass /\ HashOfPass' = HashOfPass
        /\ Rendered' = Rendered
    BY <1>2, <2>1 DEF OfPass, HashOfPass, HashOf, Held, Rendered
  <2>3. seenCm # 0 => cm # 0
    BY DEF RolloutBase, CacheOrder
  <2>4. ASSUME ~Subject  PROVE Earned'
    BY <1>1, <1>2, <2>2, <2>4 DEF Due, Chain, Earned
  <2>5. ASSUME Subject  PROVE Earned'
    <3>1. /\ ToRender' = ToRender /\ ToCache' = ToCache /\ ToHash' = ToCache
      BY <1>1, <1>2, <2>1, <2>2, <2>3 DEF ToRender, ToCache, ToHash
    <3>2. ToBuild' = (IF cpc = "workload" THEN ToBuild ELSE ToCache)
      BY <2>1, <3>1 DEF ToBuild
    <3>3. cpc # "workload" => ToBuild = ToHash
      BY DEF ToBuild
    <3> QED  BY <1>1, <1>2, <2>2, <2>5, <3>1, <3>2, <3>3, LinkFacts
               DEF SubjectDue, Chain, Earned
  <2> QED  BY <2>4, <2>5
<1> QED  BY <1>4, <1>5

\* Pods are started: a rollout takes the first change off the chain.
LEMMA EarnedPods ==
  ASSUME RolloutBase, Earned, UNCHANGED <<wl, field>>, Subject' = Subject,
         StartPods \/ ReplacePods \/ Evict
  PROVE  Earned'
<1> USE DEF Fixed, Spec0
<1>1. /\ rollouts \in Nat /\ budget \in Nat /\ pods' = Template(cm)
      /\ UNCHANGED <<want, otherWant, cm, seenCm, object, cpc, cCopy, cHash, budget>>
  BY SMTT(20) DEF StartPods, ReplacePods, Evict, RolloutBase, RolloutTypes
<1>2. /\ OfObject' = OfObject /\ OfSpec' = OfSpec /\ HashOfSpec' = HashOfSpec
      /\ Latest' = Latest /\ Rendered' = Rendered
  BY <1>1 DEF OfObject, OfSpec, HashOfSpec, HashOf, Latest, Rendered
<1>3. OfPass' = OfPass /\ HashOfPass' = HashOfPass
  BY <1>1, <1>2 DEF OfPass, HashOfPass, HashOf, Held
<1>4. OfPods' = OfObject /\ pods'.config = object.config
  BY <1>1 DEF OfPods, OfObject, Template
<1>5. \/ rollouts' = rollouts
      \/ /\ rollouts' = rollouts + 1 /\ pods # NoPods
         /\ OfPods # OfObject \/ pods.config # object.config
  <2>1. CASE ReplacePods
    <3>1. pods \in PodSets /\ pods # Template(pods.mounted)
      BY <2>1 DEF ReplacePods, RolloutBase, RolloutTypes
    <3>2. ASSUME OfPods = OfObject, pods.config = object.config
          PROVE  pods = Template(pods.mounted)
      BY <3>1, <3>2 DEF PodSets, OfPods, OfObject, Template
    <3> QED  BY <2>1, <3>1, <3>2 DEF ReplacePods
  <2>2. CASE StartPods \/ Evict
    BY <2>2 DEF StartPods, Evict
  <2> QED  BY <2>1, <2>2
<1>6. ASSUME ~Subject  PROVE Earned'
  <2>1. OfPods # OfObject \/ pods.config # object.config
          => <<OfPods, pods.config>> # <<OfObject, object.config>>
    OBVIOUS
  <2> QED  BY <1>1, <1>2, <1>3, <1>4, <1>5, <1>6, <2>1, LinkFacts DEF Due, Chain, Earned
<1>7. ASSUME Subject  PROVE Earned'
  <2>1. /\ ToRender' = ToRender /\ ToCache' = ToCache /\ ToHash' = ToHash
        /\ ToBuild' = ToBuild
    BY <1>1, <1>2 DEF ToRender, ToCache, ToHash, ToBuild
  <2> QED
    BY <1>1, <1>2, <1>3, <1>4, <1>5, <1>7, <2>1, LinkFacts DEF SubjectDue, Chain, Earned
<1> QED  BY <1>6, <1>7

\* The template is stamped for a restart.
LEMMA EarnedRestart ==
  ASSUME RolloutBase, Earned, UNCHANGED <<wl, field>>, Subject' = Subject,
         triggerRestartWithHash
  PROVE  Earned'
<1> USE DEF Fixed, Spec0
<1>1. /\ rollouts \in Nat /\ budget \in Nat /\ budget' = budget + 2
      /\ object # NoObject /\ object'.config = object.config /\ cpc = "idle"
      /\ UNCHANGED <<want, otherWant, cm, seenCm, pods, cpc, cCopy, cHash, rollouts>>
  BY DEF triggerRestartWithHash, RolloutBase, RolloutTypes, Objects
<1>2. /\ OfPods' = OfPods /\ OfSpec' = OfSpec /\ HashOfSpec' = HashOfSpec
      /\ Latest' = Latest
  BY <1>1 DEF OfPods, OfSpec, HashOfSpec, HashOf, Latest
<1>3. OfPass' = OfPass /\ HashOfPass' = HashOfPass
  BY <1>1, <1>2 DEF OfPass, HashOfPass
<1>4. ASSUME ~Subject  PROVE Earned'
  BY <1>1, <1>2, <1>3, <1>4, LinkFacts DEF Due, Chain, Earned
<1>5. ASSUME Subject  PROVE Earned'
  <2>1. /\ ToRender' = ToRender /\ ToCache' = ToCache /\ ToHash' = ToHash
        /\ ToBuild' = ToBuild
    BY <1>1, <1>2 DEF ToRender, ToCache, ToHash, ToBuild
  <2> QED  BY <1>1, <1>2, <1>3, <1>5, <2>1, LinkFacts DEF SubjectDue, Chain, Earned
<1> QED  BY <1>4, <1>5

\* The specification changes.
LEMMA EarnedEdit ==
  ASSUME RolloutBase, Earned, UNCHANGED <<wl, field>>, Subject' = Subject,
         Edit \/ EditOther
  PROVE  Earned'
<1> USE DEF Fixed
<1>1. /\ rollouts \in Nat /\ budget \in Nat
      /\ UNCHANGED <<cm, seenCm, object, pods, cpc, cCopy, cHash, rollouts>>
  BY DEF Edit, EditOther, RolloutBase, RolloutTypes
<1>2. /\ OfPods' = OfPods /\ OfObject' = OfObject /\ Rendered' = Rendered
  BY <1>1 DEF OfPods, OfObject, Rendered
<1>3. cpc # "idle" => OfPass' = OfPass /\ HashOfPass' = HashOfPass
  BY <1>1, <1>2 DEF OfPass, HashOfPass, HashOf, Held, RolloutBase, RolloutTypes
<1>4. cpc = "idle" => /\ OfPass = OfSpec /\ HashOfPass = HashOfSpec
                      /\ OfPass' = OfSpec' /\ HashOfPass' = HashOfSpec'
  BY <1>1 DEF OfPass, HashOfPass
<1>5. object = NoObject => pods = NoPods
  BY DEF RolloutBase, Built
<1>6. CASE Edit /\ field \in Quiet
  <2>1. UNCHANGED <<otherWant, budget>> /\ ~Subject
    BY <1>6, SubjectFacts DEF Edit
  <2>2. /\ field \notin PodFields[wl]
        /\ wl \in {"master", "worker", "indexer", "dashboard"}
             => field \notin ConfigFields[wl]
    BY <1>6, QuietIsQuiet DEF RolloutBase, RolloutTypes, ClusterWorkloads
  <2>3. OfSpec' = OfSpec
    BY <2>1, <2>2 DEF OfSpec
  <2>4. HashOfSpec' = HashOfSpec
    BY <2>2 DEF HashOfSpec, HashOf, Latest
  <2>5. OfPass' = OfPass /\ HashOfPass' = HashOfPass
    BY <1>3, <1>4, <2>3, <2>4
  <2> QED  BY <1>1, <1>2, <2>1, <2>3, <2>4, <2>5 DEF Due, Chain, Earned
<1>7. CASE ~(Edit /\ field \in Quiet)
  <2>1. budget' = budget + 1
    BY <1>7 DEF Edit, EditOther
  <2>2. ASSUME ~Subject  PROVE Earned'
    <3>1. CASE cpc = "idle"
      BY <1>1, <1>2, <1>4, <1>5, <2>1, <2>2, <3>1, LinkFacts DEF Due, Chain, Earned
    <3>2. CASE cpc # "idle"
      BY <1>1, <1>2, <1>3, <1>5, <2>1, <2>2, <3>2, LinkFacts DEF Due, Chain, Earned
    <3> QED  BY <3>1, <3>2
  <2>3. ASSUME Subject, Edit  PROVE Earned'
    <3>1. OfSpec' = OfSpec
      BY <2>3, SubjectFacts DEF OfSpec, Edit
    <3>2. OfPass' = OfPass
      BY <1>3, <1>4, <3>1
    <3>3. CASE cpc = "config"
      <4>1. ToRender' = ToRender /\ ToCache' = ToCache /\ ToHash' = ToHash /\ ToBuild' = ToBuild
        BY <1>1, <1>2, <3>3 DEF ToRender, ToCache, ToHash, ToBuild
      <4> QED  BY <1>1, <1>2, <2>1, <2>3, <3>1, <3>2, <4>1, LinkFacts DEF SubjectDue, Chain, Earned
    <3>4. CASE cpc # "config"
      <4>1. ToRender = Latest /\ ToRender' = Latest'
        BY <1>1, <3>4 DEF ToRender
      <4>2. CASE cm # 0
        <5>1. ToCache' = ToCache /\ ToHash' = ToHash /\ ToBuild' = ToBuild
          BY <1>1, <4>2 DEF ToCache, ToHash, ToBuild
        <5> QED
          BY <1>1, <1>2, <2>1, <2>3, <3>1, <3>2, <4>1, <5>1, LinkFacts
          DEF SubjectDue, Chain, Earned
      <4>3. CASE cm = 0
        <5>1. ToCache = Latest /\ ToCache' = Latest' /\ seenCm = 0
          BY <1>1, <4>1, <4>3 DEF ToCache, RolloutBase, CacheOrder
        <5> QED
          BY <1>1, <1>2, <1>5, <2>1, <2>3, <3>1, <3>2, <4>1, <5>1, LinkFacts
          DEF SubjectDue, Chain, Earned, ToHash, ToBuild
      <4> QED  BY <4>2, <4>3
    <3> QED  BY <3>3, <3>4, SMTT(20)
  <2>4. ASSUME Subject, EditOther  PROVE Earned'
    <3>1. Latest' = Latest
      BY <2>4 DEF EditOther, Latest
    <3>2. /\ ToRender' = ToRender /\ ToCache' = ToCache /\ ToHash' = ToHash
          /\ ToBuild' = ToBuild
      BY <1>1, <1>2, <3>1 DEF ToRender, ToCache, ToHash, ToBuild
    <3>3. CASE cpc = "idle"
      BY <1>1, <1>2, <1>4, <1>5, <2>1, <2>4, <3>1, <3>2, <3>3, LinkFacts
      DEF SubjectDue, Chain, Earned
    <3>4. CASE cpc # "idle"
      BY <1>1, <1>2, <1>3, <1>5, <2>1, <2>4, <3>1, <3>2, <3>4, LinkFacts
      DEF SubjectDue, Chain, Earned
    <3> QED  BY <3>3, <3>4
  <2> QED  BY <2>2, <2>3, <2>4
<1> QED  BY <1>6, <1>7

\* Pods are replaced for a reason, whatever fails, in whichever order: the
\* changes still between the pods and the specification are no more than what
\* was edited, hashed from a stale cache, stamped or left unread and not yet
\* rolled out.
THEOREM PodsAreReplacedForAReason == Spec => []RolloutsAreEarned
<1>1. Init => RolloutBase /\ Earned
  <2> SUFFICES ASSUME Init  PROVE RolloutBase /\ Earned
    OBVIOUS
  <2>1. RolloutBase
    BY DEF Init, RolloutBase, RolloutTypes, Built, ConfigOrder, CacheOrder, Latest,
           Objects, PodSets, NoObject, NoPods, Older, Missing, First
  <2>2. /\ cpc = "idle" /\ rollouts = 0 /\ budget = 0 /\ seenCm = cm
        /\ want = First /\ otherWant = First
    BY DEF Init
  <2>3. OfPass = OfSpec /\ HashOfPass = HashOfSpec
    BY <2>2 DEF OfPass, HashOfPass
  <2>4. ToRender = Latest /\ Latest = First
    BY <2>2 DEF ToRender, Latest
  <2>5. Due = 0 /\ SubjectDue = 0
    <3>1. CASE cm = 0 /\ object = NoObject /\ pods = NoPods
      <4>1. ToCache = Latest /\ ToHash = Latest /\ ToBuild = Latest
        BY <2>2, <2>4, <3>1 DEF ToCache, ToHash, ToBuild
      <4> QED  BY <2>3, <2>4, <3>1, <4>1, LinkFacts DEF Due, SubjectDue, Chain
    <3>2. CASE /\ wl \in StatefulSets /\ cm = First /\ object = Older
               /\ pods = [pod |-> First, config |-> First, other |-> First,
                          restart |-> 0, mounted |-> First]
      <4>1. object # NoObject /\ pods # NoPods
        <5>1. object.pod = First /\ pods.pod = First
          BY <3>2 DEF Older
        <5>2. NoObject.pod = Missing /\ NoPods.pod = Missing /\ First # Missing
          BY DEF NoObject, NoPods, First, Missing
        <5> QED  BY <5>1, <5>2, Zenon
      <4>2. OfPods = <<First, First, 0>> /\ OfObject = <<First, First, 0>>
        BY <3>2, Zenon DEF OfPods, OfObject, Older
      <4>3. object.config = First /\ pods.config = First
        BY <3>2 DEF Older
      <4>4. HashOfSpec = First /\ OfSpec = <<First, First, 0>>
        BY <2>2, <2>4, <3>2 DEF HashOfSpec, HashOf, OfSpec, StatefulSets
      <4>5. ToCache = First /\ ToHash = First /\ ToBuild = First
        BY <2>2, <3>2 DEF ToCache, ToHash, ToBuild, First
      <4> QED  BY <2>3, <2>4, <4>1, <4>2, <4>3, <4>4, <4>5, LinkFacts
                 DEF Due, SubjectDue, Chain
    <3> QED  BY <3>1, <3>2 DEF Init, Missing
  <2>6. Earned
    BY <2>2, <2>5 DEF Earned
  <2> QED  BY <2>1, <2>6
<1>2. RolloutBase /\ Earned /\ [Next]_(cVars) => RolloutBase' /\ Earned'
  <2> SUFFICES ASSUME RolloutBase, Earned, [Next]_(cVars)
               PROVE  RolloutBase' /\ Earned'
    OBVIOUS
  <2>1. RolloutBase'
    BY RolloutTypesInductive, BuiltInductive, ConfigOrderInductive, CacheOrderInductive
    DEF RolloutBase
  <2>2. UNCHANGED <<wl, field>> /\ Subject' = Subject
    BY FollowedStays
  <2>3. CASE Begin
    BY <2>1, <2>2, <2>3, EarnedBegin
  <2>4. CASE createOrUpdateConfigMap
    BY <2>1, <2>2, <2>4, EarnedConfigMap
  <2>5. CASE getConfigHash
    BY <2>1, <2>2, <2>5, EarnedHash
  <2>6. CASE Create \/ MergeUpdate \/ DeleteForRecreation
    BY <2>1, <2>2, <2>6, EarnedWorkload
  <2>7. CASE \/ NothingToDo \/ WriteFails \/ Crash
             \/ CacheCatchesUp
    BY <2>1, <2>2, <2>7, EarnedNothing
  <2>8. CASE StartPods \/ ReplacePods \/ Evict
    BY <2>1, <2>2, <2>8, EarnedPods
  <2>9. CASE triggerRestartWithHash
    BY <2>1, <2>2, <2>9, EarnedRestart
  <2>10. CASE Edit \/ EditOther
    BY <2>1, <2>2, <2>10, EarnedEdit, SMTT(20)
  <2>11. CASE UNCHANGED cVars
    <3>1. UNCHANGED <<wl, field, want, otherWant, cm, seenCm, object, pods, cpc, cCopy, cHash,
                      rollouts, budget>>
      BY <2>11 DEF cVars
    <3>2. /\ Latest' = Latest /\ Rendered' = Rendered /\ OfPods' = OfPods
          /\ OfObject' = OfObject /\ OfSpec' = OfSpec
      BY <3>1 DEF OfPods, OfObject, OfSpec, Latest, Rendered
    <3>3. HashOfSpec' = HashOfSpec
      BY <3>1, <3>2 DEF HashOfSpec, HashOf
    <3>4. OfPass' = OfPass /\ HashOfPass' = HashOfPass
      BY <3>1, <3>2, <3>3 DEF OfPass, HashOfPass, HashOf, Held
    <3>5. /\ ToRender' = ToRender /\ ToCache' = ToCache /\ ToHash' = ToHash
          /\ ToBuild' = ToBuild
      BY <3>1, <3>2 DEF ToRender, ToCache, ToHash, ToBuild
    <3> QED
      BY <2>1, <2>2, <3>1, <3>2, <3>3, <3>4, <3>5 DEF Earned, Due, SubjectDue, Chain
  <2> QED
    BY <2>3, <2>4, <2>5, <2>6, <2>7, <2>8, <2>9, <2>10, <2>11
    DEF Next, Reconciles, World
<1>3. RolloutBase /\ Earned => RolloutsAreEarned
  <2> SUFFICES ASSUME RolloutBase, Earned  PROVE rollouts <= budget
    BY DEF RolloutsAreEarned
  <2>1. rollouts \in Nat /\ budget \in Nat
    BY DEF RolloutBase, RolloutTypes
  <2> QED  BY <2>1, LinkFacts DEF Earned, Due, SubjectDue, Chain
<1> QED  BY <1>1, <1>2, <1>3, PTL DEF Spec

=============================================================================

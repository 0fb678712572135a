--------------------------- MODULE WorkloadFields ---------------------------
(***************************************************************************)
(* Which fields of a specification travel where.  A field is named as the  *)
(* custom resource names it.  On its way to a pod it passes the            *)
(* reconciler, which hands it to a builder; the builder's setter, which    *)
(* may store it under another name; and the builder, which writes it into  *)
(* the object (StatefulSet or Deployment) or the pod template.  What only  *)
(* the volume claims hold reaches neither.  Some are rendered into a       *)
(* ConfigMap instead.  A change is noticed when the field is part of the   *)
(* specification hash, is compared with the live object, or changes the    *)
(* hash of the ConfigMap.                                                  *)
(*                                                                         *)
(* master, worker, indexer and dashboard belong to a WazuhCluster; the     *)
(* solo ones to a WazuhManager (two), a WazuhWorker, an OpenSearchIndexer  *)
(* and an OpenSearchDashboard.                                             *)
(***************************************************************************)
EXTENDS RenderedFields

ClusterWorkloads == {"master", "worker", "indexer", "dashboard"}
SoloWorkloads ==
  {"soloMaster", "soloWorkers", "soloWorker", "soloIndexer", "soloDashboard"}
Workloads == ClusterWorkloads \cup SoloWorkloads

-----------------------------------------------------------------------------
(***************************************************************************)
(* The custom resources.                                                   *)
(***************************************************************************)
Placement == {"resources", "nodeSelector", "tolerations", "affinity"}
Extras ==
  {"extraVolumes", "extraVolumeMounts", "extraInitContainers",
   "extraContainers", "annotations", "podAnnotations", "env", "envFrom",
   "securityContext", "containerSecurityContext"}
Storage == {"storageSize", "storageClass"}

WazuhClusterSpec == {"version", "imagePullSecrets", "storageClassName"}
WazuhManagerClusterSpec ==
  WazuhConfigSpec \cup
  {"clusterKeySecretRef", "authdPasswordSecretRef", "image",
   "imagePullPolicy", "filebeatSSLVerificationMode", "antiAffinity"}
WazuhMasterSpec ==
  Placement \cup Extras \cup Storage \cup
  {"topologySpreadConstraints", "extraConfig", "localInternalOptions",
   "terminationGracePeriodSeconds", "serviceAccount", "updateStrategy"}
WazuhWorkerSpec == WazuhMasterSpec \cup {"replicas", "overrides"}
WazuhIndexerClusterSpec ==
  Placement \cup Extras \cup Storage \cup
  {"replicas", "image", "imagePullPolicy", "javaOpts", "antiAffinity",
   "topologySpreadConstraints", "updateStrategy", "serviceAccount",
   "terminationGracePeriodSeconds", "repositoryPlugins",
   "repositoryPluginKeys"}
WazuhDashboardClusterSpec ==
  Placement \cup Extras \cup WazuhPlugin \cup
  {"replicas", "image", "imagePullPolicy", "enableSSL",
   "topologySpreadConstraints", "serviceAccount",
   "terminationGracePeriodSeconds"}

WazuhManagerSpec ==
  {"version", "clusterKeySecretRef", "authdPasswordSecretRef", "image",
   "filebeatSSLVerificationMode", "imagePullSecrets", "storageClassName"}
     \cup WazuhConfigSpec
WazuhWorkerCRDSpec ==
  Placement \cup Extras \cup
  {"managerRef", "replicas", "storageSize", "storageClassName", "image",
   "extraConfig", "localInternalOptions", "filebeat", "imagePullSecrets",
   "serviceAccount"}
OpenSearchIndexerSpec ==
  Placement \cup Extras \cup
  {"version", "replicas", "storageSize", "storageClassName", "image",
   "imagePullPolicy", "javaOpts", "updateStrategy", "imagePullSecrets",
   "opensearchYml"}
OpenSearchDashboardSpec ==
  Placement \cup Extras \cup WazuhPlugin \cup
  {"version", "indexerRef", "replicas", "image", "imagePullPolicy",
   "enableSSL", "imagePullSecrets", "dashboardsYml"}

\* What a workload is made from besides its custom resource.  The indexer is
\* given the hash of its certificate only by the reconcile that renewed the CA
\* or failed to reload: CertificateRenewal and HotReload follow that one.
Inputs == [w \in Workloads |->
  CASE w = "master" ->
         {"certificate", "rules", "decoders", "indexerCredentials",
          "wazuhExporter"}
    [] w = "worker" ->
         {"certificate", "rules", "decoders", "indexerCredentials"}
    [] w = "indexer" ->
         {"certificateSubject", "indexerExporter"}
    [] w = "dashboard" -> {"certificate"}
    [] OTHER -> {}]

Fields == [w \in Workloads |->
  Inputs[w] \cup
  CASE w = "master" ->
         WazuhClusterSpec \cup WazuhManagerClusterSpec \cup WazuhMasterSpec
    [] w = "worker" ->
         WazuhClusterSpec \cup WazuhManagerClusterSpec \cup WazuhWorkerSpec
    [] w = "indexer" -> WazuhClusterSpec \cup WazuhIndexerClusterSpec
    [] w = "dashboard" ->
         (WazuhClusterSpec \ {"storageClassName"}) \cup
         WazuhDashboardClusterSpec
    [] w = "soloMaster" -> WazuhManagerSpec \cup WazuhMasterSpec
    [] w = "soloWorkers" -> WazuhManagerSpec \cup WazuhWorkerSpec
    [] w = "soloWorker" -> WazuhWorkerCRDSpec
    [] w = "soloIndexer" -> OpenSearchIndexerSpec
    [] w = "soloDashboard" -> OpenSearchDashboardSpec]

-----------------------------------------------------------------------------
(***************************************************************************)
(* The builders.  A setter stores a field under the builder's own name:    *)
(* several fields of the cluster arrive as the cluster object itself.      *)
(***************************************************************************)
Setter(f) ==
  CASE f = "antiAffinity" -> "affinity"
    [] f \in {"extraVolumes", "authdPasswordSecretRef",
              "auth.passwordSecretRef"} -> "volumes"
    [] f = "extraVolumeMounts" -> "volumeMounts"
    [] f = "serviceAccount" -> "serviceAccountName"
    [] f = "storageClassName" -> "storageClass"
    [] f = "certificate" -> "podAnnotations"
    [] f \in {"wazuhExporter", "indexerExporter", "repositoryPlugins",
              "repositoryPluginKeys"} -> "cluster"
    [] f = "rules" -> "ruleConfigMaps"
    [] f = "decoders" -> "decoderConfigMaps"
    [] OTHER -> f

ManagerObject == {"annotations", "replicas", "updateStrategy"}
ManagerPod ==
  {"podAnnotations", "serviceAccountName", "nodeSelector", "tolerations",
   "affinity", "topologySpreadConstraints", "imagePullSecrets",
   "terminationGracePeriodSeconds", "securityContext"}
ManagerContainers ==
  {"version", "resources", "imagePullPolicy", "envFrom", "extraContainers",
   "containerSecurityContext", "image"}
ManagerExporter == {"cluster"}
ManagerVolumes == {"volumes", "ruleConfigMaps", "decoderConfigMaps"}
ManagerMounts == {"volumeMounts", "ruleConfigMaps", "decoderConfigMaps"}
ManagerInit == {"extraInitContainers"}
ManagerEnv == {"env"}

WorkerPod ==
  {"podAnnotations", "serviceAccountName", "nodeSelector", "tolerations",
   "affinity", "topologySpreadConstraints", "imagePullSecrets",
   "terminationGracePeriodSeconds", "securityContext"}
WorkerContainers ==
  {"version", "resources", "imagePullPolicy", "envFrom", "extraContainers",
   "containerSecurityContext", "image"}
WorkerVolumes == {"volumes", "ruleConfigMaps", "decoderConfigMaps"}
WorkerMounts == {"volumeMounts", "ruleConfigMaps", "decoderConfigMaps"}
WorkerInit == {"extraInitContainers"}
EnvWithReplicas == {"env", "replicas"}
WorkerEnv == {"env"}

IndexerPod ==
  {"podAnnotations", "serviceAccountName", "nodeSelector", "tolerations",
   "affinity", "topologySpreadConstraints", "imagePullSecrets",
   "terminationGracePeriodSeconds", "securityContext"}
IndexerContainers ==
  {"version", "resources", "image", "imagePullPolicy", "envFrom",
   "extraContainers", "containerSecurityContext"}
IndexerVolumes == {"cluster", "volumes"}
IndexerMounts == {"version", "cluster", "volumeMounts"}
IndexerInit == {"extraInitContainers", "cluster"}
IndexerEnv == {"javaOpts", "env", "replicas"}

DashboardPod ==
  {"podAnnotations", "serviceAccountName", "nodeSelector", "tolerations",
   "affinity", "topologySpreadConstraints", "imagePullSecrets",
   "terminationGracePeriodSeconds", "securityContext"}
DashboardContainers ==
  {"version", "resources", "image", "imagePullPolicy", "envFrom",
   "extraContainers", "containerSecurityContext", "enableSSL"}
DashboardVolumes == {"volumes"}
DashboardMounts == {"volumeMounts"}
DashboardEnv == {"env"}

\* What reaches the pod template, the object around it, and the claims.
PodReads == [w \in Workloads |->
  CASE w \in {"master", "soloMaster"} ->
         ManagerPod \cup ManagerContainers \cup ManagerExporter \cup
         ManagerVolumes \cup ManagerMounts \cup ManagerInit \cup ManagerEnv
    [] w \in {"worker", "soloWorkers", "soloWorker"} ->
         WorkerPod \cup WorkerContainers \cup WorkerVolumes \cup
         WorkerMounts \cup WorkerInit \cup WorkerEnv
    [] w \in {"indexer", "soloIndexer"} ->
         IndexerPod \cup IndexerContainers \cup IndexerVolumes \cup
         IndexerMounts \cup IndexerInit \cup IndexerEnv
    [] w \in {"dashboard", "soloDashboard"} ->
         DashboardPod \cup DashboardContainers \cup {"extraInitContainers"}
         \cup DashboardVolumes \cup DashboardMounts \cup DashboardEnv]
ObjectReads == ManagerObject

-----------------------------------------------------------------------------
(***************************************************************************)
(* What the reconcilers hand to the builders.                              *)
(***************************************************************************)
MasterPassed ==
  Placement \cup Storage \cup
  {"version", "storageClassName", "antiAffinity",
   "topologySpreadConstraints", "imagePullSecrets", "env", "envFrom",
   "extraVolumes", "authdPasswordSecretRef", "auth.passwordSecretRef",
   "extraVolumeMounts", "extraInitContainers", "extraContainers", "annotations",
   "podAnnotations", "certificate", "wazuhExporter", "serviceAccount",
   "terminationGracePeriodSeconds", "imagePullPolicy", "rules", "decoders"}
WorkerPassed ==
  Placement \cup Storage \cup
  {"replicas", "version", "storageClassName", "antiAffinity",
   "topologySpreadConstraints", "imagePullSecrets", "extraVolumes",
   "authdPasswordSecretRef", "auth.passwordSecretRef", "extraVolumeMounts",
   "extraInitContainers", "extraContainers", "annotations", "podAnnotations", "certificate",
   "serviceAccount", "terminationGracePeriodSeconds", "imagePullPolicy",
   "rules", "decoders"}
IndexerPassed ==
  Placement \cup Extras \cup Storage \cup
  {"version", "replicas", "storageClassName", "javaOpts", "antiAffinity",
   "topologySpreadConstraints", "image", "imagePullPolicy",
   "imagePullSecrets", "indexerExporter",
   "repositoryPlugins", "repositoryPluginKeys", "serviceAccount",
   "terminationGracePeriodSeconds", "updateStrategy"}
DashboardPassed ==
  Placement \cup Extras \cup
  {"version", "replicas", "enableSSL", "image", "imagePullPolicy",
   "imagePullSecrets", "topologySpreadConstraints", "serviceAccount",
   "terminationGracePeriodSeconds", "certificate"}
SoloMasterPassed ==
  Placement \cup
  {"version", "extraVolumes", "extraVolumeMounts", "extraInitContainers",
   "extraContainers", "annotations", "podAnnotations", "serviceAccount",
   "terminationGracePeriodSeconds"}
SoloWorkersPassed == SoloMasterPassed \cup {"replicas"}
\* The image's tag is taken for the version.
SoloWorkerPassed ==
  Placement \cup
  {"replicas", "image", "extraVolumes", "extraVolumeMounts",
   "extraInitContainers", "extraContainers", "annotations",
   "podAnnotations", "serviceAccount"}
SoloIndexerPassed ==
  {"version", "replicas", "resources", "tolerations", "affinity",
   "annotations", "podAnnotations", "imagePullPolicy", "updateStrategy"}
SoloDashboardPassed ==
  {"version", "replicas", "resources", "enableSSL", "tolerations",
   "affinity", "annotations", "podAnnotations", "imagePullPolicy"}

Passed == [w \in Workloads |->
  CASE w = "master" -> MasterPassed
    [] w = "worker" -> WorkerPassed
    [] w = "indexer" -> IndexerPassed
    [] w = "dashboard" -> DashboardPassed
    [] w = "soloMaster" -> SoloMasterPassed
    [] w = "soloWorkers" -> SoloWorkersPassed
    [] w = "soloWorker" -> SoloWorkerPassed
    [] w = "soloIndexer" -> SoloIndexerPassed
    [] w = "soloDashboard" -> SoloDashboardPassed]

PodFields ==
  [w \in Workloads |-> {f \in Passed[w] : Setter(f) \in PodReads[w]}]
ObjectFields ==
  [w \in Workloads |-> {f \in Passed[w] : Setter(f) \in ObjectReads}]

-----------------------------------------------------------------------------
(***************************************************************************)
(* What is rendered into the ConfigMap.  The credentials the cluster's     *)
(* filebeat.yml holds are read from a Secret.                              *)
(***************************************************************************)
ClusterFilebeat == {"filebeatSSLVerificationMode", "indexerCredentials"}
SoloManagerConfig == {"filebeatSSLVerificationMode", "localInternalOptions"}
SoloWorkerConfig == {"managerRef", "extraConfig", "localInternalOptions"}
OpenSearchYml == {"replicas", "version", "certificateSubject"}
SoloOpenSearchYml == {"replicas"}
DashboardsYml == {"enableSSL"}
SoloDashboardsYml == {"enableSSL", "indexerRef"}

ConfigFields == [w \in Workloads |->
  CASE w = "master" -> BuildMasterConfig \cup ClusterFilebeat
    [] w = "worker" -> BuildWorkerConfig \cup ClusterFilebeat
    [] w = "soloMaster" -> BuildMasterConfig \cup SoloManagerConfig
    [] w = "soloWorkers" -> BuildWorkerConfig \cup SoloManagerConfig
    [] w = "soloWorker" -> SoloWorkerConfig
    [] w = "indexer" -> OpenSearchYml
    [] w = "soloIndexer" -> SoloOpenSearchYml
    [] w = "dashboard" -> DashboardsYml \cup buildWazuhConfig
    [] w = "soloDashboard" ->
         SoloDashboardsYml \cup buildWazuhConfig \cup
         {"plugin.endpoint.credentialsSecretRef"}]

\* wazuh.yml is kept in a Secret beside the ConfigMap: no hash covers it.
SecretFields == WazuhPlugin

-----------------------------------------------------------------------------
(***************************************************************************)
(* How a change is noticed: by the specification hash (an annotation of    *)
(* the object), by comparison with the live object, or by the hash of the  *)
(* ConfigMap (an annotation of the pod template).                          *)
(***************************************************************************)
HashWithoutEnvFrom ==
  Placement \cup (Extras \ {"envFrom"}) \cup
  {"version", "storageSize", "antiAffinity", "topologySpreadConstraints",
   "imagePullSecrets", "extraConfig", "authdPasswordSecretRef",
   "auth.passwordSecretRef",
   "wazuhExporter", "serviceAccount", "terminationGracePeriodSeconds",
   "imagePullPolicy"}
MasterHashed ==
  Placement \cup Extras \cup
  {"version", "storageSize", "antiAffinity", "topologySpreadConstraints",
   "imagePullSecrets", "extraConfig", "authdPasswordSecretRef",
   "auth.passwordSecretRef",
   "wazuhExporter", "serviceAccount", "terminationGracePeriodSeconds",
   "imagePullPolicy"}
WorkerHashed ==
  Placement \cup Extras \cup
  {"replicas", "version", "storageSize", "antiAffinity",
   "topologySpreadConstraints", "imagePullSecrets", "extraConfig",
   "serviceAccount", "terminationGracePeriodSeconds", "imagePullPolicy"}
IndexerHashed ==
  Placement \cup Extras \cup
  {"replicas", "version", "storageSize", "javaOpts", "image",
   "antiAffinity", "imagePullSecrets", "topologySpreadConstraints",
   "indexerExporter", "repositoryPlugins", "serviceAccount",
   "terminationGracePeriodSeconds", "imagePullPolicy", "updateStrategy"}
DashboardHashed ==
  Placement \cup Extras \cup
  {"replicas", "version", "image", "imagePullSecrets", "enableSSL",
   "topologySpreadConstraints", "serviceAccount", "imagePullPolicy",
   "terminationGracePeriodSeconds"}

Hashed == [w \in Workloads |->
  CASE w = "master" -> MasterHashed
    [] w = "worker" -> WorkerHashed
    [] w = "indexer" -> IndexerHashed
    [] w = "dashboard" -> DashboardHashed
    [] OTHER -> {}]

ManagerCompared ==
  {"certificate", "rules", "decoders", "tolerations", "affinity",
   "antiAffinity"}
IndexerCompared == {"tolerations", "affinity", "antiAffinity"}
DashboardCompared == IndexerCompared \cup {"certificate"}
CompareAnnotationsOnly == {"annotations", "podAnnotations", "tolerations"}
SoloCompared == {"annotations", "podAnnotations", "tolerations", "affinity"}

Compared == [w \in Workloads |->
  CASE w \in {"master", "worker"} -> ManagerCompared
    [] w = "indexer" -> IndexerCompared
    [] w = "dashboard" -> DashboardCompared
    [] w \in {"soloWorkers", "soloWorker"} -> SoloCompared \cup {"replicas"}
    [] OTHER -> SoloCompared]

=============================================================================

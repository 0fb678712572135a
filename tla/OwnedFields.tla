---------------------------- MODULE OwnedFields ----------------------------
(***************************************************************************)
(* The objects a WazuhCluster owns besides its workloads: which fields of  *)
(* the specification describe each (from the API types), which of them its *)
(* builder puts into the object, what switches it off, and how its         *)
(* reconciler updates it.  Field names are those of the JSON.              *)
(***************************************************************************)
EXTENDS TLC

ServiceSpec == {"type", "annotations", "loadBalancerIP", "ports"}

\* WithServiceType, WithAnnotations, WithLoadBalancerIP, WithPorts.
IndexerServiceBuilder == ServiceSpec
DashboardServiceBuilder == ServiceSpec

\* The master's and the workers' Services get the annotations and no more.
ManagerServiceBuilder == {"annotations"}

PodDisruptionBudgetSpec == {"maxUnavailable", "minAvailable"}

\* Build knows minAvailable; nobody calls BuildWithMaxUnavailable.
ManagerPDBBuilder == {"minAvailable"}
DashboardPDBBuilder == {"minAvailable"}
IndexerPDBBuilder == {"minAvailable", "maxUnavailable"}

HPAScalingRules == {"stabilizationWindowSeconds", "selectPolicy"}
HPASpec ==
  {"minReplicas", "maxReplicas", "targetCPUUtilizationPercentage",
   "targetMemoryUtilizationPercentage"} \cup HPAScalingRules

\* Mutant: the scaling rules are left out.
BuildWithoutBehavior == HPASpec \ HPAScalingRules
buildScalingRules == HPAScalingRules
DashboardHPABuilder == (HPASpec \ HPAScalingRules) \cup buildScalingRules
IndexerHPABuilder == HPASpec
WorkerHPABuilder == HPASpec

LogRotationSpec ==
  {"schedule", "retentionDays", "maxFileSizeMB", "combinationMode", "paths",
   "image"}

\* The script of the CronJob looks for the files the paths, the age and the
\* size select.
buildFindCommand == {"paths", "retentionDays", "maxFileSizeMB", "combinationMode"}
LogRotationCronJobBuilder == buildFindCommand \cup {"schedule", "image"}

ServiceAccountConfig == {"annotations", "labels"}

ServiceMonitorConfig == {"labels", "interval", "scrapeTimeout"}
NewManagerServiceMonitor == ServiceMonitorConfig
NewIndexerServiceMonitor == ServiceMonitorConfig

IngressSpec ==
  {"ingressClassName", "annotations", "hosts.host", "hosts.paths",
   "tls.secretName", "tls.hosts"}
IngressBuilder == IngressSpec

GatewayReference == {"gatewayRef.name", "gatewayRef.namespace",
                     "gatewayRef.sectionName"}
GatewayAPISpec == GatewayReference \cup {"hostnames"}
GatewayHTTPConfig == {"http.annotations", "http.pathPrefix"}
GatewayTCPConfig == {"tcp.annotations"}
GatewayUDPConfig == {"udp.annotations", "udp.syslogPort"}
HTTPRouteBuilder == GatewayAPISpec \cup GatewayHTTPConfig
TCPRouteBuilder == GatewayReference \cup {"tcp.annotations"}
UDPRouteBuilder == GatewayReference \cup {"udp.annotations", "udp.syslogPort"}

NetworkPolicySpec == {"ingress.from", "ingress.ports", "egress.to", "egress.ports"}
convertIngressRules == {"ingress.from", "ingress.ports"}
convertEgressRules == {"egress.to", "egress.ports"}
NetworkPolicyBuilder == convertIngressRules \cup convertEgressRules

-----------------------------------------------------------------------------
\* A reconcile function: the step of Reconcile it belongs to, and the fields
\* of the specification that say whether there is such an object.
Reconciler(step, switches) == [step |-> step, switches |-> switches]

reconcileServices == Reconciler("indexer", {})
ReconcileManager == Reconciler("manager", {})
ReconcileServiceAccount == Reconciler("manager", {"create"})
reconcileManagerPDB == Reconciler("manager", {"enabled", "replicas"})
ReconcileLogRotation == Reconciler("logRotation", {"enabled"})
reconcileService == Reconciler("dashboard", {})
reconcilePDB == Reconciler("dashboard", {"enabled"})
reconcileHPA == Reconciler("dashboard", {"enabled"})
ReconcileMonitoring ==
  Reconciler("monitoring",
             {"enabled", "exporter.enabled", "serviceMonitor.enabled"})
reconcileDashboardRoutes == Reconciler("gateway", {"enabled"})
reconcileManagerTCP ==
  Reconciler("gateway", {"enabled", "tcp.enabled", "tcp.enrollmentEnabled"})
reconcileManagerUDP == Reconciler("gateway", {"enabled", "udp.enabled"})
reconcileWorkerRoutes == Reconciler("gateway", {"enabled"})
reconcileIngress == Reconciler("ingress", {"enabled"})
reconcileNetworkPolicies == Reconciler("networkPolicy", {"enabled"})

\* The autoscalers of indexer and workers and the indexer's disruption budget
\* are built by code that no step of Reconcile calls.
Unreconciled(switches) == Reconciler("none", switches)

\* Of each object: what the types let the user ask of it, what its builder
\* puts into it, and its reconcile function.
Object(asks, renders, by) == [asks |-> asks, renders |-> renders, by |-> by]
Owned ==
  "indexerService" :>
     Object(ServiceSpec, IndexerServiceBuilder, reconcileServices) @@
  "managerService" :>
     Object(ServiceSpec, ManagerServiceBuilder, ReconcileManager) @@
  "dashboardService" :>
     Object(ServiceSpec, DashboardServiceBuilder, reconcileService) @@
  "indexerPDB" :> Object(PodDisruptionBudgetSpec, IndexerPDBBuilder,
                         Unreconciled({"enabled", "replicas"})) @@
  "managerPDB" :>
     Object(PodDisruptionBudgetSpec, ManagerPDBBuilder, reconcileManagerPDB) @@
  "dashboardPDB" :>
     Object(PodDisruptionBudgetSpec, DashboardPDBBuilder, reconcilePDB) @@
  "indexerHPA" :>
     Object(HPASpec, IndexerHPABuilder, Unreconciled({"enabled"})) @@
  "workerHPA" :>
     Object(HPASpec, WorkerHPABuilder, Unreconciled({"enabled"})) @@
  "dashboardHPA" :> Object(HPASpec, DashboardHPABuilder, reconcileHPA) @@
  "logRotation" :> Object(LogRotationSpec, LogRotationCronJobBuilder,
                          ReconcileLogRotation) @@
  "serviceAccount" :> Object(ServiceAccountConfig, ServiceAccountConfig,
                             ReconcileServiceAccount) @@
  "serviceMonitor" :>
     Object(ServiceMonitorConfig,
            NewManagerServiceMonitor \cap NewIndexerServiceMonitor,
            ReconcileMonitoring) @@
  "ingress" :> Object(IngressSpec, IngressBuilder, reconcileIngress) @@
  "httpRoute" :> Object(GatewayAPISpec \cup GatewayHTTPConfig,
                        HTTPRouteBuilder, reconcileDashboardRoutes) @@
  "tcpRoute" :> Object(GatewayReference \cup GatewayTCPConfig, TCPRouteBuilder,
                       reconcileManagerTCP) @@
  "udpRoute" :> Object(GatewayReference \cup GatewayUDPConfig, UDPRouteBuilder,
                       reconcileManagerUDP) @@
  "workerRoute" :> Object(GatewayAPISpec \cup GatewayHTTPConfig,
                          HTTPRouteBuilder, reconcileWorkerRoutes) @@
  "networkPolicy" :> Object(NetworkPolicySpec, NetworkPolicyBuilder,
                            reconcileNetworkPolicies)
Objects == DOMAIN Owned
Asks == [o \in Objects |-> Owned[o].asks]
Renders == [o \in Objects |-> Owned[o].renders]
Switches == [o \in Objects |-> Owned[o].by.switches]
StepOf == [o \in Objects |-> Owned[o].by.step]
Reconciled == {o \in Objects : StepOf[o] # "none"}

\* What an update makes of the object it finds.  Most put the built object in
\* its place, owner reference included; the others copy the fields into it and
\* leave the owner as it is.
Replaced(old, new) == new
CopiedInto(old, new) == [old EXCEPT !.v = new.v]
createOrUpdateIngress(old, new) == CopiedInto(old, new)
createOrUpdateHTTPRoute(old, new) == Replaced(old, new)
createOrUpdateTCPRoute(old, new) == Replaced(old, new)
createOrUpdateUDPRoute(old, new) == Replaced(old, new)
createOrUpdateNetworkPolicy(old, new) == Replaced(old, new)
createOrUpdateCronJob(old, new) == Replaced(old, new)
reconcileServiceMonitor(old, new) == CopiedInto(old, new)
updateServiceAccount(old, new) == CopiedInto(old, new)
UpdateOf(o, old, new) ==
  CASE o = "ingress" -> createOrUpdateIngress(old, new)
    [] o = "serviceMonitor" -> reconcileServiceMonitor(old, new)
    [] o = "serviceAccount" -> updateServiceAccount(old, new)
    [] o \in {"httpRoute", "workerRoute"} -> createOrUpdateHTTPRoute(old, new)
    [] o = "tcpRoute" -> createOrUpdateTCPRoute(old, new)
    [] o = "udpRoute" -> createOrUpdateUDPRoute(old, new)
    [] o = "networkPolicy" -> createOrUpdateNetworkPolicy(old, new)
    [] o = "logRotation" -> createOrUpdateCronJob(old, new)
    [] OTHER -> Replaced(old, new)

\* In reference mode the specification of a component is built from these
\* fields of the WazuhManager, OpenSearchIndexer or OpenSearchDashboard it
\* names; what else these resources say of owned objects is not carried over.
ManagerReference ==
  {"master", "workers", "clusterKeySecretRef", "apiCredentials",
   "authdPasswordSecretRef", "image", "config", "filebeatSSLVerificationMode"}
IndexerReference ==
  {"replicas", "resources", "storageSize", "image", "javaOpts", "credentials",
   "service", "nodeSelector", "tolerations", "affinity"}
DashboardReference ==
  {"replicas", "resources", "image", "enableSSL", "service", "nodeSelector",
   "tolerations", "affinity"}

\* The objects that these resources have a field for, and those of them whose
\* field is carried over.
Referable ==
  {"indexerService", "dashboardService", "dashboardPDB", "ingress", "httpRoute",
   "networkPolicy", "managerService", "serviceAccount", "tcpRoute", "udpRoute",
   "workerRoute"}
CarriedOver(o) ==
  CASE o = "indexerService" -> "service" \in IndexerReference
    [] o = "dashboardService" -> "service" \in DashboardReference
    [] o = "dashboardPDB" -> "podDisruptionBudget" \in DashboardReference
    [] o = "ingress" -> "ingress" \in DashboardReference
    [] o = "httpRoute" -> "gatewayAPI" \in DashboardReference
    [] o = "networkPolicy" -> "networkPolicy" \in DashboardReference
    [] OTHER -> {"master", "workers"} \subseteq ManagerReference

=============================================================================

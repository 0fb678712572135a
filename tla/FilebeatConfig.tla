--------------------------- MODULE FilebeatConfig ---------------------------
(***************************************************************************)
(* The reconciler of one WazuhFilebeat: once the WazuhCluster it names is  *)
(* running, it renders filebeat.yml, the index template and the ingest     *)
(* pipeline into a ConfigMap that it owns, and reports.  One field is      *)
(* followed; a value is the generation of the spec, or of the user's       *)
(* ConfigMap, that it comes from.                                          *)
(*                                                                         *)
(* The WazuhCluster and the ConfigMap written are watched, the ConfigMaps  *)
(* the user keeps are not.  Every status write carries the present time:   *)
(* it brings the resource back into the work queue unless it changes       *)
(* nothing else and falls into the same second as the one before.          *)
(***************************************************************************)
EXTENDS Naturals, FilebeatFields

CONSTANTS BeatEdits,         \* how often the user changes something
          BeatFaults,        \* how often something goes wrong
          BeatEnvironments,  \* the sets of kinds of faults that may occur
          None               \* no ConfigMap

(***************************************************************************)
(* read   the WazuhCluster or a ConfigMap cannot be read                   *)
(* apply  the API server fails the write of the ConfigMap, or does it and  *)
(*        the answer is lost                                               *)
(* write  the status write is refused                                      *)
(* crash  the operator restarts                                            *)
(* update the cluster leaves Running, as it does while it is changed       *)
(***************************************************************************)
BeatFaultKinds == {"read", "apply", "write", "crash", "update"}

VARIABLES fEnv,      \* the faults that may occur
          fFaults,   \* the faults that did
          fField,    \* the field that is followed
          custom,    \* the files of the user's own that the spec names
          foreign,   \* the WazuhCluster is in another namespace
          gen,       \* the generation of the spec
          origin,    \* that of the user's files (0: missing, or no JSON)
          cluster,   \* "absent", "Creating" or "Running"
          fLife,     \* "live" or "gone"
          file,      \* the ConfigMap
          fReport,   \* the status in the API server
          fView,     \* what the pass read of the spec, and rendered
          fpc, fQueued

fVars == <<fEnv, fFaults, fField, custom, foreign, gen, origin, cluster, fLife,
           file, fReport, fView, fpc, fQueued>>
fWorld == <<fEnv, fField, custom, foreign, gen, origin, cluster, fLife>>

Generations == 0..(BeatEdits + 1)
Renditions == [gen : Generations, value : Generations]

TypeOK ==
  /\ fEnv \in SUBSET BeatFaultKinds /\ fFaults \in 0..BeatFaults
  /\ fField \in WazuhFilebeatSpec /\ custom \subseteq CustomRefs
  /\ foreign \in BOOLEAN
  /\ gen \in Generations /\ origin \in Generations
  /\ cluster \in {"absent", "Creating", "Running"}
  /\ fLife \in {"live", "gone"}
  /\ file \in Renditions \cup {None} /\ fView \in Renditions
  /\ fReport \in [phase : {"", "Pending", "Ready", "Failed"}, observed : Generations]
  /\ fpc \in {"idle", "cluster", "build", "apply", "ready", "pending", "failed"}
  /\ fQueued \in BOOLEAN

Init ==
  /\ fEnv \in BeatEnvironments /\ fFaults = 0
  /\ fField \in WazuhFilebeatSpec
  /\ custom \in SUBSET CustomRefs /\ (fField \in CustomRefs => fField \in custom)
  /\ foreign \in BOOLEAN
  /\ gen = 1 /\ origin \in (IF custom = {} THEN {0} ELSE {0, 1})
  /\ cluster \in {"absent", "Creating", "Running"}
  /\ fLife = "live" /\ file = None
  /\ fReport = [phase |-> "", observed |-> 0]
  /\ fView = [gen |-> 1, value |-> 0]
  /\ fpc = "idle" /\ fQueued = TRUE

Fault(kind) == kind \in fEnv /\ fFaults < BeatFaults /\ fFaults' = fFaults + 1

-----------------------------------------------------------------------------
Reconcile ==
  /\ fpc = "idle" /\ fQueued /\ fLife = "live"
  /\ fView' = [gen |-> gen, value |-> 0]
  /\ fpc' = "cluster" /\ fQueued' = FALSE
  /\ UNCHANGED <<fWorld, fFaults, file, fReport>>

\* Mutant of getCluster: the phase of the cluster is not looked at.
AnyClusterWillDo ==
  /\ fpc = "cluster"
  /\ fpc' = IF cluster = "absent" THEN "failed" ELSE "build"
  /\ UNCHANGED <<fWorld, fFaults, file, fReport, fView, fQueued>>

getCluster ==
  /\ fpc = "cluster"
  /\ \/ /\ fpc' = CASE cluster = "absent" -> "failed"
                    [] cluster = "Creating" -> "pending"
                    [] cluster = "Running" -> "build"
        /\ UNCHANGED fFaults
     \/ Fault("read") /\ fpc' = "failed"
  /\ UNCHANGED <<fWorld, file, fReport, fView, fQueued>>

\* LoadCustomTemplate and LoadCustomPipeline fail without the user's file.
Build ==
  /\ fpc = "build"
  /\ \/ /\ fView' = [fView EXCEPT !.value =
                       IF fField \notin BuildFilebeatData(custom) THEN 0
                       ELSE IF fField \in CustomRefs THEN origin ELSE fView.gen]
        /\ fpc' = IF custom # {} /\ origin = 0 THEN "failed" ELSE "apply"
        /\ UNCHANGED fFaults
     \/ custom # {} /\ Fault("read") /\ fpc' = "failed" /\ UNCHANGED fView
  /\ UNCHANGED <<fWorld, file, fReport, fQueued>>

\* Mutant of reconcileConfigMap: a ConfigMap that exists is left alone.
CreateConfigMapOnly ==
  /\ fpc = "apply"
  /\ file' = IF file = None /\ ~foreign THEN fView ELSE file
  /\ fpc' = IF foreign THEN "failed" ELSE "ready"
  /\ fQueued' = (fQueued \/ file' # file)
  /\ UNCHANGED <<fWorld, fFaults, fReport, fView>>

\* An owner in another namespace is refused.
reconcileConfigMap ==
  /\ fpc = "apply"
  /\ \/ foreign /\ file' = file /\ fpc' = "failed" /\ UNCHANGED fFaults
     \/ ~foreign /\ file' = fView /\ fpc' = "ready" /\ UNCHANGED fFaults
     \/ /\ ~foreign /\ fpc' = "failed"
        /\ \/ Fault("apply") /\ file' \in {file, fView}
           \/ Fault("read") /\ file' = file
  /\ fQueued' = (fQueued \/ file' # file)
  /\ UNCHANGED <<fWorld, fReport, fView>>

-----------------------------------------------------------------------------
\* A write is refused when the resource is another since the pass read it.
\* again: the pass ends with an error.  refusal: a refused write is one.
updateStatus(phase, again, refusal) ==
  /\ fpc' = "idle"
  /\ LET new == [phase |-> phase, observed |-> fView.gen]
     IN \/ /\ fLife = "live" /\ fView.gen = gen
           /\ fReport' = new
           /\ IF new # fReport \/ again THEN fQueued' = TRUE
              ELSE fQueued' \in {fQueued, TRUE}
           /\ UNCHANGED fFaults
        \/ /\ \/ (fLife = "gone" \/ fView.gen # gen) /\ UNCHANGED fFaults
              \/ Fault("write")
           /\ fQueued' = (fQueued \/ again \/ refusal)
           /\ UNCHANGED fReport
  /\ UNCHANGED <<fWorld, file, fView>>

Ready == fpc = "ready" /\ updateStatus("Ready", FALSE, TRUE)
ClusterNotReady == fpc = "pending" /\ updateStatus("Pending", FALSE, FALSE)
Failed == fpc = "failed" /\ updateStatus("Failed", TRUE, TRUE)

NotFound ==
  /\ fpc = "idle" /\ fQueued /\ fLife = "gone" /\ fQueued' = FALSE
  /\ UNCHANGED <<fWorld, fFaults, file, fReport, fView, fpc>>

Operator ==
  \/ Reconcile \/ getCluster \/ Build \/ reconcileConfigMap \/ Ready
  \/ ClusterNotReady \/ Failed \/ NotFound

-----------------------------------------------------------------------------
EditSpec ==
  /\ fLife = "live" /\ gen <= BeatEdits /\ gen' = gen + 1 /\ fQueued' = TRUE
  /\ UNCHANGED <<fEnv, fFaults, fField, custom, foreign, origin, cluster, fLife,
                 file, fReport, fView, fpc>>

\* Nobody is told.
EditOrigin ==
  /\ custom # {} /\ origin <= BeatEdits /\ origin' = origin + 1
  /\ UNCHANGED <<fEnv, fFaults, fField, custom, foreign, gen, cluster, fLife,
                 file, fReport, fView, fpc, fQueued>>

\* The cluster comes up, or is changed and comes up again.
findFilebeatForCluster ==
  /\ \/ cluster = "absent" /\ cluster' = "Creating" /\ UNCHANGED fFaults
     \/ cluster = "Creating" /\ cluster' = "Running" /\ UNCHANGED fFaults
     \/ cluster = "Running" /\ Fault("update") /\ cluster' = "Creating"
  /\ fQueued' = (fLife = "live")
  /\ UNCHANGED <<fEnv, fField, custom, foreign, gen, origin, fLife,
                 file, fReport, fView, fpc>>

\* With the resource goes the ConfigMap it owns.
Delete ==
  /\ fLife = "live" /\ fpc = "idle" /\ fLife' = "gone" /\ file' = None
  /\ fQueued' = TRUE
  /\ UNCHANGED <<fEnv, fFaults, fField, custom, foreign, gen, origin, cluster,
                 fReport, fView, fpc>>

Resync ==
  /\ fLife = "live" /\ ~fQueued /\ fQueued' = TRUE
  /\ UNCHANGED <<fWorld, fFaults, file, fReport, fView, fpc>>

Crash ==
  /\ Fault("crash") /\ fpc' = "idle" /\ fQueued' = TRUE
  /\ UNCHANGED <<fWorld, file, fReport, fView>>

Next ==
  \/ Operator \/ EditSpec \/ EditOrigin \/ findFilebeatForCluster \/ Delete
  \/ Resync \/ Crash

-----------------------------------------------------------------------------
Lost == fField \in FilebeatGaps \cup Overridden(custom)

\* Ready speaks for the generation the status observed, whatever failed in
\* between: the ConfigMap is of that generation or a later one and has the
\* field that is followed, of that generation or with a file of the user's.
BeatReadyIsRendered ==
  fReport.phase = "Ready" /\ fLife = "live" =>
    /\ file # None /\ file.gen >= fReport.observed
    /\ ~Lost => file.value > 0
    /\ ~Lost /\ fField \notin CustomRefs => file.value = file.gen

\* In the end the ConfigMap has what the spec and the user's files say, and
\* the phase tells why it has not: the cluster or a file is missing, or the
\* cluster is in another namespace, which no ConfigMap can be owned from.
BeatFollowed ==
  fLife = "live" =>
    CASE cluster = "Creating" -> fReport.phase = "Pending"
      [] cluster = "Running" /\ ~foreign /\ (custom # {} => origin > 0) ->
           /\ fReport = [phase |-> "Ready", observed |-> gen]
           /\ ~Lost => file.value = IF fField \in CustomRefs THEN origin ELSE gen
      [] OTHER -> fReport.phase = "Failed"

=============================================================================

---------------------------- MODULE ClusterPass ----------------------------
(***************************************************************************)
(* A pass of the WazuhCluster controller over everything it keeps for a    *)
(* cluster, seen from one owned object: the pass takes the steps of        *)
(* Reconcile in order, a step that fails ends it or is only logged, and    *)
(* the last one reports the generation as observed.  The followed object   *)
(* (target) is described by one field of the specification.                *)
(***************************************************************************)
EXTENDS OwnedFields, Naturals, Sequences

CONSTANTS PassEnvironments, PassEdits, PassFaults, None

VARIABLES
  oEnv,     \* what may happen, and how the operator is set up
  oFaults,  \* calls that failed
  target,   \* the object that is followed
  oField,   \* the field of the specification that is followed
  switch,   \* the field that switches the object off, None if nothing does
  desired,  \* what is asked: on, and the value of the field
  gen,      \* metadata.generation
  oLife,    \* the WazuhCluster: "new" until it has its finalizer, then "live",
            \* "deleting" and "gone"
  seen,     \* what the pass has read: desired and gen
  opc,      \* "idle", "delete" or the step that comes next
  thing,    \* the object: None, or its value and whether it is owned
  told      \* the status: the observed generation, and the one that pass had
            \* read

oVars == <<oEnv, oFaults, target, oField, switch, desired, gen, oLife, seen,
           opc, thing, told>>
Fixed == UNCHANGED <<oEnv, target, oField, switch>>

\* Validation and references; certificates; dry run and indexer drain; ...;
\* credentials of API and authd; ...
Steps == <<"validation", "certificates", "drain", "indexer", "workerDrain",
           "manager", "logRotation", "dashboard", "credentials", "monitoring",
           "gateway", "ingress", "networkPolicy", "status">>
StepSet == {Steps[i] : i \in 1..Len(Steps)}

After(s) == Steps[1 + CHOOSE i \in 1..Len(Steps) : Steps[i] = s]

Init ==
  /\ oEnv \in PassEnvironments /\ oFaults = 0
  /\ target \in IF "reference" \in oEnv THEN Referable ELSE Objects
  /\ oField \in Asks[target]
  /\ switch \in IF Switches[target] = {} THEN {None} ELSE Switches[target]
  /\ desired \in [on : {TRUE, switch = None}, v : {0}] /\ gen = 1
  /\ oLife = "new" /\ seen = None /\ opc = "idle"
  /\ thing = IF "foreign" \in oEnv THEN [v |-> 0, own |-> FALSE] ELSE None
  /\ told = [observed |-> 0, read |-> 0]

-----------------------------------------------------------------------------
\* What the pass knows of the object: in reference mode the part of the
\* specification that is not carried over is missing.
Known ==
  IF "reference" \in oEnv /\ ~CarriedOver(target)
  THEN [on |-> switch = None, v |-> 0] ELSE seen.desired

\* What is enabled: the object's part of the specification and, in a conflict,
\* the dashboard's Ingress and Gateway routes.  Routes of the workers alone do
\* not count.
hasGatewayAPIEnabled ==
  \/ target \in {"httpRoute", "tcpRoute", "udpRoute"} /\ Known.on
  \/ target # "httpRoute" /\ "conflict" \in oEnv
hasIngressEnabled ==
  \/ target = "ingress" /\ Known.on
  \/ target # "ingress" /\ "conflict" \in oEnv
hasNetworkPolicyEnabled == target = "networkPolicy" /\ Known.on

\* Mutant: an error of the manager step is logged.
LoggedMore(s) ==
  \/ s \in {"drain", "workerDrain", "logRotation", "monitoring", "manager"}
  \/ s = "gateway" /\ ~hasGatewayAPIEnabled
  \/ s = "ingress" /\ ~hasIngressEnabled
  \/ s = "networkPolicy" /\ ~hasNetworkPolicyEnabled

\* Steps whose errors are logged and no more; the last three are there to
\* clean up when nothing is enabled.
Logged(s) ==
  \/ s \in {"drain", "workerDrain", "logRotation", "monitoring"}
  \/ s = "gateway" /\ ~hasGatewayAPIEnabled
  \/ s = "ingress" /\ ~hasIngressEnabled
  \/ s = "networkPolicy" /\ ~hasNetworkPolicyEnabled

\* updateStatus reads the cluster again, and reports the generation it finds.
updateStatus ==
  told' = [told EXCEPT !.observed = gen, !.read = seen.gen]

\* A failed pass leaves a condition and nothing else.
GoOn(s) == opc' = After(s)
Fails(s) == opc' = IF Logged(s) THEN After(s) ELSE "idle"

\* A call of this step fails, which the next pass makes good.
Fault == "call" \in oEnv /\ oFaults < PassFaults /\ oFaults' = oFaults + 1

\* The objects as the reconcilers leave them.
Value == IF oField \in Renders[target] THEN Known.v ELSE 0
Updated ==
  LET new == [v |-> Value, own |-> TRUE]
  IN  IF thing = None THEN new ELSE UpdateOf(target, thing, new)

\* Switched off: deleted by name, whoever made it.  A ServiceAccount is left
\* alone, and so is a ServiceMonitor when only serviceMonitor.enabled is off.
cleanupMonitoringResources ==
  IF switch = "serviceMonitor.enabled" THEN thing ELSE None
Removed ==
  CASE target = "serviceAccount" -> thing
    [] target = "serviceMonitor" -> cleanupMonitoringResources
    [] OTHER -> None

\* Mutant: the object of a switched off part is left alone.
KeepWhenOff == IF Known.on THEN Updated ELSE thing
Wanted == IF Known.on THEN Updated ELSE Removed

\* What keeps a step from its work for good: inline and referenced components
\* mixed; routes whose CRDs are not installed; Ingress and Gateway route of the
\* dashboard both enabled; a headless Service of the type the indexer's main
\* Service is asked to have, which Kubernetes refuses.
MissingCRD ==
  "crd" \in oEnv /\ Known.on
    /\ target \in {"httpRoute", "tcpRoute", "udpRoute", "workerRoute"}
Conflict == "conflict" \in oEnv /\ hasGatewayAPIEnabled /\ hasIngressEnabled
Blocked(s) ==
  \/ s = "validation" /\ "mixed" \in oEnv
  \/ s = "indexer" /\ "headless" \in oEnv
  \/ s = "gateway" /\ (MissingCRD \/ Conflict)
  \/ s = "ingress" /\ Conflict

\* BuildHeadless keeps the type, and comes after the main Service.
HeadlessRefused ==
  target = "indexerService" /\ oField = "type" /\ Known.v > 0

\* Without Gateway API support the operator neither makes nor deletes routes;
\* a missing ServiceMonitor CRD is no error.
Off(s) ==
  \/ s = "gateway" /\ "noGateway" \in oEnv
  \/ s = "monitoring" /\ "crd" \in oEnv
Owner(s) == target \in Reconciled /\ StepOf[target] = s /\ ~Off(s)

-----------------------------------------------------------------------------
\* The first pass adds the finalizer.  A later one reads the cluster, from a
\* cache that may be behind.
Reconcile ==
  /\ opc = "idle"
  /\ \/ /\ oLife = "new" /\ oLife' = "live" /\ UNCHANGED <<opc, oFaults, seen>>
     \/ /\ oLife \in {"live", "deleting"} /\ UNCHANGED <<oLife, oFaults>>
        /\ seen' = [desired |-> desired, gen |-> gen]
        /\ opc' = IF oLife = "deleting" THEN "delete" ELSE "validation"
     \/ /\ oLife \in {"live", "deleting"} /\ UNCHANGED <<oLife, seen>>
        /\ "lag" \in oEnv /\ oFaults < PassFaults /\ oFaults' = oFaults + 1
        /\ seen # None /\ opc' = "validation"
  /\ UNCHANGED <<desired, gen, thing, told>> /\ Fixed

\* A dry run ends the pass here, and for a while a drain does: before the
\* indexer, or before the managers.  updateDrainStatus leaves the rest alone.
ReturnEarly ==
  /\ opc \in {"drain", "workerDrain"} /\ opc' = "idle"
  /\ \/ opc = "drain" /\ "dryRun" \in oEnv /\ UNCHANGED oFaults
     \/ "drain" \in oEnv /\ oFaults < PassFaults /\ oFaults' = oFaults + 1
  /\ UNCHANGED <<desired, gen, oLife, seen, thing, told>> /\ Fixed

\* A step that has nothing to do with the object.
OtherStep(s) ==
  /\ opc = s /\ s # "status" /\ ~Owner(s)
  /\ ~(s = "drain" /\ "dryRun" \in oEnv)
  /\ \/ (~Blocked(s) \/ Off(s)) /\ GoOn(s) /\ UNCHANGED oFaults
     \/ Blocked(s) /\ ~Off(s) /\ Fails(s) /\ UNCHANGED oFaults
     \/ Fault /\ Fails(s)
  /\ UNCHANGED <<desired, gen, oLife, seen, thing, told>> /\ Fixed

\* The step of the object: done, or failed before or after.
OwnStep(s) ==
  /\ opc = s /\ Owner(s)
  /\ \/ /\ ~Blocked(s) /\ thing' = Wanted /\ UNCHANGED oFaults
        /\ \/ HeadlessRefused /\ Fails(s)
           \/ ~HeadlessRefused /\ GoOn(s)
     \/ Blocked(s) /\ Fails(s) /\ UNCHANGED <<oFaults, thing>>
     \/ ~Blocked(s) /\ Fault /\ Fails(s) /\ thing' \in {thing, Wanted}
  /\ UNCHANGED <<desired, gen, oLife, seen, told>> /\ Fixed

StatusStep ==
  /\ opc = "status" /\ opc' = "idle"
  /\ \/ updateStatus /\ UNCHANGED oFaults
     \/ Fault /\ UNCHANGED told
  /\ UNCHANGED <<desired, gen, oLife, seen, thing>> /\ Fixed

\* Deletion: what cleanupResources lists by name is deleted, the rest goes
\* with its owner once the finalizer is removed (Kubernetes).
Listed == {"indexerService", "managerService", "dashboardService"}
cleanupResources == IF target \in Listed THEN None ELSE thing
Collected(o) == IF o # None /\ o.own THEN None ELSE o

handleDeletion ==
  /\ opc = "delete" /\ opc' = "idle"
  /\ \/ /\ oLife' = "gone" /\ thing' = Collected(cleanupResources)
        /\ UNCHANGED oFaults
     \/ Fault /\ UNCHANGED oLife /\ thing' \in {thing, cleanupResources}
  /\ UNCHANGED <<desired, gen, seen, told>> /\ Fixed

\* The work queue runs the pass again after an error, and after a while.
Pass ==
  \/ Reconcile \/ ReturnEarly \/ StatusStep \/ handleDeletion
  \/ \E s \in StepSet : OtherStep(s) \/ OwnStep(s)

-----------------------------------------------------------------------------
Edit ==
  /\ oLife \in {"new", "live"} /\ gen <= PassEdits
  /\ opc = "idle" \/ "midway" \in oEnv
  /\ \/ desired' = [desired EXCEPT !.v = 1 - @]
     \/ switch # None /\ desired' = [desired EXCEPT !.on = ~@]
  /\ gen' = gen + 1
  /\ UNCHANGED <<oFaults, oLife, seen, opc, thing, told>> /\ Fixed

\* Without the finalizer the cluster is gone at once.
Delete ==
  /\ "delete" \in oEnv /\ oLife \in {"new", "live"}
  /\ oLife' = IF oLife = "new" THEN "gone" ELSE "deleting"
  /\ UNCHANGED <<oFaults, desired, gen, seen, opc, thing, told>> /\ Fixed

\* Somebody deletes or changes the object.
Drift ==
  /\ "drift" \in oEnv /\ oFaults < PassFaults /\ oFaults' = oFaults + 1
  /\ thing # None
  /\ thing' \in {None, [thing EXCEPT !.v = 1 - @]}
  /\ UNCHANGED <<desired, gen, oLife, seen, opc, told>> /\ Fixed

OperatorRestart ==
  /\ "crash" \in oEnv /\ oFaults < PassFaults /\ oFaults' = oFaults + 1
  /\ opc # "idle" /\ opc' = "idle"
  /\ UNCHANGED <<desired, gen, oLife, seen, thing, told>> /\ Fixed

Next == Pass \/ Edit \/ Delete \/ Drift \/ OperatorRestart

Spec == Init /\ [][Next]_oVars /\ WF_oVars(Pass)

-----------------------------------------------------------------------------
TypeOK ==
  /\ oFaults \in 0..PassFaults /\ gen \in 1..PassEdits + 1
  /\ desired \in [on : BOOLEAN, v : 0..1]
  /\ opc \in {"idle", "delete"} \cup StepSet
  /\ oLife \in {"new", "live", "deleting", "gone"}
  /\ thing = None \/ thing \in [v : 0..1, own : BOOLEAN]
  /\ told \in [observed : 0..gen, read : 0..gen]

Follows ==
  IF desired.on THEN thing # None /\ thing.v = desired.v
  ELSE thing = None

\* What no code serves, and passes that never come to the object's step.
Gaps ==
  {"managerService"} \X {"type", "loadBalancerIP", "ports"}
    \cup {"managerPDB", "dashboardPDB"} \X {"maxUnavailable"}
Unserved ==
  \/ target \notin Reconciled
  \/ <<target, oField>> \in Gaps
  \/ target = "serviceAccount" /\ ~desired.on
  \/ target = "serviceMonitor" /\ switch = "serviceMonitor.enabled"
       /\ ~desired.on
HeldUp ==
  \/ {"mixed", "dryRun"} \cap oEnv # {}
  \/ "headless" \in oEnv
  \/ "reference" \in oEnv /\ ~CarriedOver(target)
  \/ "noGateway" \in oEnv /\ StepOf[target] = "gateway"
  \/ "crd" \in oEnv /\ StepOf[target] \in {"gateway", "monitoring"}
  \/ "conflict" \in oEnv
       /\ StepOf[target] \in {"gateway", "ingress", "networkPolicy"}

ObjectFollowed ==
  /\ oLife = "live" /\ ~Unserved /\ ~HeldUp => Follows
  /\ oLife # "deleting"
  /\ oLife = "gone" /\ "foreign" \notin oEnv => thing = None

\* Every object is in the end what the specification asks for, and gone when
\* it is switched off: through failing calls, restarts, stale reads, edits in
\* the middle of a pass and changes by others, as every pass does all of it.
\* A deleted cluster goes, and leaves nothing it has made: what is not deleted
\* by name has an owner reference.
ObjectFollows == <>[]ObjectFollowed

Promised ==
  /\ opc = "idle" /\ oLife = "live" /\ told.observed = gen /\ told.read = gen
  /\ "drift" \notin oEnv /\ ~Unserved /\ ~HeldUp
  /\ desired.on /\ target \notin {"logRotation", "serviceMonitor", "workerRoute"}

\* observedGeneration is a promise: between two passes, what the status says
\* was observed has been applied, unless the pass had read an older one
\* (updateStatus reports the newest), the step only logs its errors, or
\* somebody else has interfered.
ObservedIsApplied == Promised => Follows

=============================================================================

----------------------- MODULE MCClusterConfiguration -----------------------
(***************************************************************************)
(* What the operator keeps in step with a WazuhCluster, for TLC.  The      *)
(* parts have their own objects in the cluster; a behaviour follows the    *)
(* one in focus.                                                           *)
(***************************************************************************)
EXTENDS ConfigRollout

CONSTANTS PassEdits, PassFaults, PolicyEdits, PolicyFaults,
          ContentEdits, ContentFaults, Claims, MaxSize, VolumeEdits, VolumeFaults,
          Passwords, CredentialEdits, CredentialFaults,
          IndexerPods, Renewals, ReloadFaults, None

VARIABLES focus,
  \* ClusterPass
  oEnv, oFaults, target, oField, switch, desired, gen, oLife, seen, opc, thing,
  told,
  \* NetworkPolicies
  policyOn, policies, policyStep, policyView, policyEdits, policyFaults,
  \* ManagerContent
  mEnv, mFaults, kind, twins, away, up, res, mCm, mEdits, mView, mpc, mQueue,
  template, pod,
  \* VolumeExpansion
  vEnv, vFaults, expandable, labelled, size, vEdits, claims, found,
  vpc, pass,
  \* CredentialSync
  sEnv, sFaults, sEdits, secret, issued, external, creds, users, index, late,
  synced, copy, password, spc, left, mark, started, lost, early,
  \* HotReload
  hEnv, hFaults, method, newest, mount, serves, down, asked, begun, behind,
  blind, cut, hpc, turn, attempt, failed

MCRolloutEnvironments ==
  {{"lag", "crash"}, {"read", "write"}, {"restart", "other"},
   {"evict", "other"}, {"crash", "older"}}

MCPassEnvironments ==
  {{"call", "foreign", "delete"}, {"lag", "midway", "drift"},
   {"crash", "delete"}, {"drain"},
   {"crd"}, {"conflict"}, {"noGateway"}, {"dryRun"}, {"mixed"}, {"headless"},
   {"reference"}}

Pass == INSTANCE ClusterPass WITH PassEnvironments <- MCPassEnvironments

Network == INSTANCE NetworkPolicies

MCContentEnvironments ==
  {{}, {"list", "write"}, {"apply", "crash"}, {"late"}}

Content == INSTANCE ManagerContent
             WITH cm <- mCm, ContentEnvironments <- MCContentEnvironments

MCVolumeEnvironments ==
  {{}, {"class"}, {"cache", "patch"}}

Volume == INSTANCE VolumeExpansion
            WITH VolumeEnvironments <- MCVolumeEnvironments

MCCredentialEnvironments ==
  {{}, {"exec", "write"}, {"restart", "crash"}, {"cache"}}

\* Two workloads: the one the index is in and one that logs in to it; two that
\* use the API.
MCFollowed ==
  [k \in {"indexer", "external", "api"} |->
     IF k = "api" THEN {"master", "dashboard"} ELSE {"indexer", "dashboard"}]

Credentials == INSTANCE CredentialSync
                 WITH CredentialEnvironments <- MCCredentialEnvironments,
                      Followed <- MCFollowed

MCReloadEnvironments ==
  {{}, {"k8s", "call"}, {"down", "slow"}, {"crash", "call"}, {"slow", "k8s"},
   {"cache", "call"}}

Reload == INSTANCE HotReload WITH ReloadEnvironments <- MCReloadEnvironments

ASSUME ConfigurationAssumption ==
  /\ RolloutConstants /\ Content!ContentConstants
  /\ Volume!VolumeConstants /\ Reload!ReloadConstants
  /\ {PassEdits, PassFaults, PolicyEdits, PolicyFaults, Passwords,
      CredentialEdits, CredentialFaults} \subseteq Nat

passVars ==
  <<oEnv, oFaults, target, oField, switch, desired, gen, oLife, seen, opc,
    thing, told>>
networkVars ==
  <<policyOn, policies, policyStep, policyView, policyEdits, policyFaults>>
contentVars ==
  <<mEnv, mFaults, kind, twins, away, up, res, mCm, mEdits, mView, mpc, mQueue,
    template, pod>>
volumeVars ==
  <<vEnv, vFaults, expandable, labelled, size, vEdits, claims, found,
    vpc, pass>>
credentialVars ==
  <<sEnv, sFaults, sEdits, secret, issued, external, creds, users, index, late,
    synced, copy, password, spc, left, mark, started, lost, early>>
reloadVars ==
  <<hEnv, hFaults, method, newest, mount, serves, down, asked, begun, behind,
    blind, cut, hpc, turn, attempt, failed>>
vars == <<focus, cVars, passVars, networkVars, contentVars, volumeVars,
          credentialVars, reloadVars>>

\* Fields that every definition treats alike behave alike: one of each kind.
FieldKind(f) ==
  <<f \in PodFields[wl], f \in ConfigFields[wl], f \in ObjectFields[wl],
    f \in Hashed[wl], f \in Compared[wl], f \in Fallible, f \in Quiet,
    f \in Unserved, f \in Late, f \in SoloServed, f \in SecretFields,
    f \in {"tolerations", "affinity", "annotations", "podAnnotations"},
    f = "securityContext">>

\* Likewise one object of each kind, and one switch.
PassFieldKind(o, f) ==
  <<f \in Pass!Renders[o], <<o, f>> \in Pass!Gaps,
    o = "indexerService" /\ f = "type">>
ObjectKind(o) ==
  IF o \notin Pass!Reconciled THEN <<>>
  ELSE <<Pass!StepOf[o], Pass!Switches[o] = {},
         Pass!UpdateOf(o, [v |-> 0, own |-> FALSE], [v |-> 0, own |-> TRUE]),
         o \in {"serviceAccount", "workerRoute", "httpRoute"},
         {PassFieldKind(o, f) : f \in Pass!Asks[o]}>>
PassChosen ==
  /\ target = CHOOSE o \in Pass!Objects : ObjectKind(o) = ObjectKind(target)
  /\ oField = CHOOSE f \in Pass!Asks[target] :
                PassFieldKind(target, f) = PassFieldKind(target, oField)
  /\ IF switch \in {None, "serviceMonitor.enabled"} THEN TRUE
     ELSE switch = CHOOSE w \in Pass!Switches[target] :
                     w # "serviceMonitor.enabled"

\* Components that are not in focus stay in one initial state.
RolloutPinned ==
  /\ cEnv = {"lag", "crash"} /\ wl = "indexer" /\ drops = FALSE
  /\ field = CHOOSE f \in Fields[wl] : TRUE
PassPinned ==
  /\ oEnv = {"crd"} /\ target = "ingress" /\ desired.on
  /\ oField = CHOOSE f \in Pass!Asks[target] : TRUE

\* A rule alone.  With no fault also another one with its ID, in the same or
\* another namespace, twins, and a decoder; the cluster may come later.
ContentChosen ==
  LET rule == Content!Fresh([id |-> 1, ok |-> TRUE])
      alone == [a |-> rule, b |-> None]
      both == [a |-> rule, b |-> rule]
      simple == <<"rule", FALSE, {}, TRUE, alone>>
  IN \E c \in IF focus # "content" THEN {<<{}, simple>>}
              ELSE ((MCContentEnvironments \ {{}}) \X {simple})
                   \cup ({{}} \X {<<"rule", FALSE, {}, TRUE, both>>,
                                  <<"rule", FALSE, {"b"}, FALSE, both>>,
                                  <<"rule", TRUE, {}, TRUE, alone>>,
                                  <<"decoder", FALSE, {}, FALSE, alone>>})
                   \cup {<<{"late"}, <<"decoder", FALSE, {}, TRUE, alone>>>>} :
       /\ mEnv = c[1] /\ kind = c[2][1] /\ twins = c[2][2] /\ away = c[2][3]
       /\ up = c[2][4] /\ res = c[2][5]

\* Claims without the label, and a class that expands nothing, with no fault.
VolumeChosen ==
  IF focus # "volume"
  THEN /\ vEnv = {} /\ expandable = TRUE /\ labelled = Claims
       /\ claims = [p \in Claims |-> Volume!New]
  ELSE /\ vEnv \in MCVolumeEnvironments
       /\ IF vEnv = {} THEN TRUE ELSE expandable = TRUE /\ labelled = Claims
       /\ \E made \in {{0}, Claims} :
            claims = [p \in Claims |-> IF p \in made THEN Volume!New ELSE None]

\* Two changes of a password with no fault, one with faults.
CredentialChosen ==
  IF focus # "credentials"
  THEN sEnv = {} /\ sEdits = 0 /\ secret = "api"
  ELSE /\ sEnv \in MCCredentialEnvironments
       /\ sEdits = IF sEnv = {} THEN CredentialEdits ELSE CredentialEdits - 1

ConfigurationInit ==
  /\ focus \in {"rollout", "pass", "network", "content", "volume", "credentials",
                "reload"}
  /\ Init
  /\ IF focus # "rollout" THEN RolloutPinned
     ELSE field = CHOOSE f \in Fields[wl] :
                    FieldKind(f) = FieldKind(field)
  /\ Pass!Init
  /\ IF focus # "pass" THEN PassPinned
     ELSE PassChosen
  /\ Network!Init
  /\ ContentChosen /\ Content!Init
  /\ VolumeChosen /\ Volume!Init
  /\ CredentialChosen /\ Credentials!Init
  /\ IF focus = "reload" THEN TRUE ELSE hEnv = {} /\ method = "none"
  /\ Reload!Init

RolloutTurn(A) ==
  /\ focus = "rollout" /\ A
  /\ UNCHANGED <<focus, passVars, networkVars, contentVars, volumeVars,
                 credentialVars, reloadVars>>
PassTurn(A) ==
  /\ focus = "pass" /\ A
  /\ UNCHANGED <<focus, cVars, networkVars, contentVars, volumeVars,
                 credentialVars, reloadVars>>
NetworkTurn(A) ==
  /\ focus = "network" /\ A
  /\ UNCHANGED <<focus, cVars, passVars, contentVars, volumeVars,
                 credentialVars, reloadVars>>
ContentTurn(A) ==
  /\ focus = "content" /\ A
  /\ UNCHANGED <<focus, cVars, passVars, networkVars, volumeVars,
                 credentialVars, reloadVars>>
VolumeTurn(A) ==
  /\ focus = "volume" /\ A
  /\ UNCHANGED <<focus, cVars, passVars, networkVars, contentVars,
                 credentialVars, reloadVars>>

CredentialTurn(A) ==
  /\ focus = "credentials" /\ A
  /\ UNCHANGED <<focus, cVars, passVars, networkVars, contentVars,
                 volumeVars, reloadVars>>
ReloadTurn(A) ==
  /\ focus = "reload" /\ A
  /\ UNCHANGED <<focus, cVars, passVars, networkVars, contentVars,
                 volumeVars, credentialVars>>

ConfigurationNext ==
  \/ RolloutTurn(Next) \/ PassTurn(Pass!Next)
  \/ NetworkTurn(Network!Next)
  \/ ContentTurn(Content!Next) \/ VolumeTurn(Volume!Next)
  \/ CredentialTurn(Credentials!Next) \/ ReloadTurn(Reload!Next)

Operator ==
  \/ RolloutTurn(Reconciles) \/ PassTurn(Pass!Pass)
  \/ NetworkTurn(Network!Operator) \/ ContentTurn(Content!Controller)
  \/ VolumeTurn(Volume!Operator) \/ CredentialTurn(Credentials!Operator)
  \/ ReloadTurn(Reload!Operator)
ConfigurationWorld ==
  \/ RolloutTurn(World) \/ ContentTurn(Content!Managers)
  \/ VolumeTurn(Volume!Storage) \/ CredentialTurn(Credentials!Cluster)
  \/ ReloadTurn(Reload!Cluster)

\* Steps are fair that change what is in focus: all that they can change.
inFocus ==
  CASE focus = "rollout" -> cVars
    [] focus = "pass" -> passVars
    [] focus = "network" -> networkVars
    [] focus = "content" -> contentVars
    [] focus = "volume" -> volumeVars
    [] focus = "credentials" -> credentialVars
    [] focus = "reload" -> reloadVars

\* The work queue retries; the cache follows, pods are started and replaced,
\* volumes grow; informers hand over all anew.
Fairness ==
  /\ WF_inFocus(Operator) /\ WF_inFocus(ConfigurationWorld)
  /\ WF_inFocus(ContentTurn(Content!Resync))

ConfigurationSpec == ConfigurationInit /\ [][ConfigurationNext]_vars /\ Fairness

ConfigurationTypeOK ==
  CASE focus = "rollout" -> TypeOK
    [] focus = "pass" -> Pass!TypeOK
    [] focus = "network" -> Network!TypeOK
    [] focus = "content" -> Content!TypeOK
    [] focus = "volume" -> Volume!TypeOK
    [] focus = "credentials" -> Credentials!TypeOK
    [] focus = "reload" -> Reload!TypeOK
ObservedIsApplied == Pass!ObservedIsApplied
LinksKept == Network!LinksKept
LoadedIsValid == Content!LoadedIsValid

\* What counts as done is done: an Applied rule that has been seen as it is has
\* its text in its ConfigMap, the users and the Secret whose hashes are stored
\* are in OpenSearch and in the pods, and a reload of the indexer that went well
\* has the first pod use the newest certificate, and the others whose volume had
\* it when they were told.
ReportIsTrue ==
  CASE focus = "content" -> Content!AppliedIsWritten
    [] focus = "credentials" -> Credentials!SyncedIsTrue
    [] focus = "reload" -> Reload!ReloadIsTrue
    [] OTHER -> TRUE

\* What the specification asks for is there in the end: an edit reaches the
\* pods, one the hashes leave out with the next change, one of a standalone
\* StatefulSet the object; the objects beside the workloads are as asked for,
\* and go with the cluster; rules reach the managers; volumes grow;
\* a new password reaches OpenSearch and the pods, a renewed certificate the
\* pods of the indexer.
EditsArrive ==
  <>[](CASE focus = "rollout" ->
             EditReached /\ LateFieldFollowed /\ SoloEditReached
        [] focus = "pass" -> Pass!ObjectFollowed
        [] focus = "network" -> Network!PoliciesFollowed
        [] focus = "content" -> Content!ContentFollowed
        [] focus = "volume" -> Volume!VolumesFollow
        [] focus = "credentials" -> Credentials!CredentialsFollow
        [] focus = "reload" -> Reload!PodsCatchUp)

=============================================================================

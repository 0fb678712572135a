---------------------------- MODULE MCResources ----------------------------
(***************************************************************************)
(* The resources beside the WazuhCluster, for TLC: what the user keeps in  *)
(* OpenSearch, and what saves and brings back data.  Each has a reconciler *)
(* and a work queue of its own and they share no state of the operator, so *)
(* a behaviour follows one of them: the one in focus.                      *)
(***************************************************************************)
EXTENDS ResourceSync

CONSTANTS RestoreIndices, FirstIndex, RestoreFaults, SnapshotNames,
          SnapshotFaults, RepoEdits, RepoFaults,
          BackupEdits, BackupFaults, MostShots, JobFaults, AuthEdits, AuthFaults,
          BeatEdits, BeatFaults, CertEdits, CertFaults

VARIABLES focus,
  \* OpenSearchRestore
  rEnv, rFaults, rLost, repository, snapshot, recovery, performed, stored,
  before, rCopy, stale, rpc, rQueued,
  \* ManualSnapshot
  sEnv, sFaults, excused, repo, taken, attempts, sStored, sBefore, sCopy,
  sStale, npc, sQueued, issued,
  \* SnapshotRepository
  pEnv, pFaults, options, asked, life, view, registered, report, ppc, pQueued,
  \* BackupJob
  bEnv, bFaults, storage, bField, plan, present, bLife, account, cron, shot,
  shots, bReport, bView, bpc,
  \* RestoreJob
  jEnv, jFaults, source, jField, opts, exists, jLife, phase, job, honoured, up,
  data, saved, skipped, jView, jpc,
  \* AuthConfig
  aEnv, aFaults, aHook, aField, ask, secret, aLife, security, section, aReport,
  aView, apc, aQueued,
  \* FilebeatConfig
  fEnv, fFaults, fField, custom, foreign, gen, origin, cluster, fLife, file,
  fReport, fView, fpc, fQueued,
  \* StandaloneCertificate
  kEnv, kFaults, kType, kField, kGen, authority, kLife, pair, news, kReport,
  kView, kpc, kQueued

\* Nothing on the way; OpenSearch out of reach; an operator and an API server
\* that fail; a clusterRef that changes; the synchronizer beside them.
MCSyncEnvironments ==
  {{}, {"move"}, {"client", "put", "delete"}, {"absent", "put", "k8s", "restart"},
   {"put", "move", "restart"}, {"put", "sync"}}
MCRestoreEnvironments ==
  {{}, {"client", "read"}, {"call", "empty"}, {"call", "crash"},
   {"write", "crash"}, {"edit", "write", "cache", "crash", "call", "empty"}}
MCSnapshotEnvironments ==
  {{}, {"read", "crash"}, {"read", "call", "write"}, {"cache", "crash"},
   {"edit", "write", "cache", "crash", "call"}, {"prune", "edit"}}
MCRepoEnvironments ==
  {{}, {"client", "read", "put"}, {"put", "crash"}, {"verify", "write"},
   {"delete", "write", "crash"}}
MCBackupEnvironments ==
  {{}, {"read", "write"}, {"apply", "crash"}, {"run", "write"}, {"run", "down"},
   {"delete", "crash"}}
MCJobEnvironments ==
  {{}, {"read", "write"}, {"apply", "crash"}, {"call", "evict"},
   {"tool", "evict"}, {"down", "evict", "crash"}, {"delete", "call"}}
MCAuthEnvironments == {{}, {"read", "write"}, {"apply", "crash"}}
MCBeatEnvironments == {{}, {"read", "write"}, {"apply", "crash", "update"}}
MCCertEnvironments == {{}, {"read", "write"}, {"apply", "crash"}}

Restore == INSTANCE OpenSearchRestore
             WITH copy <- rCopy, RestoreEnvironments <- MCRestoreEnvironments
Snapshot == INSTANCE ManualSnapshot
              WITH spc <- npc, SnapshotEnvironments <- MCSnapshotEnvironments
Repo == INSTANCE SnapshotRepository
          WITH RepoEnvironments <- MCRepoEnvironments
Backup == INSTANCE BackupJob WITH BackupEnvironments <- MCBackupEnvironments
Jobs == INSTANCE RestoreJob WITH JobEnvironments <- MCJobEnvironments
Auth == INSTANCE AuthConfig WITH AuthEnvironments <- MCAuthEnvironments
Beat == INSTANCE FilebeatConfig WITH BeatEnvironments <- MCBeatEnvironments
Cert == INSTANCE StandaloneCertificate WITH CertEnvironments <- MCCertEnvironments

ASSUME ResourcesAssumption ==
  /\ ResourceConstants /\ Restore!RestoreConstants
  /\ Snapshot!SnapshotConstants /\ Repo!RepoConstants /\ Jobs!JobConstants
  /\ {BackupEdits, BackupFaults, AuthEdits, AuthFaults, BeatEdits, BeatFaults,
      CertEdits, CertFaults} \subseteq Nat
  /\ MostShots \in Nat \ {0, 1}
  /\ MCSyncEnvironments \subseteq SUBSET FaultKinds

restoreVars ==
  <<rEnv, rFaults, rLost, repository, snapshot, recovery, performed, stored,
    before, rCopy, stale, rpc, rQueued>>
snapshotVars ==
  <<sEnv, sFaults, excused, repo, taken, attempts, sStored, sBefore, sCopy,
    sStale, npc, sQueued, issued>>
repoVars ==
  <<pEnv, pFaults, options, asked, life, view, registered, report, ppc, pQueued>>
backupVars ==
  <<bEnv, bFaults, storage, bField, plan, present, bLife, account, cron, shot,
    shots, bReport, bView, bpc>>
jobVars ==
  <<jEnv, jFaults, source, jField, opts, exists, jLife, phase, job, honoured,
    up, data, saved, skipped, jView, jpc>>
authVars ==
  <<aEnv, aFaults, aHook, aField, ask, secret, aLife, security, section,
    aReport, aView, apc, aQueued>>
beatVars ==
  <<fEnv, fFaults, fField, custom, foreign, gen, origin, cluster, fLife, file,
    fReport, fView, fpc, fQueued>>
certVars ==
  <<kEnv, kFaults, kType, kField, kGen, authority, kLife, pair, news, kReport,
    kView, kpc, kQueued>>
dataVars == <<restoreVars, snapshotVars, repoVars, backupVars, jobVars>>
resourcesVars == <<focus, vars, dataVars, authVars, beatVars, certVars>>

-----------------------------------------------------------------------------
\* Kinds and fields that are treated alike behave alike.  Every kind, and one
\* field of each sort, where the user only edits; one kind of each sort where
\* something else happens, with a field the synchronizer leaves out if any.
FieldFollowed ==
  [User |-> "backendRoles", Role |-> "clusterPermissions",
   Tenant |-> "description", RoleMapping |-> "andBackendRoles",
   ActionGroup |-> "type", ComponentTemplate |-> "settings",
   IndexTemplate |-> "composedOf", ISMPolicy |-> "config",
   Index |-> "numberOfReplicas", SnapshotPolicy |-> "creationCron"]
SyncChosen ==
  LET sort(k, f) == <<{t \in {"creates", "updates", "syncs", "gaps"} :
                         f \in Of(k)[t]},
                      Of(k).fails, Of(k).merges, Of(k).syncs # {}, k = "Index">>
      sortOf(k) == sort(k, FieldFollowed[k])
  IN IF focus # "sync" THEN faults = {} /\ kind = "Tenant"
     ELSE \/ /\ faults = {} /\ kind \in KindNames
             /\ field \in Of(kind).spec
             /\ field = CHOOSE f \in Of(kind).spec :
                          sort(kind, f) = sort(kind, field)
          \/ /\ faults \in MCSyncEnvironments \ {{}}
             /\ kind \in KindNames
             /\ kind = CHOOSE k \in KindNames : sortOf(k) = sortOf(kind)
             /\ field = FieldFollowed[kind]

\* Every field of a backup where the user only edits it, one where something
\* else happens; a cluster or a Secret that comes later with no fault.
BackupChosen ==
  IF focus # "backup"
  THEN /\ bEnv = {} /\ storage = "hdfs" /\ bField = "type"
       /\ present = {"cluster", "secret"}
       /\ plan = [scheduled |-> FALSE, suspend |-> FALSE, gen |-> 1]
  ELSE \/ /\ bEnv = {} /\ present = {"cluster", "secret"}
          /\ plan = [scheduled |-> TRUE, suspend |-> FALSE, gen |-> 1]
       \/ bEnv = {} /\ storage = "hdfs" /\ bField = "type"
       \/ /\ storage = "hdfs" /\ bField = "type"
          /\ present = {"cluster", "secret"}

\* Every source and field with no fault, an archive in a bucket otherwise.
JobChosen ==
  IF focus # "restore job"
  THEN jEnv = {} /\ source = "s3" /\ jField = "key" /\ opts = {} /\ exists = {}
  ELSE \/ jEnv = {} /\ opts = {} /\ exists = {"cluster", "secret", "backup"}
       \/ jEnv = {} /\ opts = {} /\ jField \in {"key", "name"}
       \/ source = "s3" /\ jField = "key" /\ exists = {"cluster", "secret"}

\* Every field with no fault, a credential and a list otherwise.
AuthChosen ==
  IF focus # "auth"
  THEN /\ aEnv = {} /\ aHook = TRUE /\ aField = <<"ldap", "hosts">>
       /\ ask = [gen |-> 1, on |-> {"ldap"}, many |-> FALSE, lacks |-> ""]
  ELSE \/ aEnv = {} /\ aHook = TRUE
       \/ aEnv = {} /\ aHook = FALSE /\ aField = <<"ldap", "hosts">>
       \/ /\ aEnv \in MCAuthEnvironments \ {{}} /\ aHook = TRUE
          /\ \E f \in {<<"oidc", "clientSecretRef">>, <<"saml", "xsrfAllowlist">>} :
               aField = f

\* Every field, with the user's own files and without, with no fault.
BeatChosen ==
  IF focus # "filebeat"
  THEN fEnv = {} /\ fField = "level" /\ custom = {} /\ foreign = FALSE /\ cluster = "Running"
  ELSE \/ fEnv = {} /\ foreign = FALSE
       \/ fEnv = {} /\ foreign = TRUE /\ fField = "shards"
       \/ /\ fEnv \in MCBeatEnvironments \ {{}} /\ foreign = FALSE
          /\ \E f \in {"level", "customPipelineRef"} : fField = f
          /\ cluster = "Creating"

\* Fields that are treated alike behave alike: one of each kind with no fault,
\* the validity otherwise.
CertChosen ==
  LET treated(f) == <<f \in Cert!Carried(kType), f \in Cert!CertificateGaps(kType)>>
  IN IF focus # "certificate"
     THEN /\ kEnv = {} /\ kType = "ca" /\ kField = "validity"
          /\ authority = [id |-> 0, good |-> TRUE]
     ELSE \/ /\ kEnv = {} /\ kType \in Cert!CertificateTypes
             /\ kField \in Cert!WazuhCertificateSpec
             /\ kField = CHOOSE f \in Cert!WazuhCertificateSpec :
                            treated(f) = treated(kField)
          \/ /\ kEnv \in MCCertEnvironments \ {{}}
             /\ kType \in {"ca", "node"} /\ kField = "validity"

ResourcesInit ==
  /\ focus \in {"sync", "restore", "snapshot", "repository", "backup",
                "restore job", "auth", "filebeat", "certificate"}
  /\ SyncChosen /\ Init
  /\ IF focus = "restore" THEN TRUE
     ELSE rEnv = {} /\ repository = TRUE /\ snapshot = "SUCCESS"
  /\ Restore!Init
  /\ IF focus = "snapshot" THEN TRUE ELSE sEnv = {} /\ repo = TRUE
  /\ Snapshot!Init
  /\ IF focus = "repository" THEN TRUE
     ELSE /\ pEnv = {} /\ asked = [spec |-> 1, secret |-> 0]
          /\ options = [verify |-> FALSE, keystore |-> FALSE]
  /\ Repo!Init
  /\ BackupChosen /\ Backup!Init
  /\ JobChosen /\ Jobs!Init
  /\ AuthChosen /\ Auth!Init
  /\ BeatChosen /\ Beat!Init
  /\ CertChosen /\ Cert!Init

SyncTurn(A) ==
  /\ focus = "sync" /\ A
  /\ UNCHANGED <<focus, dataVars, authVars, beatVars, certVars>>
RestoreTurn(A) ==
  /\ focus = "restore" /\ A
  /\ UNCHANGED <<focus, vars, snapshotVars, repoVars, backupVars, jobVars,
                 authVars, beatVars, certVars>>
SnapshotTurn(A) ==
  /\ focus = "snapshot" /\ A
  /\ UNCHANGED <<focus, vars, restoreVars, repoVars, backupVars, jobVars,
                 authVars, beatVars, certVars>>
RepoTurn(A) ==
  /\ focus = "repository" /\ A
  /\ UNCHANGED <<focus, vars, restoreVars, snapshotVars, backupVars, jobVars,
                 authVars, beatVars, certVars>>
BackupTurn(A) ==
  /\ focus = "backup" /\ A
  /\ UNCHANGED <<focus, vars, restoreVars, snapshotVars, repoVars, jobVars,
                 authVars, beatVars, certVars>>
JobTurn(A) ==
  /\ focus = "restore job" /\ A
  /\ UNCHANGED <<focus, vars, restoreVars, snapshotVars, repoVars, backupVars,
                 authVars, beatVars, certVars>>
AuthTurn(A) ==
  /\ focus = "auth" /\ A
  /\ UNCHANGED <<focus, vars, dataVars, beatVars, certVars>>
BeatTurn(A) ==
  /\ focus = "filebeat" /\ A
  /\ UNCHANGED <<focus, vars, dataVars, authVars, certVars>>
CertTurn(A) ==
  /\ focus = "certificate" /\ A
  /\ UNCHANGED <<focus, vars, dataVars, authVars, beatVars>>

ResourcesNext ==
  \/ SyncTurn(Next)
  \/ RestoreTurn(Restore!Next)
  \/ SnapshotTurn(Snapshot!Next)
  \/ RepoTurn(Repo!Next)
  \/ BackupTurn(Backup!Next)
  \/ JobTurn(Jobs!Next)
  \/ AuthTurn(Auth!Next)
  \/ BeatTurn(Beat!Next)
  \/ CertTurn(Cert!Next)

Operator ==
  \/ SyncTurn(Controller) \/ RestoreTurn(Restore!Operator)
  \/ SnapshotTurn(Snapshot!Operator) \/ RepoTurn(Repo!Operator)
  \/ BackupTurn(Backup!Operator) \/ JobTurn(Jobs!Operator)
  \/ AuthTurn(Auth!Operator) \/ BeatTurn(Beat!Operator)
  \/ CertTurn(Cert!Operator)

Others ==
  \/ SyncTurn(Synchronizer) \/ SnapshotTurn(Snapshot!Ends)
  \/ BackupTurn(Backup!RunJob) \/ JobTurn(Jobs!RunScript)
  \/ AuthTurn(Auth!Resync) \/ BeatTurn(Beat!Resync)
  \/ CertTurn(Cert!SecretEvent)
  \/ RestoreTurn(\E i \in RestoreIndices : Restore!Recover(i))

\* Steps are fair that change what is in focus: all that they can change.
inFocus ==
  CASE focus = "sync" -> vars
    [] focus = "restore" -> restoreVars
    [] focus = "snapshot" -> snapshotVars
    [] focus = "repository" -> repoVars
    [] focus = "backup" -> backupVars
    [] focus = "restore job" -> jobVars
    [] focus = "auth" -> authVars
    [] focus = "filebeat" -> beatVars
    [] focus = "certificate" -> certVars

\* The work queue of the resource in focus retries; OpenSearch ends what it
\* began, Kubernetes runs Jobs, the synchronizer goes on and the informers
\* send changes, and in time everything again.
Fairness == WF_inFocus(Operator) /\ WF_inFocus(Others)

ResourcesSpec ==
  ResourcesInit /\ [][ResourcesNext]_resourcesVars /\ Fairness

-----------------------------------------------------------------------------
ResourcesTypeOK ==
  CASE focus = "sync" -> TypeOK
    [] focus = "restore" -> Restore!TypeOK
    [] focus = "snapshot" -> Snapshot!TypeOK
    [] focus = "repository" -> Repo!TypeOK
    [] focus = "backup" -> Backup!TypeOK
    [] focus = "restore job" -> Jobs!TypeOK
    [] focus = "auth" -> Auth!TypeOK
    [] focus = "filebeat" -> Beat!TypeOK
    [] focus = "certificate" -> Cert!TypeOK
OneSnapshot == focus = "snapshot" => Snapshot!OneSnapshot
GoneIsUnregistered == focus = "repository" => Repo!GoneIsUnregistered
SavedBeforeOverwritten ==
  focus = "restore job" => Jobs!SavedBeforeOverwritten

\* A restore is carried out once: the OpenSearchRestore implements OneShot,
\* and a WazuhRestore that is Completed touches nothing any more.
RestoresOnce == Restore!RestoresOnce /\ Jobs!CompletedIsFinal

\* What a status says is so: a restore that was carried out is not Failed,
\* Completed and Partial are what became of the snapshot, a Ready repository
\* has the settings it observed, a backup is scheduled or suspended as it
\* says, a Completed WazuhRestore is complete, what a Ready resource asks for
\* is in its ConfigMaps, and a Ready WazuhCertificate has its certificate.
StatusIsTrue ==
  CASE focus = "sync" -> TRUE
    [] focus = "restore" -> Restore!FailureIsFinal
    [] focus = "snapshot" -> Snapshot!PhaseIsTrue
    [] focus = "repository" -> Repo!ReadyIsRegistered
    [] focus = "backup" -> Backup!BackupReportIsTrue
    [] focus = "restore job" -> Jobs!CompletedIsTrue
    [] focus = "auth" -> Auth!ReadyIsRendered
    [] focus = "filebeat" -> Beat!BeatReadyIsRendered
    [] focus = "certificate" -> Cert!CertificateIsMade

\* What was asked for comes to its end: OpenSearch holds what the resource
\* says and a deleted resource goes away, a restore ends, one failure of a
\* snapshot is made up for, an edited repository or Secret is registered, a
\* CronJob follows the edits and a one-shot backup is reported, ConfigMaps
\* follow the resource, its Secret and the user's files, a certificate the
\* resource and the CA.
Settles ==
  <>[](CASE focus = "sync" -> Converged /\ DeletionCompleted
         [] focus = "restore" -> Restore!RestoreEnded
         [] focus = "snapshot" -> Snapshot!FailureRetried
         [] focus = "repository" -> Repo!RegistrationFollowed
         [] focus = "backup" -> Backup!BackupFollowed
         [] focus = "restore job" -> Jobs!RestoreJobEnded
         [] focus = "auth" -> Auth!AuthFollowed
         [] focus = "filebeat" -> Beat!BeatFollowed
         [] focus = "certificate" -> Cert!CertificateFollowed)

=============================================================================

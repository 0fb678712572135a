--------------------------- MODULE CredentialSync ---------------------------
(***************************************************************************)
(* How a changed password reaches everything that uses it.  The pods read  *)
(* it from a Secret when they start; a pass over the cluster compares the  *)
(* hash of the Secret with the one in status.security and restarts the     *)
(* workloads.                                                              *)
(*   indexer   <cluster>-indexer-credentials, made by the operator: the    *)
(*             security Secret has the bcrypt hash, and securityadmin.sh   *)
(*             brings it to OpenSearch's security index                    *)
(*   external  the same, with the password of spec.indexer.credentials     *)
(*   api       <cluster>-api-credentials, of the Wazuh API                 *)
(* Passwords are numbers; a new one was never used before.  bcrypt hashes  *)
(* of a password count as one: findReusableBcryptHash keeps the salt.      *)
(***************************************************************************)
EXTENDS Naturals, Sequences, SequencesExt

CONSTANTS Passwords,               \* the passwords are 1..Passwords
          Followed,                \* the workloads whose pods are followed
          CredentialEdits,         \* how often a password is changed
          CredentialFaults,        \* how often something goes wrong
          CredentialEnvironments,  \* the sets of kinds of faults that may occur
          None                     \* no pod

(***************************************************************************)
(* exec     securityadmin.sh fails, before or after it did its work        *)
(* restart  the update of a workload fails                                 *)
(* write    a later step of the pass fails, or the status write is refused *)
(* cache    the operator reads the Secrets late                            *)
(* crash    the operator is killed                                         *)
(***************************************************************************)
CredentialFaultKinds == {"exec", "restart", "write", "cache", "crash"}

VARIABLES sEnv, sFaults,
          sEdits,      \* the changes that are yet to come
          secret,      \* the kind of Secret that is followed
          issued,      \* the number of the newest password
          external,    \* the password in spec.indexer.credentials' Secret
          creds,       \* the one in the Secret the pods read, 0 without Secret
          users,       \* the one whose hash the security Secret has
          index,       \* the one OpenSearch accepts, 0 before its first start
          late,        \* creds and users as the operator's cache has them
          synced,      \* status.security: the hashes, and SecurityReady
          copy,        \* status.security in the pass
          password,    \* adminPassword in the pass
          spc, left,   \* the pass, and the workloads it has yet to restart
          mark,        \* the recovery hash in the workloads' pod templates
          started,     \* the pods: template and Secrets when they started
          lost, early  \* restarts that failed; a change before the first hash

sVars == <<sEnv, sFaults, sEdits, secret, issued, external, creds, users, index, late,
           synced, copy, password, spc, left, mark, started, lost, early>>
sFixed == <<sEnv, secret>>
sInputs == <<sEdits, issued, external>>
sPods == <<mark, started, lost, early>>

\* In the order in which they are restarted.
Restarted ==
  SelectSeq(IF secret = "api" THEN <<"master", "workers", "dashboard">>
            ELSE <<"indexer", "master", "workers", "dashboard">>,
            LAMBDA w : w \in Followed[secret])
Workloads == Range(Restarted)
Users == secret # "api"

SecurityStatus == [creds : 0..Passwords, users : 0..Passwords, ready : BOOLEAN]
Pods == [mark : 0..Passwords, creds : 1..Passwords, users : 0..Passwords]

TypeOK ==
  /\ sEnv \in SUBSET CredentialFaultKinds /\ sFaults \in 0..CredentialFaults
  /\ sEdits \in 0..CredentialEdits
  /\ secret \in {"indexer", "external", "api"}
  /\ {issued, external, creds, users, index, password} \subseteq 0..Passwords
  /\ late \in [creds : 0..Passwords, users : 0..Passwords]
  /\ {synced, copy} \subseteq SecurityStatus
  /\ spc \in {"idle", "users", "sync", "restart", "check", "store"}
  /\ \E n \in 0..Len(Restarted) : left = SubSeq(Restarted, n + 1, Len(Restarted))
  /\ \A w \in Workloads :
       mark[w] \in 0..Passwords /\ started[w] \in Pods \cup {None}
  /\ lost \subseteq Workloads /\ early \in BOOLEAN

\* A new cluster; OpenSearch may still have the volumes, and with them the
\* password, of one that was deleted.
Init ==
  /\ sEnv \in CredentialEnvironments /\ sFaults = 0
  /\ sEdits \in 0..CredentialEdits
  /\ secret \in {"indexer", "external", "api"}
  /\ index \in IF Users THEN {0, 1} ELSE {0}
  /\ external = IF secret = "external" THEN index + 1 ELSE 0
  /\ issued = IF secret = "external" THEN external ELSE index
  /\ creds = 0 /\ users = 0 /\ late = [creds |-> 0, users |-> 0]
  /\ synced = [creds |-> 0, users |-> 0, ready |-> FALSE] /\ copy = synced
  /\ password = 0 /\ spc = "idle" /\ left = <<>>
  /\ mark = [w \in Workloads |-> 0] /\ started = [w \in Workloads |-> None]
  /\ lost = {} /\ early = FALSE

Fault(kind) ==
  kind \in sEnv /\ sFaults < CredentialFaults /\ sFaults' = sFaults + 1

\* What a read of the Secrets finds.
Now == [creds |-> creds, users |-> users]
Read == IF "cache" \in sEnv THEN late ELSE Now

-----------------------------------------------------------------------------
\* One pass.  An error ends it, and the work queue starts another one.
End == spc' = "idle" /\ left' = <<>> /\ password' = 0 /\ UNCHANGED copy

\* A Secret that is missing is made; one the cache has yet to show cannot be
\* made again.
createCredentials(new) ==
  /\ Read.creds = 0 /\ creds = 0 /\ creds' = new
  /\ issued' = IF new > issued THEN new ELSE issued

\* The pass begins.  The external password is not written to a Secret that
\* exists.
reconcileSecrets ==
  /\ spc = "idle" /\ Users
  /\ LET adminPassword == IF secret = "external" THEN external ELSE Read.creds
     IN \/ /\ createCredentials(IF secret = "external" THEN external ELSE issued + 1)
           /\ password' = creds'
        \/ Read.creds # 0 /\ password' = adminPassword /\ UNCHANGED <<creds, issued>>
  /\ copy' = synced /\ spc' = "users"
  /\ UNCHANGED <<sFixed, sFaults, sEdits, external, users, index, late, synced, left,
                 sPods>>

ensureAPICredentialsSecret ==
  /\ spc = "idle" /\ ~Users
  /\ \/ createCredentials(issued + 1)
     \/ Read.creds # 0 /\ UNCHANGED <<creds, issued>>
  /\ copy' = synced /\ spc' = "sync"
  /\ UNCHANGED <<sFixed, sFaults, sEdits, external, users, index, late, synced, password,
                 left, sPods>>

\* internal_users.yml of the security Secret.  An update of an old version of
\* it is refused, also when it is tried again.
createOrUpdateSecurity ==
  /\ spc = "users"
  /\ IF Read.users = users
     THEN users' = password /\ spc' = "sync" /\ UNCHANGED <<password, copy, left>>
     ELSE End /\ UNCHANGED users
  /\ UNCHANGED <<sFixed, sInputs, sFaults, creds, index, late, synced, sPods>>

\* The content of the Secret; without it the file the pod was started with.
internalUsersContent ==
  IF Read.users # 0 THEN Read.users ELSE started["indexer"].users

credentialsChanged == Read.creds # copy.creds
internalUsersChanged == Read.users # copy.users
joinSecuritySyncHash == [copy EXCEPT !.creds = Read.creds, !.users = Read.users]

ApplyInternalUsers == index' = internalUsersContent

\* What comes after the comparison.
AfterSync == IF Users THEN "check" ELSE "store"
Restart(really) ==
  IF really THEN left' = Restarted /\ spc' = "restart"
  ELSE left' = <<>> /\ spc' = AfterSync

\* Mutant of reconcileSecurityInitJob: the hash is kept although the push
\* failed.
SyncAnyway ==
  /\ spc = "sync" /\ Users
  /\ IF \/ started["indexer"] = None \/ Read.creds = 0
        \/ ~credentialsChanged /\ ~internalUsersChanged
     THEN spc' = "check" /\ UNCHANGED <<sFaults, index, copy, left>>
     ELSE /\ \/ ApplyInternalUsers /\ UNCHANGED sFaults
             \/ Fault("exec") /\ UNCHANGED index
          /\ copy' = joinSecuritySyncHash /\ Restart(credentialsChanged)
  /\ UNCHANGED <<sFixed, sInputs, creds, users, late, synced, password, sPods>>

\* Mutant: the workloads are restarted for new users only.
SyncRestartsForUsers ==
  /\ spc = "sync" /\ Users
  /\ IF \/ started["indexer"] = None \/ Read.creds = 0
        \/ ~credentialsChanged /\ ~internalUsersChanged
     THEN spc' = "check" /\ UNCHANGED <<sFaults, index, copy, left>>
     ELSE \/ /\ ApplyInternalUsers /\ UNCHANGED sFaults
             /\ copy' = joinSecuritySyncHash /\ Restart(internalUsersChanged)
          \/ /\ Fault("exec") /\ UNCHANGED index
             /\ spc' = "check" /\ UNCHANGED <<copy, left>>
  /\ UNCHANGED <<sFixed, sInputs, creds, users, late, synced, password, sPods>>

\* A failed push is tried again in the next pass.
reconcileSecurityInitJob ==
  /\ spc = "sync" /\ Users
  /\ IF \/ started["indexer"] = None \/ Read.creds = 0
        \/ ~credentialsChanged /\ ~internalUsersChanged
     THEN spc' = "check" /\ UNCHANGED <<sFaults, index, copy, left>>
     ELSE \/ /\ ApplyInternalUsers /\ UNCHANGED sFaults
             /\ copy' = joinSecuritySyncHash /\ Restart(credentialsChanged)
          \/ /\ Fault("exec") /\ (UNCHANGED index \/ ApplyInternalUsers)
             /\ spc' = "check" /\ UNCHANGED <<copy, left>>
  /\ UNCHANGED <<sFixed, sInputs, creds, users, late, synced, password, sPods>>

\* The first hash of the API's Secret is noted, a change of it means restarts.
reconcileAPICredentialsStatusAndRollout ==
  /\ spc = "sync" /\ ~Users
  /\ IF Read.creds \in {0, copy.creds} THEN spc' = "store" /\ UNCHANGED <<copy, left>>
     ELSE /\ copy' = [copy EXCEPT !.creds = Read.creds]
          /\ Restart(copy.creds # 0)
  /\ UNCHANGED <<sFixed, sInputs, sFaults, creds, users, index, late, synced, password,
                 sPods>>

\* The workloads are restarted one after the other.
Marked(w) == mark' = [mark EXCEPT ![w] = copy.creds] /\ lost' = lost \ {w}
GoOn ==
  /\ left' = Tail(left) /\ spc' = IF Len(left) > 1 THEN spc ELSE AfterSync
  /\ UNCHANGED <<copy, password>>

\* Of the indexer's Secret a failure is logged.
restartStatefulSet ==
  /\ spc = "restart" /\ Users /\ GoOn
  /\ \/ Marked(Head(left)) /\ UNCHANGED sFaults
     \/ Fault("restart") /\ lost' = lost \cup {Head(left)} /\ UNCHANGED mark
  /\ UNCHANGED <<sFixed, sInputs, creds, users, index, late, synced, started, early>>

\* Mutant of triggerStatefulSetRestartWithHash: a failure is logged.
TriggerOrGoOn ==
  /\ spc = "restart" /\ ~Users /\ GoOn
  /\ \/ Marked(Head(left)) /\ UNCHANGED sFaults
     \/ Fault("restart") /\ UNCHANGED <<mark, lost>>
  /\ UNCHANGED <<sFixed, sInputs, creds, users, index, late, synced, started, early>>

\* Of the API's Secret it ends the pass, and the hash is not stored.
triggerStatefulSetRestartWithHash ==
  /\ spc = "restart" /\ ~Users
  /\ \/ Marked(Head(left)) /\ GoOn /\ UNCHANGED sFaults
     \/ Fault("restart") /\ End /\ UNCHANGED <<mark, lost>>
  /\ UNCHANGED <<sFixed, sInputs, creds, users, index, late, synced, started, early>>

\* The operator logs in with the Secret's password and asks for the index.
GetClientForCluster == Read.creds
CheckInitialized == GetClientForCluster # 0 /\ index = GetClientForCluster

CheckSecurityInitialization ==
  /\ spc = "check" /\ spc' = "store"
  /\ copy' = [copy EXCEPT !.ready = started["indexer"] # None /\ CheckInitialized]
  /\ UNCHANGED <<sFixed, sInputs, sFaults, creds, users, index, late, synced, password,
                 left, sPods>>

StoreStatus ==
  /\ spc = "store" /\ End
  /\ \/ synced' = copy /\ UNCHANGED sFaults
     \/ Fault("write") /\ UNCHANGED synced
  /\ UNCHANGED <<sFixed, sInputs, creds, users, index, late, sPods>>

Crash ==
  /\ spc # "idle" /\ Fault("crash") /\ End
  /\ UNCHANGED <<sFixed, sInputs, creds, users, index, late, synced, sPods>>

Operator ==
  \/ reconcileSecrets \/ ensureAPICredentialsSecret \/ createOrUpdateSecurity
  \/ reconcileSecurityInitJob \/ reconcileAPICredentialsStatusAndRollout
  \/ restartStatefulSet \/ triggerStatefulSetRestartWithHash
  \/ CheckSecurityInitialization \/ StoreStatus

-----------------------------------------------------------------------------
\* The cache shows the Secrets as they are now.
CacheFollows ==
  /\ "cache" \in sEnv /\ late # Now /\ late' = Now
  /\ UNCHANGED <<sFixed, sInputs, sFaults, creds, users, index, synced, copy, password,
                 spc, left, sPods>>

\* A pod starts when its Secrets are there: the first one, or one with a new
\* template.  OpenSearch makes its index from the security Secret once.
StartPod(w) ==
  /\ creds # 0 /\ (w = "indexer" => users # 0)
  /\ started[w] # None => started[w].mark # mark[w]
  /\ started' = [started EXCEPT ![w] = [mark |-> mark[w], creds |-> creds,
       users |-> IF w = "indexer" THEN users ELSE 0]]
  /\ index' = IF w = "indexer" /\ index = 0 THEN users ELSE index
  /\ UNCHANGED <<sFixed, sInputs, sFaults, creds, users, late, synced, copy, password,
                 spc, left, mark, lost, early>>

Cluster == CacheFollows \/ \E w \in Workloads : StartPod(w)

\* Whether pods run with a password the operator has no hash of.
Unnoted == synced.creds = 0 /\ \E w \in Workloads : started[w] # None

\* Somebody deletes the Secret, to have a new password, or writes one.
Rotate ==
  /\ creds # 0 /\ sEdits > 0 /\ sEdits' = sEdits - 1
  /\ \/ creds' = 0 /\ UNCHANGED issued
     \/ secret # "external" /\ creds' = issued + 1 /\ issued' = issued + 1
  /\ early' = (early \/ Unnoted)
  /\ UNCHANGED <<sFixed, sFaults, external, users, index, late, synced, copy, password,
                 spc, left, mark, started, lost>>

RotateExternal ==
  /\ secret = "external" /\ sEdits > 0 /\ sEdits' = sEdits - 1
  /\ external' = issued + 1 /\ issued' = issued + 1
  /\ UNCHANGED <<sFixed, sFaults, creds, users, index, late, synced, copy, password,
                 spc, left, sPods>>

Next == Operator \/ Crash \/ Cluster \/ Rotate \/ RotateExternal

-----------------------------------------------------------------------------
Excused == ~Users /\ early

\* What status.security says has happened: OpenSearch has the users whose hash
\* it names, and every pod has the Secret it names or is to be replaced.  Two
\* cases escape: a restart that failed, which the indexer's Secret does not try
\* again, and an API password changed before the first hash of it was stored.
SyncedIsTrue ==
  /\ Users /\ synced.users # 0 /\ synced.users = users => index = users
  /\ creds # 0 /\ synced.creds = creds =>
       \A w \in Workloads :
         \/ started[w] = None \/ started[w].creds = creds \/ started[w].mark # mark[w]
         \/ w \in lost \/ Excused

\* In the end one password is everywhere, but for those cases: in the Secret,
\* in the status, in OpenSearch, in the pods, and the operator can log in.
\* An external password reaches OpenSearch; the Secret keeps the one it was
\* made with, and then neither the operator nor the pods can log in.
CredentialsFollow ==
  /\ creds # 0 /\ synced.creds = creds
  /\ \A w \in Workloads :
       started[w] # None /\ (started[w].creds = creds \/ w \in lost \/ Excused)
  /\ Users => /\ synced.users = users /\ index = users
              /\ users = IF secret = "external" THEN external ELSE creds
              /\ synced.ready = (creds = users)

=============================================================================

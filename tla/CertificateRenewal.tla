------------------------- MODULE CertificateRenewal -------------------------
(***************************************************************************)
(* The certificates of one WazuhCluster: the CertificateReconciler issues  *)
(* the CA and the six certificates it signs, renews them before they       *)
(* expire, and hands hashes of the Secrets to the workload reconcilers,    *)
(* which stamp them on the pod templates so that the pods restart.  The    *)
(* indexer's pods are meant to reload their certificate without a restart. *)
(*                                                                         *)
(* Time counts in days.  A reconcile takes no time, and each day has at    *)
(* least one (the controller asks to be called again after 30 seconds).    *)
(*                                                                         *)
(* A Secret is the number of the certificate in it, the number of the CA   *)
(* stored beside it, the day it expires, and whether it is usable: one     *)
(* that does not parse, or has names of another cluster domain, is not.    *)
(* The hash of a Secret is its number, and 0 is the empty string.          *)
(***************************************************************************)
EXTENDS Integers, Sequences

CONSTANTS
  Order,                        \* the certificates, as they are reconciled
  CAValidity, CAThreshold,      \* certConfig: caValidity, caRenewalThreshold
  NodeValidity, NodeThreshold,  \* certConfig: validity, renewalThreshold
  Period, Duration, MaxWait,    \* caMaintenance: the window's schedule, ...
  MaxTime,                      \* bound on the days a behaviour has
  MaxEvents,                    \* bound on what goes wrong or users do
  Environments,                 \* what Init chooses from, see Environment
  None                          \* what is not there

ASSUME CertConstants ==
  /\ {CAValidity, CAThreshold, NodeValidity, NodeThreshold} \subseteq Nat \ {0}
  /\ Period \in Nat \ {0} /\ Duration \in 2..Period /\ MaxWait \in Nat
  /\ {MaxTime, MaxEvents} \subseteq Nat
  /\ None \notin Nat

(* ReconcileWithHashes goes through the certificates in the order of the   *)
(* list; instances may leave out some that are treated like others.        *)
AllCerts == <<"master", "worker", "indexer", "dashboard", "filebeat", "admin">>

ASSUME OrderAssumption ==
  /\ Order \in Seq({AllCerts[i] : i \in DOMAIN AllCerts})
  /\ \E i \in DOMAIN Order : Order[i] = "indexer"
  /\ \A i, j \in DOMAIN Order : i < j =>
       \E k, l \in DOMAIN AllCerts :
         k < l /\ Order[i] = AllCerts[k] /\ Order[j] = AllCerts[l]

Certs == {Order[i] : i \in DOMAIN Order}

\* A certificate in a list, if it is one of those followed.
Listed(c) == IF c \in Certs THEN <<c>> ELSE <<>>

(* collectCertHashes reads the Secrets in this order.                      *)
HashOrder ==
  Listed("dashboard") \o <<"indexer">> \o Listed("master") \o Listed("worker")
    \o Listed("filebeat") \o Listed("admin")

(* Reconcile updates the workloads in this order.                          *)
ApplyOrder ==
  <<"indexer">> \o Listed("master") \o Listed("worker") \o Listed("dashboard")

Workloads == {ApplyOrder[i] : i \in DOMAIN ApplyOrder}

(* What may happen in a behaviour (interrupt: a crash, an API error or an  *)
(* early return ends the reconcile; k8s: a Secret cannot be read while the *)
(* hashes are collected; reload: the reload API fails; user: Secrets are   *)
(* deleted or damaged; spec: a workload is changed), when the CA may be    *)
(* renewed, whether the schedule and the time zone of the window parse,    *)
(* and what the Wazuh version and spec.tls.hotReload allow.                *)
Environment ==
  [faults : SUBSET {"interrupt", "k8s", "reload", "user", "spec"},
   policy : {"always", "manual", "windows"},
   parses : BOOLEAN,
   reload : {"automatic", "api", "none"},
   offset : 0..Period - 1]

ASSUME EnvironmentsAssumption == Environments \subseteq Environment

VARIABLES
  env,       \* the environment of this behaviour
  now,       \* the day
  due,       \* no reconcile has ended today
  left,      \* how many more events there may be
  serial,    \* the number of the last certificate generated
  spec,      \* the version of the workloads' specification
  ca,        \* the Secret <cluster>-ca
  secret,    \* the Secrets of the certificates
  template,  \* per workload: its pod template, None before it is created
  pods,      \* per workload: what its pods were started with and have loaded
  pc,        \* where the reconcile is: "idle", or the next step and its index
  mem        \* what the reconcile has in memory

vars == <<env, now, due, left, serial, spec, ca, secret, template, pods, pc, mem>>

world == <<env, now, left, spec>>

(* CertHashResult, with the specification the reconcile has read and the   *)
(* CA it signs with.                                                       *)
NoResult ==
  [spec |-> 0, signer |-> None, caRenewed |-> FALSE, indexerRenewed |-> FALSE,
   reloadError |-> FALSE, hashes |-> [c \in Certs |-> 0]]

Init ==
  /\ env \in Environments
  /\ now = 0 /\ due = TRUE /\ left = MaxEvents /\ serial = 0 /\ spec = 0
  /\ ca = None
  /\ secret = [c \in Certs |-> None]
  /\ template = [w \in Workloads |-> None]
  /\ pods = [w \in Workloads |-> None]
  /\ pc = <<"idle", 0>>
  /\ mem = NoResult

(* NeedsRenewal of a CA or another certificate.                            *)
NeedsRenewal(cert, threshold) == now > cert.expires - threshold

-----------------------------------------------------------------------------
(* The maintenance windows of the CA.                                      *)

(* The last start of the window on or before today.                        *)
LastWindowStart == now - ((now + env.offset) % Period)

IsWithinWindow == now > LastWindowStart /\ now < LastWindowStart + Duration

NextWindowStart == LastWindowStart + Period

(* A window that does not parse is skipped.  With none left the next       *)
(* window is the zero time.                                                *)
NextWindow == IF env.parses THEN NextWindowStart ELSE None

(* Mutant: a window that comes too late does not force the renewal.        *)
RenewalInWindow ==
  \/ env.policy = "always"
  \/ env.policy = "windows" /\ env.parses /\ IsWithinWindow

(* checkCAMaintenanceWindow: whether the CA may be renewed now, forced if  *)
(* the next window comes after its end.                                    *)
AllowRenewal ==
  \/ env.policy = "always"
  \/ /\ env.policy = "windows"
     /\ \/ env.parses /\ IsWithinWindow
        \/ /\ ca.expires - now < MaxWait
           /\ NextWindow # None /\ NextWindow > ca.expires

-----------------------------------------------------------------------------
(* The steps of a reconcile.                                               *)

(* Reconcile is called again and again, by its RequeueAfter or an event.   *)
StartReconcile ==
  /\ pc = <<"idle", 0>>
  /\ pc' = <<"ca", 0>>
  /\ mem' = [NoResult EXCEPT !.spec = spec]
  /\ UNCHANGED <<world, due, serial, ca, secret, template, pods>>

(* reconcileCA: the CA is there and not about to expire.                   *)
KeepCA ==
  /\ pc[1] = "ca"
  /\ ca # None /\ ca.good /\ ~NeedsRenewal(ca, CAThreshold)
  /\ mem' = [mem EXCEPT !.signer = ca.id]
  /\ pc' = <<"certs", 1>>
  /\ UNCHANGED <<world, due, serial, ca, secret, template, pods>>

(* reconcileCA: the CA is to be renewed but has to wait.  Reconciling the  *)
(* certificates is skipped, only the hashes are collected.                 *)
CARenewalPending ==
  /\ pc[1] = "ca"
  /\ ca # None /\ ca.good /\ NeedsRenewal(ca, CAThreshold) /\ ~AllowRenewal
  /\ pc' = <<"collect", 0>>
  /\ UNCHANGED <<world, due, serial, ca, secret, template, pods, mem>>

(* reconcileCA: a new CA, with a new key, replaces the old one if any.     *)
GenerateCA ==
  /\ pc[1] = "ca"
  /\ (ca # None /\ ca.good) => (NeedsRenewal(ca, CAThreshold) /\ AllowRenewal)
  /\ serial' = serial + 1
  /\ ca' = [id |-> serial', expires |-> now + CAValidity, good |-> TRUE]
  /\ mem' = [mem EXCEPT !.signer = serial', !.caRenewed = ca # None]
  /\ pc' = <<"certs", 1>>
  /\ UNCHANGED <<world, due, secret, template, pods>>

(* Mutant: a certificate is renewed once it has expired.                   *)
NeedsNewCertLate(c) ==
  secret[c] = None \/ ~secret[c].good \/ now > secret[c].expires

(* Whether reconcileNodeCertWithRenewalStatus, reconcileDashboardCerts,    *)
(* reconcileFilebeatCerts or reconcileAdminCerts issues a certificate: one *)
(* signed by a CA that is no longer the CA is no reason.                   *)
NeedsNewCert(c) ==
  secret[c] = None \/ ~secret[c].good \/ NeedsRenewal(secret[c], NodeThreshold)

(* The turn of one of these certificates: it is issued if it has to be.  A *)
(* Secret that was missing counts as created, not as renewed.              *)
ReconcileCert(cs) ==
  LET c == Order[pc[2]] IN
  /\ pc[1] = "certs" /\ c \in cs
  /\ IF NeedsNewCert(c)
       THEN /\ serial' = serial + 1
            /\ secret' = [secret EXCEPT ![c] =
                 [id |-> serial', ca |-> mem.signer,
                  expires |-> now + NodeValidity, good |-> TRUE]]
            /\ mem' = [mem EXCEPT !.indexerRenewed =
                         @ \/ (c = "indexer" /\ secret[c] # None)]
       ELSE UNCHANGED <<serial, secret, mem>>
  /\ pc' = IF pc[2] = Len(Order) THEN <<"collect", 0>> ELSE <<"certs", pc[2] + 1>>
  /\ UNCHANGED <<world, due, ca, template, pods>>

(* reconcileNodeCertWithRenewalStatus                                      *)
ReconcileNodeCert == ReconcileCert({"master", "worker", "indexer"})

ReconcileDashboardCerts == ReconcileCert({"dashboard"})

ReconcileFilebeatCerts == ReconcileCert({"filebeat"})

(* Bringing the admin's key to PKCS#8, which leaves its certificate as it  *)
(* is and concerns no workload's hash, is left out.                        *)
ReconcileAdminCerts == ReconcileCert({"admin"})

(* Mutant: the hash of a Secret that is not found is not the empty string. *)
NoSecretHash(c) == IF secret[c] = None THEN None ELSE secret[c].id

(* getSecretHash                                                           *)
SecretHash(c) == IF secret[c] = None THEN 0 ELSE secret[c].id

(* collectCertHashes.  When a Secret cannot be read the error is logged    *)
(* and the hashes from it on stay empty.                                   *)
CollectCertHashes ==
  /\ pc[1] = "collect"
  /\ \E n \in IF "k8s" \in env.faults /\ left > 0 THEN 0..Len(HashOrder)
                                                  ELSE {Len(HashOrder)} :
       /\ mem' = [mem EXCEPT !.hashes =
            [c \in Certs |-> IF \E i \in 1..n : HashOrder[i] = c
                               THEN SecretHash(c) ELSE 0]]
       /\ left' = IF n < Len(HashOrder) THEN left - 1 ELSE left
  /\ pc' = <<"reload", 0>>
  /\ UNCHANGED <<env, now, spec, due, serial, ca, secret, template, pods>>

(* The first pod of the indexer has reloaded the certificate of the Secret *)
(* (HotReload has the other pods); its trust store is only read when it    *)
(* starts.  A volume keeps what it has when its Secret is deleted.         *)
IndexerReloads ==
  IF secret["indexer"] = None
    THEN UNCHANGED pods
    ELSE pods' = [pods EXCEPT !["indexer"].cert = secret["indexer"].id]

(* The end of ReconcileWithHashes: TriggerCertificateHotReload is called   *)
(* when the indexer's certificate was renewed and the CA was not.  It is   *)
(* an error if the API cannot be called, and none if the version has no    *)
(* hot reload or it is switched off.                                       *)
TriggerHotReload ==
  /\ pc[1] = "reload"
  /\ \/ /\ mem.indexerRenewed /\ ~mem.caRenewed /\ env.reload = "api"
        /\ \/ /\ pods["indexer"] # None
              /\ IndexerReloads
              /\ UNCHANGED <<mem, left>>
           \/ /\ pods["indexer"] = None \/ ("reload" \in env.faults /\ left > 0)
              /\ mem' = [mem EXCEPT !.reloadError = TRUE]
              /\ left' = IF pods["indexer"] = None THEN left ELSE left - 1
              /\ UNCHANGED pods
     \/ /\ ~(mem.indexerRenewed /\ ~mem.caRenewed /\ env.reload = "api")
        /\ UNCHANGED <<mem, pods, left>>
  /\ pc' = <<"apply", 1>>
  /\ UNCHANGED <<env, now, spec, due, serial, ca, secret, template>>

(* Mutant: the indexer is restarted for a new CA only.                     *)
CertHashNoFallback(w) ==
  IF w # "indexer" \/ mem.caRenewed THEN mem.hashes[w] ELSE 0

(* The hash Reconcile hands to the reconciler of the workload.  The one of *)
(* the indexer is empty unless its pods have to restart.                   *)
CertHash(w) ==
  IF \/ w # "indexer"
     \/ mem.caRenewed
     \/ mem.indexerRenewed /\ mem.reloadError
    THEN mem.hashes[w] ELSE 0

(* Mutant: the template is updated when the CA was renewed.                *)
NeedsUpdateOnce(w) ==
  \/ mem.caRenewed /\ CertHash(w) # template[w].hash
  \/ template[w].spec # mem.spec

(* Whether the template in the cluster differs in what is compared.        *)
NeedsUpdate(w) ==
  \/ CertHash(w) # 0 /\ CertHash(w) # template[w].hash
  \/ template[w].spec # mem.spec

(* The turn of one of these workloads: it is created, or updated as a      *)
(* whole when what is compared differs.                                    *)
ApplyWorkload(ws) ==
  LET w == ApplyOrder[pc[2]] IN
  /\ pc[1] = "apply" /\ w \in ws
  /\ IF template[w] = None \/ NeedsUpdate(w)
       THEN template' = [template EXCEPT ![w] =
                           [hash |-> CertHash(w), spec |-> mem.spec]]
       ELSE UNCHANGED template
  /\ IF pc[2] = Len(ApplyOrder)
       THEN pc' = <<"idle", 0>> /\ due' = FALSE /\ mem' = NoResult
       ELSE pc' = <<"apply", pc[2] + 1>> /\ UNCHANGED <<due, mem>>
  /\ UNCHANGED <<world, serial, ca, secret, pods>>

(* reconcileStatefulSetNonBlocking of the indexer                          *)
ApplyIndexer == ApplyWorkload({"indexer"})

(* reconcileMasterNonBlocking and reconcileWorkersNonBlocking              *)
ApplyManager == ApplyWorkload({"master", "worker"})

(* reconcileDeploymentNonBlocking of the dashboard                         *)
ApplyDashboard == ApplyWorkload({"dashboard"})

(* The reconcile ends early: the operator crashes, a request fails, or a   *)
(* drain in progress or a dry run returns before the workloads' turn.      *)
Interrupt ==
  /\ "interrupt" \in env.faults /\ left > 0
  /\ pc[1] # "idle"
  /\ left' = left - 1
  /\ pc' = <<"idle", 0>> /\ due' = FALSE /\ mem' = NoResult
  /\ UNCHANGED <<env, now, spec, serial, ca, secret, template, pods>>

Reconcile ==
  \/ StartReconcile \/ KeepCA \/ CARenewalPending \/ GenerateCA
  \/ ReconcileNodeCert \/ ReconcileDashboardCerts
  \/ ReconcileFilebeatCerts \/ ReconcileAdminCerts
  \/ CollectCertHashes \/ TriggerHotReload
  \/ ApplyIndexer \/ ApplyManager \/ ApplyDashboard

-----------------------------------------------------------------------------
(* Kubernetes, OpenSearch, time and users.                                 *)

(* The pods of a workload restart with its template and read the Secret,   *)
(* without which they cannot start.                                        *)
RestartPods(w) ==
  /\ template[w] # None /\ secret[w] # None
  /\ pods[w] # None => pods[w].template # template[w]
  /\ pods' = [pods EXCEPT ![w] =
       [template |-> template[w], cert |-> secret[w].id, ca |-> secret[w].ca]]
  /\ UNCHANGED <<world, due, serial, ca, secret, template, pc, mem>>

(* OpenSearch 2.19 and later sees that the mounted certificate changed.    *)
AutomaticReload ==
  /\ env.reload = "automatic"
  /\ pods["indexer"] # None /\ secret["indexer"] # None
  /\ pods["indexer"].cert # secret["indexer"].id
  /\ IndexerReloads
  /\ UNCHANGED <<world, due, serial, ca, secret, template, pc, mem>>

Tick ==
  /\ now < MaxTime /\ ~due /\ pc[1] = "idle"
  /\ now' = now + 1 /\ due' = TRUE
  /\ UNCHANGED <<env, left, serial, spec, ca, secret, template, pods, pc, mem>>

(* A user deletes a Secret, which is how a renewal is forced, or replaces  *)
(* its content by something that cannot be used.                           *)
UserChangesSecret(c) ==
  /\ "user" \in env.faults /\ left > 0 /\ left' = left - 1
  /\ secret[c] # None
  /\ serial' = serial + 1
  /\ \/ secret' = [secret EXCEPT ![c] = None]
     \/ secret' = [secret EXCEPT ![c].id = serial', ![c].good = FALSE]
  /\ UNCHANGED <<env, now, spec, due, ca, template, pods, pc, mem>>

UserChangesCA ==
  /\ "user" \in env.faults /\ left > 0 /\ left' = left - 1
  /\ ca # None
  /\ \/ ca' = None
     \/ ca' = [ca EXCEPT !.good = FALSE]
  /\ UNCHANGED <<env, now, spec, due, serial, secret, template, pods, pc, mem>>

UserChangesSpec ==
  /\ "spec" \in env.faults /\ left > 0 /\ left' = left - 1
  /\ spec' = spec + 1
  /\ UNCHANGED <<env, now, due, serial, ca, secret, template, pods, pc, mem>>

Next ==
  \/ Reconcile \/ Interrupt \/ Tick
  \/ \E w \in Workloads : RestartPods(w)
  \/ AutomaticReload
  \/ \E c \in Certs : UserChangesSecret(c)
  \/ UserChangesCA \/ UserChangesSpec

Spec == Init /\ [][Next]_vars

FairSpec ==
  /\ Spec
  /\ WF_vars(Reconcile)
  /\ \A w \in Workloads : WF_vars(RestartPods(w))
  /\ WF_vars(AutomaticReload)

-----------------------------------------------------------------------------
(* Properties.                                                             *)

Cert == [id : 1..serial, ca : 1..serial, expires : 1..(MaxTime + NodeValidity),
         good : BOOLEAN]

Template == [hash : 0..serial, spec : 0..MaxEvents]

(* What every variable holds: the Secrets, the pod templates with the hash *)
(* annotations, the pods, and the CertHashResult of the reconcile, in      *)
(* which the hash of a Secret that is not there is the empty string.       *)
TypeOK ==
  /\ env \in Environments
  /\ now \in 0..MaxTime /\ due \in BOOLEAN /\ left \in 0..MaxEvents
  /\ serial \in Nat /\ spec \in 0..MaxEvents
  /\ ca = None \/ ca \in [id : 1..serial, expires : 1..(MaxTime + CAValidity),
                          good : BOOLEAN]
  /\ \A c \in Certs : secret[c] = None \/ secret[c] \in Cert
  /\ \A w \in Workloads :
       /\ template[w] = None \/ template[w] \in Template
       /\ \/ pods[w] = None
          \/ pods[w] \in [template : Template, cert : 1..serial, ca : 1..serial]
  /\ pc \in {<<"idle", 0>>, <<"ca", 0>>, <<"collect", 0>>, <<"reload", 0>>}
            \cup {<<"certs", i>> : i \in DOMAIN Order}
            \cup {<<"apply", i>> : i \in DOMAIN ApplyOrder}
  /\ mem \in [spec : 0..MaxEvents, signer : (1..serial) \cup {None},
              caRenewed : BOOLEAN, indexerRenewed : BOOLEAN,
              reloadError : BOOLEAN, hashes : [Certs -> 0..serial]]

(* No reconcile is running, and none was cut short or had its Secrets      *)
(* changed under it.                                                       *)
Quiet == pc[1] = "idle" /\ env.faults \cap {"interrupt", "user"} = {}

(* AutoRestart is on, and with windows one of them parses and MaxWait is   *)
(* not zero, which the pattern of the CRD allows.                          *)
Renewable ==
  \/ env.policy = "always"
  \/ env.policy = "windows" /\ env.parses /\ MaxWait > 0

(* Whatever the days of the maintenance windows are, the CA is renewed     *)
(* before it expires: checkCAMaintenanceWindow either meets a window in    *)
(* time or forces the renewal.  It does neither with AutoRestart off, when *)
(* no window parses, or when MaxWait is zero.                              *)
CAOutlivesItsWindows ==
  Quiet /\ Renewable /\ ca # None => now <= ca.expires

(* No certificate expires in its Secret, not even in the hours before the  *)
(* day's reconcile, unless the renewal of the CA has to wait: while it is  *)
(* pending ReconcileWithHashes skips the other certificates.               *)
ExpiresOnlyWhileCAWaits ==
  Quiet =>
    \/ \A c \in Certs : secret[c] # None => now <= secret[c].expires
    \/ env.policy # "always" /\ NeedsRenewal(ca, CAThreshold)

(* The pods of the workload use the certificate in its Secret.             *)
UsesItsSecret(w) ==
  secret[w] # None => pods[w] # None /\ pods[w].cert = secret[w].id

(* The hash annotation compares what is stored, so whatever crashes, fails *)
(* or is deleted on the way, manager and dashboard pods end up with the    *)
(* certificate in their Secret.                                            *)
WorkloadsCatchUp ==
  <>[](\A w \in Workloads \ {"indexer"} : UsesItsSecret(w))

(* The indexer's first pod ends up with the certificate in its Secret when *)
(* the version supports hot reload and each reconcile that renews comes to *)
(* its end: a reload that fails falls back to a restart.                   *)
IndexerCatchesUp ==
  <>[](env.reload # "none" /\ env.faults \subseteq {"reload", "spec"}
         => UsesItsSecret("indexer"))

(* "CA renews and all node certs verify against new CA"                    *)
(* (docs/dev/testing/certificate-renewal-scenarios.md): after a reconcile  *)
(* the certificates are signed by the CA in the CA's Secret.               *)
CertsVerifyAgainstCA ==
  Quiet /\ ~due => \A c \in Certs : secret[c] # None => secret[c].ca = ca.id

=============================================================================

---------------------- MODULE CertificateRenewalProofs ----------------------
(***************************************************************************)
(* Proofs about CertificateRenewal, for any certificates, validities,      *)
(* thresholds and maintenance windows.                                     *)
(***************************************************************************)
EXTENDS CertificateRenewal, TLAPS

-----------------------------------------------------------------------------
(***************************************************************************)
(* The lists the reconcile goes through.                                   *)
(***************************************************************************)

\* Order lists certificates, the indexer's among them.
LEMMA OrderIsList ==
  /\ DOMAIN Order = 1..Len(Order) /\ Len(Order) \in Nat \ {0}
  /\ "indexer" \in Certs
  /\ \A i \in 1..Len(Order) : Order[i] \in Certs
<1>1. Order \in Seq({AllCerts[i] : i \in DOMAIN AllCerts})
  BY OrderAssumption
<1>2. DOMAIN Order = 1..Len(Order) /\ Len(Order) \in Nat
  BY <1>1
<1>3. \E i \in DOMAIN Order : Order[i] = "indexer"
  BY OrderAssumption
<1> HIDE DEF AllCerts
<1> QED  BY <1>2, <1>3 DEF Certs

\* The workloads are those that have a certificate; the indexer is the first.
LEMMA ApplyOrderIsList ==
  /\ Len(ApplyOrder) \in 1..4 /\ DOMAIN ApplyOrder = 1..Len(ApplyOrder)
  /\ "indexer" \in Workloads /\ Workloads \subseteq Certs
  /\ \A i \in 1..Len(ApplyOrder) : ApplyOrder[i] \in Workloads
<1>1. Len(ApplyOrder) \in 1..4
  BY DEF ApplyOrder, Listed
<1>2. DOMAIN ApplyOrder = 1..Len(ApplyOrder)
  BY DEF ApplyOrder, Listed
<1>3. ApplyOrder[1] = "indexer"
  BY DEF ApplyOrder, Listed
<1>4. ASSUME NEW i \in 1..Len(ApplyOrder) PROVE ApplyOrder[i] \in Certs
  BY <1>4, OrderIsList DEF ApplyOrder, Listed
<1> QED  BY <1>1, <1>2, <1>3, <1>4 DEF Workloads

\* The hashes are collected in a list of at most six.
LEMMA HashOrderIsList == Len(HashOrder) \in 1..6
  BY DEF HashOrder, Listed

-----------------------------------------------------------------------------
(***************************************************************************)
(* Types.                                                                  *)
(***************************************************************************)
CASecret == [id : 1..serial, expires : 1..(MaxTime + CAValidity), good : BOOLEAN]
Pod == [template : Template, cert : 1..serial, ca : 1..serial]
Memory ==
  [spec : 0..MaxEvents, signer : (1..serial) \cup {None}, caRenewed : BOOLEAN,
   indexerRenewed : BOOLEAN, reloadError : BOOLEAN, hashes : [Certs -> 0..serial]]
Steps ==
  {<<"idle", 0>>, <<"ca", 0>>, <<"collect", 0>>, <<"reload", 0>>}
  \cup {<<"certs", i>> : i \in DOMAIN Order}
  \cup {<<"apply", i>> : i \in DOMAIN ApplyOrder}

Counters ==
  /\ env \in Environments
  /\ now \in 0..MaxTime /\ due \in BOOLEAN /\ left \in 0..MaxEvents
  /\ serial \in Nat /\ spec \in 0..MaxEvents /\ spec + left <= MaxEvents
Secrets ==
  /\ ca \in CASecret \cup {None}
  /\ secret \in [Certs -> Cert \cup {None}]
Running ==
  /\ template \in [Workloads -> Template \cup {None}]
  /\ pods \in [Workloads -> Pod \cup {None}]
Passing ==
  /\ pc \in Steps /\ mem \in Memory
  /\ pc[1] = "certs" => mem.signer \in 1..serial

\* The types, with what keeps the users' events within their bound and the
\* certificates signed.
Types == Counters /\ Secrets /\ Running /\ Passing

\* Where the reconcile can be.
LEMMA StepForms ==
  ASSUME pc \in Steps
  PROVE  /\ pc[1] \in {"idle", "ca", "collect", "reload", "certs", "apply"}
         /\ pc[1] = "certs" => pc[2] \in 1..Len(Order)
         /\ pc[1] = "apply" => pc[2] \in 1..Len(ApplyOrder)
         /\ pc[1] = "idle" => pc = <<"idle", 0>>
<1> USE OrderIsList, ApplyOrderIsList DEF Steps
<1>1. CASE pc \in {<<"idle", 0>>, <<"ca", 0>>, <<"collect", 0>>, <<"reload", 0>>}
  BY <1>1
<1>2. CASE \E i \in DOMAIN Order : pc = <<"certs", i>>
  BY <1>2
<1>3. CASE \E i \in DOMAIN ApplyOrder : pc = <<"apply", i>>
  BY <1>3
<1> QED  BY <1>1, <1>2, <1>3

\* Where it can go.
LEMMA StepsAre ==
  /\ {<<"idle", 0>>, <<"ca", 0>>, <<"collect", 0>>, <<"reload", 0>>} \subseteq Steps
  /\ \A i \in 1..Len(Order) : <<"certs", i>> \in Steps
  /\ \A i \in 1..Len(ApplyOrder) : <<"apply", i>> \in Steps
  BY OrderIsList, ApplyOrderIsList DEF Steps

\* Certificates are numbered upwards: what has a number has it still.
LEMMA NumbersStay ==
  ASSUME serial \in Nat, serial' \in Nat, serial <= serial'
  PROVE  /\ 1..serial \subseteq 1..serial' /\ 0..serial \subseteq 0..serial'
         /\ CASecret \subseteq CASecret' /\ Cert \subseteq Cert'
         /\ Template \subseteq Template' /\ Pod \subseteq Pod'
         /\ Memory \subseteq Memory'
<1>1. 1..serial \subseteq 1..serial' /\ 0..serial \subseteq 0..serial'
  OBVIOUS
<1>2. CASecret \subseteq CASecret' /\ Cert \subseteq Cert' /\ Template \subseteq Template'
  BY <1>1 DEF CASecret, Cert, Template
<1>3. Pod \subseteq Pod'
  BY <1>1, <1>2 DEF Pod
<1>4. [Certs -> 0..serial] \subseteq [Certs -> 0..serial']
  BY <1>1
<1>5. Memory \subseteq Memory'
  BY <1>1, <1>4 DEF Memory
<1> QED  BY <1>1, <1>2, <1>3, <1>5

\* A step that leaves some of the state alone keeps its types.
LEMMA TypesStay ==
  ASSUME Types, serial' \in Nat, serial <= serial'
  PROVE  /\ UNCHANGED <<ca, secret>> => Secrets'
         /\ UNCHANGED <<template, pods>> => Running'
         /\ UNCHANGED mem => mem' \in Memory'
<1>1. serial \in Nat
  BY DEF Types, Counters
<1>2. /\ CASecret \subseteq CASecret' /\ Cert \subseteq Cert'
      /\ Template \subseteq Template' /\ Pod \subseteq Pod' /\ Memory \subseteq Memory'
  BY <1>1, NumbersStay
<1>3. UNCHANGED <<ca, secret>> => Secrets'
  BY <1>2 DEF Types, Secrets
<1>4. UNCHANGED <<template, pods>> => Running'
  BY <1>2 DEF Types, Running
<1> QED  BY <1>2, <1>3, <1>4 DEF Types, Passing

\* What a reconcile starts with.
LEMMA EmptyMemory ==
  ASSUME serial \in Nat, MaxEvents \in Nat
  PROVE  /\ NoResult \in Memory
         /\ \A n \in 0..MaxEvents : [NoResult EXCEPT !.spec = n] \in Memory
<1>1. [c \in Certs |-> 0] \in [Certs -> 0..serial]
  OBVIOUS
<1>2. NoResult \in Memory
  BY <1>1 DEF NoResult, Memory
<1>3. ASSUME NEW n \in 0..MaxEvents PROVE [NoResult EXCEPT !.spec = n] \in Memory
  BY <1>2 DEF Memory
<1> QED  BY <1>2, <1>3

\* A reconcile that ends, or starts over, leaves nothing behind.
LEMMA IdlePasses ==
  ASSUME Types, pc' = <<"idle", 0>>, mem' = NoResult, UNCHANGED serial
  PROVE  Passing'
<1>1. NoResult \in Memory
  BY EmptyMemory, CertConstants DEF Types, Counters
<1>2. Memory' = Memory /\ pc' \in Steps
  BY StepsAre DEF Memory
<1> QED  BY <1>1, <1>2 DEF Passing, Steps

\* The turn of a certificate keeps the types.
LEMMA CertTypes ==
  ASSUME Types, NEW cs, ReconcileCert(cs)
  PROVE  Types'
<1> DEFINE c == Order[pc[2]]
<1>1. /\ pc[1] = "certs" /\ UNCHANGED <<env, now, left, spec, due, ca, template, pods>>
      /\ pc' = IF pc[2] = Len(Order) THEN <<"collect", 0>> ELSE <<"certs", pc[2] + 1>>
      /\ \/ /\ serial' = serial + 1
            /\ secret' = [secret EXCEPT ![c] =
                 [id |-> serial', ca |-> mem.signer,
                  expires |-> now + NodeValidity, good |-> TRUE]]
            /\ mem' = [mem EXCEPT !.indexerRenewed =
                         @ \/ (c = "indexer" /\ secret[c] # None)]
         \/ UNCHANGED <<serial, secret, mem>>
  BY DEF ReconcileCert, world
<1>2. pc[2] \in 1..Len(Order) /\ Len(Order) \in Nat /\ c \in Certs /\ pc \in Steps
  BY <1>1, StepForms, OrderIsList DEF Types, Passing
<1> HIDE DEF c
<1>3. serial \in Nat /\ serial' \in Nat /\ serial <= serial'
  BY <1>1 DEF Types, Counters
<1>4. Counters'
  BY <1>1, <1>3 DEF Types, Counters
<1>5. Running'
  BY <1>1, <1>3, TypesStay
<1>6. Secrets' /\ mem' \in Memory' /\ mem'.signer = mem.signer
  <2>1. CASE UNCHANGED <<serial, secret, mem>>
    BY <1>1, <1>3, <2>1, TypesStay
  <2>2. CASE /\ serial' = serial + 1
             /\ secret' = [secret EXCEPT ![c] =
                  [id |-> serial', ca |-> mem.signer,
                   expires |-> now + NodeValidity, good |-> TRUE]]
             /\ mem' = [mem EXCEPT !.indexerRenewed =
                          @ \/ (c = "indexer" /\ secret[c] # None)]
    <3>1. /\ mem.signer \in 1..serial /\ mem \in Memory /\ now \in 0..MaxTime
          /\ secret \in [Certs -> Cert \cup {None}] /\ ca \in CASecret \cup {None}
      BY <1>1 DEF Types, Passing, Counters, Secrets
    <3>2. Cert \subseteq Cert' /\ CASecret \subseteq CASecret' /\ Memory \subseteq Memory'
          /\ 1..serial \subseteq 1..serial'
      BY <1>3, NumbersStay
    <3>3. now + NodeValidity \in 1..(MaxTime + NodeValidity)
      BY <3>1, CertConstants
    <3>4. [id |-> serial', ca |-> mem.signer, expires |-> now + NodeValidity,
           good |-> TRUE] \in Cert'
      BY <1>3, <2>2, <3>1, <3>2, <3>3 DEF Cert
    <3>5. secret' \in [Certs -> Cert' \cup {None}]
      BY <1>2, <2>2, <3>1, <3>2, <3>4
    <3>6. Secrets'
      BY <1>1, <3>1, <3>2, <3>5 DEF Secrets
    <3>7. (mem.indexerRenewed \/ (c = "indexer" /\ secret[c] # None)) \in BOOLEAN
      OBVIOUS
    <3>8. mem' \in Memory /\ mem'.signer = mem.signer
      BY <2>2, <3>1, <3>7, Zenon DEF Memory
    <3> QED  BY <3>2, <3>6, <3>8
  <2> QED  BY <1>1, <2>1, <2>2
<1>7. Passing'
  <2>1. pc' \in Steps
    BY <1>1, <1>2, StepsAre
  <2>2. mem.signer \in 1..serial'
    BY <1>1, <1>3, NumbersStay DEF Types, Passing
  <2> QED  BY <1>6, <2>1, <2>2 DEF Passing, Steps
<1> QED  BY <1>4, <1>5, <1>6, <1>7 DEF Types

\* So does the turn of a workload.
LEMMA WorkloadTypes ==
  ASSUME Types, NEW ws, ApplyWorkload(ws)
  PROVE  Types'
<1> DEFINE w == ApplyOrder[pc[2]]
<1>1. /\ pc[1] = "apply" /\ UNCHANGED <<env, now, left, spec, serial, ca, secret, pods>>
      /\ \/ template' = [template EXCEPT ![w] = [hash |-> CertHash(w), spec |-> mem.spec]]
         \/ UNCHANGED template
      /\ \/ pc' = <<"idle", 0>> /\ due' = FALSE /\ mem' = NoResult
         \/ /\ pc[2] # Len(ApplyOrder)
            /\ pc' = <<"apply", pc[2] + 1>> /\ UNCHANGED <<due, mem>>
  BY DEF ApplyWorkload, world
<1>2. /\ pc[2] \in 1..Len(ApplyOrder) /\ Len(ApplyOrder) \in Nat /\ w \in Workloads
      /\ w \in Certs /\ pc \in Steps
  BY <1>1, StepForms, ApplyOrderIsList DEF Types, Passing
<1> HIDE DEF w
<1>3. serial \in Nat /\ serial' \in Nat /\ serial <= serial'
  BY <1>1 DEF Types, Counters
<1>4. Counters'
  BY <1>1, Zenon DEF Types, Counters
<1>5. Secrets'
  BY <1>1, <1>3, TypesStay
<1>6. Running'
  <2>1. mem.hashes \in [Certs -> 0..serial] /\ mem.spec \in 0..MaxEvents
    BY DEF Types, Passing, Memory
  <2>2. CertHash(w) \in 0..serial
    BY <1>2, <1>3, <2>1 DEF CertHash
  <2>3. [hash |-> CertHash(w), spec |-> mem.spec] \in Template
    BY <2>1, <2>2 DEF Template
  <2>4. template' \in [Workloads -> Template \cup {None}]
    BY <1>1, <1>2, <2>3 DEF Types, Running
  <2>5. Template' = Template /\ Pod' = Pod
    BY <1>1 DEF Template, Pod
  <2> QED  BY <1>1, <2>4, <2>5 DEF Types, Running
<1>7. Passing'
  <2>1. CASE pc' = <<"idle", 0>> /\ mem' = NoResult
    BY <1>1, <2>1, IdlePasses
  <2>2. CASE pc[2] # Len(ApplyOrder) /\ pc' = <<"apply", pc[2] + 1>> /\ UNCHANGED mem
    <3>1. pc' \in Steps
      BY <1>2, <2>2, StepsAre
    <3>2. mem' \in Memory'
      BY <1>3, <2>2, TypesStay
    <3> QED  BY <2>2, <3>1, <3>2 DEF Passing
  <2> QED  BY <1>1, <2>1, <2>2
<1> QED  BY <1>4, <1>5, <1>6, <1>7 DEF Types

\* A pod of the indexer that reloads has a certificate.
LEMMA ReloadTypes ==
  ASSUME Types, IndexerReloads, pods["indexer"] # None, UNCHANGED <<serial, template>>
  PROVE  Running'
<1>1. "indexer" \in Workloads /\ "indexer" \in Certs
  BY ApplyOrderIsList
<1>2. Template' = Template /\ Pod' = Pod
  BY DEF Template, Pod
<1>3. CASE UNCHANGED pods
  BY <1>2, <1>3 DEF Types, Running
<1>4. CASE secret["indexer"] # None /\ pods' = [pods EXCEPT !["indexer"].cert = secret["indexer"].id]
  <2>1. secret["indexer"].id \in 1..serial
    BY <1>1, <1>4 DEF Types, Secrets, Cert
  <2>2. pods \in [Workloads -> Pod \cup {None}]
    BY DEF Types, Running
  <2>3. pods["indexer"] \in Pod
    BY <1>1, <2>2
  <2>4. [pods["indexer"] EXCEPT !.cert = secret["indexer"].id] \in Pod
    BY <2>1, <2>3 DEF Pod
  <2>5. pods' \in [Workloads -> Pod \cup {None}]
    BY <1>1, <1>4, <2>2, <2>4
  <2> QED  BY <1>2, <2>5 DEF Types, Running
<1> QED  BY <1>3, <1>4 DEF IndexerReloads

\* Every step keeps the types.
LEMMA TypesInductive ==
  ASSUME Types, [Next]_vars
  PROVE  Types'
<1> USE DEF world
<1>c. /\ {CAValidity, CAThreshold, NodeValidity, NodeThreshold} \subseteq Nat \ {0}
      /\ {MaxTime, MaxEvents} \subseteq Nat
  BY CertConstants
<1>0. /\ Counters /\ Secrets /\ Running /\ Passing
      /\ serial \in Nat /\ left \in Nat /\ mem \in Memory
  BY <1>c DEF Types, Counters, Passing
<1>s. ASSUME UNCHANGED serial
      PROVE  /\ UNCHANGED <<ca, secret>> => Secrets'
             /\ UNCHANGED <<template, pods>> => Running'
             /\ Memory' = Memory /\ Template' = Template /\ Pod' = Pod /\ Cert' = Cert
             /\ CASecret' = CASecret
  <2>1. serial' \in Nat /\ serial <= serial'
    BY <1>0, <1>s
  <2>2. Memory' = Memory /\ Template' = Template /\ Pod' = Pod /\ Cert' = Cert
        /\ CASecret' = CASecret
    BY <1>s DEF Memory, Template, Pod, Cert, CASecret
  <2> QED  BY <2>1, <2>2, TypesStay
<1>p. ASSUME UNCHANGED serial, mem' \in Memory, pc' \in Steps,
             pc'[1] = "certs" => mem'.signer \in 1..serial
      PROVE  Passing'
  BY <1>p, <1>s DEF Passing, Steps
<1>k. ASSUME UNCHANGED <<serial, pc, mem>> PROVE Passing'
  BY <1>0, <1>k, <1>p DEF Passing
<1>1. CASE StartReconcile
  <2>1. mem' \in Memory
    BY <1>0, <1>1, <1>c, EmptyMemory DEF StartReconcile, Counters
  <2>2. pc' \in Steps /\ pc'[1] # "certs"
    BY <1>1, StepsAre DEF StartReconcile
  <2>3. UNCHANGED <<world, due, serial, ca, secret, template, pods>>
    BY <1>1 DEF StartReconcile
  <2>4. Counters'
    BY <1>0, <2>3 DEF Counters
  <2> QED  BY <1>s, <1>p, <2>1, <2>2, <2>3, <2>4 DEF Types
<1>2. CASE KeepCA
  <2>1. ca.id \in 1..serial
    BY <1>0, <1>2 DEF KeepCA, Secrets, CASecret
  <2>2. mem' \in Memory /\ mem'.signer = ca.id
    BY <1>0, <1>2, <2>1 DEF KeepCA, Memory
  <2>3. pc' \in Steps
    BY <1>2, StepsAre, OrderIsList DEF KeepCA
  <2>4. UNCHANGED <<world, due, serial, ca, secret, template, pods>>
    BY <1>2 DEF KeepCA
  <2>5. Counters'
    BY <1>0, <2>4 DEF Counters
  <2> QED  BY <1>s, <1>p, <2>1, <2>2, <2>3, <2>4, <2>5 DEF Types
<1>3. CASE CARenewalPending
  <2>1. pc' \in Steps /\ pc'[1] # "certs"
    BY <1>3, StepsAre DEF CARenewalPending
  <2>2. UNCHANGED <<world, due, serial, ca, secret, template, pods, mem>>
    BY <1>3 DEF CARenewalPending
  <2>3. Counters'
    BY <1>0, <2>2 DEF Counters
  <2> QED  BY <1>0, <1>s, <1>p, <2>1, <2>2, <2>3 DEF Types
<1>4. CASE GenerateCA
  <2>1. /\ serial' = serial + 1
        /\ ca' = [id |-> serial', expires |-> now + CAValidity, good |-> TRUE]
        /\ mem' = [mem EXCEPT !.signer = serial', !.caRenewed = ca # None]
        /\ pc' = <<"certs", 1>>
        /\ UNCHANGED <<world, due, secret, template, pods>>
    BY <1>4 DEF GenerateCA
  <2>2. serial' \in Nat /\ serial <= serial' /\ serial' \in 1..serial'
    BY <1>0, <2>1
  <2>3. Cert \subseteq Cert' /\ Memory \subseteq Memory'
    BY <1>0, <2>2, NumbersStay
  <2>4. now + CAValidity \in 1..(MaxTime + CAValidity)
    BY <1>0, <1>c DEF Counters
  <2>5. ca' \in CASecret'
    BY <2>1, <2>2, <2>4 DEF CASecret
  <2>6. Secrets'
    BY <1>0, <2>1, <2>3, <2>5 DEF Secrets
  <2>7. (ca # None) \in BOOLEAN /\ mem \in Memory'
    BY <1>0, <2>3
  <2>8. mem' \in Memory' /\ mem'.signer = serial'
    BY <2>1, <2>2, <2>7, Zenon DEF Memory
  <2>9. Passing'
    BY <2>1, <2>2, <2>8, StepsAre, OrderIsList DEF Passing, Steps
  <2>10. Counters'
    BY <1>0, <2>1, <2>2 DEF Counters
  <2>11. Running'
    BY <2>1, <2>2, TypesStay
  <2> QED  BY <2>6, <2>9, <2>10, <2>11 DEF Types
<1>5. CASE ReconcileNodeCert \/ ReconcileDashboardCerts \/ ReconcileFilebeatCerts
           \/ ReconcileAdminCerts
  BY <1>5, CertTypes
  DEF ReconcileNodeCert, ReconcileDashboardCerts, ReconcileFilebeatCerts, ReconcileAdminCerts
<1>6. CASE CollectCertHashes
  <2>1. UNCHANGED <<env, now, spec, due, serial, ca, secret, template, pods>>
        /\ pc' = <<"reload", 0>>
    BY <1>6 DEF CollectCertHashes
  <2>2. PICK n \in IF "k8s" \in env.faults /\ left > 0 THEN 0..Len(HashOrder)
                                                       ELSE {Len(HashOrder)} :
          /\ mem' = [mem EXCEPT !.hashes =
               [c \in Certs |-> IF \E i \in 1..n : HashOrder[i] = c
                                  THEN SecretHash(c) ELSE 0]]
          /\ left' = IF n < Len(HashOrder) THEN left - 1 ELSE left
    BY <1>6, Zenon DEF CollectCertHashes
  <2>3. Len(HashOrder) \in Nat
    BY HashOrderIsList
  <2>4. left' \in 0..MaxEvents /\ left' <= left
    BY <1>0, <1>c, <2>2, <2>3 DEF Counters
  <2>5. Counters'
    BY <1>0, <1>c, <2>1, <2>4 DEF Counters
  <2>6. \A c \in Certs : SecretHash(c) \in 0..serial
    BY <1>0 DEF SecretHash, Secrets, Cert
  <2>7. [c \in Certs |-> IF \E i \in 1..n : HashOrder[i] = c
                           THEN SecretHash(c) ELSE 0] \in [Certs -> 0..serial]
    BY <1>0, <2>6
  <2>8. mem' \in Memory
    BY <1>0, <2>2, <2>7, Zenon DEF Memory
  <2>9. pc' \in Steps /\ pc'[1] # "certs"
    BY <2>1, StepsAre
  <2> QED  BY <1>s, <1>p, <2>1, <2>5, <2>8, <2>9 DEF Types
<1>7. CASE TriggerHotReload
  <2>1. UNCHANGED <<env, now, spec, due, serial, ca, secret, template>>
        /\ pc' = <<"apply", 1>>
    BY <1>7 DEF TriggerHotReload
  <2>2. pc' \in Steps /\ pc'[1] # "certs"
    BY <2>1, StepsAre, ApplyOrderIsList
  <2>3. left' \in 0..MaxEvents /\ left' <= left
    BY <1>0, <1>c, <1>7 DEF Counters, TriggerHotReload
  <2>4. Counters'
    BY <1>0, <1>c, <2>1, <2>3 DEF Counters
  <2>5. mem' \in Memory
    <3>1. UNCHANGED mem \/ mem' = [mem EXCEPT !.reloadError = TRUE]
      BY <1>7 DEF TriggerHotReload
    <3> QED  BY <1>0, <3>1, Zenon DEF Memory
  <2>6. Running'
    <3>1. UNCHANGED pods \/ (pods["indexer"] # None /\ IndexerReloads)
      BY <1>7 DEF TriggerHotReload
    <3> QED  BY <1>s, <2>1, <3>1, ReloadTypes
  <2> QED  BY <1>s, <1>p, <2>1, <2>2, <2>4, <2>5, <2>6 DEF Types
<1>8. CASE ApplyIndexer \/ ApplyManager \/ ApplyDashboard
  BY <1>8, WorkloadTypes DEF ApplyIndexer, ApplyManager, ApplyDashboard
<1>9. CASE Interrupt
  <2>1. /\ UNCHANGED <<env, now, spec, serial, ca, secret, template, pods>>
        /\ left > 0 /\ left' = left - 1 /\ due' = FALSE
        /\ pc' = <<"idle", 0>> /\ mem' = NoResult
    BY <1>9 DEF Interrupt
  <2>a. due' \in BOOLEAN
    BY <2>1, Zenon
  <2>b. left > 0 /\ left' = left - 1 /\ left \in 0..MaxEvents
    BY <1>0, <2>1 DEF Counters
  <2>c. left' \in 0..MaxEvents /\ left' <= left
    BY <1>c, <2>b
  <2>2. Counters'
    BY <1>0, <1>c, <2>1, <2>a, <2>c DEF Counters
  <2> QED  BY <1>s, <2>1, <2>2, IdlePasses DEF Types
<1>10. CASE Tick
  <2>1. /\ UNCHANGED <<env, left, serial, spec, ca, secret, template, pods, pc, mem>>
        /\ now < MaxTime /\ now' = now + 1 /\ due' = TRUE
    BY <1>10 DEF Tick
  <2>2. Counters'
    BY <1>0, <1>c, <2>1 DEF Counters
  <2> QED  BY <1>s, <1>k, <2>1, <2>2 DEF Types
<1>11. CASE \E w \in Workloads : RestartPods(w)
  <2>1. PICK w \in Workloads : RestartPods(w)
    BY <1>11
  <2>2. /\ template[w] # None /\ secret[w] # None
        /\ pods' = [pods EXCEPT ![w] =
             [template |-> template[w], cert |-> secret[w].id, ca |-> secret[w].ca]]
        /\ UNCHANGED <<world, due, serial, ca, secret, template, pc, mem>>
    BY <2>1 DEF RestartPods
  <2>3. template[w] \in Template /\ secret[w] \in Cert
    BY <1>0, <2>2, ApplyOrderIsList DEF Running, Secrets
  <2>4. [template |-> template[w], cert |-> secret[w].id, ca |-> secret[w].ca] \in Pod
    BY <2>3 DEF Cert, Pod
  <2>5. pods' \in [Workloads -> Pod \cup {None}]
    BY <1>0, <2>2, <2>4 DEF Running
  <2>6. Running'
    BY <1>0, <1>s, <2>2, <2>5 DEF Running
  <2>7. Counters'
    BY <1>0, <2>2 DEF Counters
  <2> QED  BY <1>s, <1>k, <2>2, <2>6, <2>7 DEF Types
<1>12. CASE AutomaticReload
  <2>1. UNCHANGED <<world, due, serial, ca, secret, template, pc, mem>>
        /\ pods["indexer"] # None /\ IndexerReloads
    BY <1>12 DEF AutomaticReload
  <2>2. Counters'
    BY <1>0, <2>1 DEF Counters
  <2> QED  BY <1>s, <1>k, <2>1, <2>2, ReloadTypes DEF Types
<1>13. CASE \E c \in Certs : UserChangesSecret(c)
  <2>1. PICK c \in Certs : UserChangesSecret(c)
    BY <1>13
  <2>2. /\ left > 0 /\ left' = left - 1 /\ secret[c] # None /\ serial' = serial + 1
        /\ \/ secret' = [secret EXCEPT ![c] = None]
           \/ secret' = [secret EXCEPT ![c].id = serial', ![c].good = FALSE]
        /\ UNCHANGED <<env, now, spec, due, ca, template, pods, pc, mem>>
    BY <2>1 DEF UserChangesSecret
  <2>3. serial' \in Nat /\ serial <= serial' /\ serial' \in 1..serial'
    BY <1>0, <2>2
  <2>4. Cert \subseteq Cert' /\ CASecret \subseteq CASecret' /\ 1..serial \subseteq 1..serial'
    BY <1>0, <2>3, NumbersStay
  <2>5. Secrets'
    <3>1. secret \in [Certs -> Cert \cup {None}] /\ secret[c] \in Cert'
      BY <1>0, <2>2, <2>4 DEF Secrets
    <3>2. [secret[c] EXCEPT !.id = serial', !.good = FALSE] \in Cert'
      BY <2>3, <3>1, Zenon DEF Cert
    <3>3. secret' \in [Certs -> Cert' \cup {None}]
      BY <2>2, <2>4, <3>1, <3>2, Zenon
    <3> QED  BY <1>0, <2>2, <2>4, <3>3 DEF Secrets
  <2>6. Counters'
    BY <1>0, <1>c, <2>2, <2>3 DEF Counters
  <2>7. Running' /\ mem' \in Memory'
    BY <2>2, <2>3, TypesStay
  <2>8. Passing'
    BY <1>0, <2>2, <2>4, <2>7 DEF Passing, Steps
  <2> QED  BY <2>5, <2>6, <2>7, <2>8 DEF Types
<1>14. CASE UserChangesCA
  <2>1. /\ left > 0 /\ left' = left - 1 /\ ca # None
        /\ \/ ca' = None
           \/ ca' = [ca EXCEPT !.good = FALSE]
        /\ UNCHANGED <<env, now, spec, due, serial, secret, template, pods, pc, mem>>
    BY <1>14 DEF UserChangesCA
  <2>2. ca' \in CASecret \cup {None}
    BY <1>0, <2>1, Zenon DEF Secrets, CASecret
  <2>3. Secrets'
    BY <1>0, <1>s, <2>1, <2>2 DEF Secrets
  <2>4. Counters'
    BY <1>0, <1>c, <2>1 DEF Counters
  <2> QED  BY <1>s, <1>k, <2>1, <2>3, <2>4 DEF Types
<1>15. CASE UserChangesSpec
  <2>1. /\ left > 0 /\ left' = left - 1 /\ spec' = spec + 1
        /\ UNCHANGED <<env, now, due, serial, ca, secret, template, pods, pc, mem>>
    BY <1>15 DEF UserChangesSpec
  <2>2. Counters'
    BY <1>0, <1>c, <2>1 DEF Counters
  <2> QED  BY <1>s, <1>k, <2>1, <2>2 DEF Types
<1>16. CASE UNCHANGED vars
  <2>1. UNCHANGED <<env, now, due, left, serial, spec, ca, secret, template, pods, pc, mem>>
    BY <1>16 DEF vars
  <2>2. Counters'
    BY <1>0, <2>1 DEF Counters
  <2> QED  BY <1>s, <1>k, <2>1, <2>2 DEF Types
<1> QED
  BY <1>1, <1>2, <1>3, <1>4, <1>5, <1>6, <1>7, <1>8, <1>9, <1>10, <1>11, <1>12,
     <1>13, <1>14, <1>15, <1>16 DEF Next, Reconcile

\* The first reconcile starts with the types.
LEMMA InitTypes == Init => Types
<1> SUFFICES ASSUME Init PROVE Types
  OBVIOUS
<1>1. Counters
  BY CertConstants DEF Init, Counters
<1>2. Secrets
  BY DEF Init, Secrets
<1>3. Running
  BY DEF Init, Running
<1>4. NoResult \in Memory
  BY EmptyMemory, CertConstants DEF Init
<1>5. Passing
  BY <1>4, StepsAre DEF Init, Passing
<1> QED  BY <1>1, <1>2, <1>3, <1>5 DEF Types

LEMMA TypesAlways == Spec => []Types
<1>1. Types /\ [Next]_vars => Types'
  BY TypesInductive
<1> QED  BY <1>1, InitTypes, PTL DEF Spec

\* The Secrets, the pod templates, the pods and the CertHashResult keep their
\* types: in particular every certificate is signed by a CA that was issued
\* before it, and no hash that is collected is of a certificate still to come.
THEOREM RenewalTypeCorrect == Spec => []TypeOK
<1>1. Types => TypeOK
  BY DEF Types, Counters, Secrets, Running, Passing, TypeOK, CASecret, Pod, Memory, Steps
<1> QED  BY <1>1, TypesAlways, PTL

-----------------------------------------------------------------------------
(***************************************************************************)
(* Nothing expires.                                                        *)
(***************************************************************************)

\* No reconcile is cut short and users leave the Secrets alone.
Calm == env.faults \cap {"interrupt", "user"} = {}

\* The CA has not expired, and is good for another day once a reconcile has
\* come past it today.
CALasts ==
  Calm /\ Renewable /\ ca # None =>
    /\ ca.good /\ now <= ca.expires
    /\ ~due \/ pc[1] \notin {"idle", "ca"} => now < ca.expires

\* The renewal of the CA may have to wait.
CAWaits == env.policy # "always" /\ NeedsRenewal(ca, CAThreshold)

\* The certificate is good for another day.
Fresh(c) == secret[c] # None => now < secret[c].expires

\* No certificate was issued yet.
NothingYet == due /\ pc[1] \in {"idle", "ca"} /\ \A c \in Certs : secret[c] = None

\* Before the day's reconcile no certificate has expired, unless the CA waits;
\* the reconcile leaves those behind it good for another day.
CertsLast ==
  Calm =>
    /\ NothingYet \/ (ca \in CASecret /\ ca.good)
    /\ pc[1] \in {"idle", "ca"} =>
         (\A c \in Certs : secret[c] # None => now <= secret[c].expires) \/ CAWaits
    /\ pc[1] = "certs" => \A j \in 1..(pc[2] - 1) : Fresh(Order[j])
    /\ pc[1] \in {"collect", "reload", "apply"} \/ (pc[1] \in {"idle", "ca"} /\ ~due) =>
         (\A c \in Certs : Fresh(c)) \/ CAWaits

\* The next window starts after today.
LEMMA WindowIsAhead ==
  ASSUME Types
  PROVE  NextWindowStart \in Int /\ NextWindowStart > now
<1>1. env \in Environment /\ now \in Nat
  BY EnvironmentsAssumption DEF Types, Counters
<1>2. Period \in Nat /\ Period > 0
  BY CertConstants
<1>3. env.offset \in Nat
  BY <1>1, <1>2 DEF Environment
<1>4. ASSUME NEW n \in Nat PROVE n % Period \in 0..(Period - 1)
  BY <1>2
<1>5. (now + env.offset) % Period \in 0..(Period - 1)
  BY <1>1, <1>3, <1>4
<1> QED  BY <1>1, <1>2, <1>5 DEF NextWindowStart, LastWindowStart

\* What the steps do that neither cut a reconcile short nor come from a user.
LEMMA CalmSteps ==
  ASSUME Next, Calm
  PROVE  \/ StartReconcile \/ KeepCA \/ CARenewalPending \/ GenerateCA
         \/ \E cs : ReconcileCert(cs)
         \/ CollectCertHashes \/ TriggerHotReload
         \/ \E ws : ApplyWorkload(ws)
         \/ Tick
         \/ UNCHANGED <<env, now, due, ca, secret, pc>>
<1>1. ~Interrupt /\ ~UserChangesCA /\ \A c \in Certs : ~UserChangesSecret(c)
  BY DEF Calm, Interrupt, UserChangesCA, UserChangesSecret
<1>2. (\E w \in Workloads : RestartPods(w)) => UNCHANGED <<env, now, due, ca, secret, pc>>
  BY DEF RestartPods, world
<1>3. AutomaticReload => UNCHANGED <<env, now, due, ca, secret, pc>>
  BY DEF AutomaticReload, world
<1>4. UserChangesSpec => UNCHANGED <<env, now, due, ca, secret, pc>>
  BY DEF UserChangesSpec
<1>5. ReconcileNodeCert \/ ReconcileDashboardCerts \/ ReconcileFilebeatCerts
      \/ ReconcileAdminCerts => \E cs : ReconcileCert(cs)
  BY Zenon DEF ReconcileNodeCert, ReconcileDashboardCerts, ReconcileFilebeatCerts,
               ReconcileAdminCerts
<1>6. ApplyIndexer \/ ApplyManager \/ ApplyDashboard => \E ws : ApplyWorkload(ws)
  BY Zenon DEF ApplyIndexer, ApplyManager, ApplyDashboard
<1> QED  BY <1>1, <1>2, <1>3, <1>4, <1>5, <1>6, Zenon DEF Next, Reconcile

\* Where each of these steps goes.
LEMMA CalmMoves ==
  ASSUME Types
  PROVE  /\ \A cs : ReconcileCert(cs) =>
              /\ pc[1] = "certs" /\ pc'[1] \in {"certs", "collect"}
              /\ UNCHANGED <<env, now, due, ca>>
         /\ CollectCertHashes =>
              pc[1] = "collect" /\ pc'[1] = "reload" /\ UNCHANGED <<env, now, due, ca, secret>>
         /\ TriggerHotReload =>
              pc[1] = "reload" /\ pc'[1] = "apply" /\ UNCHANGED <<env, now, due, ca, secret>>
         /\ \A ws : ApplyWorkload(ws) =>
              /\ pc[1] = "apply" /\ UNCHANGED <<env, now, ca, secret>>
              /\ \/ pc'[1] = "apply" /\ UNCHANGED due
                 \/ pc'[1] = "idle" /\ due' = FALSE
<1>1. ASSUME NEW cs, ReconcileCert(cs)
      PROVE  /\ pc[1] = "certs" /\ pc'[1] \in {"certs", "collect"}
             /\ UNCHANGED <<env, now, due, ca>>
  BY <1>1 DEF ReconcileCert, world
<1>2. CollectCertHashes =>
        pc[1] = "collect" /\ pc'[1] = "reload" /\ UNCHANGED <<env, now, due, ca, secret>>
  BY DEF CollectCertHashes
<1>3. TriggerHotReload =>
        pc[1] = "reload" /\ pc'[1] = "apply" /\ UNCHANGED <<env, now, due, ca, secret>>
  BY DEF TriggerHotReload
<1>4. ASSUME NEW ws, ApplyWorkload(ws)
      PROVE  /\ pc[1] = "apply" /\ UNCHANGED <<env, now, ca, secret>>
             /\ \/ pc'[1] = "apply" /\ UNCHANGED due
                \/ pc'[1] = "idle" /\ due' = FALSE
  BY <1>4 DEF ApplyWorkload, world
<1> QED  BY <1>1, <1>2, <1>3, <1>4, Zenon

\* An environment is chosen once.
LEMMA EnvStays == [Next]_vars => UNCHANGED env
  BY Zenon DEF Next, vars, Reconcile, StartReconcile, KeepCA, CARenewalPending, GenerateCA,
         ReconcileNodeCert, ReconcileDashboardCerts, ReconcileFilebeatCerts,
         ReconcileAdminCerts, ReconcileCert, CollectCertHashes, TriggerHotReload,
         ApplyIndexer, ApplyManager, ApplyDashboard, ApplyWorkload, Interrupt,
         RestartPods, AutomaticReload, Tick, UserChangesSecret, UserChangesCA,
         UserChangesSpec, world

\* The CA is renewed in time: a reconcile of the day finds it far from its end,
\* renews it, or leaves it to a window that starts before the end.
LEMMA CALastsInductive ==
  ASSUME Types, CALasts, [Next]_vars
  PROVE  CALasts'
<1> SUFFICES ASSUME Calm', Renewable', ca' # None
             PROVE  /\ ca'.good /\ now' <= ca'.expires
                    /\ ~due' \/ pc'[1] \notin {"idle", "ca"} => now' < ca'.expires
  BY DEF CALasts
<1>c. /\ {CAValidity, CAThreshold} \subseteq Nat \ {0}
      /\ MaxWait \in Nat /\ None \notin Nat
  BY CertConstants
<1>n. now \in Nat /\ (ca # None => ca.expires \in Nat /\ ca \in CASecret)
  BY <1>c DEF Types, Counters, Secrets, CASecret
<1>e. UNCHANGED env
  BY EnvStays
<1>0. Calm /\ Renewable
  BY <1>e DEF Calm, Renewable
<1>1. CASE StartReconcile
  <2>1. pc[1] = "idle" /\ pc'[1] = "ca" /\ UNCHANGED <<now, due, ca>>
    BY <1>1 DEF StartReconcile, world
  <2> QED  BY <1>0, <2>1 DEF CALasts
<1>2. CASE KeepCA
  <2>1. UNCHANGED <<now, ca>> /\ now <= ca.expires - CAThreshold /\ ca.good
    BY <1>2, <1>n, <1>c DEF KeepCA, NeedsRenewal, world
  <2> QED  BY <1>n, <1>c, <2>1
<1>3. CASE CARenewalPending
  <2>1. UNCHANGED <<now, ca>> /\ ca.good /\ ~AllowRenewal /\ ca # None
    BY <1>3 DEF CARenewalPending, world
  <2>2. env.policy = "windows" /\ env.parses /\ MaxWait > 0
    BY <1>0, <2>1 DEF Renewable, AllowRenewal
  <2>4. NextWindowStart \in Int /\ NextWindowStart > now
    BY WindowIsAhead
  <2>3. ~(ca.expires - now < MaxWait) \/ ~(NextWindowStart > ca.expires)
    <3>1. NextWindow = NextWindowStart
      BY <2>2 DEF NextWindow
    <3>2. NextWindow # None
      BY <1>n, <1>c, <2>4, <3>1
    <3> QED  BY <2>1, <2>2, <3>1, <3>2 DEF AllowRenewal
  <2> HIDE DEF NextWindowStart
  <2>5. now < ca.expires
    BY <1>n, <1>c, <2>1, <2>2, <2>3, <2>4
  <2> QED  BY <1>n, <2>1, <2>5
<1>4. CASE GenerateCA
  <2>1. ca' = [id |-> serial', expires |-> now + CAValidity, good |-> TRUE] /\ UNCHANGED now
    BY <1>4 DEF GenerateCA, world
  <2> QED  BY <1>n, <1>c, <2>1
<1>5. CASE (\E cs : ReconcileCert(cs)) \/ CollectCertHashes \/ TriggerHotReload
           \/ \E ws : ApplyWorkload(ws)
  <2>1. UNCHANGED <<now, ca>> /\ pc[1] \notin {"idle", "ca"}
    BY <1>5, CalmMoves, Zenon
  <2> QED  BY <1>0, <2>1 DEF CALasts
<1>6. CASE Tick
  <2>1. ~due /\ due' /\ now' = now + 1 /\ pc[1] = "idle" /\ UNCHANGED <<ca, pc>>
    BY <1>6 DEF Tick
  <2> QED  BY <1>0, <1>n, <2>1 DEF CALasts
<1>7. CASE UNCHANGED <<env, now, due, ca, secret, pc>>
  BY <1>0, <1>7 DEF CALasts
<1>8. CASE UNCHANGED vars
  BY <1>7, <1>8 DEF vars
<1> QED  BY <1>0, <1>1, <1>2, <1>3, <1>4, <1>5, <1>6, <1>7, <1>8, CalmSteps

\* Whatever the maintenance windows are, the CA is renewed before it expires
\* (checkCAMaintenanceWindow), when reconciles come to their end and users leave
\* the Secrets alone; unless AutoRestart is off, or there are windows of which
\* none parses, or windows and a MaxWait of zero.
THEOREM CANeverExpires == Spec => []CAOutlivesItsWindows
<1>1. Init => CALasts
  BY DEF Init, CALasts
<1>2. Types /\ CALasts /\ [Next]_vars => CALasts'
  BY CALastsInductive
<1>3. CALasts => CAOutlivesItsWindows
  BY DEF CALasts, CAOutlivesItsWindows, Quiet, Calm
<1> QED  BY <1>1, <1>2, <1>3, TypesAlways, PTL DEF Spec

\* The turn of a certificate leaves it good for another day, and the others as
\* they are.
LEMMA CertIsFresh ==
  ASSUME Types, NEW cs, ReconcileCert(cs), NEW c, c = Order[pc[2]]
  PROVE  Fresh(c)' /\ \A d \in Certs : Fresh(d) => Fresh(d)'
<1>1. /\ pc[1] = "certs" /\ UNCHANGED now
      /\ \/ /\ NeedsNewCert(c)
            /\ secret' = [secret EXCEPT ![c] =
                 [id |-> serial', ca |-> mem.signer,
                  expires |-> now + NodeValidity, good |-> TRUE]]
         \/ ~NeedsNewCert(c) /\ UNCHANGED secret
  BY DEF ReconcileCert, world
<1>2. c \in Certs
  BY <1>1, StepForms, OrderIsList DEF Types, Passing
<1>4. /\ now \in Nat /\ secret \in [Certs -> Cert \cup {None}]
      /\ \A d \in Certs : secret[d] # None => secret[d].expires \in Nat
  BY CertConstants DEF Types, Counters, Secrets, Cert
<1>5. {NodeValidity, NodeThreshold} \subseteq Nat \ {0}
  BY CertConstants
<1>6. CASE NeedsNewCert(c) /\ secret' = [secret EXCEPT ![c] =
               [id |-> serial', ca |-> mem.signer,
                expires |-> now + NodeValidity, good |-> TRUE]]
  <2>1. secret'[c].expires = now + NodeValidity /\ \A d \in Certs \ {c} : secret'[d] = secret[d]
    BY <1>2, <1>4, <1>6
  <2> QED  BY <1>1, <1>2, <1>4, <1>5, <2>1 DEF Fresh
<1>7. CASE ~NeedsNewCert(c) /\ UNCHANGED secret
  <2>1. secret[c] # None => now <= secret[c].expires - NodeThreshold
    BY <1>2, <1>4, <1>5, <1>7 DEF NeedsNewCert, NeedsRenewal
  <2> QED  BY <1>1, <1>2, <1>4, <1>5, <1>7, <2>1 DEF Fresh
<1> QED  BY <1>1, <1>6, <1>7

\* A reconcile that comes to the certificates renews every one in time, so one
\* can expire only on days on which the CA's renewal keeps it from coming there.
LEMMA CertsLastInductive ==
  ASSUME Types, CertsLast, [Next]_vars
  PROVE  CertsLast'
<1> SUFFICES ASSUME Calm'
             PROVE  /\ (NothingYet \/ (ca \in CASecret /\ ca.good))'
                    /\ (pc[1] \in {"idle", "ca"} =>
                          (\A c \in Certs : secret[c] # None => now <= secret[c].expires)
                          \/ CAWaits)'
                    /\ (pc[1] = "certs" => \A j \in 1..(pc[2] - 1) : Fresh(Order[j]))'
                    /\ (pc[1] \in {"collect", "reload", "apply"}
                          \/ (pc[1] \in {"idle", "ca"} /\ ~due) =>
                          (\A c \in Certs : Fresh(c)) \/ CAWaits)'
  BY Zenon DEF CertsLast
<1>e. UNCHANGED env
  BY EnvStays
<1>0. Calm
  BY <1>e DEF Calm
<1>p. pc \in Steps /\ pc' \in Steps
  BY TypesInductive DEF Types, Passing
<1>d. \A s \in Steps : s[1] = "certs" => s[2] \in DOMAIN Order
  BY DEF Steps
<1>f. pc'[1] = "certs" => pc'[2] \in 1..Len(Order)
  BY <1>p, <1>d, OrderIsList
<1>n. /\ now \in Nat /\ secret \in [Certs -> Cert \cup {None}] /\ due \in BOOLEAN
      /\ \A d \in Certs : secret[d] # None => secret[d].expires \in Nat
  BY CertConstants DEF Types, Counters, Secrets, Cert
<1>c. CAThreshold \in Nat
  BY CertConstants
<1>w. ASSUME UNCHANGED <<now, ca>> PROVE CAWaits' = CAWaits
  BY <1>e, <1>w DEF CAWaits, NeedsRenewal
<1>r. ASSUME UNCHANGED <<now, secret>> PROVE \A c \in Certs : Fresh(c)' = Fresh(c)
  BY <1>r DEF Fresh
<1>s. serial \in Nat /\ serial' \in Nat /\ serial <= serial'
  <2>1. serial \in Nat /\ serial' \in Nat
    BY TypesInductive DEF Types, Counters
  <2>2. serial' = serial \/ serial' = serial + 1
    BY Zenon DEF Next, vars, Reconcile, StartReconcile, KeepCA, CARenewalPending, GenerateCA,
           ReconcileNodeCert, ReconcileDashboardCerts, ReconcileFilebeatCerts,
           ReconcileAdminCerts, ReconcileCert, CollectCertHashes, TriggerHotReload,
           ApplyIndexer, ApplyManager, ApplyDashboard, ApplyWorkload, Interrupt,
           RestartPods, AutomaticReload, Tick, UserChangesSecret, UserChangesCA,
           UserChangesSpec
  <2> QED  BY <2>1, <2>2
<1>g. ASSUME UNCHANGED ca, ca \in CASecret /\ ca.good PROVE (ca \in CASecret /\ ca.good)'
  BY <1>g, <1>s, NumbersStay
<1>i. /\ NothingYet \/ (ca \in CASecret /\ ca.good)
      /\ pc[1] \in {"idle", "ca"} =>
           (\A c \in Certs : secret[c] # None => now <= secret[c].expires) \/ CAWaits
      /\ pc[1] = "certs" => \A j \in 1..(pc[2] - 1) : Fresh(Order[j])
      /\ pc[1] \in {"collect", "reload", "apply"} \/ (pc[1] \in {"idle", "ca"} /\ ~due) =>
           (\A c \in Certs : Fresh(c)) \/ CAWaits
  BY <1>0 DEF CertsLast
<1>1. CASE StartReconcile
  <2>1. pc[1] = "idle" /\ pc'[1] = "ca" /\ UNCHANGED <<now, due, ca, secret>>
    BY <1>1 DEF StartReconcile, world
  <2> QED  BY <1>i, <1>w, <1>r, <1>g, <2>1 DEF NothingYet
<1>2. CASE KeepCA
  <2>1. /\ pc[1] = "ca" /\ pc' = <<"certs", 1>> /\ UNCHANGED <<now, due, ca, secret>>
        /\ ca # None /\ ca.good
    BY <1>2 DEF KeepCA, world
  <2>2. ca \in CASecret
    BY <2>1 DEF Types, Secrets
  <2> QED  BY <1>g, <2>1, <2>2
<1>3. CASE CARenewalPending
  <2>1. /\ pc[1] = "ca" /\ pc' = <<"collect", 0>> /\ UNCHANGED <<now, due, ca, secret>>
        /\ ca # None /\ ca.good /\ NeedsRenewal(ca, CAThreshold) /\ env.policy # "always"
    BY <1>3 DEF CARenewalPending, AllowRenewal, world
  <2>2. ca \in CASecret /\ CAWaits
    BY <2>1 DEF Types, Secrets, CAWaits
  <2> QED  BY <1>g, <1>w, <2>1, <2>2
<1>4. CASE GenerateCA
  <2>1. /\ pc' = <<"certs", 1>>
        /\ ca' = [id |-> serial', expires |-> now + CAValidity, good |-> TRUE]
    BY <1>4 DEF GenerateCA
  <2>2. serial' \in 1..serial'
    BY <1>s, <1>4 DEF GenerateCA
  <2>3. now + CAValidity \in 1..(MaxTime + CAValidity)
    BY CertConstants DEF Types, Counters
  <2>4. ca' \in CASecret' /\ ca'.good
    BY <2>1, <2>2, <2>3 DEF CASecret
  <2> QED  BY <2>1, <2>4
<1>5. ASSUME NEW cs, ReconcileCert(cs)
      PROVE  /\ (ca \in CASecret /\ ca.good)'
             /\ (pc[1] = "certs" => \A j \in 1..(pc[2] - 1) : Fresh(Order[j]))'
             /\ pc'[1] = "collect" => \A c \in Certs : Fresh(c)'
             /\ pc'[1] \in {"certs", "collect"}
  <2>1. /\ pc[1] = "certs" /\ UNCHANGED <<now, due, ca>>
        /\ pc' = IF pc[2] = Len(Order) THEN <<"collect", 0>> ELSE <<"certs", pc[2] + 1>>
    BY <1>5 DEF ReconcileCert, world
  <2>2. pc[2] \in 1..Len(Order)
    BY <2>1, StepForms, <1>p
  <2>3. ca \in CASecret /\ ca.good
    BY <1>i, <2>1 DEF NothingYet
  <2>4. PICK c : c = Order[pc[2]]
    OBVIOUS
  <2>5. Fresh(c)' /\ \A d \in Certs : Fresh(d) => Fresh(d)'
    BY <1>5, <2>4, CertIsFresh
  <2>6. PICK n \in 1..Len(Order) : n = pc[2]
    BY <2>2
  <2>7. ASSUME NEW j \in 1..n PROVE Fresh(Order[j])'
    <3>1. Len(Order) \in Nat /\ Order[j] \in Certs
      BY OrderIsList, <2>6
    <3>2. CASE j = n
      <4>1. Order[j] = c
        BY <2>4, <2>6, <3>2
      <4> QED  BY <2>5, <4>1
    <3>3. CASE j # n
      <4>1. Fresh(Order[j])
        BY <1>i, <2>1, <2>6, <3>1, <3>3
      <4> QED  BY <2>5, <3>1, <4>1
    <3> QED  BY <3>2, <3>3
  <2>8. CASE pc[2] = Len(Order)
    <3>1. \A d \in Certs : \E j \in 1..n : Order[j] = d
      BY <2>6, <2>8, OrderIsList DEF Certs
    <3>2. \A d \in Certs : Fresh(d)'
      BY <2>7, <3>1
    <3> QED  BY <1>g, <2>1, <2>3, <2>8, <3>2
  <2>9. CASE pc[2] # Len(Order)
    <3>1. pc' = <<"certs", n + 1>> /\ n + 1 - 1 = n
      BY <2>1, <2>6, <2>9, OrderIsList
    <3>2. \A j \in 1..(pc'[2] - 1) : Fresh(Order[j])'
      BY <2>7, <3>1
    <3> QED  BY <1>g, <2>1, <2>3, <3>1, <3>2
  <2> QED  BY <2>8, <2>9
<1>6. CASE CollectCertHashes \/ TriggerHotReload \/ \E ws : ApplyWorkload(ws)
  <2>1. /\ pc[1] \in {"collect", "reload", "apply"} /\ UNCHANGED <<now, ca, secret>>
        /\ pc'[1] \in {"collect", "reload", "apply", "idle"}
    BY <1>6, CalmMoves, Zenon
  <2>2. ca \in CASecret /\ ca.good
    BY <1>i, <2>1 DEF NothingYet
  <2>3. (\A c \in Certs : Fresh(c)) \/ CAWaits
    BY <1>i, <2>1
  <2>4. (\A c \in Certs : Fresh(c)') \/ CAWaits'
    BY <1>w, <1>r, <2>1, <2>3
  <2>5. (\A c \in Certs : Fresh(c)) =>
          \A c \in Certs : secret'[c] # None => now' <= secret'[c].expires
    BY <1>n, <2>1 DEF Fresh
  <2>6. (\A c \in Certs : secret'[c] # None => now' <= secret'[c].expires) \/ CAWaits'
    BY <1>w, <2>1, <2>3, <2>5
  <2> QED  BY <1>g, <2>1, <2>2, <2>4, <2>6
<1>7. CASE Tick
  <2>1. ~due /\ due' /\ now' = now + 1 /\ pc[1] = "idle" /\ UNCHANGED <<ca, secret, pc>>
    BY <1>7 DEF Tick
  <2>2. ca \in CASecret /\ ca.good
    BY <1>i, <2>1 DEF NothingYet
  <2>3. CAWaits => CAWaits'
    <3>1. ca.expires \in Nat
      BY <2>2, CertConstants DEF CASecret
    <3> QED  BY <1>e, <1>n, <1>c, <2>1, <3>1 DEF CAWaits, NeedsRenewal
  <2>4. (\A c \in Certs : Fresh(c)) =>
          \A c \in Certs : secret'[c] # None => now' <= secret'[c].expires
    BY <1>n, <2>1 DEF Fresh
  <2> QED  BY <1>i, <1>g, <2>1, <2>2, <2>3, <2>4
<1>8. CASE UNCHANGED <<env, now, due, ca, secret, pc>>
  <2>1. CAWaits' = CAWaits /\ (\A c \in Certs : Fresh(c)' = Fresh(c)) /\ pc' = pc
    BY <1>8, <1>w, <1>r
  <2>2. (NothingYet \/ (ca \in CASecret /\ ca.good))'
    BY <1>8, <1>i, <1>g DEF NothingYet
  <2>3. (pc[1] \in {"idle", "ca"} =>
          (\A c \in Certs : secret[c] # None => now <= secret[c].expires) \/ CAWaits)'
    BY <1>8, <1>i, <2>1
  <2>4. (pc[1] = "certs" => \A j \in 1..(pc[2] - 1) : Fresh(Order[j]))'
    BY <1>8, <1>i DEF Fresh
  <2>5. (pc[1] \in {"collect", "reload", "apply"} \/ (pc[1] \in {"idle", "ca"} /\ ~due) =>
          (\A c \in Certs : Fresh(c)) \/ CAWaits)'
    BY <1>8, <1>i, <2>1
  <2> QED  BY <2>2, <2>3, <2>4, <2>5
<1>9. CASE UNCHANGED vars
  BY <1>8, <1>9 DEF vars
<1>10. CASE \E cs : ReconcileCert(cs)
  <2>1. PICK cs : ReconcileCert(cs)
    BY <1>10
  <2>2. pc'[1] \in {"certs", "collect"} /\ (ca \in CASecret /\ ca.good)'
    BY <1>5, <2>1
  <2>3. (pc[1] = "certs" => \A j \in 1..(pc[2] - 1) : Fresh(Order[j]))'
    BY <1>5, <2>1
  <2>4. pc'[1] = "collect" => \A c \in Certs : Fresh(c)'
    BY <1>5, <2>1
  <2> QED  BY <2>2, <2>3, <2>4
<1> QED  BY <1>0, <1>1, <1>2, <1>3, <1>4, <1>6, <1>7, <1>8, <1>9, <1>10, CalmSteps

\* No certificate expires in its Secret unless the renewal of the CA has to
\* wait, in which case ReconcileWithHashes skips it.
THEOREM CertsExpireOnlyWhileCAWaits == Spec => []ExpiresOnlyWhileCAWaits
<1>1. Init => CertsLast
  <2> SUFFICES ASSUME Init PROVE CertsLast
    OBVIOUS
  <2>1. due /\ pc = <<"idle", 0>> /\ \A c \in Certs : secret[c] = None
    BY DEF Init
  <2> QED  BY <2>1 DEF CertsLast, NothingYet
<1>2. Types /\ CertsLast /\ [Next]_vars => CertsLast'
  BY CertsLastInductive
<1>3. CertsLast => ExpiresOnlyWhileCAWaits
  BY DEF CertsLast, ExpiresOnlyWhileCAWaits, Quiet, Calm, CAWaits
<1> QED  BY <1>1, <1>2, <1>3, TypesAlways, PTL DEF Spec

=============================================================================

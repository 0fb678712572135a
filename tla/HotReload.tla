----------------------------- MODULE HotReload -----------------------------
(***************************************************************************)
(* A renewed certificate reaches the pods of the indexer.  The reconcile   *)
(* that renewed it waits until the kubelet has brought it to the first     *)
(* pod, then tells every pod in turn to reload what its own volume holds,  *)
(* and restarts them all when something failed.  Certificates are numbered *)
(* in the order in which they were issued.                                 *)
(***************************************************************************)
EXTENDS Naturals

CONSTANTS IndexerPods,        \* the pods of the indexer
          Renewals,           \* how often the certificate is renewed
          ReloadFaults,       \* how often something goes wrong
          ReloadEnvironments  \* the sets of kinds of faults that may occur

(***************************************************************************)
(* k8s    a Secret cannot be read                                          *)
(* cache  the client's cache still has the Secret before the renewal       *)
(* slow   the kubelet takes longer than the time it is given               *)
(* call   a pod fails to answer, whether or not it has reloaded            *)
(* down   a pod goes down; it comes up again                               *)
(* crash  the operator restarts                                            *)
(***************************************************************************)
ReloadFaultKinds == {"k8s", "cache", "slow", "call", "down", "crash"}

Pods == 0..(IndexerPods - 1)
defaultRetryAttempts == 3

\* What spec.tls.hotReload and the version come to: no hot reload, OpenSearch
\* watches the files itself, it does but is also told, it has to be told, or
\* the version cannot be read.
Methods == {"none", "automatic", "forced", "api", "unknown"}
Told == {"forced", "api"}
Watches == {"automatic", "forced"}

VARIABLES hEnv,      \* the faults that may occur
          hFaults,   \* the faults that did
          method,    \* how the pods come to reload
          newest,    \* the certificate in the Secret
          mount,     \* the one in each pod's volume
          serves,    \* the one each pod uses
          down,      \* the pods that are down
          asked,     \* the certificate the template last asked a restart for
          begun,     \* the one each pod was started for
          behind,    \* pods told to reload before their volume had the newest
          blind,     \* the newest when pod 0's volume was not compared with it
          cut,       \* the newest when a reconcile was cut short
          hpc, turn, attempt, failed

hVars == <<hEnv, hFaults, method, newest, mount, serves, down, asked, begun,
           behind, blind, cut, hpc, turn, attempt, failed>>
podVars == <<mount, serves, down, begun>>

\* What the constants are.
ReloadConstants ==
  /\ IndexerPods \in Nat \ {0} /\ {Renewals, ReloadFaults} \subseteq Nat
  /\ ReloadEnvironments \subseteq SUBSET ReloadFaultKinds

TypeOK ==
  LET certs == 0..(Renewals + 1)
  IN /\ hEnv \in SUBSET ReloadFaultKinds /\ hFaults \in 0..ReloadFaults
     /\ method \in Methods
     /\ newest \in certs \ {0} /\ {asked, blind, cut} \subseteq certs
     /\ {mount, serves, begun} \subseteq [Pods -> certs]
     /\ \A p \in Pods : serves[p] <= newest /\ mount[p] <= newest
     /\ down \subseteq Pods /\ behind \subseteq Pods
     /\ hpc \in {"idle", "trigger", "wait", "reload", "apply"}
     /\ turn \in Pods /\ attempt \in 1..defaultRetryAttempts
     /\ failed \in BOOLEAN

Init ==
  /\ hEnv \in ReloadEnvironments /\ hFaults = 0
  /\ method \in Methods
  /\ newest = 1
  /\ mount = [p \in Pods |-> 1] /\ serves = mount
  /\ down = {} /\ behind = {}
  /\ asked = 0 /\ begun = [p \in Pods |-> 0]
  /\ blind = 0 /\ cut = 0
  /\ hpc = "idle" /\ turn = 0 /\ attempt = 1 /\ failed = FALSE

Fault(kind) == kind \in hEnv /\ hFaults < ReloadFaults /\ hFaults' = hFaults + 1

-----------------------------------------------------------------------------
\* ReconcileWithHashes has renewed the indexer's certificate, not the CA.
Renew ==
  /\ hpc = "idle" /\ newest <= Renewals
  /\ newest' = newest + 1
  /\ hpc' = "trigger" /\ turn' = 0 /\ attempt' = 1
  /\ UNCHANGED <<hEnv, hFaults, method, podVars, asked, behind, blind, cut, failed>>

\* It is no error when there is no hot reload.
TriggerHotReload ==
  /\ hpc = "trigger"
  /\ \/ /\ hpc' = IF method \in Told THEN "wait" ELSE "apply"
        /\ failed' = (method = "unknown")
        /\ UNCHANGED hFaults
     \/ method \in Told /\ Fault("k8s") /\ hpc' = "apply" /\ failed' = TRUE
  /\ UNCHANGED <<hEnv, method, newest, podVars, asked, behind, blind, cut, turn,
                 attempt>>

\* Mutant of waitForCertificatePropagation: the volume is not looked at.
NoWait ==
  /\ hpc = "wait" /\ hpc' = "reload"
  /\ UNCHANGED <<hEnv, hFaults, method, newest, podVars, asked, behind, blind,
                 cut, turn, attempt, failed>>

\* When the Secret cannot be read, a connection that the CA verifies is enough:
\* the CA is the same, so any certificate will do.
waitForCertificatePropagationViaTLS ==
  0 \notin down /\ hpc' = "reload" /\ blind' = newest /\ UNCHANGED failed

\* The file in the first pod is compared with the Secret, as it was read at
\* the start, until they agree or the time is up.  Where the Secret read is the
\* one before, the file that is to be replaced agrees, and the new one never.
waitForCertificatePropagation ==
  /\ hpc = "wait"
  /\ \/ /\ 0 \notin down /\ mount[0] = newest
        /\ hpc' = "reload" /\ UNCHANGED <<hFaults, blind, failed>>
     \/ /\ 0 \notin down /\ mount[0] = newest - 1 /\ Fault("cache")
        /\ hpc' = "reload" /\ blind' = newest /\ UNCHANGED failed
     \/ Fault("k8s") /\ waitForCertificatePropagationViaTLS
     \/ /\ \/ 0 \in down /\ UNCHANGED hFaults
           \/ 0 \notin down /\ mount[0] # newest /\ Fault("slow")
           \/ 0 \notin down /\ mount[0] # newest - 1 /\ Fault("cache")
        /\ hpc' = "apply" /\ failed' = TRUE /\ UNCHANGED blind
  /\ UNCHANGED <<hEnv, method, newest, podVars, asked, behind, cut, turn, attempt>>

NextPod ==
  /\ attempt' = 1
  /\ IF turn = IndexerPods - 1 THEN hpc' = "apply" /\ UNCHANGED turn
     ELSE turn' = turn + 1 /\ UNCHANGED hpc

\* A pod that is not up in time counts as failed and the next one is told.
waitForSecurityReady ==
  /\ hpc = "reload" /\ attempt = 1 /\ turn \in down
  /\ failed' = TRUE /\ NextPod
  /\ UNCHANGED <<hEnv, hFaults, method, newest, podVars, asked, behind, blind, cut>>

\* The pod reloads what its volume holds, which may not be the newest yet.
ReloadAllCertificates ==
  /\ hpc = "reload" /\ turn \notin down
  /\ serves' = [serves EXCEPT ![turn] = mount[turn]]
  /\ behind' = IF mount[turn] = newest THEN behind \ {turn} ELSE behind \cup {turn}
  /\ NextPod
  /\ UNCHANGED <<hEnv, hFaults, method, newest, mount, down, begun, asked, blind,
                 cut, failed>>

\* Mutant of callReloadWithRetry: the last failed attempt is no error.
RetryThenGoOn ==
  /\ hpc = "reload"
  /\ \/ turn \in down /\ attempt > 1 /\ UNCHANGED <<hFaults, serves>>
     \/ turn \notin down /\ Fault("call") /\ UNCHANGED serves
  /\ IF attempt < defaultRetryAttempts
       THEN attempt' = attempt + 1 /\ UNCHANGED <<hpc, turn>> ELSE NextPod
  /\ UNCHANGED <<hEnv, method, newest, mount, down, begun, asked, behind, blind,
                 cut, failed>>

\* An attempt fails; after the last one the pod counts as failed.
callReloadWithRetry ==
  /\ hpc = "reload"
  /\ \/ turn \in down /\ attempt > 1 /\ UNCHANGED <<hFaults, serves>>
     \/ /\ turn \notin down /\ Fault("call")
        /\ serves' \in {serves, [serves EXCEPT ![turn] = mount[turn]]}
  /\ IF attempt < defaultRetryAttempts
       THEN attempt' = attempt + 1 /\ UNCHANGED <<hpc, turn, failed>>
       ELSE failed' = TRUE /\ NextPod
  /\ UNCHANGED <<hEnv, method, newest, mount, down, begun, asked, behind, blind, cut>>

\* Reconcile hands the hash to the StatefulSet only if the reload failed.
ApplyIndexer ==
  /\ hpc = "apply" /\ hpc' = "idle"
  /\ asked' = IF failed THEN newest ELSE asked
  /\ failed' = FALSE
  /\ UNCHANGED <<hEnv, hFaults, method, newest, podVars, behind, blind, cut, turn,
                 attempt>>

Operator ==
  \/ TriggerHotReload \/ waitForCertificatePropagation \/ waitForSecurityReady
  \/ ReloadAllCertificates \/ callReloadWithRetry \/ ApplyIndexer

-----------------------------------------------------------------------------
\* The kubelet brings the Secret into the volume.
Kubelet(p) ==
  /\ p \notin down /\ mount[p] # newest
  /\ mount' = [mount EXCEPT ![p] = newest]
  /\ UNCHANGED <<hEnv, hFaults, method, newest, serves, down, begun, asked, behind,
                 blind, cut, hpc, turn, attempt, failed>>

\* OpenSearch sees that the file changed.
FileWatch(p) ==
  /\ method \in Watches /\ p \notin down /\ serves[p] # mount[p]
  /\ serves' = [serves EXCEPT ![p] = mount[p]]
  /\ UNCHANGED <<hEnv, hFaults, method, newest, mount, down, begun, asked, behind,
                 blind, cut, hpc, turn, attempt, failed>>

\* A pod starts with the Secret as it is.
Start(p) ==
  /\ p \in down \/ begun[p] # asked
  /\ mount' = [mount EXCEPT ![p] = newest]
  /\ serves' = [serves EXCEPT ![p] = newest]
  /\ begun' = [begun EXCEPT ![p] = asked]
  /\ down' = down \ {p} /\ behind' = behind \ {p}
  /\ UNCHANGED <<hEnv, hFaults, method, newest, asked, blind, cut, hpc, turn,
                 attempt, failed>>

GoDown(p) ==
  /\ p \notin down /\ Fault("down") /\ down' = down \cup {p}
  /\ UNCHANGED <<hEnv, method, newest, mount, serves, begun, asked, behind, blind,
                 cut, hpc, turn, attempt, failed>>

\* What the reconcile knew is lost, and the next one finds nothing to renew.
Crash ==
  /\ hpc # "idle" /\ Fault("crash")
  /\ hpc' = "idle" /\ failed' = FALSE /\ cut' = newest
  /\ UNCHANGED <<hEnv, method, newest, podVars, asked, behind, blind, turn, attempt>>

Cluster == \E p \in Pods : Kubelet(p) \/ FileWatch(p) \/ Start(p)

Next ==
  \/ Renew \/ Operator \/ Cluster \/ Crash
  \/ \E p \in Pods : GoDown(p)

Spec == Init /\ [][Next]_hVars

-----------------------------------------------------------------------------
\* A hot reload that ended without a restart is done: the first pod uses the
\* newest certificate, and so does every other whose volume had it when the pod
\* was told.  Left out are a pod whose volume was behind the first pod's, and a
\* reload before which pod 0's file was compared with no Secret or an old one.
ReloadIsTrue ==
  method \in Told /\ hpc = "idle" /\ newest \notin {asked, cut, blind} =>
    /\ serves[0] = newest
    /\ \A p \in Pods \ {0} : serves[p] = newest \/ p \in behind

\* Where there is a hot reload every pod comes to use the newest certificate,
\* whatever failed: by itself, when it is told, or in the restart that a
\* failure leads to.  Left out is a pod that does not watch its files, if it
\* was told too early or the operator crashed on the way.
PodsCatchUp ==
  method # "none" =>
    \A p \in Pods :
      \/ serves[p] = newest
      \/ method \notin Watches /\ (p \in behind \/ cut = newest)

=============================================================================

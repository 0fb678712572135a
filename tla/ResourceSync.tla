---------------------------- MODULE ResourceSync ----------------------------
(***************************************************************************)
(* The life of one OpenSearch custom resource: its controller copies the   *)
(* resource into the OpenSearch cluster its clusterRef names, reports      *)
(* status, and guards the deletion with a finalizer.  The WazuhCluster     *)
(* controller runs in another worker and copies the security resources     *)
(* too (SecurityConfigSynchronizer).                                       *)
(*                                                                         *)
(* A read from the informer's cache that is behind is a read made earlier, *)
(* so the model reads the object itself and lets it change afterwards.     *)
(* The client factory is set by main for every reconciler.                 *)
(***************************************************************************)
EXTENDS Integers, ResourceFields

CONSTANTS Bodies,        \* what the user may ask for
          Clusters,      \* the WazuhClusters a resource may name
          MaxEdits,      \* bound on what the user does in a behaviour
          MaxSyncs,      \* bound on the runs of the synchronizer
          Environments,  \* the sets of FaultKinds that may occur together
          None           \* no object, no hash

(***************************************************************************)
(* client   the OpenSearch client cannot be built                          *)
(* absent   the repository of a snapshot policy is not registered          *)
(* put      OpenSearch fails a request, or does it and the answer is lost  *)
(* delete   OpenSearch fails a deletion                                    *)
(* k8s      the API server fails a write                                   *)
(* restart  the operator restarts                                          *)
(* move     the user changes clusterRef                                    *)
(* sync     the synchronizer runs                                          *)
(***************************************************************************)
FaultKinds ==
  {"client", "absent", "put", "delete", "k8s", "restart", "move", "sync"}

-----------------------------------------------------------------------------
Specs == [body : Bodies, cluster : Clusters]

\* whole: the field that is followed is as the body says.
Objects == [body : Bodies, whole : BOOLEAN]

\* hash is status.lastAppliedHash: the spec it was computed from, or None.
Resources ==
  [deleting : BOOLEAN, finalizer : BOOLEAN, spec : Specs,
   phase : {"", "Pending", "Failed", "Ready"}, hash : Specs \cup {None}, drift : BOOLEAN]

\* None is neither a resource nor an object; the bounds are natural numbers.
ResourceConstants ==
  None \notin Resources \cup Objects /\ {MaxEdits, MaxSyncs} \subseteq Nat

VARIABLES
  faults,    \* what may happen on the way in this behaviour
  kind,      \* the kind of the resource
  field,     \* the field of its spec that is followed
  cr,        \* the resource in the API server, or None
  live,      \* the object in each OpenSearch cluster, or None
  queued,    \* the controller's work queue holds the resource
  pc, copy,  \* where the controller is, and the resource it has read
  spc, scopy,\* the same for the synchronizer
  fresh,     \* the workers whose copy is the stored version
  edits, syncs

world == <<faults, kind, field>>
store == <<cr, queued, fresh>>
controller == <<pc, copy>>
synchronizer == <<spc, scopy, syncs>>
vars == <<world, store, live, controller, synchronizer, edits>>

TypeOK ==
  /\ faults \in Environments
  /\ kind \in KindNames /\ field \in Of(kind).spec
  /\ cr \in Resources \cup {None}
  /\ live \in [Clusters -> Objects \cup {None}]
  /\ queued \in BOOLEAN
  /\ pc \in {"idle", "finalizer", "delete", "release", "sync", "pending", "failed",
             "status"}
  /\ spc \in {"idle", "put", "ready", "failed"}
  /\ copy \in Resources \cup {None} /\ scopy \in Resources \cup {None}
  /\ fresh \subseteq {"controller", "synchronizer"}
  /\ edits \in 0 .. MaxEdits /\ syncs \in 0 .. MaxSyncs

Init ==
  /\ faults \in Environments
  /\ kind \in KindNames /\ field \in Of(kind).spec
  /\ cr = None /\ live = [c \in Clusters |-> None]
  /\ queued = FALSE /\ fresh = {}
  /\ pc = "idle" /\ copy = None
  /\ spc = "idle" /\ scopy = None
  /\ edits = 0 /\ syncs = 0

-----------------------------------------------------------------------------
(***************************************************************************)
(* The API server.  Every change of the stored object is an event that     *)
(* queues it (the controllers set no predicate) and makes the copies of    *)
(* the other workers old; a write from an old copy is refused.             *)
(***************************************************************************)
Store(writers, r) ==
  /\ cr' = r
  /\ queued' = TRUE
  /\ fresh' = fresh \cap writers

\* The controller's reconcile ends; what it has read is dropped.
Done == pc' = "idle" /\ copy' = None

\* Its write is refused because the copy is old, or fails.
Refused == "controller" \notin fresh \/ "k8s" \in faults

\* Mutant: the error is logged and not returned.
ReconcileErrorLogged ==
  /\ Done
  /\ fresh' = fresh \ {"controller"}
  /\ UNCHANGED <<world, cr, queued, synchronizer, edits>>

\* It returns an error, and the queue tries again.
ReconcileError ==
  /\ Done
  /\ queued' = TRUE
  /\ fresh' = fresh \ {"controller"}
  /\ UNCHANGED <<world, cr, synchronizer, edits>>

Goto(l) == pc' = l /\ UNCHANGED <<copy, world, synchronizer, edits>>

-----------------------------------------------------------------------------
(***************************************************************************)
(* The controller of the kind.                                             *)
(***************************************************************************)
Fetch ==
  /\ pc = "idle" /\ queued
  /\ queued' = FALSE
  /\ IF cr = None
       THEN Done /\ UNCHANGED fresh
       ELSE pc' = "finalizer" /\ copy' = cr /\ fresh' = fresh \cup {"controller"}
  /\ UNCHANGED <<world, cr, live, synchronizer, edits>>

AfterFinalizer == IF copy.deleting THEN "delete" ELSE "sync"

HasFinalizer ==
  /\ pc = "finalizer" /\ copy.finalizer
  /\ Goto(AfterFinalizer)
  /\ UNCHANGED <<store, live>>

\* Mutant: the finalizer is put into the copy and saved with the status.
AddFinalizerLater ==
  /\ pc = "finalizer" /\ ~copy.finalizer
  /\ copy' = [copy EXCEPT !.finalizer = TRUE]
  /\ pc' = AfterFinalizer
  /\ UNCHANGED <<world, store, live, synchronizer, edits>>

AddFinalizer ==
  /\ pc = "finalizer" /\ ~copy.finalizer
  /\ "controller" \in fresh
  /\ copy' = [copy EXCEPT !.finalizer = TRUE]
  /\ Store({"controller"}, copy')
  /\ pc' = AfterFinalizer
  /\ UNCHANGED <<world, live, synchronizer, edits>>

AddFinalizerError ==
  /\ pc = "finalizer" /\ ~copy.finalizer /\ Refused
  /\ ReconcileError
  /\ UNCHANGED live

\* An error of the deletion is logged; the finalizer goes all the same.
DeleteRemote ==
  /\ pc = "delete"
  /\ \/ live' = [live EXCEPT ![copy.spec.cluster] = None]
     \/ faults \cap {"client", "delete"} # {} /\ UNCHANGED live
  /\ Goto("release")
  /\ UNCHANGED store

RemoveFinalizer ==
  /\ pc = "release"
  /\ "controller" \in fresh
  /\ Store({}, None)
  /\ Done
  /\ UNCHANGED <<world, live, synchronizer, edits>>

RemoveFinalizerError ==
  /\ pc = "release" /\ Refused
  /\ ReconcileError
  /\ UNCHANGED live

NoClient ==
  /\ pc = "sync" /\ "client" \in faults
  /\ ReconcileError
  /\ UNCHANGED live

\* Mutant: an object that exists is left alone.
PutIfAbsent(b, old) == IF old = None THEN [body |-> b, whole |-> TRUE] ELSE old

\* The object after the reconciler has sent body b.
Put(b, old) ==
  [body |-> b,
   whole |-> \/ field \in Of(kind).updates
             \/ old = None /\ field \in Of(kind).creates
             \/ kind = "Index" /\ old # None /\ old.body = b /\ old.whole]

Sent == [live EXCEPT ![copy.spec.cluster] = Put(copy.spec.body, @)]

SyncRemote ==
  /\ pc = "sync"
  /\ live' = Sent
  /\ Goto("status")
  /\ UNCHANGED store

SyncRemoteError ==
  /\ pc = "sync" /\ "put" \in faults
  /\ live' \in {live, Sent}
  /\ IF Of(kind).fails THEN Goto("failed") /\ UNCHANGED store
     ELSE ReconcileError

\* A snapshot policy waits for its repository.
RepositoryAbsent ==
  /\ pc = "sync" /\ kind = "SnapshotPolicy" /\ "absent" \in faults
  /\ Goto("pending")
  /\ UNCHANGED <<store, live>>

\* The Failed or Pending phase is written; an error of the write is only logged.
WriteFailed ==
  /\ pc \in {"pending", "failed"}
  /\ IF cr # None /\ (Of(kind).merges \/ "controller" \in fresh)
       THEN \/ cr' = [cr EXCEPT !.phase = IF pc = "failed" THEN "Failed" ELSE "Pending"]
            \/ "k8s" \in faults /\ UNCHANGED cr
       ELSE UNCHANGED cr
  /\ Done
  /\ queued' = TRUE
  /\ fresh' = IF cr' = cr THEN fresh \ {"controller"} ELSE {}
  /\ UNCHANGED <<world, live, synchronizer, edits>>

\* Mutant: the hash is taken over a part of the spec.
HashOfBody(r) ==
  [r EXCEPT !.phase = "Ready", !.hash = r.spec.body, !.drift = FALSE]

\* drift: the spec is no longer the one applied last.
Applied(r) ==
  IF Of(kind).merges
    THEN [cr EXCEPT !.phase = "Ready"]
    ELSE [r EXCEPT !.phase = "Ready", !.hash = r.spec,
                   !.drift = r.hash # None /\ r.hash # r.spec]

\* A status equal to the stored one is written too, with a new lastSyncTime;
\* within one second that is no change, and no event.
WriteStatus ==
  /\ pc = "status"
  /\ cr # None /\ (Of(kind).merges \/ "controller" \in fresh)
  /\ \/ Store({}, Applied(copy))
     \/ /\ Applied(copy) = cr
        /\ fresh' = fresh \ {"controller"}
        /\ UNCHANGED <<cr, queued>>
  /\ Done
  /\ UNCHANGED <<world, live, synchronizer, edits>>

WriteStatusError ==
  /\ pc = "status"
  /\ \/ cr = None
     \/ ~Of(kind).merges /\ "controller" \notin fresh
     \/ "k8s" \in faults
  /\ ReconcileError
  /\ UNCHANGED live

-----------------------------------------------------------------------------
(***************************************************************************)
(* The synchronizer, called in the reconcile of the WazuhCluster.  It does *)
(* not look at deletionTimestamp, and ignores an error of the status       *)
(* write.                                                                  *)
(***************************************************************************)
SyncList ==
  /\ "sync" \in faults /\ Of(kind).syncs # {} /\ syncs < MaxSyncs
  /\ spc = "idle" /\ cr # None
  /\ spc' = "put" /\ scopy' = cr /\ syncs' = syncs + 1
  /\ fresh' = fresh \cup {"synchronizer"}
  /\ UNCHANGED <<world, cr, queued, live, controller, edits>>

SyncPut ==
  /\ spc = "put"
  /\ \/ /\ live' = [live EXCEPT ![scopy.spec.cluster] =
                      [body |-> scopy.spec.body,
                       whole |-> field \in Of(kind).syncs]]
        /\ spc' = "ready"
     \/ "put" \in faults /\ spc' = "failed" /\ UNCHANGED live
  /\ UNCHANGED <<world, store, controller, scopy, syncs, edits>>

SyncStatus ==
  /\ spc \in {"ready", "failed"}
  /\ IF "synchronizer" \in fresh
       THEN Store({}, [cr EXCEPT !.phase = IF spc = "ready" THEN "Ready" ELSE "Failed"])
       ELSE UNCHANGED store
  /\ spc' = "idle" /\ scopy' = None
  /\ UNCHANGED <<world, live, controller, syncs, edits>>

-----------------------------------------------------------------------------
(***************************************************************************)
(* The user, and the operator's process.                                   *)
(***************************************************************************)
Edit == edits < MaxEdits /\ edits' = edits + 1

UserCreates ==
  /\ cr = None /\ Edit
  /\ \E s \in Specs :
       Store({}, [deleting |-> FALSE, finalizer |-> FALSE, spec |-> s,
                  phase |-> "", hash |-> None, drift |-> FALSE])
  /\ UNCHANGED <<world, live, controller, synchronizer>>

UserEdits ==
  /\ cr # None /\ ~cr.deleting /\ Edit
  /\ \E s \in Specs \ {cr.spec} :
       /\ s.cluster = cr.spec.cluster \/ "move" \in faults
       /\ Store({}, [cr EXCEPT !.spec = s])
  /\ UNCHANGED <<world, live, controller, synchronizer>>

UserDeletes ==
  /\ cr # None /\ ~cr.deleting /\ Edit
  /\ Store({}, IF cr.finalizer THEN [cr EXCEPT !.deleting = TRUE] ELSE None)
  /\ UNCHANGED <<world, live, controller, synchronizer>>

\* The new process lists every resource, which queues it.
OperatorRestart ==
  /\ "restart" \in faults
  /\ pc # "idle" \/ spc # "idle"
  /\ Done
  /\ spc' = "idle" /\ scopy' = None
  /\ queued' = TRUE /\ fresh' = {}
  /\ UNCHANGED <<world, cr, live, syncs, edits>>

Controller ==
  \/ Fetch \/ HasFinalizer \/ AddFinalizer \/ AddFinalizerError
  \/ DeleteRemote \/ RemoveFinalizer \/ RemoveFinalizerError
  \/ NoClient \/ RepositoryAbsent \/ SyncRemote \/ SyncRemoteError \/ WriteFailed
  \/ WriteStatus \/ WriteStatusError

Synchronizer == SyncList \/ SyncPut \/ SyncStatus

Next ==
  \/ Controller
  \/ Synchronizer
  \/ UserCreates \/ UserEdits \/ UserDeletes
  \/ OperatorRestart

Spec == Init /\ [][Next]_vars

FairSpec == Spec /\ WF_vars(Controller) /\ WF_vars(Synchronizer)

-----------------------------------------------------------------------------
(***************************************************************************)
(* An object the controller has put into OpenSearch is there only while    *)
(* the stored resource names its cluster and carries the finalizer, so no  *)
(* deletion is missed, whatever fails on the way to the object and         *)
(* wherever the operator restarts: AddFinalizer precedes SyncRemote, and   *)
(* DeleteRemote RemoveFinalizer.                                           *)
(***************************************************************************)
ObjectIsOwned ==
  faults \cap {"client", "delete", "move", "sync"} = {} =>
    \A c \in Clusters :
      live[c] # None => cr # None /\ cr.finalizer /\ cr.spec.cluster = c

\* OpenSearch holds what the resource asks for.
InOpenSearch == live[cr.spec.cluster] = [body |-> cr.spec.body, whole |-> TRUE]

(***************************************************************************)
(* The controller rests only when its work is done.  With no event, retry  *)
(* or reconcile outstanding, the resource is Ready, it is not half deleted *)
(* and OpenSearch holds what it asks for, although the spec may change     *)
(* between a read, the request and the status write, and each of them may  *)
(* fail.  Not for the gaps: fields no builder reads or no request carries, *)
(* a hash sent as a password and the shards of an index that exists.       *)
(***************************************************************************)
RestsWhenApplied ==
  "sync" \notin faults /\ cr # None /\ pc = "idle" /\ ~queued =>
    /\ cr.phase = "Ready" /\ ~cr.deleting
    /\ field \in Of(kind).gaps \/ InOpenSearch

(***************************************************************************)
(* A resource that is deleted goes away in the end, whatever clusters it   *)
(* named before, as long as the calls of the deletion succeed.             *)
(***************************************************************************)
DeletionCompleted ==
  faults \cap {"client", "delete", "k8s", "restart", "sync"} = {} =>
    cr = None \/ ~cr.deleting

(***************************************************************************)
(* Once the user stops editing and nothing fails, OpenSearch comes to hold *)
(* what the resource asks for, and goes on to: the controller's rewriting  *)
(* of the object after its own status events changes nothing.              *)
(***************************************************************************)
Converged ==
  faults \subseteq {"move"} /\ cr # None =>
    cr.deleting \/ field \in Of(kind).gaps \/ InOpenSearch

(***************************************************************************)
(* "All controllers use finalizers to ensure clean deletion"               *)
(* (docs/reference/api-contracts.md): with no call failing, OpenSearch     *)
(* holds no object once the resource is gone.  The synchronizer can put it *)
(* back between DeleteRemote and the end of the resource.                  *)
(***************************************************************************)
CleanDeletion == cr = None => \A c \in Clusters : live[c] = None

=============================================================================

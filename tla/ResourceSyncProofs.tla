------------------------- MODULE ResourceSyncProofs -------------------------
(***************************************************************************)
(* Proofs about ResourceSync, for all bodies, clusters, bounds and sets of *)
(* environments, and for every kind of resource and field of its spec.     *)
(***************************************************************************)
EXTENDS ResourceSync, TLAPS

-----------------------------------------------------------------------------
(***************************************************************************)
(* Type correctness, with what the two workers know of what they read.     *)
(***************************************************************************)

\* A worker that is under way has read a resource, and while no one else has
\* written it the controller's copy is the stored resource.
CopiesKept ==
  /\ pc # "idle" => copy # None
  /\ spc # "idle" => scopy # None
  /\ fresh # {} => cr # None
  /\ "controller" \in fresh /\ pc # "idle" => copy = cr

TypeInv == TypeOK /\ CopiesKept

\* Changing a field of a resource gives a resource.
LEMMA ChangedResource ==
  ASSUME NEW r \in Resources
  PROVE  /\ \A p \in {"", "Pending", "Failed", "Ready"} :
              [r EXCEPT !.phase = p] \in Resources
         /\ [r EXCEPT !.finalizer = TRUE] \in Resources
         /\ [r EXCEPT !.deleting = TRUE] \in Resources
         /\ \A s \in Specs : [r EXCEPT !.spec = s] \in Resources
         /\ \A h \in Specs \cup {None}, d \in BOOLEAN :
              [r EXCEPT !.phase = "Ready", !.hash = h, !.drift = d] \in Resources
         /\ r.spec \in Specs /\ r.spec.cluster \in Clusters /\ r.spec.body \in Bodies
  BY Zenon DEF Resources, Specs

\* What is written after a request that succeeded is a resource.
LEMMA AppliedResource ==
  ASSUME cr \in Resources, copy \in Resources
  PROVE  Applied(copy) \in Resources
<1>1. CASE Of(kind).merges  BY <1>1, ChangedResource, Zenon DEF Applied
<1>2. CASE ~Of(kind).merges
  <2>1. (copy.hash # None /\ copy.hash # copy.spec) \in BOOLEAN
    BY Zenon
  <2> QED  BY <1>2, <2>1, ChangedResource, Zenon DEF Applied
<1> QED  BY <1>1, <1>2

\* A request leaves an object of the resource's body in the resource's cluster
\* and the other clusters alone.
LEMMA SentObject ==
  ASSUME copy \in Resources, live \in [Clusters -> Objects \cup {None}]
  PROVE  /\ Sent \in [Clusters -> Objects \cup {None}]
         /\ \A c \in Clusters :
              Sent[c] = IF c = copy.spec.cluster
                        THEN Put(copy.spec.body, live[c]) ELSE live[c]
<1>1. \A b \in Bodies : \A o : Put(b, o) \in Objects
  <2>1. \A o, b : (\/ field \in Of(kind).updates
                   \/ o = None /\ field \in Of(kind).creates
                   \/ kind = "Index" /\ o # None /\ o.body = b /\ o.whole)
               \in BOOLEAN
    BY Zenon
  <2> QED  BY <2>1 DEF Put, Objects
<1>2. copy.spec.body \in Bodies /\ copy.spec.cluster \in Clusters
  BY ChangedResource, Zenon
<1> HIDE DEF Objects, Put
<1> QED  BY <1>1, <1>2 DEF Sent

\* Every step keeps the types and the copies.
LEMMA TypeInductive ==
  ASSUME ResourceConstants, TypeInv, [Next]_vars
  PROVE  TypeInv'
<1> USE DEF TypeInv, CopiesKept, world, store, controller, synchronizer
<1>0. /\ None \notin Resources /\ MaxEdits \in Nat /\ MaxSyncs \in Nat
      /\ pc # "idle" => copy \in Resources
      /\ spc # "idle" => scopy \in Resources
      /\ cr # None => cr \in Resources
      /\ fresh \subseteq {"controller", "synchronizer"}
  BY DEF ResourceConstants, TypeOK
<1> HIDE DEF Resources, Objects, Of
<1>1. CASE Fetch  BY <1>0, <1>1, Zenon DEF Fetch, Done, TypeOK
<1>2. CASE HasFinalizer
  BY <1>2 DEF HasFinalizer, Goto, AfterFinalizer, TypeOK
<1>3. CASE AddFinalizer
  <2>1. copy' \in Resources
    BY <1>0, <1>3, ChangedResource, Zenon DEF AddFinalizer
  <2> QED
    BY <1>0, <1>3, <2>1, Zenon DEF AddFinalizer, AfterFinalizer, Store, TypeOK
<1>4. ASSUME ReconcileError, live' \in [Clusters -> Objects \cup {None}]
      PROVE  TypeInv'
  BY <1>0, <1>4 DEF ReconcileError, Done, TypeOK
<1>5. CASE AddFinalizerError \/ RemoveFinalizerError \/ NoClient \/ WriteStatusError
  BY <1>4, <1>5
  DEF AddFinalizerError, RemoveFinalizerError, NoClient, WriteStatusError, TypeOK
<1>6. CASE DeleteRemote  BY <1>6 DEF DeleteRemote, Goto, TypeOK
<1>7. CASE RemoveFinalizer
  BY <1>0, <1>7 DEF RemoveFinalizer, Store, Done, TypeOK
<1>8. CASE SyncRemote \/ RepositoryAbsent
  BY <1>0, <1>8, SentObject DEF SyncRemote, RepositoryAbsent, Goto, TypeOK
<1>9. CASE SyncRemoteError
  <2>1. live' \in [Clusters -> Objects \cup {None}]
    BY <1>0, <1>9, SentObject DEF SyncRemoteError, TypeOK
  <2>2. CASE ReconcileError  BY <1>4, <2>1, <2>2
  <2>3. CASE Goto("failed") /\ UNCHANGED store
    BY <1>9, <2>1, <2>3 DEF SyncRemoteError, Goto, TypeOK
  <2> QED  BY <1>9, <2>2, <2>3 DEF SyncRemoteError
<1>10. CASE WriteFailed
  <2>1. cr' \in Resources \cup {None} /\ (cr # None => cr' # None)
    <3>1. \/ cr' = cr
          \/ /\ cr # None
             /\ \E p \in {"Failed", "Pending"} : cr' = [cr EXCEPT !.phase = p]
      BY <1>10, Zenon DEF WriteFailed
    <3>2. cr # None =>
            \A p \in {"Failed", "Pending"} : [cr EXCEPT !.phase = p] \in Resources
      BY <1>0, ChangedResource, Zenon
    <3> QED  BY <1>0, <3>1, <3>2 DEF TypeOK
  <2>2. fresh' \subseteq fresh
    BY <1>10 DEF WriteFailed
  <2> QED  BY <1>0, <1>10, <2>1, <2>2 DEF WriteFailed, Done, TypeOK
<1>11. CASE WriteStatus
  <2>1. Applied(copy) \in Resources
    BY <1>0, <1>11, AppliedResource DEF WriteStatus
  <2>2. cr' \in Resources /\ queued' \in BOOLEAN /\ fresh' \subseteq fresh
    BY <1>0, <1>11, <2>1, Zenon DEF WriteStatus, Store, TypeOK
  <2> QED  BY <1>0, <1>11, <2>2 DEF WriteStatus, Done, TypeOK
<1>12. CASE SyncList  BY <1>0, <1>12 DEF SyncList, TypeOK
<1>13. CASE SyncPut
  <2>1. [body |-> scopy.spec.body, whole |-> field \in Of(kind).syncs] \in Objects
    <3>1. (field \in Of(kind).syncs) \in BOOLEAN
      OBVIOUS
    <3>2. scopy \in Resources
      BY <1>0, <1>13 DEF SyncPut
    <3>3. scopy.spec.body \in Bodies
      BY <3>2, ChangedResource, Zenon
    <3> HIDE DEF TypeInv, CopiesKept
    <3> QED  BY <3>1, <3>3 DEF Objects
  <2>2. live' \in [Clusters -> Objects \cup {None}]
    BY <1>13, <2>1 DEF SyncPut, TypeOK
  <2> QED  BY <1>13, <2>2 DEF SyncPut, TypeOK
<1>14. CASE SyncStatus
  <2>1. "synchronizer" \in fresh =>
          [cr EXCEPT !.phase = IF spc = "ready" THEN "Ready" ELSE "Failed"] \in Resources
    BY <1>0, ChangedResource, Zenon
  <2>2. /\ cr' \in Resources \cup {None} /\ queued' \in BOOLEAN
        /\ fresh' \subseteq fresh /\ (fresh' # {} => cr' = cr)
    BY <1>14, <2>1, Zenon DEF SyncStatus, Store, TypeOK
  <2> QED  BY <1>0, <1>14, <2>2 DEF SyncStatus, TypeOK
<1>15. ASSUME NEW r \in Resources \cup {None}, Store({}, r), Edit,
              UNCHANGED <<world, live, controller, synchronizer>>
       PROVE  TypeInv'
  <2>1. edits' \in 0 .. MaxEdits
    BY <1>0, <1>15 DEF Edit, TypeOK
  <2>2. cr' = r /\ queued' = TRUE /\ fresh' = {}
    BY <1>15 DEF Store
  <2> QED  BY <1>15, <2>1, <2>2 DEF TypeOK
<1>16. CASE UserCreates
  <2>1. \A s \in Specs :
          [deleting |-> FALSE, finalizer |-> FALSE, spec |-> s,
           phase |-> "", hash |-> None, drift |-> FALSE] \in Resources
    BY DEF Resources
  <2> QED  BY <1>15, <1>16, <2>1, Zenon DEF UserCreates
<1>17. CASE UserEdits \/ UserDeletes
  BY <1>0, <1>15, <1>17, ChangedResource, Zenon DEF UserEdits, UserDeletes
<1>18. CASE OperatorRestart  BY <1>18 DEF OperatorRestart, Done, TypeOK
<1>19. CASE UNCHANGED vars  BY <1>19 DEF vars, TypeOK
<1> QED
  BY <1>1, <1>2, <1>3, <1>5, <1>6, <1>7, <1>8, <1>9, <1>10, <1>11, <1>12, <1>13,
     <1>14, <1>15, <1>16, <1>17, <1>18, <1>19
  DEF Next, Controller, Synchronizer

\* The types and the copies are kept throughout.
LEMMA TypeInvariant == ASSUME ResourceConstants PROVE Spec => []TypeInv
<1>1. Init => TypeInv
  <2>1. Init => TypeOK
    <3>1. Init => live \in [Clusters -> Objects \cup {None}]
      BY DEF Init
    <3>2. 0 \in 0 .. MaxEdits /\ 0 \in 0 .. MaxSyncs
      BY DEF ResourceConstants
    <3> HIDE DEF Of, Objects, Resources, KindNames
    <3> QED  BY <3>1, <3>2, Zenon DEF Init, TypeOK
  <2> QED  BY <2>1 DEF Init, TypeInv, CopiesKept
<1>2. TypeInv /\ [Next]_vars => TypeInv'
  BY TypeInductive
<1> QED  BY <1>1, <1>2, PTL DEF Spec

\* What the controller and the synchronizer store, send and keep of an
\* OpenSearch resource is of its type, whatever fails.
THEOREM ResourceTypeCorrect == ASSUME ResourceConstants PROVE Spec => []TypeOK
  BY TypeInvariant, PTL DEF TypeInv

-----------------------------------------------------------------------------
(***************************************************************************)
(* Ownership.  An object in OpenSearch is accounted for by the finalizer   *)
(* of the stored resource, which the controller works under from the       *)
(* moment it has seen it: it is the only one to remove it.                 *)
(***************************************************************************)
Reachable == faults \cap {"client", "delete", "move", "sync"} = {}

\* The controller has come past the finalizer, or its copy has it.
UnderFinalizer ==
  pc \in {"delete", "release", "sync", "status", "pending", "failed"}
    \/ (pc = "finalizer" /\ copy.finalizer)

OwnedInv ==
  Reachable =>
    /\ spc = "idle"
    /\ UnderFinalizer =>
         cr # None /\ cr.finalizer /\ cr.spec.cluster = copy.spec.cluster
    /\ pc = "release" => \A c \in Clusters : live[c] = None
    /\ \A c \in Clusters :
         live[c] # None => cr # None /\ cr.finalizer /\ cr.spec.cluster = c

\* A change of the stored resource that leaves the finalizer and the cluster
\* alone, or comes when there is no object and no pass under the finalizer.
LEMMA OwnedWhenStored ==
  ASSUME OwnedInv, UNCHANGED <<faults, spc, live>>,
         \/ pc' = "idle" \/ (pc' = pc /\ copy' = copy),
         \/ /\ cr # None /\ cr' # None
            /\ cr.finalizer => cr'.finalizer /\ cr'.spec.cluster = cr.spec.cluster
         \/ cr = None \/ ~cr.finalizer \/ cr' = cr
         \/ pc = "release" /\ pc' = "idle"
  PROVE  OwnedInv'
  BY DEF OwnedInv, Reachable, UnderFinalizer

\* Every step keeps the objects owned.
LEMMA OwnedInductive ==
  ASSUME ResourceConstants, TypeInv, OwnedInv, [Next]_vars
  PROVE  OwnedInv'
<1> USE DEF world, store, controller, synchronizer
<1>0. /\ None \notin Resources
      /\ pc # "idle" => copy \in Resources
      /\ cr # None => cr \in Resources
      /\ "controller" \in fresh /\ pc # "idle" => copy = cr
      /\ fresh # {} => cr # None
      /\ live \in [Clusters -> Objects \cup {None}]
  BY DEF ResourceConstants, TypeInv, TypeOK, CopiesKept
<1>c. \A r \in Resources : r.spec.cluster \in Clusters
  BY ChangedResource, Zenon
<1>f. /\ \A r \in Resources : [r EXCEPT !.finalizer = TRUE].finalizer
      /\ \A r \in Resources : [r EXCEPT !.finalizer = TRUE].spec = r.spec
      /\ \A r \in Resources : [r EXCEPT !.finalizer = TRUE].deleting = r.deleting
  BY DEF Resources
<1>k. \A r \in Resources :
        /\ \A p : [r EXCEPT !.phase = p].finalizer = r.finalizer
        /\ \A p : [r EXCEPT !.phase = p].spec = r.spec
        /\ \A p, h, d : [r EXCEPT !.phase = p, !.hash = h, !.drift = d].finalizer
                           = r.finalizer
        /\ \A p, h, d : [r EXCEPT !.phase = p, !.hash = h, !.drift = d].spec = r.spec
        /\ [r EXCEPT !.deleting = TRUE].finalizer = r.finalizer
        /\ [r EXCEPT !.deleting = TRUE].spec = r.spec
        /\ \A t : [r EXCEPT !.spec = t].finalizer = r.finalizer
        /\ \A t : [r EXCEPT !.spec = t].spec = t
  BY Zenon DEF Resources
<1> HIDE DEF Resources, Objects, Of
<1>1. CASE Fetch
  BY <1>0, <1>1 DEF Fetch, Done, OwnedInv, Reachable, UnderFinalizer
<1>2. CASE HasFinalizer
  BY <1>2 DEF HasFinalizer, Goto, AfterFinalizer, OwnedInv, Reachable, UnderFinalizer
<1>3. CASE AddFinalizer
  <2>1. cr' = copy' /\ copy = cr /\ copy \in Resources /\ pc' \in {"delete", "sync"}
    BY <1>0, <1>3 DEF AddFinalizer, Store, AfterFinalizer
  <2>2. copy'.finalizer /\ copy'.spec = cr.spec /\ cr' # None
    BY <1>0, <1>3, <1>f, <2>1, ChangedResource, Zenon DEF AddFinalizer
  <2> QED
    BY <1>3, <2>1, <2>2 DEF AddFinalizer, OwnedInv, Reachable, UnderFinalizer
<1>4. ASSUME ReconcileError, live' = live
      PROVE  OwnedInv'
  BY <1>4, OwnedWhenStored DEF ReconcileError, Done
<1>5. CASE AddFinalizerError \/ RemoveFinalizerError \/ NoClient \/ WriteStatusError
  BY <1>4, <1>5
  DEF AddFinalizerError, RemoveFinalizerError, NoClient, WriteStatusError
<1>6. CASE DeleteRemote
  <2>1. Reachable =>
          \A c \in Clusters :
            live'[c] = IF c = copy.spec.cluster THEN None ELSE live[c]
    BY <1>0, <1>6 DEF DeleteRemote, Reachable
  <2> QED
    BY <1>6, <2>1 DEF DeleteRemote, Goto, OwnedInv, Reachable, UnderFinalizer
<1>7. CASE RemoveFinalizer
  BY <1>7, OwnedWhenStored DEF RemoveFinalizer, Store, Done
<1>8. ASSUME pc = "sync", live' \in {live, Sent},
             pc' \in {"status", "pending", "failed"},
             UNCHANGED <<faults, spc, cr, copy>>
      PROVE  OwnedInv'
  <2>1. \A c \in Clusters : c = copy.spec.cluster \/ live'[c] = live[c]
    BY <1>0, <1>8, SentObject
  <2> QED  BY <1>8, <2>1 DEF OwnedInv, Reachable, UnderFinalizer
<1>9. CASE SyncRemote \/ RepositoryAbsent \/ SyncRemoteError
  <2>1. CASE SyncRemote \/ RepositoryAbsent
    BY <1>8, <2>1 DEF SyncRemote, RepositoryAbsent, Goto
  <2>2. CASE SyncRemoteError /\ Goto("failed") /\ UNCHANGED store
    BY <1>8, <2>2 DEF SyncRemoteError, Goto
  <2>3. CASE SyncRemoteError /\ ReconcileError
    <3>1. \A c \in Clusters : c = copy.spec.cluster \/ live'[c] = live[c]
      BY <1>0, <2>3, SentObject DEF SyncRemoteError
    <3> QED
      BY <2>3, <3>1
      DEF SyncRemoteError, ReconcileError, Done, OwnedInv, Reachable, UnderFinalizer
  <2> QED  BY <1>9, <2>1, <2>2, <2>3 DEF SyncRemoteError
<1>10. CASE WriteFailed
  <2>1. \/ cr' = cr
        \/ cr # None /\ \E p \in {"Failed", "Pending"} : cr' = [cr EXCEPT !.phase = p]
    BY <1>10, Zenon DEF WriteFailed
  <2>2. cr # None => cr' # None /\ cr'.finalizer = cr.finalizer /\ cr'.spec = cr.spec
    <3> SUFFICES ASSUME cr # None, cr' # cr
                 PROVE  cr' # None /\ cr'.finalizer = cr.finalizer /\ cr'.spec = cr.spec
      OBVIOUS
    <3>1. /\ cr \in Resources
          /\ \E p \in {"Failed", "Pending"} : cr' = [cr EXCEPT !.phase = p]
      BY <1>0, <2>1
    <3>2. cr' # None
      BY <1>0, <3>1, ChangedResource, Zenon
    <3> QED  BY <1>k, <3>1, <3>2
  <2> QED  BY <1>10, <2>1, <2>2, OwnedWhenStored DEF WriteFailed, Done
<1>11. CASE WriteStatus
  <2>1. Applied(copy) \in Resources
    BY <1>0, <1>11, AppliedResource DEF WriteStatus
  <2>2. Applied(copy).finalizer = cr.finalizer /\ Applied(copy).spec = cr.spec
    <3>1. CASE Of(kind).merges
      BY <1>0, <1>11, <1>k, <3>1 DEF WriteStatus, Applied
    <3>2. CASE ~Of(kind).merges
      <4>1. copy = cr /\ cr \in Resources
        BY <1>0, <1>11, <3>2 DEF WriteStatus
      <4> QED  BY <1>k, <3>2, <4>1 DEF Applied
    <3> QED  BY <3>1, <3>2
  <2>3. cr # None /\ (cr' = cr \/ cr' = Applied(copy)) /\ pc' = "idle"
        /\ UNCHANGED <<faults, spc, live>>
    BY <1>11 DEF WriteStatus, Store, Done
  <2> QED  BY <1>0, <2>1, <2>2, <2>3, OwnedWhenStored
<1>12. CASE SyncList \/ SyncPut \/ SyncStatus
  BY <1>12 DEF SyncList, SyncPut, SyncStatus, OwnedInv, Reachable
<1>13. CASE UserCreates
  BY <1>13, OwnedWhenStored, Zenon DEF UserCreates, Store
<1>14. CASE UserEdits
  <2>1. PICK t \in Specs : /\ t.cluster = cr.spec.cluster \/ "move" \in faults
                           /\ cr' = [cr EXCEPT !.spec = t]
    BY <1>14 DEF UserEdits, Store
  <2>2. /\ cr \in Resources /\ cr' # None /\ cr'.finalizer = cr.finalizer
        /\ cr'.spec = t
    <3>1. cr \in Resources
      BY <1>0, <1>14 DEF UserEdits
    <3>2. cr' # None
      BY <1>0, <2>1, <3>1, ChangedResource, Zenon
    <3> QED  BY <1>k, <2>1, <3>1, <3>2
  <2> QED
    BY <1>0, <1>14, <2>1, <2>2 DEF UserEdits, OwnedInv, Reachable, UnderFinalizer
<1>15. CASE UserDeletes
  <2>1. cr \in Resources
    BY <1>0, <1>15 DEF UserDeletes
  <2>2. cr.finalizer => cr' # None /\ cr'.finalizer /\ cr'.spec = cr.spec
    BY <1>0, <1>15, <1>k, <2>1, ChangedResource, Zenon DEF UserDeletes, Store
  <2> QED  BY <1>15, <2>2, OwnedWhenStored DEF UserDeletes
<1>16. CASE OperatorRestart
  BY <1>16 DEF OperatorRestart, Done, OwnedInv, Reachable, UnderFinalizer
<1>17. CASE UNCHANGED vars
  BY <1>17 DEF vars, OwnedInv, Reachable, UnderFinalizer
<1> QED
  BY <1>1, <1>2, <1>3, <1>5, <1>6, <1>7, <1>9, <1>10, <1>11, <1>12, <1>13, <1>14,
     <1>15, <1>16, <1>17
  DEF Next, Controller, Synchronizer

\* An object the controller has put into OpenSearch is there only while the
\* stored resource names its cluster and carries the finalizer, whatever fails
\* on the way and wherever the operator restarts, as long as OpenSearch can be
\* reached, clusterRef stays and the synchronizer is not running.
THEOREM NoObjectIsForgotten == ASSUME ResourceConstants PROVE Spec => []ObjectIsOwned
<1>1. Init => OwnedInv
  BY DEF Init, OwnedInv, UnderFinalizer
<1>2. TypeInv /\ OwnedInv /\ [Next]_vars => OwnedInv'
  BY OwnedInductive
<1>3. OwnedInv => ObjectIsOwned
  BY DEF OwnedInv, ObjectIsOwned, Reachable
<1> QED  BY <1>1, <1>2, <1>3, TypeInvariant, PTL DEF Spec

-----------------------------------------------------------------------------
(***************************************************************************)
(* Rest.  While no event is queued the copy of a pass is the stored        *)
(* resource, so a pass that ends with nothing queued has brought the       *)
(* stored spec to OpenSearch.                                              *)
(***************************************************************************)
RestInv ==
  "sync" \notin faults =>
    /\ spc = "idle"
    /\ ~queued /\ pc # "idle" => copy = cr
    /\ pc \in {"sync", "status", "pending", "failed"} => ~copy.deleting
    /\ pc = "status" =>
         \/ field \in Of(kind).gaps
         \/ live[copy.spec.cluster] = [body |-> copy.spec.body, whole |-> TRUE]
    /\ cr # None /\ pc = "idle" /\ ~queued =>
         /\ cr.phase = "Ready" /\ ~cr.deleting
         /\ field \in Of(kind).gaps \/ InOpenSearch

\* Whatever the kind, a field that is not a gap is in every request for an
\* object that exists.
LEMMA UpdatesCarryTheSpec ==
  \A k \in KindNames : Of(k).spec \subseteq Of(k).updates \cup Of(k).gaps
<1>1. User.spec \subseteq User.updates \cup User.gaps
  BY DEF User, OpenSearchUserSpec, buildUser, SecurityUser, UserGaps
<1>2. Role.spec \subseteq Role.updates \cup Role.gaps
  BY DEF Role, OpenSearchRoleSpec, buildRole, SecurityRole, RoleGaps
<1>3. Tenant.spec \subseteq Tenant.updates \cup Tenant.gaps
  BY DEF Tenant, OpenSearchTenantSpec, buildTenant, TenantBody
<1>4. RoleMapping.spec \subseteq RoleMapping.updates \cup RoleMapping.gaps
  BY DEF RoleMapping, OpenSearchRoleMappingSpec, buildRoleMapping, RoleMappingBody
<1>5. ActionGroup.spec \subseteq ActionGroup.updates \cup ActionGroup.gaps
  BY DEF ActionGroup, OpenSearchActionGroupSpec, buildActionGroup, ActionGroupBody
<1>6. ComponentTemplate.spec
        \subseteq ComponentTemplate.updates \cup ComponentTemplate.gaps
  BY DEF ComponentTemplate, OpenSearchComponentTemplateSpec, buildComponentTemplate,
         ComponentTemplateBody, ComponentTemplateGaps, Alias
<1>7. IndexTemplate.spec \subseteq IndexTemplate.updates \cup IndexTemplate.gaps
  BY DEF IndexTemplate, OpenSearchIndexTemplateSpec, buildIndexTemplate,
         IndexTemplateBody, IndexTemplateGaps, Alias
<1>8. ISMPolicy.spec \subseteq ISMPolicy.updates \cup ISMPolicy.gaps
  BY DEF ISMPolicy, OpenSearchISMPolicySpec, buildISMPolicy, ISMPolicyBody,
         ISMPolicyGaps, ISMRetryConfig, CronCondition
<1>9. Index.spec \subseteq Index.updates \cup Index.gaps
  BY DEF Index, OpenSearchIndexSpec, buildDynamicSettings, IndexGaps, IndexMappings,
         OpenSearchIndexAlias
<1>10. SnapshotPolicy.spec \subseteq SnapshotPolicy.updates \cup SnapshotPolicy.gaps
  BY DEF SnapshotPolicy, OpenSearchSnapshotPolicySpec, buildSnapshotPolicy,
         SnapshotPolicyBody, SnapshotPolicyGaps, RepositorySettings,
         SnapshotNotification
<1>11. \A k \in KindNames :
         Of(k) \in {User, Role, Tenant, RoleMapping, ActionGroup, ComponentTemplate,
                   IndexTemplate, ISMPolicy, Index, SnapshotPolicy}
  BY DEF KindNames, Of
<1> HIDE DEF Of, User, Role, Tenant, RoleMapping, ActionGroup, ComponentTemplate,
             IndexTemplate, ISMPolicy, Index, SnapshotPolicy
<1> QED
  BY <1>1, <1>2, <1>3, <1>4, <1>5, <1>6, <1>7, <1>8, <1>9, <1>10, <1>11

\* Every step keeps a resting controller's work done.
LEMMA RestInductive ==
  ASSUME ResourceConstants, TypeInv, RestInv, [Next]_vars
  PROVE  RestInv'
<1> USE DEF world, store, controller, synchronizer
<1>0. /\ None \notin Resources
      /\ pc # "idle" => copy \in Resources
      /\ cr # None => cr \in Resources
      /\ live \in [Clusters -> Objects \cup {None}]
  BY DEF ResourceConstants, TypeInv, TypeOK, CopiesKept
<1> HIDE DEF Resources, Objects, Of
<1>1. ASSUME spc' = spc, faults' = faults, pc' = "idle", queued' \/ cr' = None
      PROVE  RestInv'
  BY <1>1 DEF RestInv
<1>2. ASSUME spc' = spc, queued',
             UNCHANGED <<faults, kind, field, live, pc, copy>>
      PROVE  RestInv'
  BY <1>2 DEF RestInv
<1>3. CASE Fetch
  <2>1. CASE cr = None  BY <1>3, <2>1, <1>1 DEF Fetch, Done
  <2>2. CASE cr # None  BY <1>3, <2>2 DEF Fetch, RestInv
  <2> QED  BY <2>1, <2>2
<1>4. CASE HasFinalizer
  BY <1>4 DEF HasFinalizer, Goto, AfterFinalizer, RestInv
<1>5. CASE AddFinalizer
  <2>1. copy'.deleting = copy.deleting /\ queued'
    BY <1>0, <1>5, Zenon DEF AddFinalizer, Store, Resources
  <2> QED  BY <1>5, <2>1 DEF AddFinalizer, AfterFinalizer, RestInv
<1>6. CASE \/ AddFinalizerError \/ RemoveFinalizerError \/ NoClient \/ WriteStatusError
           \/ SyncRemoteError /\ ReconcileError
  BY <1>1, <1>6
  DEF AddFinalizerError, RemoveFinalizerError, NoClient, WriteStatusError,
      ReconcileError, Done
<1>7. CASE DeleteRemote  BY <1>7 DEF DeleteRemote, Goto, RestInv
<1>8. CASE RemoveFinalizer  BY <1>1, <1>8 DEF RemoveFinalizer, Store, Done
<1>9. CASE SyncRemote
  <2>1. field \in Of(kind).gaps \/ field \in Of(kind).updates
    BY UpdatesCarryTheSpec DEF TypeInv, TypeOK
  <2>2. copy \in Resources /\ copy.spec.cluster \in Clusters
    BY <1>0, <1>9, ChangedResource, Zenon DEF SyncRemote
  <2>3. live'[copy.spec.cluster] = Put(copy.spec.body, live[copy.spec.cluster])
    BY <1>0, <1>9, <2>2, SentObject DEF SyncRemote
  <2>4. \/ field \in Of(kind).gaps
        \/ live'[copy.spec.cluster] = [body |-> copy.spec.body, whole |-> TRUE]
    BY <2>1, <2>3, Zenon DEF Put
  <2> QED  BY <1>9, <2>4 DEF SyncRemote, Goto, RestInv
<1>10. CASE \/ SyncRemoteError /\ Goto("failed") /\ UNCHANGED store
            \/ RepositoryAbsent
  BY <1>10 DEF SyncRemoteError, RepositoryAbsent, Goto, RestInv
<1>11. CASE WriteFailed  BY <1>1, <1>11 DEF WriteFailed, Done
<1>12. CASE WriteStatus
  <2>1. CASE queued'  BY <1>1, <1>12, <2>1 DEF WriteStatus, Done
  <2>2. CASE ~queued' /\ "sync" \notin faults
    <3>1. /\ Applied(copy) = cr /\ cr' = cr /\ queued' = queued /\ cr \in Resources
          /\ UNCHANGED <<live, faults, kind, field, spc>> /\ pc' = "idle"
      BY <1>0, <1>12, <2>2 DEF WriteStatus, Store, Done
    <3>2. copy = cr
      BY <1>12, <2>2, <3>1 DEF WriteStatus, RestInv
    <3>3. Applied(cr).phase = "Ready"
      BY <3>1, Zenon DEF Applied, Resources
    <3>4. ~cr.deleting /\ (field \in Of(kind).gaps \/ InOpenSearch)
      BY <1>12, <2>2, <3>2 DEF WriteStatus, RestInv, InOpenSearch
    <3>5. InOpenSearch' = InOpenSearch
      BY <3>1 DEF InOpenSearch
    <3> QED  BY <3>1, <3>2, <3>3, <3>4, <3>5, <2>2 DEF RestInv
  <2>3. CASE "sync" \in faults
    BY <1>12, <2>3 DEF WriteStatus, RestInv
  <2> QED  BY <2>1, <2>2, <2>3
<1>13. CASE SyncList \/ SyncPut \/ SyncStatus
  BY <1>13 DEF SyncList, SyncPut, SyncStatus, RestInv
<1>14. CASE UserCreates \/ UserEdits \/ UserDeletes
  BY <1>2, <1>14, Zenon DEF UserCreates, UserEdits, UserDeletes, Store
<1>15. CASE OperatorRestart  BY <1>15 DEF OperatorRestart, Done, RestInv
<1>16. CASE UNCHANGED vars
  BY <1>16 DEF vars, RestInv, InOpenSearch
<1> QED
  BY <1>3, <1>4, <1>5, <1>6, <1>7, <1>8, <1>9, <1>10, <1>11, <1>12, <1>13, <1>14,
     <1>15, <1>16
  DEF Next, Controller, Synchronizer, SyncRemoteError

\* The controller rests only when its work is done: with no event, retry or
\* reconcile outstanding the resource is Ready, not half deleted, and
\* OpenSearch holds what it asks for, the gaps apart, whatever the user did
\* between a read, the request and the status write and whichever failed.
THEOREM RestMeansApplied == ASSUME ResourceConstants PROVE Spec => []RestsWhenApplied
<1>1. Init => RestInv
  BY DEF Init, RestInv
<1>2. TypeInv /\ RestInv /\ [Next]_vars => RestInv'
  BY RestInductive
<1>3. RestInv => RestsWhenApplied
  BY DEF RestInv, RestsWhenApplied
<1> QED  BY <1>1, <1>2, <1>3, TypeInvariant, PTL DEF Spec

=============================================================================

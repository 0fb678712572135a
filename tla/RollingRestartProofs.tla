------------------------ MODULE RollingRestartProofs ------------------------
(***************************************************************************)
(* Proofs about RollingRestart, for every number of indexer and worker     *)
(* pods, of template changes, and every set of environments.               *)
(***************************************************************************)
EXTENDS RollingRestart, FiniteSetTheorems, WellFoundedInduction, TLAPS

-----------------------------------------------------------------------------
(***************************************************************************)
(* Facts about pods, and about the operators that count and order them.    *)
(***************************************************************************)

\* A pod is named by its StatefulSet and its ordinal.
LEMMA PodNames ==
  /\ \A s \in StatefulSets : \A p \in PodsOf(s) :
       p \in Pods /\ p[1] = s /\ p[2] \in Ordinals(s) /\ p = <<s, p[2]>>
  /\ \A s \in StatefulSets : \A i \in Ordinals(s) : <<s, i>> \in PodsOf(s)
  /\ \A p \in Pods : p[1] \in StatefulSets /\ p \in PodsOf(p[1])
  /\ NoPod \notin Pods
  BY DEF PodsOf, Pods, NoPod, StatefulSets

\* Every StatefulSet has a first pod, and its ordinals are bounded.
LEMMA OrdinalsBounded ==
  /\ \A s \in StatefulSets : <<s, 0>> \in PodsOf(s)
  /\ \A s \in StatefulSets : \E n \in Nat : Ordinals(s) = 0 .. n
<1>1. \A s \in StatefulSets : \E n \in Nat : Ordinals(s) = 0 .. n
  BY IndexersAssumption, WorkersAssumption DEF StatefulSets, Ordinals
<1> QED
  BY <1>1, PodNames

\* A bounded set of ordinals that is not empty has a largest element.
LEMMA MaxOfBounded ==
  ASSUME NEW n \in Nat, NEW S \in SUBSET (0 .. n), S # {}
  PROVE  Max(S) \in S /\ \A y \in S : y <= Max(S)
<1> DEFINE T == {k \in 0 .. n : n - k \in S}
           Less == {ss \in Nat \X Nat : ss[1] < ss[2]}
<1>1. PICK x \in S : TRUE
  BY Zenon
<1>2. n - x \in T /\ T \subseteq Nat
  OBVIOUS
<1>3. IsWellFoundedOn(Less, Nat)
  BY NatLessThanWellFounded DEF OpToRel
<1>4. \E k \in T : \A y \in T : ~(<<y, k>> \in Less)
  <2> HIDE DEF T, Less
  <2> QED
    BY <1>2, <1>3, WFMin, Zenon
<1>5. PICK k \in T : \A y \in T : k <= y
  <2>1. \A a, b \in Nat : <<a, b>> \in Less <=> a < b
    OBVIOUS
  <2>2. \A a, b \in Nat : ~(a < b) => b <= a
    OBVIOUS
  <2> HIDE DEF T, Less
  <2> QED
    BY <1>2, <1>4, <2>1, <2>2, Zenon
<1>6. \A y \in S : y <= n - k
  <2> TAKE y \in S
  <2>1. n - y \in T
    <3>1. y \in 0 .. n
      OBVIOUS
    <3>2. n - y \in 0 .. n /\ n - (n - y) = y
      BY <3>1
    <3> QED
      BY <3>2
  <2>2. k <= n - y /\ k \in Int /\ y \in Int
    BY <2>1, <1>5
  <2> QED
    BY <2>2
<1>7. \E m \in S : \A y \in S : m >= y
  BY <1>6
<1> QED
  BY <1>7, Zenon DEF Max

\* The pod that a restart picks is the outdated one with the highest ordinal.
LEMMA HighestOutdated ==
  ASSUME NEW s \in StatefulSets, Outdated(s) # {}
  PROVE  LET q == <<s, Max({p[2] : p \in Outdated(s)})>>
         IN q \in Outdated(s) /\ \A r \in Outdated(s) : r[2] <= q[2]
<1> DEFINE S == {p[2] : p \in Outdated(s)}
<1>1. PICK n \in Nat : Ordinals(s) = 0 .. n
  BY OrdinalsBounded
<1>2. S \in SUBSET (0 .. n) /\ S # {}
  BY <1>1, PodNames DEF Outdated
<1>3. Max(S) \in S /\ \A y \in S : y <= Max(S)
  BY <1>2, MaxOfBounded, Zenon
<1>4. PICK p \in Outdated(s) : p[2] = Max(S)
  BY <1>3, Zenon
<1>5. p = <<s, Max(S)>>
  BY <1>4, PodNames DEF Outdated
<1> QED
  BY <1>3, <1>4, <1>5

\* If the indexer counts as healthy, each of its pods counts as ready.
LEMMA HealthyIndexer ==
  ASSUME IndexerHealthy
  PROVE  \A p \in PodsOf("indexer") : IsPodReady(p)
<1> DEFINE R == {p \in PodsOf("indexer") : IsPodReady(p)}
           f == [i \in 0 .. Indexers - 1 |-> <<"indexer", i>>]
<1>1. f \in Bijection(0 .. Indexers - 1, PodsOf("indexer"))
  <2>1. Ordinals("indexer") = 0 .. Indexers - 1 /\ "indexer" \in StatefulSets
    BY DEF Ordinals, StatefulSets
  <2>2. QED
    <3>1. f \in [0 .. Indexers - 1 -> PodsOf("indexer")]
      BY <2>1, PodNames, Zenon
    <3>2. \A i, j \in 0 .. Indexers - 1 : f[i] = f[j] => i = j
      BY IndexersAssumption
    <3>3. \A p \in PodsOf("indexer") : \E i \in 0 .. Indexers - 1 : f[i] = p
      <4> TAKE p \in PodsOf("indexer")
      <4>1. p[2] \in 0 .. Indexers - 1 /\ p = <<"indexer", p[2]>>
        BY <2>1, PodNames, Zenon
      <4>2. f[p[2]] = p
        BY <4>1
      <4> QED
        BY <4>1, <4>2
    <3> QED
      BY <3>1, <3>2, <3>3, Zenon DEF Bijection, Injection, Surjection, IsInjective
<1>2. /\ IsFiniteSet(PodsOf("indexer"))
      /\ Cardinality(PodsOf("indexer")) = Indexers
  <2>1. /\ IsFiniteSet(0 .. Indexers - 1)
        /\ Cardinality(0 .. Indexers - 1) = Indexers
    BY FS_Interval, IndexersAssumption
  <2> QED
    BY <1>1, <2>1, FS_Bijection DEF ExistsBijection
<1>3. R = PodsOf("indexer")
  <2>1. Cardinality(R) >= Indexers
    BY DEF IndexerHealthy, NumberOfNodes
  <2>2. R \in SUBSET PodsOf("indexer")
    OBVIOUS
  <2>3. IsFiniteSet(R)
    BY <1>2, <2>2, FS_Subset
  <2>4. Cardinality(R) <= Indexers /\ Cardinality(R) \in Nat
    BY <1>2, <2>2, <2>3, FS_Subset, FS_CardinalityType
  <2> QED
    BY <1>2, <2>1, <2>2, <2>4, FS_Subset, IndexersAssumption
<1> QED
  BY <1>3

-----------------------------------------------------------------------------
(***************************************************************************)
(* Type correctness.  It takes that a template has a number because the    *)
(* user introduced it, that the pod about to be deleted belongs to the     *)
(* StatefulSet the orchestrator is at, and that without the delay no pod   *)
(* is ever missing.                                                        *)
(***************************************************************************)
ChosenHere == chosen # NoPod => pc \in StatefulSets /\ chosen \in PodsOf(pc)

NoneMissing == "recreate" \notin faults => \A p \in Pods : phase[p] # "absent"

TypeInv == TypeOK /\ newest <= updates /\ ChosenHere /\ NoneMissing

\* Every step keeps the types, the pod chosen and the pods that exist.
LEMMA TypeInvInductive ==
  /\ Init => TypeInv
  /\ TypeInv /\ [Next]_vars => TypeInv'
<1>1. Init => TypeInv
  <2> SUFFICES ASSUME Init PROVE TypeInv
    OBVIOUS
  <2>1. FirstRevision \in Revisions /\ 0 \in 0 .. MaxUpdates
    BY UpdatesAssumption DEF FirstRevision, Revisions
  <2>2. newest <= updates
    BY DEF Init, FirstRevision
  <2>3. \A p \in Pods : phase[p] = "ready"
    BY DEF Init
  <2> QED
    BY <2>1, <2>2, <2>3, Zenon DEF Init, TypeInv, TypeOK, ChosenHere, NoneMissing
<1>2. TypeInv /\ [Next]_vars => TypeInv'
  <2> SUFFICES ASSUME TypeInv, [Next]_vars
               PROVE  TypeInv'
    OBVIOUS
  <2> USE DEF TypeInv, TypeOK, ChosenHere, NoneMissing
  <2>1. CASE BeginReconcile
    BY <2>1, PodNames DEF BeginReconcile, Observed, user, podVars, StatefulSets
  <2>2. ASSUME NEW s \in StatefulSets,
               NothingToRestart(s) \/ WaitForPod(s) \/ GiveUp(s)
        PROVE  TypeInv'
    <3>1. {AfterComplete(s), AfterInProgress(s)} \subseteq StatefulSets \cup {"idle"}
      BY DEF AfterComplete, AfterInProgress, StatefulSets
    <3>2. chosen' = NoPod
      BY <2>2 DEF NothingToRestart, WaitForPod, GiveUp, RestartNeeded
    <3> QED
      BY <2>2, <3>1, <3>2, PodNames
         DEF NothingToRestart, WaitForPod, GiveUp, user, cluster, podVars
  <2>3. ASSUME NEW s \in StatefulSets, ChoosePod(s)
        PROVE  TypeInv'
    <3>1. chosen' \in PodsOf(s)
      BY <2>3, HighestOutdated DEF ChoosePod, RestartNeeded, Outdated
    <3>2. chosen' \in Pods
      BY <3>1, PodNames
    <3>3. pc' = s
      BY <2>3 DEF ChoosePod, RestartNeeded
    <3> QED
      BY <2>3, <3>1, <3>2, <3>3 DEF ChoosePod, user, cluster, podVars
  <2>4. ASSUME NEW s \in StatefulSets, DeletePod(s)
        PROVE  TypeInv'
    <3>1. AfterInProgress(s) \in StatefulSets \cup {"idle"}
      BY DEF AfterInProgress, StatefulSets
    <3>2. chosen \in Pods
      BY <2>4 DEF DeletePod
    <3> QED
      BY <2>4, <3>1, <3>2 DEF DeletePod, user, cluster
  <2>5. CASE UserUpdates
    BY <2>5, UpdatesAssumption DEF UserUpdates, cluster, podVars, Revisions
  <2>6. ASSUME NEW s \in StatefulSets, ObserveTemplate(s)
        PROVE  TypeInv'
    BY <2>6 DEF ObserveTemplate, user, podVars
  <2>7. ASSUME NEW p \in Pods, PodGone(p) \/ PodRecreated(p)
        PROVE  TypeInv'
    <3>1. updateRev[p[1]] \in Revisions
      BY PodNames
    <3> QED
      BY <2>7, <3>1 DEF PodGone, PodRecreated, user, cluster
  <2>8. ASSUME NEW p \in Pods, PodReady(p)
        PROVE  TypeInv'
    <3>1. recovering' \in BOOLEAN
      BY <2>8 DEF PodReady
    <3> QED
      BY <2>8, <3>1 DEF PodReady, user, cluster
  <2>9. CASE ShardsRecovered
    BY <2>9, Zenon DEF ShardsRecovered, user, cluster
  <2>10. CASE UNCHANGED vars
    BY <2>10 DEF vars, user, cluster, podVars
  <2> QED
    BY <2>1, <2>2, <2>3, <2>4, <2>5, <2>6, <2>7, <2>8, <2>9, <2>10
       DEF Next, Reconcile, Environment
<1> QED
  BY <1>1, <1>2

\* Every state of the rolling restart has the types TypeOK gives.
THEOREM RestartTypeCorrect == Spec => []TypeOK
<1>1. TypeInv => TypeOK
  BY DEF TypeInv
<1> QED
  BY <1>1, TypeInvInductive, PTL DEF Spec

-----------------------------------------------------------------------------
(***************************************************************************)
(* One pod at a time.  A terminating pod counts as ready, so the health    *)
(* check alone would let a second pod go.  What prevents it is that the    *)
(* second choice falls on the same pod: the terminating pod still has the  *)
(* old revision and every pod above it has the new one.  This needs that   *)
(* there are only two revisions around, the one all pods had when the      *)
(* template last changed and the wanted one (TwoRevisions).                *)
(***************************************************************************)
Settled == {"slow", "midway"} \cap faults = {}

TwoRevisions ==
  Settled =>
    \E old \in Revisions : \A s \in StatefulSets :
      /\ template[s] \in {old, wanted} /\ updateRev[s] \in {old, template[s]}
      /\ \A p \in PodsOf(s) : revision[p] \in {old, updateRev[s]}

\* Every step preserves it: the template changes when all pods have the wanted
\* revision, which is then the old one.
LEMMA TwoRevisionsInductive ==
  /\ Init => TwoRevisions
  /\ TypeInv /\ TwoRevisions /\ [Next]_vars => TwoRevisions'
<1>1. Init => TwoRevisions
  <2> SUFFICES ASSUME Init PROVE TwoRevisions
    OBVIOUS
  <2>1. FirstRevision \in Revisions
    BY UpdatesAssumption DEF FirstRevision, Revisions
  <2>2. \A s \in StatefulSets : PodsOf(s) \subseteq Pods
    BY PodNames
  <2> QED
    BY <2>1, <2>2 DEF Init, TwoRevisions
<1>2. TypeInv /\ TwoRevisions /\ [Next]_vars => TwoRevisions'
  <2> SUFFICES ASSUME TypeInv, TwoRevisions, [Next]_vars, Settled'
               PROVE  TwoRevisions'
    BY DEF TwoRevisions
  <2>0. Settled /\ TypeOK /\ UNCHANGED faults
    BY Zenon DEF Settled, Next, Reconcile, Environment, BeginReconcile,
      NothingToRestart, WaitForPod, ChoosePod, GiveUp, DeletePod, UserUpdates,
      ObserveTemplate, PodGone, PodRecreated, PodReady, ShardsRecovered, user,
      vars, TypeInv
  <2>1. PICK old \in Revisions : \A s \in StatefulSets :
          /\ template[s] \in {old, wanted} /\ updateRev[s] \in {old, template[s]}
          /\ \A p \in PodsOf(s) : revision[p] \in {old, updateRev[s]}
    BY <2>0 DEF TwoRevisions
  <2>2. \A s \in StatefulSets : PodsOf(s) \subseteq Pods
    BY PodNames
  <2>3. CASE BeginReconcile
    <3>1. \A s \in StatefulSets :
            template'[s] = wanted /\ updateRev'[s] \in {updateRev[s], wanted}
      BY <2>3 DEF BeginReconcile, Observed
    <3> QED
      BY <2>1, <2>3, <3>1 DEF BeginReconcile, TwoRevisions, user, podVars
  <2>4. ASSUME NEW s \in StatefulSets,
               NothingToRestart(s) \/ WaitForPod(s) \/ ChoosePod(s) \/ GiveUp(s)
                 \/ DeletePod(s)
        PROVE  TwoRevisions'
    <3>1. UNCHANGED <<wanted, template, updateRev, revision>>
      BY <2>4 DEF NothingToRestart, WaitForPod, ChoosePod, GiveUp, DeletePod,
        user, cluster, podVars
    <3> QED
      BY <2>1, <3>1 DEF TwoRevisions
  <2>5. CASE UserUpdates
    <3>1. \A p \in Pods : revision[p] = wanted
      BY <2>0, <2>5 DEF UserUpdates, Settled, AllOnWanted
    <3>2. \A s \in StatefulSets : template[s] = wanted /\ updateRev[s] = wanted
      BY <2>1, <2>2, <3>1, OrdinalsBounded, Zenon
    <3>3. UNCHANGED <<template, updateRev, revision>> /\ wanted \in Revisions
      BY <2>0, <2>5 DEF UserUpdates, cluster, podVars, TypeOK
    <3> QED
      BY <2>2, <3>1, <3>2, <3>3 DEF TwoRevisions
  <2>6. ASSUME NEW t \in StatefulSets, ObserveTemplate(t)
        PROVE  TwoRevisions'
    <3>1. UNCHANGED <<wanted, template, revision>>
      BY <2>6 DEF ObserveTemplate, user, podVars
    <3>2. \A s \in StatefulSets :
            updateRev'[s] = IF s = t THEN template[t] ELSE updateRev[s]
      BY <2>0, <2>6 DEF ObserveTemplate, TypeOK
    <3>3. updateRev[t] = old
      BY <2>1, <2>6 DEF ObserveTemplate
    <3> QED
      BY <2>1, <3>1, <3>2, <3>3 DEF TwoRevisions
  <2>7. ASSUME NEW q \in Pods, PodGone(q) \/ PodRecreated(q) \/ PodReady(q)
        PROVE  TwoRevisions'
    <3>1. UNCHANGED <<wanted, template, updateRev>>
      BY <2>7 DEF PodGone, PodRecreated, PodReady, user, cluster
    <3>2. \A s \in StatefulSets : \A p \in PodsOf(s) :
            revision'[p] \in {revision[p], updateRev[s]}
      BY <2>0, <2>2, <2>7, PodNames
         DEF PodGone, PodRecreated, PodReady, TypeOK
    <3> QED
      BY <2>1, <3>1, <3>2 DEF TwoRevisions
  <2>8. CASE ShardsRecovered \/ UNCHANGED vars
    <3>1. UNCHANGED <<wanted, template, updateRev, revision>>
      BY <2>8 DEF ShardsRecovered, vars, user, cluster, podVars
    <3> QED
      BY <2>1, <3>1 DEF TwoRevisions
  <2> QED
    BY <2>3, <2>4, <2>5, <2>6, <2>7, <2>8 DEF Next, Reconcile, Environment
<1> QED
  BY <1>1, <1>2

\* If a pod is outdated, the StatefulSet has come to the wanted template.
LEMMA OutdatedMeansObserved ==
  ASSUME TwoRevisions, Settled, NEW s \in StatefulSets, NEW p \in PodsOf(s),
         revision[p] # updateRev[s]
  PROVE  updateRev[s] = wanted /\ template[s] = wanted
  BY DEF TwoRevisions

\* Where a pod that does not exist is noticed.
Tracked(s) == s = "indexer" \/ "recreate" \notin faults

AboveAreUpdated(p, s) ==
  \A r \in PodsOf(s) : r[2] > p[2] => phase[r] = "absent" \/ revision[r] = updateRev[s]

OneAtATime(s) ==
  /\ \A p, q \in PodsOf(s) : phase[p] # "ready" /\ phase[q] # "ready" => p = q
  /\ s = "indexer" /\ recovering => \A p \in PodsOf(s) : phase[p] = "ready"
  /\ \A p \in PodsOf(s) : phase[p] = "terminating"
       => revision[p] # updateRev[s] /\ AboveAreUpdated(p, s)
  /\ chosen \in PodsOf(s) =>
       /\ updateRev[s] = wanted /\ template[s] = wanted
       /\ phase[chosen] \in {"ready", "terminating"}
            => revision[chosen] # updateRev[s]
       /\ AboveAreUpdated(chosen, s)
       /\ \A r \in PodsOf(s) : phase[r] = "terminating" => r = chosen

\* A health check that passes finds every pod of its StatefulSet ready, or
\* terminating.
LEMMA HealthyMeansReady ==
  ASSUME TypeInv, NEW s \in StatefulSets, Tracked(s), IsHealthyForRestart(s)
  PROVE  \A p \in PodsOf(s) : IsPodReady(p)
<1>1. CASE s = "indexer"
  BY <1>1, HealthyIndexer DEF IsHealthyForRestart
<1>2. CASE s # "indexer"
  <2>1. ManagerHealthy({s})
    BY <1>2, Zenon DEF IsHealthyForRestart, ManagerHealthy, StatefulSets
  <2>2. PodsOf(s) \subseteq ListedPods
    BY <1>2, PodNames DEF Tracked, TypeInv, NoneMissing, ListedPods
  <2> QED
    BY <2>1, <2>2 DEF ManagerHealthy
<1> QED
  BY <1>1, <1>2

\* No step of the orchestrator, the user or the cluster takes a second pod of a
\* StatefulSet out.
LEMMA OneAtATimeStep ==
  ASSUME TypeInv, TwoRevisions, Settled, [Next]_vars,
         NEW s \in StatefulSets, Tracked(s), OneAtATime(s)
  PROVE  OneAtATime(s)'
<1>0. /\ PodsOf(s) \subseteq Pods /\ NoPod \notin PodsOf(s)
      /\ \A p, q \in PodsOf(s) : p[2] = q[2] => p = q
      /\ \A p \in PodsOf(s) : p[2] \in Int
      /\ TypeOK /\ ChosenHere
  <2>1. Ordinals(s) \subseteq Int
    BY OrdinalsBounded
  <2> QED
    BY <2>1, PodNames DEF TypeInv
<1>a. (\E p \in PodsOf(s) : revision[p] # updateRev[s])
        => updateRev[s] = wanted /\ template[s] = wanted
  BY OutdatedMeansObserved
<1> USE <1>0 DEF OneAtATime, AboveAreUpdated
<1>1. CASE BeginReconcile
  <2>1. chosen \notin PodsOf(s) /\ UNCHANGED <<podVars, chosen>>
    BY <1>1 DEF BeginReconcile, ChosenHere, StatefulSets
  <2>2. updateRev[s] = wanted => updateRev'[s] = wanted
    BY <1>1 DEF BeginReconcile, Observed
  <2> QED
    BY <1>a, <2>1, <2>2 DEF podVars
<1>2. ASSUME NEW t \in StatefulSets,
             NothingToRestart(t) \/ WaitForPod(t) \/ GiveUp(t)
      PROVE  OneAtATime(s)'
  <2>1. chosen' \notin PodsOf(s) /\ UNCHANGED <<cluster, podVars>>
    BY <1>2 DEF NothingToRestart, WaitForPod, GiveUp, RestartNeeded
  <2> QED
    BY <2>1 DEF cluster, podVars
<1>3. ASSUME NEW t \in StatefulSets, ChoosePod(t), t # s
      PROVE  OneAtATime(s)'
  <2>1. chosen' \notin PodsOf(s)
    <3>1. chosen' \in PodsOf(t)
      BY <1>3, HighestOutdated DEF ChoosePod, RestartNeeded, Outdated
    <3> QED
      BY <1>3, <3>1, PodNames
  <2> QED
    BY <1>3, <2>1 DEF ChoosePod, cluster, podVars
<1>4. CASE ChoosePod(s)
  <2>1. /\ chosen' \in Outdated(s)
        /\ \A r \in Outdated(s) : r[2] <= chosen'[2]
    BY <1>4, HighestOutdated DEF ChoosePod, RestartNeeded
  <2>2. /\ chosen' \in PodsOf(s) /\ revision[chosen'] # updateRev[s]
        /\ \A r \in PodsOf(s) : phase[r] # "absent" /\ revision[r] # updateRev[s]
             => r[2] <= chosen'[2]
    BY <2>1 DEF Outdated, ListedPods
  <2>3. UNCHANGED <<wanted, template, updateRev, podVars>>
    BY <1>4 DEF ChoosePod, user, cluster
  <2>4. \A r \in PodsOf(s) : r[2] > chosen'[2]
          => phase[r] = "absent" \/ revision[r] = updateRev[s]
    BY <2>2
  \* A terminating pod is outdated, and so is the chosen one, which is not
  \* above it.
  <2>5. ASSUME NEW r \in PodsOf(s), phase[r] = "terminating"
        PROVE  r = chosen'
    <3>1. r[2] <= chosen'[2]
      BY <2>2, <2>5
    <3>2. ~(chosen'[2] > r[2])
      <4>1. phase[chosen'] # "absent"
        BY <2>1 DEF Outdated, ListedPods
      <4> QED
        BY <2>2, <2>5, <4>1
    <3> QED
      BY <2>2, <3>1, <3>2
  <2> QED
    BY <1>a, <2>2, <2>3, <2>4, <2>5 DEF podVars
<1>5. ASSUME NEW t \in StatefulSets, DeletePod(t), t # s
      PROVE  OneAtATime(s)'
  <2>1. chosen \in PodsOf(t) /\ chosen \notin PodsOf(s)
    BY <1>5, PodNames DEF DeletePod, ChosenHere
  <2>2. \A p \in PodsOf(s) : phase'[p] = phase[p]
    BY <1>5, <2>1 DEF DeletePod, TypeOK
  <2>3. chosen' = NoPod /\ UNCHANGED <<updateRev, revision, recovering>>
    BY <1>5 DEF DeletePod, cluster
  <2> QED
    BY <2>2, <2>3
<1>6. CASE DeletePod(s)
  <2>1. chosen \in PodsOf(s) /\ phase[chosen] # "absent"
    BY <1>6 DEF DeletePod, ChosenHere
  <2>2. \A p \in PodsOf(s) : phase[p] \in {"ready", "terminating"}
    BY <1>6, HealthyMeansReady DEF DeletePod, IsPodReady
  <2>3. \A p \in PodsOf(s) : p # chosen => phase[p] = "ready"
    BY <2>1, <2>2
  <2>4. s = "indexer" => ~recovering
    BY <1>6 DEF DeletePod, IsHealthyForRestart, IndexerHealthy
  <2>5. \A p \in PodsOf(s) :
          phase'[p] = IF p = chosen THEN "terminating" ELSE phase[p]
    BY <1>6 DEF DeletePod, TypeOK
  <2>6. chosen' = NoPod /\ UNCHANGED <<updateRev, revision, recovering>>
    BY <1>6 DEF DeletePod, cluster
  <2> QED
    BY <2>1, <2>2, <2>3, <2>4, <2>5, <2>6
<1>7. CASE UserUpdates
  <2>1. \A p \in PodsOf(s) : phase[p] = "ready" /\ revision[p] = wanted
    BY <1>7 DEF UserUpdates, AllOnWanted, Settled
  <2>2. chosen \notin PodsOf(s)
    BY <2>1
  <2> QED
    BY <1>7, <2>1, <2>2 DEF UserUpdates, cluster, podVars
<1>8. ASSUME NEW t \in StatefulSets, ObserveTemplate(t)
      PROVE  OneAtATime(s)'
  <2>1. UNCHANGED <<wanted, template, podVars, chosen>>
    BY <1>8 DEF ObserveTemplate, user
  <2>2. updateRev'[s] = updateRev[s] \/ updateRev[s] # template[s]
    BY <1>8 DEF ObserveTemplate, TypeOK
  <2>3. CASE updateRev'[s] = updateRev[s]
    BY <2>1, <2>3 DEF podVars
  <2>4. CASE updateRev[s] # template[s]
    <3>1. \A p \in PodsOf(s) : phase[p] # "terminating"
      BY <1>a, <2>4
    <3>2. chosen \notin PodsOf(s)
      BY <2>4, SMTT(20)
    <3> QED
      BY <2>1, <3>1, <3>2 DEF podVars
  <2> QED
    BY <2>2, <2>3, <2>4
<1>9. ASSUME NEW q \in Pods, PodGone(q) \/ PodRecreated(q) \/ PodReady(q)
      PROVE  OneAtATime(s)'
  <2>1. UNCHANGED <<wanted, template, updateRev, chosen>>
    BY <1>9 DEF PodGone, PodRecreated, PodReady, user, cluster
  <2>2. CASE q \notin PodsOf(s)
    <3>1. \A p \in PodsOf(s) : phase'[p] = phase[p] /\ revision'[p] = revision[p]
      BY <1>9, <2>2 DEF PodGone, PodRecreated, PodReady, TypeOK
    <3>2. s = "indexer" /\ recovering' => recovering
      <4>1. q[1] # s
        BY <2>2, PodNames
      <4> QED
        BY <1>9, <4>1, Zenon DEF PodGone, PodRecreated, PodReady
    <3> QED
      BY <2>1, <3>1, <3>2
  <2>3. CASE q \in PodsOf(s)
    <3>1. phase[q] # "ready"
      BY <1>9 DEF PodGone, PodRecreated, PodReady
    <3>2. \A p \in PodsOf(s) : p # q => phase[p] = "ready"
      BY <2>3, <3>1
    <3>3. \A p \in PodsOf(s) :
            p # q => phase'[p] = phase[p] /\ revision'[p] = revision[p]
      BY <1>9, <2>3 DEF PodGone, PodRecreated, PodReady, TypeOK
    <3>4. CASE PodGone(q) \/ PodRecreated(q)
      <4>1. /\ phase'[q] \in {"absent", "starting"}
            /\ phase'[q] = "absent" \/ revision'[q] = updateRev[s]
        BY <2>3, <3>4, PodNames DEF PodGone, PodRecreated, TypeOK
      <4>2. UNCHANGED recovering
        BY <3>4 DEF PodGone, PodRecreated
      <4> QED
        BY <2>1, <2>3, <3>1, <3>2, <3>3, <4>1, <4>2
    <3>5. CASE PodReady(q)
      <4>1. /\ phase[q] = "starting" /\ q # chosen
            /\ phase'[q] = "ready" /\ revision'[q] = revision[q]
        BY <2>3, <3>5 DEF PodReady, Settled, TypeOK
      <4> QED
        BY <2>1, <2>3, <3>2, <3>3, <4>1
    <3> QED
      BY <1>9, <3>4, <3>5, Zenon
  <2> QED
    BY <2>2, <2>3, SMTT(20)
<1>10. CASE ShardsRecovered
  BY <1>10, SMTT(20) DEF ShardsRecovered, user, cluster
<1>11. CASE UNCHANGED vars
  BY <1>11 DEF vars, user, cluster, podVars
<1> QED
  BY <1>1, <1>2, <1>3, <1>4, <1>5, <1>6, <1>7, <1>8, <1>9, <1>10, <1>11, Zenon
     DEF Next, Reconcile, Environment

\* One pod at a time, in every StatefulSet whose missing pods are noticed.
RestartInv ==
  /\ TypeInv /\ TwoRevisions
  /\ Settled => \A s \in StatefulSets : Tracked(s) => OneAtATime(s)

\* It is an invariant.
LEMMA RestartInvInvariant == Spec => []RestartInv
<1>1. Init => RestartInv
  <2> SUFFICES ASSUME Init, NEW s \in StatefulSets PROVE OneAtATime(s)
    BY TypeInvInductive, TwoRevisionsInductive DEF RestartInv
  <2>1. PodsOf(s) \subseteq Pods /\ NoPod \notin PodsOf(s)
    BY PodNames
  <2> QED
    BY <2>1 DEF Init, OneAtATime
<1>2. RestartInv /\ [Next]_vars => RestartInv'
  <2> SUFFICES ASSUME RestartInv, [Next]_vars, Settled',
                      NEW s \in StatefulSets, Tracked(s)'
               PROVE  OneAtATime(s)'
    BY TypeInvInductive, TwoRevisionsInductive DEF RestartInv
  <2>1. Settled /\ Tracked(s)
    BY Zenon DEF Settled, Tracked, Next, Reconcile, Environment, BeginReconcile,
      NothingToRestart, WaitForPod, ChoosePod, GiveUp, DeletePod, UserUpdates,
      ObserveTemplate, PodGone, PodRecreated, PodReady, ShardsRecovered, user,
      vars
  <2> QED
    BY <2>1, OneAtATimeStep DEF RestartInv
<1> QED
  BY <1>1, <1>2, PTL DEF Spec

\* Pods of which any two are the same are one pod at most.
LEMMA AtMostOne ==
  ASSUME NEW S, \A p, q \in S : p = q
  PROVE  Cardinality(S) <= 1
<1>1. CASE S = {}
  BY <1>1, FS_EmptySet
<1>2. CASE S # {}
  <2>1. PICK p \in S : S = {p}
    BY <1>2
  <2>2. Cardinality({p}) = 1
    BY FS_Singleton, Zenon
  <2> QED
    BY <2>1, <2>2
<1> QED
  BY <1>1, <1>2

\* The rolling restart takes out one indexer pod at a time and waits until the
\* shards of the last one have recovered, for any number of pods and template
\* changes, if templates change only in a settled cluster and no pod is
\* replaced within a reconcile.
THEOREM IndexerRestartsOneByOne == Spec => []OneIndexerOut
<1>1. RestartInv => OneIndexerOut
  <2> SUFFICES ASSUME RestartInv, Settled
               PROVE  /\ Cardinality(Down("indexer")) <= 1
                      /\ recovering => Down("indexer") = {}
    BY DEF OneIndexerOut, Settled
  <2>1. OneAtATime("indexer")
    BY DEF RestartInv, Tracked, StatefulSets
  <2>2. \A p, q \in Down("indexer") : p = q
    BY <2>1 DEF OneAtATime, Down
  <2> QED
    BY <2>1, <2>2, AtMostOne DEF OneAtATime, Down
<1> QED
  BY <1>1, RestartInvInvariant, PTL

\* It takes down one worker at a time, if besides deleted pods are recreated at
\* once: the worker's health check does not miss a pod that is not listed.
THEOREM WorkersRestartOneByOne == Spec => []OneWorkerDown
<1>1. RestartInv => OneWorkerDown
  <2> SUFFICES ASSUME RestartInv, {"slow", "midway", "recreate"} \cap faults = {}
               PROVE  Cardinality(Down("worker")) <= 1
    BY DEF OneWorkerDown
  <2>1. Settled /\ Tracked("worker")
    BY DEF Settled, Tracked
  <2>2. OneAtATime("worker")
    BY <2>1 DEF RestartInv, StatefulSets
  <2>3. \A p, q \in Down("worker") : p = q
    BY <2>2 DEF OneAtATime, Down
  <2> QED
    BY <2>3, AtMostOne
<1> QED
  BY <1>1, RestartInvInvariant, PTL

-----------------------------------------------------------------------------
(***************************************************************************)
(* The master goes last.  Templates may change in the middle of a restart  *)
(* here, but they only go forward and the StatefulSets follow at once.  So *)
(* a pod that terminates, or is chosen to, is behind its StatefulSet for   *)
(* good, and the orchestrator reaches the master only with no worker       *)
(* behind: a worker that is terminating would be.                          *)
(***************************************************************************)
Forward == faults \subseteq {"midway"}

MasterInv ==
  Forward =>
    /\ wanted = newest
    /\ updateRev = template
    /\ \A s \in StatefulSets : updateRev[s] <= wanted
    /\ \A s \in StatefulSets : \A p \in PodsOf(s) :
         /\ revision[p] <= updateRev[s]
         /\ phase[p] = "terminating" => revision[p] < updateRev[s]
         /\ phase[p] \in {"ready", "terminating"} /\ p = chosen
              => revision[p] < updateRev[s]
    /\ pc = "master"
         => \A w \in PodsOf("worker") : revision[w] = updateRev["worker"]

\* Every step preserves it.
LEMMA MasterInvInductive ==
  /\ Init => MasterInv
  /\ TypeInv /\ MasterInv /\ [Next]_vars => MasterInv'
<1>1. Init => MasterInv
  <2> SUFFICES ASSUME Init PROVE MasterInv
    OBVIOUS
  <2>1. \A s \in StatefulSets : PodsOf(s) \subseteq Pods /\ NoPod \notin PodsOf(s)
    BY PodNames
  <2> QED
    BY <2>1 DEF Init, MasterInv, FirstRevision
<1>2. TypeInv /\ MasterInv /\ [Next]_vars => MasterInv'
  <2> SUFFICES ASSUME TypeInv, MasterInv, [Next]_vars, Forward'
               PROVE  MasterInv'
    BY Zenon DEF MasterInv
  <2>0. UNCHANGED faults
    BY Zenon DEF Next, Reconcile, Environment, BeginReconcile, NothingToRestart,
      WaitForPod, ChoosePod, GiveUp, DeletePod, UserUpdates, ObserveTemplate,
      PodGone, PodRecreated, PodReady, ShardsRecovered, user, vars
  <2>1. /\ Forward /\ TypeOK /\ ChosenHere /\ NoneMissing
        /\ "observe" \notin faults /\ "recreate" \notin faults
        /\ "slow" \notin faults /\ "revert" \notin faults
    BY <2>0 DEF Forward, TypeInv
  <2>2. /\ \A s \in StatefulSets : /\ PodsOf(s) \subseteq Pods
                                   /\ NoPod \notin PodsOf(s)
                                   /\ updateRev[s] \in Int
                                   /\ \A p \in PodsOf(s) : revision[p] \in Int
        /\ wanted \in Int /\ newest \in Int
        /\ "worker" \in StatefulSets
    BY <2>1, PodNames DEF TypeOK, Revisions, StatefulSets
  <2> USE <2>1, <2>2 DEF MasterInv
  <2>3. CASE BeginReconcile
    <3>1. \A s \in StatefulSets : updateRev'[s] = wanted
      BY <2>3 DEF BeginReconcile, Observed
    <3>2. updateRev' = template' /\ pc' = "indexer"
          /\ UNCHANGED <<user, podVars, chosen>>
      BY <2>3 DEF BeginReconcile, Observed
    <3>3. \A s \in StatefulSets : chosen \notin PodsOf(s)
      BY <2>3 DEF BeginReconcile, ChosenHere, StatefulSets
    <3> QED
      BY <3>1, <3>2, <3>3 DEF user, podVars
  <2>4. ASSUME NEW t \in StatefulSets, NothingToRestart(t)
        PROVE  MasterInv'
    <3>1. chosen' = NoPod /\ UNCHANGED <<user, cluster, podVars>>
      BY <2>4 DEF NothingToRestart
    <3>2. ASSUME pc' = "master"
          PROVE  \A w \in PodsOf("worker") : revision[w] = updateRev["worker"]
      <4>1. t = "worker"
        BY <2>4, <3>2 DEF NothingToRestart, AfterComplete, StatefulSets
      <4>2. CASE Outdated("worker") = {}
        BY <4>2 DEF Outdated, ListedPods, NoneMissing
      <4>3. CASE updateRev["worker"] = 0
        BY <4>3 DEF TypeOK, Revisions
      <4> QED
        BY <2>4, <4>1, <4>2, <4>3
           DEF NothingToRestart, CurrentRevision, FirstRevision
    <3> QED
      BY <3>1, <3>2 DEF user, cluster, podVars
  <2>5. ASSUME NEW t \in StatefulSets, WaitForPod(t) \/ GiveUp(t)
        PROVE  MasterInv'
    BY <2>5 DEF WaitForPod, GiveUp, RestartNeeded, AfterInProgress, user,
                cluster, podVars
  <2>6. ASSUME NEW t \in StatefulSets, ChoosePod(t)
        PROVE  MasterInv'
    <3>1. chosen' \in PodsOf(t) /\ revision[chosen'] # updateRev[t]
      BY <2>6, HighestOutdated DEF ChoosePod, RestartNeeded, Outdated
    <3>2. UNCHANGED <<user, cluster, podVars, pc>>
      BY <2>6 DEF ChoosePod
    <3>3. \A s \in StatefulSets : \A p \in PodsOf(s) :
            p = chosen' => s = t /\ revision[p] < updateRev[s]
      BY <3>1, PodNames
    <3> QED
      BY <3>2, <3>3 DEF user, cluster, podVars
  <2>7. ASSUME NEW t \in StatefulSets, DeletePod(t)
        PROVE  MasterInv'
    <3>1. /\ pc' # "master" /\ chosen' = NoPod
          /\ UNCHANGED <<user, cluster, revision>>
      BY <2>7 DEF DeletePod, AfterInProgress
    <3>2. phase[chosen] \in {"ready", "terminating"}
      <4>1. chosen \in PodsOf(t)
        BY <2>7 DEF DeletePod, ChosenHere
      <4>2. Tracked(t) /\ IsHealthyForRestart(t)
        BY <2>7 DEF DeletePod, Tracked
      <4> QED
        BY <4>1, <4>2, HealthyMeansReady DEF IsPodReady
    <3>3. \A p \in Pods : phase'[p] = IF p = chosen THEN "terminating" ELSE phase[p]
      BY <2>7 DEF DeletePod, TypeOK
    <3> QED
      BY <3>1, <3>2, <3>3 DEF user, cluster
  <2>8. CASE UserUpdates
    BY <2>8 DEF UserUpdates, cluster, podVars
  <2>9. ASSUME NEW t \in StatefulSets, ObserveTemplate(t)
        PROVE  MasterInv'
    BY <2>9 DEF ObserveTemplate
  <2>10. ASSUME NEW q \in Pods, PodGone(q) \/ PodRecreated(q)
         PROVE  MasterInv'
    <3>1. q[1] \in StatefulSets /\ q \in PodsOf(q[1])
      BY PodNames
    <3>2. UNCHANGED <<user, cluster, pc, chosen>>
      BY <2>10 DEF PodGone, PodRecreated
    <3>3. /\ phase'[q] = "starting" /\ revision'[q] = updateRev[q[1]]
          /\ \A p \in Pods :
               p # q => phase'[p] = phase[p] /\ revision'[p] = revision[p]
      BY <2>10 DEF PodGone, PodRecreated, TypeOK
    <3>4. \A s \in StatefulSets : q \in PodsOf(s) => s = q[1]
      BY PodNames
    <3> QED
      BY <3>1, <3>2, <3>3, <3>4 DEF user, cluster
  <2>11. ASSUME NEW q \in Pods, PodReady(q)
         PROVE  MasterInv'
    <3>1. /\ UNCHANGED <<user, cluster, revision, pc, chosen>> /\ q # chosen
          /\ \A p \in Pods : phase'[p] = IF p = q THEN "ready" ELSE phase[p]
      BY <2>11 DEF PodReady, TypeOK
    <3> QED
      BY <3>1 DEF user, cluster
  <2>12. CASE ShardsRecovered \/ UNCHANGED vars
    BY <2>12 DEF ShardsRecovered, vars, user, cluster, podVars
  <2> QED
    BY <2>3, <2>4, <2>5, <2>6, <2>7, <2>8, <2>9, <2>10, <2>11, <2>12, Zenon
       DEF Next, Reconcile, Environment
<1> QED
  BY <1>1, <1>2

\* The master is deleted only when every worker is ready and has the template
\* of its StatefulSet, for any number of workers and template changes, if
\* Kubernetes keeps up and no template is taken back.
THEOREM MasterGoesLast == Spec => MasterRestartedLast
<1>1. TypeInv /\ MasterInv /\ [Next]_vars =>
        [ faults \subseteq {"midway"}
            => \A p \in PodsOf("master") :
                 phase[p] = "ready" /\ phase'[p] = "terminating"
                   => \A w \in PodsOf("worker") :
                        phase[w] = "ready" /\ revision[w] = template["worker"]
        ]_vars
  <2> SUFFICES ASSUME TypeInv, MasterInv, [Next]_vars, faults \subseteq {"midway"},
                      NEW p \in PodsOf("master"), NEW w \in PodsOf("worker"),
                      phase[p] = "ready", phase'[p] = "terminating"
               PROVE  phase[w] = "ready" /\ revision[w] = template["worker"]
    OBVIOUS
  <2>0. /\ TypeOK /\ NoneMissing /\ p \in Pods /\ w \in Pods
        /\ {"master", "worker"} \subseteq StatefulSets
    BY PodNames DEF TypeInv, StatefulSets
  <2>1. DeletePod("master")
    <3>1. \E t \in StatefulSets : DeletePod(t)
      <4>1. UNCHANGED phase => FALSE
        OBVIOUS
      <4>2. \A q \in Pods : ~(PodGone(q) \/ PodRecreated(q) \/ PodReady(q))
        BY <2>0 DEF PodGone, PodRecreated, PodReady, TypeOK
      <4> QED
        BY <4>1, <4>2, Zenon DEF Next, Reconcile, Environment, BeginReconcile,
          NothingToRestart, WaitForPod, ChoosePod, GiveUp, UserUpdates,
          ObserveTemplate, ShardsRecovered, vars, podVars
    <3>2. PICK t \in StatefulSets : DeletePod(t)
      BY <3>1
    <3>3. chosen = p /\ chosen \in PodsOf(t)
      BY <2>0, <3>2 DEF DeletePod, TypeOK, TypeInv, ChosenHere
    <3>4. t = "master"
      BY <2>0, <3>3, PodNames
    <3> QED
      BY <3>2, <3>4
  <2>2. /\ revision[w] = updateRev["worker"] /\ updateRev = template
        /\ phase[w] # "terminating"
    <3>1. pc = "master" /\ Forward
      BY <2>1 DEF DeletePod, Forward
    <3>2. updateRev["worker"] \in Int
      BY <2>0 DEF TypeOK, Revisions
    <3> QED
      BY <2>0, <3>1, <3>2 DEF MasterInv
  <2>3. phase[w] \in {"ready", "terminating"}
    <3>1. ManagerHealthy({"worker", "master"})
      BY <2>1 DEF DeletePod, IsHealthyForRestart
    <3>2. w \in ListedPods
      BY <2>0 DEF ListedPods, NoneMissing
    <3> QED
      BY <3>1, <3>2 DEF ManagerHealthy, IsPodReady
  <2> QED
    BY <2>2, <2>3
<1> QED
  BY <1>1, MasterInvInductive, TypeInvInductive, PTL
     DEF Spec, MasterRestartedLast

=============================================================================

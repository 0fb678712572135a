--------------------- MODULE ClusterConfigurationProofs ---------------------
(***************************************************************************)
(* Proofs about what the operator keeps in step with a WazuhCluster: rules *)
(* and decoders, and hot reloads.                                          *)
(***************************************************************************)
EXTENDS ManagerContent, TLAPS

Views == [item : Items, spec : WazuhRuleSpec, deleting : {FALSE}]

ContentTypes ==
  /\ res \in [Items -> Resources \cup {None}]
  /\ cm \in [Items -> Texts \cup {None}]
  /\ mEdits \in 0..ContentEdits
  /\ mpc \in {"idle", "validate", "apply", "applied", "invalid", "pending"}
  /\ mpc # "idle" => mView \in Views
  /\ pod.text \in [Items -> Texts \cup {None}]

\* A status has seen no generation that is yet to come.
Generations(r) == r.spec.gen <= mEdits + 1 /\ r.seen.observed <= r.spec.gen
GenerationsAgree == \A i \in Items : res[i] # None => Generations(res[i])

\* Only what passed validation is written, and only that is loaded.
WrittenIsValid ==
  /\ mpc \in {"apply", "applied"} => mView.spec.text.ok
  /\ \A i \in Items : cm[i] # None => cm[i].ok
  /\ \A i \in Items : pod.text[i] # None => pod.text[i].ok

\* The resource in work is still there, for it has its finalizer; it may have
\* been edited, and its status is from before.
ViewOf(r) ==
  /\ r # None /\ r.finalizer
  /\ mView.spec.gen <= r.spec.gen /\ r.seen.observed <= mView.spec.gen
  /\ mView.spec.gen = r.spec.gen => mView.spec.text = r.spec.text
ViewHolds ==
  mpc # "idle" =>
    /\ ViewOf(res[mView.item])
    /\ mpc = "applied" => cm[mView.item] = mView.spec.text

ContentInv ==
  /\ ContentTypes /\ GenerationsAgree /\ WrittenIsValid /\ ViewHolds
  /\ AppliedIsWritten

\* No other phase is the one of a resource no pass has come to.
LEMMA ContentPhases == NoPhase \notin {"Pending", "Applied", "Failed"}
  BY Zenon DEF NoPhase

\* What a resource is made of.
LEMMA ResourceParts ==
  ASSUME ContentConstants, NEW r \in Resources
  PROVE  /\ r # None /\ r.spec \in WazuhRuleSpec
         /\ r.spec.text \in Texts /\ r.spec.gen \in Nat
         /\ r.status \in WazuhRuleStatus
         /\ r.seen \in WazuhDecoderStatus /\ r.seen.observed \in Nat
         /\ r.finalizer \in BOOLEAN /\ r.deleting \in BOOLEAN
  BY DEF Resources, ContentConstants, WazuhRuleSpec,
         WazuhDecoderStatus

\* A new resource.
LEMMA FreshResource ==
  ASSUME ContentConstants, NEW t \in Texts
  PROVE  /\ Fresh(t) \in Resources
         /\ Fresh(t).spec.gen = 1 /\ Fresh(t).seen.observed = 0
         /\ Fresh(t).status.phase # "Applied"
<1>1. Fresh(t).status.phase # "Applied"
  BY ContentPhases DEF Fresh
<1>2. [text |-> t, gen |-> 1] \in WazuhRuleSpec
  BY DEF ContentConstants, WazuhRuleSpec
<1>3. [phase |-> NoPhase, ref |-> FALSE] \in WazuhRuleStatus
  BY DEF WazuhRuleStatus
<1>4. [observed |-> 0] \in WazuhDecoderStatus
  BY DEF WazuhDecoderStatus, ContentConstants
<1>5. Fresh(t) \in Resources
  BY <1>2, <1>3, <1>4 DEF Fresh, Resources
<1> QED  BY <1>1, <1>5 DEF Fresh

\* A resource with its finalizer, one that is being deleted, an edited one.
LEMMA ResourceChanges ==
  ASSUME ContentConstants, NEW r \in Resources,
         NEW t \in Texts, r.spec.gen <= ContentEdits,
         NEW n, n = [text |-> t, gen |-> r.spec.gen + 1]
  PROVE  /\ [r EXCEPT !.spec = n] \in Resources
         /\ n.gen = r.spec.gen + 1
<1>1. n \in WazuhRuleSpec
  BY DEF ContentConstants, WazuhRuleSpec, Resources
<1> QED  BY <1>1 DEF Resources

\* A status is put on the resource in work, or the write fails.
LEMMA StatusWritten ==
  ASSUME ContentConstants, ContentInv, mpc # "idle",
         NEW status \in WazuhRuleStatus, NEW seen \in WazuhDecoderStatus,
         seen.observed <= mView.spec.gen,
         status.phase = "Applied" =>
           seen.observed = mView.spec.gen /\ cm[mView.item] = mView.spec.text,
         updateStatus(status, seen)
  PROVE  ContentInv'
<1> DEFINE i == mView.item
           q == [res[i] EXCEPT !.status = status, !.seen = seen]
<1>1. /\ mpc' = "idle" /\ UNCHANGED <<cm, mEdits, template, pod>>
      /\ \/ UNCHANGED res
         \/ res' = [res EXCEPT ![i].status = status, ![i].seen = seen]
  BY DEF updateStatus, mounted
<1>2. /\ res \in [Items -> Resources \cup {None}] /\ i \in Items
      /\ mView.spec.gen \in Nat /\ ViewOf(res[i]) /\ res[i] \in Resources
      /\ seen.observed \in Nat
  BY DEF ContentInv, ContentTypes, ViewHolds, ViewOf, Views, ContentConstants,
         WazuhRuleSpec, WazuhDecoderStatus
<1>3. UNCHANGED res \/ res' = [res EXCEPT ![i] = q]
  BY <1>1, <1>2, Zenon
<1>4. /\ q \in Resources /\ q.status = status /\ q.seen = seen
      /\ q.spec = res[i].spec /\ q.finalizer = res[i].finalizer
  BY <1>2, Zenon DEF Resources
<1> HIDE DEF i, q
<1>5. /\ res' \in [Items -> Resources \cup {None}]
      /\ \A j \in Items : res'[j] # res[j] => j = i /\ res'[j] = q
  BY <1>2, <1>3, <1>4
<1>6. ContentTypes'
  BY <1>1, <1>5 DEF ContentInv, ContentTypes
<1>7. GenerationsAgree'
  <2>1. Generations(q)
    <3>1. /\ res[i].spec.gen <= mEdits + 1 /\ mView.spec.gen <= res[i].spec.gen
          /\ res[i].spec.gen \in Nat
      BY <1>2, ResourceParts DEF ContentInv, GenerationsAgree, Generations, ViewOf
    <3> QED  BY <1>2, <1>4, <3>1 DEF Generations
  <2> QED  BY <1>1, <1>5, <2>1 DEF ContentInv, GenerationsAgree, Generations
<1>8. WrittenIsValid'
  BY <1>1 DEF ContentInv, WrittenIsValid
<1>9. ViewHolds'
  BY <1>1 DEF ViewHolds
<1>10. AppliedIsWritten'
  <2> SUFFICES ASSUME NEW j \in Items, res'[j] # None, res'[j].status.phase = "Applied",
                      res'[j].seen.observed = res'[j].spec.gen
               PROVE  cm'[j] = res'[j].spec.text /\ cm'[j].ok
    BY DEF AppliedIsWritten, Items
  <2>1. CASE res'[j] = res[j]
    BY <1>1, <2>1 DEF ContentInv, AppliedIsWritten, Items
  <2>2. CASE res'[j] # res[j]
    <3>1. j = i /\ res'[j] = q
      BY <1>5, <2>2
    <3>2. mView.spec.gen = res[i].spec.gen /\ cm[i] = mView.spec.text
      BY <1>4, <3>1 DEF i
    <3>3. mView.spec.text = res[i].spec.text
      BY <1>2, <3>2 DEF ViewOf
    <3>4. mView.spec.text # None
      BY DEF ContentInv, ContentTypes, Views, WazuhRuleSpec, ContentConstants
    <3>5. cm[i].ok
      BY <1>2, <3>2, <3>4 DEF ContentInv, WrittenIsValid
    <3> QED  BY <1>1, <1>4, <3>1, <3>2, <3>3, <3>5
  <2> QED  BY <2>1, <2>2
<1> QED  BY <1>6, <1>7, <1>8, <1>9, <1>10 DEF ContentInv

\* One resource becomes another one, or goes; a view of it is still one.
LEMMA ResourceReplaced ==
  ASSUME ContentConstants, ContentInv, NEW i \in Items,
         NEW q \in Resources \cup {None}, res' = [res EXCEPT ![i] = q],
         UNCHANGED <<cm, mView, mpc, pod>>,
         mEdits' \in 0..ContentEdits, mEdits <= mEdits',
         q # None => q.spec.gen <= mEdits' + 1 /\ q.seen.observed <= q.spec.gen,
         mpc # "idle" /\ mView.item = i => ViewOf(q),
         q # None /\ q.status.phase = "Applied" /\ q.seen.observed = q.spec.gen
           => cm[i] = q.spec.text /\ cm[i].ok
  PROVE  ContentInv'
<1>1. /\ res' \in [Items -> Resources \cup {None}]
      /\ \A j \in Items : res'[j] = IF j = i THEN q ELSE res[j]
  BY DEF ContentInv, ContentTypes
<1>2. ContentTypes'
  BY <1>1 DEF ContentInv, ContentTypes
<1>3. GenerationsAgree'
  <2> SUFFICES ASSUME NEW j \in Items, res'[j] # None
               PROVE  Generations(res[j])'
    BY DEF GenerationsAgree
  <2>1. CASE j = i
    BY <1>1, <2>1 DEF Generations
  <2>2. CASE j # i
    <3>1. res'[j] = res[j] /\ res[j] \in Resources
      BY <1>1, <2>2 DEF ContentInv, ContentTypes
    <3>2. res[j].spec.gen \in Nat /\ Generations(res[j]) /\ mEdits \in Nat /\ mEdits' \in Nat
      BY <3>1, ResourceParts DEF ContentInv, ContentTypes, GenerationsAgree,
                                 ContentConstants
    <3> QED  BY <3>1, <3>2 DEF Generations
  <2> QED  BY <2>1, <2>2
<1>4. WrittenIsValid'
  BY DEF ContentInv, WrittenIsValid
<1>5. ViewHolds'
  <2> SUFFICES ASSUME mpc # "idle"
               PROVE  /\ ViewOf(res[mView.item])'
                      /\ mpc = "applied" => cm[mView.item] = mView.spec.text
    BY DEF ViewHolds
  <2>1. mView.item \in Items /\ ViewOf(res[mView.item])
    BY DEF ContentInv, ContentTypes, ViewHolds, Views
  <2>2. ViewOf(res[mView.item])'
    <3>1. CASE mView.item = i
      BY <1>1, <2>1, <3>1 DEF ViewOf
    <3>2. CASE mView.item # i
      BY <1>1, <2>1, <3>2 DEF ViewOf
    <3> QED  BY <3>1, <3>2
  <2> QED  BY <2>2 DEF ContentInv, ViewHolds
<1>6. AppliedIsWritten'
  <2> SUFFICES ASSUME NEW j \in Items, res'[j] # None, res'[j].status.phase = "Applied",
                      res'[j].seen.observed = res'[j].spec.gen
               PROVE  cm'[j] = res'[j].spec.text /\ cm'[j].ok
    BY DEF AppliedIsWritten, Items
  <2>1. CASE j = i
    BY <1>1, <2>1
  <2>2. CASE j # i
    <3>1. res'[j] = res[j]
      BY <1>1, <2>2
    <3> QED  BY <3>1 DEF ContentInv, AppliedIsWritten, Items
  <2> QED  BY <2>1, <2>2
<1> QED  BY <1>2, <1>3, <1>4, <1>5, <1>6 DEF ContentInv

\* The controller takes a resource up: it is read, finalized or removed.
LEMMA TakenUp ==
  ASSUME ContentConstants, ContentInv, NEW i \in Items,
         Reconcile(i) \/ Delete(i) \/ NotFound(i)
  PROVE  ContentInv'
<1>1. /\ mpc = "idle" /\ UNCHANGED <<mEdits, pod>>
      /\ res[i] \in Resources \cup {None}
  BY DEF Reconcile, Delete, NotFound, mounted,
         ContentInv, ContentTypes
<1>2. CASE Reconcile(i) /\ res[i].finalizer
  <2>1. /\ mView' = [item |-> i, spec |-> res[i].spec, deleting |-> FALSE]
        /\ mpc' = "validate" /\ UNCHANGED <<res, cm>> /\ res[i] # None
    BY <1>2 DEF Reconcile
  <2>2. /\ res[i] \in Resources /\ Generations(res[i])
        /\ res[i].spec \in WazuhRuleSpec /\ res[i].spec.gen \in Nat
    BY <1>1, <2>1, ResourceParts DEF ContentInv, GenerationsAgree
  <2>3. mView' \in Views /\ mView'.item = i /\ mView'.spec = res[i].spec
    BY <2>1, <2>2 DEF Views
  <2>4. ContentTypes'
    BY <1>1, <2>1, <2>3 DEF ContentInv, ContentTypes
  <2>5. ViewHolds'
    BY <1>2, <2>1, <2>2, <2>3 DEF ViewHolds, ViewOf, Generations
  <2> QED
    BY <1>1, <2>1, <2>4, <2>5
    DEF ContentInv, GenerationsAgree, Generations, WrittenIsValid, AppliedIsWritten
<1>3. CASE Reconcile(i) /\ ~res[i].finalizer /\ res' # res
  <2>1. /\ res' = [res EXCEPT ![i].finalizer = TRUE] /\ UNCHANGED <<cm, mView, mpc>>
        /\ res[i] # None
    BY <1>3 DEF Reconcile
  <2> DEFINE q == [res[i] EXCEPT !.finalizer = TRUE]
  <2>2. res[i] \in Resources /\ res' = [res EXCEPT ![i] = q]
    BY <1>1, <2>1 DEF ContentInv, ContentTypes
  <2>3. /\ q \in Resources /\ q.spec = res[i].spec /\ q.seen = res[i].seen
        /\ q.status = res[i].status
    BY <2>2, Zenon DEF Resources
  <2>4. Generations(res[i])
    BY <2>1 DEF ContentInv, GenerationsAgree
  <2>5. res[i].status.phase = "Applied" /\ res[i].seen.observed = res[i].spec.gen
          => cm[i] = res[i].spec.text /\ cm[i].ok
    BY <2>1 DEF ContentInv, AppliedIsWritten, Items
  <2>6. mEdits' \in 0..ContentEdits /\ mEdits <= mEdits'
    BY <1>1 DEF ContentInv, ContentTypes, ContentConstants
  <2> HIDE DEF q
  <2>7. q.spec.gen <= mEdits' + 1 /\ q.seen.observed <= q.spec.gen
    BY <1>1, <2>3, <2>4 DEF Generations
  <2>8. q.status.phase = "Applied" /\ q.seen.observed = q.spec.gen
          => cm[i] = q.spec.text /\ cm[i].ok
    BY <2>3, <2>5
  <2>9. q \in Resources \cup {None}
    BY <2>3
  <2> QED
    BY <1>1, <2>1, <2>2, <2>6, <2>7, <2>8, <2>9, ResourceReplaced, Zenon
<1>4. CASE Delete(i) /\ res' # res
  <2>1. /\ res' = [res EXCEPT ![i] = None] /\ cm' = [cm EXCEPT ![i] = None]
        /\ UNCHANGED <<mView, mpc>>
    BY <1>4 DEF Delete
  <2>2. ContentTypes'
    BY <1>1, <2>1 DEF ContentInv, ContentTypes
  <2>3. \A j \in Items : /\ res'[j] = IF j = i THEN None ELSE res[j]
                         /\ cm'[j] = IF j = i THEN None ELSE cm[j]
    BY <2>1 DEF ContentInv, ContentTypes
  <2>4. GenerationsAgree' /\ WrittenIsValid' /\ ViewHolds'
    BY <1>1, <2>1, <2>3 DEF ContentInv, GenerationsAgree, Generations, WrittenIsValid, ViewHolds
  <2>5. AppliedIsWritten'
    BY <2>3 DEF ContentInv, AppliedIsWritten, Items
  <2> QED  BY <2>2, <2>4, <2>5 DEF ContentInv
<1>5. CASE UNCHANGED <<res, cm, mpc, mView>>
  BY <1>1, <1>5 DEF ContentInv, ContentTypes, GenerationsAgree, Generations, WrittenIsValid,
                    ViewHolds, ViewOf, AppliedIsWritten
<1>6. \/ Reconcile(i) /\ res[i].finalizer
      \/ Reconcile(i) /\ ~res[i].finalizer /\ res' # res
      \/ Delete(i) /\ res' # res
      \/ UNCHANGED <<res, cm, mpc, mView>>
  <2>1. CASE Reconcile(i)
    BY <2>1 DEF Reconcile
  <2>2. CASE Delete(i)
    <3>1. CASE res' = [res EXCEPT ![i] = None] /\ cm' = [cm EXCEPT ![i] = None]
      <4>1. res' # res
        BY <2>2, <3>1 DEF Delete, ContentInv, ContentTypes
      <4> QED  BY <2>2, <4>1
    <3>2. CASE UNCHANGED <<res, cm>>
      BY <2>2, <3>2 DEF Delete
    <3> QED  BY <2>2, <3>1, <3>2 DEF Delete
  <2>3. CASE NotFound(i)
    BY <2>3 DEF NotFound
  <2> QED  BY <2>1, <2>2, <2>3
<1> QED  BY <1>2, <1>3, <1>4, <1>5, <1>6

\* The text is validated, then written.
LEMMA ValidatedAndWritten ==
  ASSUME ContentConstants, ContentInv,
         validateRule \/ reconcileConfigMap
  PROVE  ContentInv'
<1> DEFINE i == mView.item
           t == mView.spec.text
<1>1. /\ UNCHANGED <<res, mEdits, pod, mView>> /\ mpc # "idle"
      /\ mView \in Views /\ i \in Items /\ t \in Texts /\ t # None
      /\ ViewOf(res[i])
  BY Zenon DEF validateRule, reconcileConfigMap, mounted, ContentInv,
         ContentTypes, Views, WazuhRuleSpec, ContentConstants, ViewHolds
<1>2. GenerationsAgree'
  BY <1>1 DEF ContentInv, GenerationsAgree, Generations
<1>3. ViewOf(res[mView.item])'
  BY <1>1 DEF ViewOf
<1>4. CASE validateRule
  <2>1. /\ UNCHANGED cm /\ mpc' \in {"invalid", "apply", "pending"}
        /\ mpc' = "apply" => t.ok
    BY <1>4 DEF validateRule, Validate, WellFormed,
                RuleIsWellFormed, DecoderIsWellFormed
  <2>2. ContentTypes'
    BY <1>1, <2>1 DEF ContentInv, ContentTypes
  <2>3. WrittenIsValid'
    BY <1>1, <2>1 DEF ContentInv, WrittenIsValid
  <2>4. ViewHolds'
    BY <1>3, <2>1 DEF ViewHolds
  <2>5. AppliedIsWritten'
    BY <1>1, <2>1 DEF ContentInv, AppliedIsWritten
  <2> QED  BY <1>2, <2>2, <2>3, <2>4, <2>5 DEF ContentInv
<1>5. CASE reconcileConfigMap
  <2>1. /\ mpc = "apply" /\ mpc' \in {"idle", "applied"}
        /\ cm' = cm \/ cm' = [cm EXCEPT ![i] = t]
        /\ mpc' = "applied" => cm' = [cm EXCEPT ![i] = t]
    BY <1>5 DEF reconcileConfigMap
  <2>2. t.ok
    BY <2>1 DEF ContentInv, WrittenIsValid
  <2>3. /\ cm' \in [Items -> Texts \cup {None}]
        /\ \A j \in Items : cm'[j] # cm[j] => j = i /\ cm'[j] = t
        /\ mpc' = "applied" => cm'[i] = t
    <3>1. cm \in [Items -> Texts \cup {None}]
      BY DEF ContentInv, ContentTypes
    <3> HIDE DEF i, t
    <3> QED  BY <1>1, <2>1, <3>1
  <2>4. ContentTypes'
    BY <1>1, <2>1, <2>3 DEF ContentInv, ContentTypes
  <2>5. WrittenIsValid'
    BY <1>1, <2>1, <2>2, <2>3 DEF ContentInv, WrittenIsValid
  <2>6. ViewHolds'
    BY <1>1, <1>3, <2>1, <2>3 DEF ViewHolds
  <2>7. AppliedIsWritten'
    <3> SUFFICES ASSUME NEW j \in Items, res[j] # None, res[j].status.phase = "Applied",
                        res[j].seen.observed = res[j].spec.gen
                 PROVE  cm'[j] = res[j].spec.text /\ cm'[j].ok
      BY <1>1 DEF AppliedIsWritten, Items
    <3>1. CASE cm'[j] = cm[j]
      BY <3>1 DEF ContentInv, AppliedIsWritten, Items
    <3>2. CASE cm'[j] # cm[j]
      <4>1. j = i /\ cm'[j] = t
        BY <2>3, <3>2
      <4>2. res[j].spec.gen \in Nat /\ mView.spec.gen \in Nat
        BY <1>1, ResourceParts
        DEF ContentInv, ContentTypes, Views, WazuhRuleSpec, ContentConstants
      <4>3. mView.spec.gen = res[j].spec.gen
        BY <1>1, <4>1, <4>2 DEF ViewOf
      <4> QED  BY <1>1, <2>2, <4>1, <4>3 DEF ViewOf
    <3> QED  BY <3>1, <3>2
  <2> QED  BY <1>2, <2>4, <2>5, <2>6, <2>7 DEF ContentInv
<1> QED  BY <1>4, <1>5

\* A resource is made, edited or deleted, also while it is in work.
LEMMA ResourceEdited ==
  ASSUME ContentConstants, ContentInv, NEW i \in Items,
         Edit(i) \/ DeleteResource(i)
  PROVE  ContentInv'
<1>1. /\ UNCHANGED <<cm, mView, mpc, pod>> /\ mEdits < ContentEdits /\ mEdits' = mEdits + 1
      /\ res[i] \in Resources \cup {None}
      /\ res \in [Items -> Resources \cup {None}]
  BY DEF Edit, DeleteResource, mounted, ContentInv, ContentTypes
<1>2. /\ mEdits \in Nat /\ mEdits' \in 0..ContentEdits /\ mEdits <= mEdits'
      /\ mEdits + 1 <= ContentEdits
  BY <1>1 DEF ContentInv, ContentTypes, ContentConstants
<1>3. mpc # "idle" /\ mView.item = i => ViewOf(res[i])
  BY DEF ContentInv, ViewHolds
<1>4. CASE Edit(i)
  <2>1. PICK t \in Texts :
          \/ res[i] = None /\ res' = [res EXCEPT ![i] = Fresh(t)]
          \/ /\ res[i] # None
             /\ res' = [res EXCEPT ![i].spec = [text |-> t, gen |-> @.gen + 1]]
    BY <1>4 DEF Edit
  <2>2. CASE res[i] = None /\ res' = [res EXCEPT ![i] = Fresh(t)]
    <3> DEFINE q == Fresh(t)
    <3>1. /\ q \in Resources /\ q.spec.gen = 1 /\ q.seen.observed = 0
          /\ q.status.phase # "Applied"
      BY FreshResource
    <3>2. ~(mpc # "idle" /\ mView.item = i)
      BY <1>3, <2>2 DEF ViewOf
    <3> HIDE DEF q
    <3>3. q.spec.gen <= mEdits' + 1 /\ q.seen.observed <= q.spec.gen
      BY <1>1, <1>2, <3>1
    <3>4. q \in Resources \cup {None} /\ res' = [res EXCEPT ![i] = q]
      BY <2>2, <3>1 DEF q
    <3> QED  BY <1>1, <1>2, <3>1, <3>2, <3>3, <3>4, ResourceReplaced, Zenon
  <2>3. CASE /\ res[i] # None
             /\ res' = [res EXCEPT ![i].spec = [text |-> t, gen |-> @.gen + 1]]
    <3> DEFINE n == [text |-> t, gen |-> res[i].spec.gen + 1]
               q == [res[i] EXCEPT !.spec = n]
    <3>1. /\ res[i] \in Resources /\ res[i].spec.gen \in Nat
          /\ res[i].seen.observed \in Nat /\ Generations(res[i])
      BY <1>1, <2>3, ResourceParts DEF ContentInv, GenerationsAgree
    <3>2. res[i].spec.gen <= ContentEdits
      BY <1>2, <3>1 DEF Generations, ContentConstants
    <3>3. q \in Resources
      BY <3>1, <3>2, ResourceChanges, Zenon
    <3>4. /\ q.spec.gen = res[i].spec.gen + 1 /\ q.seen = res[i].seen
          /\ q.finalizer = res[i].finalizer
      BY <3>1 DEF Resources
    <3>5. res' = [res EXCEPT ![i] = q]
      BY <1>1, <2>3
    <3>6. q # None
      BY <3>3 DEF ContentConstants
    <3> HIDE DEF n, q
    <3>7. /\ q.spec.gen <= mEdits' + 1 /\ q.seen.observed <= q.spec.gen
          /\ q.seen.observed # q.spec.gen
      BY <1>1, <1>2, <3>1, <3>4 DEF Generations
    <3>8. mpc # "idle" /\ mView.item = i => ViewOf(q)
      <4> SUFFICES ASSUME mpc # "idle", mView.item = i  PROVE ViewOf(q)
        OBVIOUS
      <4>1. ViewOf(res[i]) /\ mView.spec.gen \in Nat
        BY <1>3 DEF ContentInv, ContentTypes, Views, WazuhRuleSpec,
                    ContentConstants
      <4> QED  BY <3>1, <3>4, <3>6, <4>1 DEF ViewOf
    <3>9. q \in Resources \cup {None}
      BY <3>3
    <3> QED  BY <1>1, <1>2, <3>5, <3>7, <3>8, <3>9, ResourceReplaced, Zenon
  <2> QED  BY <2>1, <2>2, <2>3
<1>5. CASE DeleteResource(i)
  <2>1. /\ res[i] # None
        /\ res' = [res EXCEPT ![i] = IF res[i].finalizer THEN [res[i] EXCEPT !.deleting = TRUE]
                                     ELSE None]
    BY <1>1, <1>5 DEF DeleteResource
  <2>2. CASE res[i].finalizer
    <3> DEFINE q == [res[i] EXCEPT !.deleting = TRUE]
    <3>1. /\ res[i] \in Resources /\ res[i].spec.gen \in Nat
          /\ res[i].seen.observed \in Nat /\ Generations(res[i])
      BY <1>1, <2>1, ResourceParts DEF ContentInv, GenerationsAgree
    <3>2. /\ q \in Resources /\ q.spec = res[i].spec /\ q.seen = res[i].seen
          /\ q.status = res[i].status /\ q.finalizer = res[i].finalizer
      BY <3>1, Zenon DEF Resources
    <3>3. res' = [res EXCEPT ![i] = q]
      BY <2>1, <2>2
    <3>4. q # None
      BY <3>2, Zenon DEF ContentConstants
    <3> HIDE DEF q
    <3>5. q.spec.gen <= mEdits' + 1 /\ q.seen.observed <= q.spec.gen
      BY <1>1, <1>2, <3>1, <3>2 DEF Generations
    <3>6. mpc # "idle" /\ mView.item = i => ViewOf(q)
      BY <1>3, <3>2, <3>4 DEF ViewOf
    <3>7. q.status.phase = "Applied" /\ q.seen.observed = q.spec.gen
            => cm[i] = q.spec.text /\ cm[i].ok
      BY <2>1, <3>2 DEF ContentInv, AppliedIsWritten, Items
    <3>8. q \in Resources \cup {None}
      BY <3>2
    <3> QED  BY <1>1, <1>2, <3>3, <3>5, <3>6, <3>7, <3>8, ResourceReplaced, Zenon
  <2>3. CASE ~res[i].finalizer
    <3>1. res' = [res EXCEPT ![i] = None] /\ ~(mpc # "idle" /\ mView.item = i)
      BY <1>3, <2>1, <2>3 DEF ViewOf
    <3> QED  BY <1>1, <1>2, <3>1, ResourceReplaced, Zenon
  <2> QED  BY <2>2, <2>3
<1> QED  BY <1>4, <1>5

LEMMA ContentInductive ==
  ASSUME ContentConstants, ContentInv, [Next]_mVars
  PROVE  ContentInv'
<1> USE DEF Items
<1>1. ASSUME NEW i \in Items, Reconcile(i) \/ Delete(i) \/ NotFound(i)
      PROVE  ContentInv'
  BY <1>1, TakenUp
<1>2. ASSUME validateRule \/ reconcileConfigMap
      PROVE  ContentInv'
  BY <1>2, ValidatedAndWritten
<1>3. ASSUME NEW phase \in {"Failed", "Pending"}, mpc # "idle",
             updateStatus([Held.status EXCEPT !.phase = phase],
                                  Held.seen)
      PROVE  ContentInv'
  <2> DEFINE status == [Held.status EXCEPT !.phase = phase]
             seen == Held.seen
  <2>1. ViewOf(Held) /\ Held \in Resources
    BY <1>3 DEF ContentInv, ContentTypes, ViewHolds, ViewOf, Views, Held
  <2>2. Held.status \in WazuhRuleStatus
    BY <2>1, ResourceParts
  <2>3. status \in WazuhRuleStatus /\ status.phase = phase
    BY <2>2 DEF WazuhRuleStatus
  <2>4. seen \in WazuhDecoderStatus /\ seen.observed <= mView.spec.gen
    BY <2>1, ResourceParts DEF ViewOf
  <2>5. updateStatus(status, seen) /\ status.phase # "Applied"
    BY <1>3, <2>3
  <2> HIDE DEF status, seen
  <2> QED  BY <1>3, <2>3, <2>4, <2>5, StatusWritten
<1>4. ASSUME ValidationFailed \/ ClusterNotFound
      PROVE  ContentInv'
  BY <1>3, <1>4 DEF ValidationFailed, ClusterNotFound
<1>5. ASSUME Applied
      PROVE  ContentInv'
  <2> DEFINE status == [phase |-> "Applied", ref |-> TRUE]
             seen == [observed |-> mView.spec.gen]
  <2>1. mpc = "applied" /\ updateStatus(status, seen)
    BY <1>5 DEF Applied
  <2>2. cm[mView.item] = mView.spec.text
    BY <2>1 DEF ContentInv, ViewHolds
  <2>3. mView.spec.gen \in 1..(ContentEdits + 1)
    BY <2>1 DEF ContentInv, ContentTypes, Views, WazuhRuleSpec
  <2>4. status \in WazuhRuleStatus
    BY DEF WazuhRuleStatus
  <2>5. seen \in WazuhDecoderStatus
    BY <2>3 DEF WazuhDecoderStatus, ContentConstants
  <2>6. seen.observed = mView.spec.gen /\ seen.observed <= mView.spec.gen
    BY <2>3 DEF ContentConstants
  <2> HIDE DEF status, seen
  <2> QED  BY <2>1, <2>2, <2>4, <2>5, <2>6, StatusWritten
<1>6. ASSUME UNCHANGED <<res, cm, mEdits, mpc, mView, pod>>
      PROVE  ContentInv'
  BY <1>6 DEF ContentInv, ContentTypes, GenerationsAgree, Generations, WrittenIsValid,
              ViewHolds, ViewOf, AppliedIsWritten
<1>7. ASSUME reconcileManager \/ findRulesForCluster \/ Resync
      PROVE  ContentInv'
  BY <1>6, <1>7, Zenon DEF reconcileManager, findRulesForCluster, Resync, mounted
<1>8. ASSUME StartPod
      PROVE  ContentInv'
  <2>1. /\ UNCHANGED <<res, cm, mEdits, mpc, mView>>
        /\ pod'.text = [i \in Items |-> IF i \in template.mounts THEN cm[i] ELSE None]
    BY <1>8 DEF StartPod
  <2>2. ContentTypes'
    BY <2>1 DEF ContentInv, ContentTypes
  <2>3. GenerationsAgree' /\ ViewHolds' /\ AppliedIsWritten'
    BY <2>1 DEF ContentInv, GenerationsAgree, Generations, ViewHolds, ViewOf,
                AppliedIsWritten
  <2>4. WrittenIsValid'
    BY <2>1 DEF ContentInv, WrittenIsValid
  <2> QED  BY <2>2, <2>3, <2>4 DEF ContentInv
<1>9. ASSUME Crash
      PROVE  ContentInv'
  <2>1. mpc' = "idle" /\ UNCHANGED <<res, cm, mEdits, pod>>
    BY <1>9 DEF Crash, mounted
  <2> QED
    BY <2>1 DEF ContentInv, ContentTypes, GenerationsAgree, Generations, WrittenIsValid,
                ViewHolds, AppliedIsWritten
<1>10. ASSUME NEW i \in Items, Edit(i) \/ DeleteResource(i)
       PROVE  ContentInv'
  BY <1>10, ResourceEdited
<1>11. ASSUME UNCHANGED mVars
       PROVE  ContentInv'
  BY <1>6, <1>11 DEF mVars
<1> QED
  BY <1>1, <1>2, <1>4, <1>5, <1>7, <1>8, <1>9, <1>10, <1>11
  DEF Next, Controller, Managers

LEMMA ContentInitial ==
  ASSUME ContentConstants, Init
  PROVE  ContentInv
<1>1. /\ res \in [Items -> {None} \cup {Fresh(t) : t \in Texts}]
      /\ cm = [i \in Items |-> None] /\ mEdits = 0 /\ mpc = "idle"
      /\ pod.text = [i \in Items |-> None]
  BY DEF Init, Items
<1>2. ContentTypes
  BY <1>1, FreshResource DEF ContentTypes, ContentConstants
<1>3. ASSUME NEW i \in Items, res[i] # None
      PROVE  Generations(res[i]) /\ res[i].status.phase # "Applied"
  <2>1. PICK t \in Texts : res[i] = Fresh(t)
    BY <1>1, <1>3
  <2> QED  BY <1>1, <2>1, FreshResource DEF Generations
<1>4. GenerationsAgree /\ WrittenIsValid /\ ViewHolds
  BY <1>1, <1>3 DEF GenerationsAgree, WrittenIsValid, ViewHolds
<1>5. AppliedIsWritten
  BY <1>3 DEF AppliedIsWritten, Items
<1> QED  BY <1>2, <1>4, <1>5 DEF ContentInv

\* No manager ever starts with a rule or decoder that did not pass validation:
\* the controller writes the text that it validated, not the one it finds when
\* it writes, and a pod has what its ConfigMap held when it started.
THEOREM LoadedTextsAreValid ==
  ASSUME ContentConstants
  PROVE  Spec => []LoadedIsValid
<1>1. Init => ContentInv
  BY ContentInitial
<1>2. ContentInv /\ [Next]_mVars => ContentInv'
  BY ContentInductive
<1>3. ContentInv => LoadedIsValid
  BY DEF ContentInv, WrittenIsValid, LoadedIsValid, Items
<1> QED  BY <1>1, <1>2, <1>3, PTL DEF Spec

\* A status that says Applied for the present generation is true: the ConfigMap
\* has exactly that text, even if the resource was edited between the
\* validation, the write of the ConfigMap and the write of the status.
THEOREM AppliedContentIsWritten ==
  ASSUME ContentConstants
  PROVE  Spec => []AppliedIsWritten
<1>1. Init => ContentInv
  BY ContentInitial
<1>2. ContentInv /\ [Next]_mVars => ContentInv'
  BY ContentInductive
<1>3. ContentInv => AppliedIsWritten
  BY DEF ContentInv
<1> QED  BY <1>1, <1>2, <1>3, PTL DEF Spec

-----------------------------------------------------------------------------
(***************************************************************************)
(* HotReload.                                                              *)
(***************************************************************************)
CONSTANTS IndexerPods, Renewals, ReloadFaults, ReloadEnvironments

VARIABLES hEnv, hFaults, method, newest, mount, serves, down, asked, begun, behind,
          blind, cut, hpc, turn, attempt, failed

Reload == INSTANCE HotReload

Ordinals == 0..(IndexerPods - 1)
Numbers == 0..(Renewals + 1)

ReloadSetup ==
  /\ hEnv \in SUBSET Reload!ReloadFaultKinds /\ hFaults \in 0..ReloadFaults
  /\ method \in Reload!Methods
ReloadNumbers ==
  newest \in Numbers \ {0} /\ {asked, blind, cut} \subseteq Numbers
ReloadPods ==
  /\ mount \in [Ordinals -> Numbers] /\ serves \in [Ordinals -> Numbers]
  /\ begun \in [Ordinals -> Numbers]
  /\ \A p \in Ordinals : serves[p] <= mount[p] /\ mount[p] <= newest
  /\ down \subseteq Ordinals /\ behind \subseteq Ordinals
ReloadPass ==
  /\ hpc \in {"idle", "trigger", "wait", "reload", "apply"}
  /\ turn \in Ordinals /\ attempt \in 1..Reload!defaultRetryAttempts
  /\ failed \in BOOLEAN
  /\ hpc \in {"trigger", "wait"} => turn = 0

\* The types; a pod uses nothing newer than what its volume holds.
ReloadTypes == ReloadSetup /\ ReloadNumbers /\ ReloadPods /\ ReloadPass

\* The numbers that the proofs compute with.
LEMMA ReloadArithmetic ==
  ASSUME Reload!ReloadConstants
  PROVE  /\ IndexerPods \in Nat /\ IndexerPods > 0 /\ Renewals \in Nat
         /\ ReloadFaults \in Nat /\ 0 \in Ordinals /\ Ordinals \subseteq Nat
         /\ Reload!Pods = Ordinals
  BY DEF Reload!ReloadConstants, Ordinals, Reload!Pods

\* Faults are counted up to their bound.
LEMMA ReloadFaultCount ==
  ASSUME Reload!ReloadConstants, ReloadSetup, NEW k, Reload!Fault(k)
  PROVE  hFaults' \in 0..ReloadFaults
  BY ReloadArithmetic DEF ReloadSetup, Reload!Fault

\* A reload goes to the next pod or on to the template.
LEMMA NextPodTypes ==
  ASSUME Reload!ReloadConstants, ReloadTypes, hpc = "reload", Reload!NextPod
  PROVE  /\ turn' \in Ordinals /\ attempt' \in 1..Reload!defaultRetryAttempts
         /\ \/ hpc' = "apply" /\ turn = IndexerPods - 1 /\ turn' = turn
            \/ hpc' = "reload" /\ turn' = turn + 1
<1>1. /\ IndexerPods \in Nat /\ turn \in 0..(IndexerPods - 1)
  BY ReloadArithmetic DEF ReloadTypes, ReloadPass, Ordinals
<1>2. attempt' \in 1..Reload!defaultRetryAttempts
  BY DEF Reload!NextPod, Reload!defaultRetryAttempts
<1>3. \/ hpc' = "apply" /\ turn = IndexerPods - 1 /\ turn' = turn
      \/ hpc' = "reload" /\ turn # IndexerPods - 1 /\ turn' = turn + 1
  BY DEF Reload!NextPod
<1> QED  BY <1>1, <1>2, <1>3 DEF Ordinals

\* A pod that loads what its volume holds.
LEMMA LoadTypes ==
  ASSUME Reload!ReloadConstants, ReloadTypes, NEW p \in Ordinals,
         serves' = [serves EXCEPT ![p] = mount[p]],
         UNCHANGED <<mount, begun, down, newest>>, behind' \subseteq Ordinals
  PROVE  ReloadPods'
<1>1. /\ mount \in [Ordinals -> Numbers] /\ serves \in [Ordinals -> Numbers]
      /\ \A q \in Ordinals : mount[q] \in Nat
  BY ReloadArithmetic DEF ReloadTypes, ReloadPods, Numbers
<1>2. serves' \in [Ordinals -> Numbers]
  BY <1>1
<1>3. \A q \in Ordinals : serves'[q] <= mount[q]
  BY <1>1 DEF ReloadTypes, ReloadPods
<1> QED  BY <1>1, <1>2, <1>3 DEF ReloadTypes, ReloadPods

\* Every step keeps the types.
LEMMA ReloadTypesInductive ==
  ASSUME Reload!ReloadConstants, ReloadTypes, [Reload!Next]_(Reload!hVars)
  PROVE  ReloadTypes'
<1> USE DEF Reload!podVars
<1>0. /\ ReloadSetup /\ ReloadNumbers /\ ReloadPods /\ ReloadPass
      /\ Renewals \in Nat /\ Reload!Pods = Ordinals
  BY ReloadArithmetic DEF ReloadTypes
<1>n. /\ newest \in Nat /\ newest \in 1..(Renewals + 1)
      /\ \A q \in Ordinals : /\ mount[q] \in Nat /\ serves[q] \in Nat /\ mount[q] <= newest
                             /\ serves[q] <= mount[q]
  BY <1>0 DEF ReloadNumbers, ReloadPods, Numbers
<1>s. ASSUME UNCHANGED <<hEnv, method>>, UNCHANGED hFaults \/ \E k : Reload!Fault(k)
      PROVE  ReloadSetup'
  <2>1. hFaults' \in 0..ReloadFaults
    BY <1>0, <1>s, ReloadFaultCount DEF ReloadSetup
  <2> QED  BY <1>0, <1>s, <2>1 DEF ReloadSetup
<1>k. ASSUME UNCHANGED <<newest, asked, blind, cut>> PROVE ReloadNumbers'
  BY <1>0, <1>k DEF ReloadNumbers
<1>p. ASSUME UNCHANGED <<newest, mount, serves, begun, down, behind>> PROVE ReloadPods'
  BY <1>0, <1>p DEF ReloadPods
<1>1. CASE Reload!Renew
  <2>1. /\ newest <= Renewals /\ newest' = newest + 1
        /\ hpc' = "trigger" /\ turn' = 0 /\ attempt' = 1
        /\ UNCHANGED <<hEnv, hFaults, method, mount, serves, down, begun, asked, behind,
                       blind, cut, failed>>
    BY <1>1 DEF Reload!Renew
  <2>2. newest' \in Numbers \ {0}
    BY <1>0, <1>n, <2>1 DEF Numbers
  <2>3. ReloadNumbers'
    BY <1>0, <2>1, <2>2 DEF ReloadNumbers
  <2>4. ReloadPods'
    BY <1>0, <1>n, <2>1 DEF ReloadPods
  <2>5. ReloadPass'
    BY <1>0, <2>1, ReloadArithmetic DEF ReloadPass, Reload!defaultRetryAttempts
  <2> QED  BY <1>s, <2>1, <2>3, <2>4, <2>5 DEF ReloadTypes
<1>2. CASE Reload!TriggerHotReload
  <2>1. /\ hpc' \in {"wait", "apply"} /\ hpc = "trigger"
        /\ UNCHANGED hFaults \/ \E k : Reload!Fault(k)
        /\ UNCHANGED <<hEnv, method, newest, mount, serves, down, begun, asked, behind,
                       blind, cut, turn, attempt>>
    BY <1>2 DEF Reload!TriggerHotReload
  <2>2. failed' \in BOOLEAN
    BY <1>2, Zenon DEF Reload!TriggerHotReload
  <2>3. ReloadPass'
    BY <1>0, <2>1, <2>2 DEF ReloadPass
  <2> QED  BY <1>s, <1>k, <1>p, <2>1, <2>3 DEF ReloadTypes
<1>3. CASE Reload!waitForCertificatePropagation
  <2>1. /\ hpc' \in {"reload", "apply"} /\ hpc = "wait" /\ blind' \in {blind, newest}
        /\ failed' \in {failed, TRUE}
        /\ UNCHANGED hFaults \/ \E k : Reload!Fault(k)
        /\ UNCHANGED <<hEnv, method, newest, mount, serves, down, begun, asked, behind,
                       cut, turn, attempt>>
    BY <1>3, Zenon DEF Reload!waitForCertificatePropagation,
                Reload!waitForCertificatePropagationViaTLS
  <2>2. failed' \in BOOLEAN
    BY <1>0, <2>1, Zenon DEF ReloadPass
  <2>3. ReloadPass'
    BY <1>0, <2>1, <2>2 DEF ReloadPass
  <2>4. ReloadNumbers'
    BY <1>0, <2>1 DEF ReloadNumbers
  <2> QED  BY <1>s, <1>p, <2>1, <2>3, <2>4 DEF ReloadTypes
<1>4. CASE Reload!waitForSecurityReady
  <2>1. /\ hpc = "reload" /\ Reload!NextPod /\ failed' = TRUE
        /\ UNCHANGED <<hEnv, hFaults, method, newest, mount, serves, down, begun, asked,
                       behind, blind, cut>>
    BY <1>4 DEF Reload!waitForSecurityReady
  <2>2. ReloadPass'
    BY <2>1, NextPodTypes DEF ReloadPass
  <2> QED  BY <1>s, <1>k, <1>p, <2>1, <2>2 DEF ReloadTypes
<1>5. CASE Reload!ReloadAllCertificates
  <2>1. /\ hpc = "reload" /\ Reload!NextPod
        /\ serves' = [serves EXCEPT ![turn] = mount[turn]]
        /\ behind' \in {behind \ {turn}, behind \cup {turn}}
        /\ UNCHANGED <<hEnv, hFaults, method, newest, mount, down, begun, asked, blind,
                       cut, failed>>
    BY <1>5 DEF Reload!ReloadAllCertificates
  <2>2. ReloadPass'
    BY <1>0, <2>1, NextPodTypes DEF ReloadPass
  <2>3. turn \in Ordinals /\ behind' \subseteq Ordinals
    BY <1>0, <2>1 DEF ReloadPass, ReloadPods
  <2>4. ReloadPods'
    BY <2>1, <2>3, LoadTypes, Zenon
  <2> QED  BY <1>s, <1>k, <2>1, <2>2, <2>4 DEF ReloadTypes
<1>6. CASE Reload!callReloadWithRetry
  <2>1. /\ hpc = "reload"
        /\ UNCHANGED serves \/ serves' = [serves EXCEPT ![turn] = mount[turn]]
        /\ UNCHANGED hFaults \/ \E k : Reload!Fault(k)
        /\ \/ /\ attempt < Reload!defaultRetryAttempts /\ attempt' = attempt + 1
              /\ UNCHANGED <<hpc, turn, failed>>
           \/ failed' = TRUE /\ Reload!NextPod
        /\ UNCHANGED <<hEnv, method, newest, mount, down, begun, asked, behind, blind,
                       cut>>
    BY <1>6 DEF Reload!callReloadWithRetry
  <2>2. turn \in Ordinals /\ behind' \subseteq Ordinals
    BY <1>0, <2>1 DEF ReloadPass, ReloadPods
  <2>3. ReloadPods'
    BY <1>p, <2>1, <2>2, LoadTypes
  <2>4. ASSUME attempt < Reload!defaultRetryAttempts, attempt' = attempt + 1,
               UNCHANGED <<hpc, turn, failed>>
        PROVE  ReloadPass'
    BY <1>0, <2>1, <2>4 DEF ReloadPass, Reload!defaultRetryAttempts
  <2>5. ASSUME failed' = TRUE, Reload!NextPod PROVE ReloadPass'
    BY <2>1, <2>5, NextPodTypes DEF ReloadPass
  <2> QED  BY <1>s, <1>k, <2>1, <2>3, <2>4, <2>5, Zenon DEF ReloadTypes
<1>7. CASE Reload!ApplyIndexer
  <2>1. /\ hpc' = "idle" /\ asked' \in {newest, asked} /\ failed' = FALSE
        /\ UNCHANGED <<hEnv, hFaults, method, newest, mount, serves, down, begun, behind,
                       blind, cut, turn, attempt>>
    BY <1>7 DEF Reload!ApplyIndexer
  <2>2. ReloadPass'
    BY <1>0, <2>1, Zenon DEF ReloadPass
  <2>3. ReloadNumbers'
    BY <1>0, <2>1 DEF ReloadNumbers
  <2> QED  BY <1>s, <1>p, <2>1, <2>2, <2>3 DEF ReloadTypes
<1>8. ASSUME NEW p \in Ordinals, Reload!Kubelet(p)
      PROVE  ReloadTypes'
  <2>1. /\ mount' = [mount EXCEPT ![p] = newest]
        /\ UNCHANGED <<hEnv, hFaults, method, newest, serves, down, begun, asked, behind,
                       blind, cut, hpc, turn, attempt, failed>>
    BY <1>8 DEF Reload!Kubelet
  <2>2. mount' \in [Ordinals -> Numbers]
    BY <1>0, <2>1 DEF ReloadNumbers, ReloadPods
  <2>3. \A q \in Ordinals : serves[q] <= mount'[q] /\ mount'[q] <= newest
    BY <1>0, <1>n, <2>1 DEF ReloadPods
  <2>4. ReloadPods'
    BY <1>0, <2>1, <2>2, <2>3 DEF ReloadPods
  <2> QED  BY <1>0, <1>s, <1>k, <2>1, <2>4 DEF ReloadTypes, ReloadPass
<1>9. ASSUME NEW p \in Ordinals, Reload!FileWatch(p)
      PROVE  ReloadTypes'
  <2>1. /\ serves' = [serves EXCEPT ![p] = mount[p]]
        /\ UNCHANGED <<hEnv, hFaults, method, newest, mount, down, begun, asked, behind,
                       blind, cut, hpc, turn, attempt, failed>>
    BY <1>9 DEF Reload!FileWatch
  <2>2. behind' \subseteq Ordinals
    BY <1>0, <2>1 DEF ReloadPods
  <2>3. ReloadPods'
    BY <2>1, <2>2, LoadTypes, Zenon
  <2> QED  BY <1>0, <1>s, <1>k, <2>1, <2>3 DEF ReloadTypes, ReloadPass
<1>10. ASSUME NEW p \in Ordinals, Reload!Start(p)
       PROVE  ReloadTypes'
  <2>1. /\ mount' = [mount EXCEPT ![p] = newest]
        /\ serves' = [serves EXCEPT ![p] = newest]
        /\ begun' = [begun EXCEPT ![p] = asked]
        /\ down' = down \ {p} /\ behind' = behind \ {p}
        /\ UNCHANGED <<hEnv, hFaults, method, newest, asked, blind, cut, hpc, turn,
                       attempt, failed>>
    BY <1>10 DEF Reload!Start
  <2>2. /\ mount' \in [Ordinals -> Numbers] /\ serves' \in [Ordinals -> Numbers]
        /\ begun' \in [Ordinals -> Numbers]
    BY <1>0, <2>1 DEF ReloadNumbers, ReloadPods
  <2>3. \A q \in Ordinals : serves'[q] <= mount'[q] /\ mount'[q] <= newest
    BY <1>0, <1>n, <2>1 DEF ReloadPods
  <2>4. ReloadPods'
    BY <1>0, <2>1, <2>2, <2>3 DEF ReloadPods
  <2> QED  BY <1>0, <1>s, <1>k, <2>1, <2>4 DEF ReloadTypes, ReloadPass
<1>11. ASSUME NEW p \in Ordinals, Reload!GoDown(p)
       PROVE  ReloadTypes'
  <2>1. /\ Reload!Fault("down") /\ down' = down \cup {p}
        /\ UNCHANGED <<hEnv, method, newest, mount, serves, begun, asked, behind, blind,
                       cut, hpc, turn, attempt, failed>>
    BY <1>11 DEF Reload!GoDown
  <2>2. ReloadPods'
    BY <1>0, <2>1 DEF ReloadPods
  <2> QED  BY <1>0, <1>s, <1>k, <2>1, <2>2 DEF ReloadTypes, ReloadPass
<1>12. CASE Reload!Crash
  <2>1. /\ Reload!Fault("crash") /\ hpc' = "idle" /\ failed' = FALSE /\ cut' = newest
        /\ UNCHANGED <<hEnv, method, newest, mount, serves, down, begun, asked, behind,
                       blind, turn, attempt>>
    BY <1>12 DEF Reload!Crash
  <2>2. ReloadPass' /\ ReloadNumbers'
    BY <1>0, <2>1, Zenon DEF ReloadPass, ReloadNumbers
  <2> QED  BY <1>s, <1>p, <2>1, <2>2 DEF ReloadTypes
<1>13. CASE UNCHANGED Reload!hVars
  BY <1>0, <1>13
  DEF Reload!hVars, ReloadTypes, ReloadSetup, ReloadNumbers, ReloadPods, ReloadPass
<1> QED
  BY <1>0, <1>1, <1>2, <1>3, <1>4, <1>5, <1>6, <1>7, <1>8, <1>9, <1>10, <1>11, <1>12,
     <1>13 DEF Reload!Next, Reload!Operator, Reload!Cluster

\* The reload is of use, and the volume of the first pod was looked at.
Looked == method \in Reload!Told /\ newest \notin {asked, cut, blind}

\* The pod uses the newest certificate, or was told before its volume had it,
\* which does not happen to the first.
Current(p) == serves[p] = newest \/ (p # 0 /\ p \in behind)

\* The pods that had their turn are current, unless one failed.
PodsAreTold ==
  Looked =>
    /\ hpc = "idle" => \A p \in Ordinals : Current(p)
    /\ hpc = "reload" =>
         failed \/ (mount[0] = newest /\ \A p \in 0..(turn - 1) : Current(p))
    /\ hpc = "apply" => failed \/ \A p \in Ordinals : Current(p)

\* A pod stays current while certificates stay as they are.
LEMMA CurrentStays ==
  ASSUME Reload!ReloadConstants, ReloadTypes, UNCHANGED newest, NEW p \in Ordinals, Current(p),
         serves'[p] \in {serves[p], mount[p], newest},
         p \in behind => p \in behind' \/ serves'[p] = newest
  PROVE  Current(p)'
<1>1. serves[p] \in Nat /\ mount[p] \in Nat /\ newest \in Nat
      /\ serves[p] <= mount[p] /\ mount[p] <= newest
  BY ReloadArithmetic DEF ReloadTypes, ReloadPods, ReloadNumbers, Numbers
<1> QED  BY <1>1 DEF Current

\* Every step keeps it so: a pod that was told does not go back.
LEMMA PodsAreToldInductive ==
  ASSUME Reload!ReloadConstants, ReloadTypes, PodsAreTold, [Reload!Next]_(Reload!hVars)
  PROVE  PodsAreTold'
<1> USE DEF Reload!podVars
<1>0. /\ Reload!Pods = Ordinals /\ 0 \in Ordinals /\ Ordinals = 0..(IndexerPods - 1)
      /\ IndexerPods \in Nat /\ turn \in Ordinals /\ turn \in Nat
      /\ mount \in [Ordinals -> Numbers] /\ serves \in [Ordinals -> Numbers]
  BY ReloadArithmetic DEF Ordinals, ReloadTypes, ReloadPass, ReloadPods
<1>t. \A p \in 0..(turn - 1) : p \in Ordinals
  BY <1>0, SMTT(20)
\* While the reconcile stands still, what was told stays told.
<1>q. ASSUME UNCHANGED <<method, newest, asked, cut, blind, hpc, turn, failed>>,
             \A p \in Ordinals : /\ serves'[p] \in {serves[p], mount[p], newest}
                                 /\ p \in behind => p \in behind' \/ serves'[p] = newest,
             mount[0] = newest => mount'[0] = newest
      PROVE  PodsAreTold'
  <2>1. Looked' = Looked
    BY <1>q DEF Looked
  <2>2. \A p \in Ordinals : Current(p) => Current(p)'
    BY <1>q, CurrentStays
  <2> QED  BY <1>q, <1>t, <2>1, <2>2 DEF PodsAreTold
<1>1. CASE Reload!Renew
  BY <1>1 DEF Reload!Renew, PodsAreTold
<1>2. CASE Reload!TriggerHotReload
  <2>1. /\ UNCHANGED <<method, newest, asked, cut, blind>>
        /\ \/ hpc' = "wait"
           \/ hpc' = "apply" /\ (failed' = TRUE \/ method \notin Reload!Told)
    BY <1>2 DEF Reload!TriggerHotReload
  <2> QED  BY <2>1 DEF PodsAreTold, Looked
<1>3. CASE Reload!waitForCertificatePropagation
  <2>1. /\ hpc = "wait" /\ UNCHANGED <<method, newest, asked, cut, mount, turn>>
        /\ \/ hpc' = "reload" /\ mount[0] = newest
           \/ hpc' = "reload" /\ blind' = newest
           \/ hpc' = "apply" /\ failed' = TRUE
    BY <1>3 DEF Reload!waitForCertificatePropagation,
                Reload!waitForCertificatePropagationViaTLS
  <2>2. turn = 0
    BY <2>1 DEF ReloadTypes, ReloadPass
  <2>3. CASE hpc' = "reload" /\ mount[0] = newest
    <3>1. \A p \in 0..(turn' - 1) : FALSE
      BY <2>1, <2>2
    <3> QED  BY <2>1, <2>3, <3>1 DEF PodsAreTold
  <2>4. CASE hpc' = "reload" /\ blind' = newest
    BY <2>1, <2>4 DEF PodsAreTold, Looked
  <2>5. CASE hpc' = "apply" /\ failed' = TRUE
    BY <2>5 DEF PodsAreTold
  <2> QED  BY <2>1, <2>3, <2>4, <2>5, Zenon
<1>4. CASE Reload!waitForSecurityReady
  <2>1. hpc = "reload" /\ failed' = TRUE /\ Reload!NextPod
    BY <1>4 DEF Reload!waitForSecurityReady
  <2>2. hpc' \in {"apply", "reload"}
    BY <2>1, NextPodTypes
  <2> QED  BY <2>1, <2>2 DEF PodsAreTold
<1>5. CASE Reload!ReloadAllCertificates
  <2>1. /\ hpc = "reload" /\ Reload!NextPod
        /\ serves' = [serves EXCEPT ![turn] = mount[turn]]
        /\ behind' = IF mount[turn] = newest THEN behind \ {turn} ELSE behind \cup {turn}
        /\ UNCHANGED <<method, newest, mount, asked, blind, cut, failed>>
    BY <1>5 DEF Reload!ReloadAllCertificates
  <2>2. \/ hpc' = "apply" /\ turn = IndexerPods - 1
        \/ hpc' = "reload" /\ turn' = turn + 1
    BY <2>1, NextPodTypes
  <2>3. Looked' = Looked
    BY <2>1 DEF Looked
  <2> SUFFICES ASSUME Looked, ~failed
               PROVE  mount'[0] = newest' /\ \A p \in 0..turn : Current(p)'
    <3>1. hpc' = "apply" => 0..turn = Ordinals
      BY <1>0, <2>2
    <3>2. hpc' = "reload" => turn' - 1 = turn
      BY <1>0, <2>2
    <3> QED  BY <2>1, <2>2, <2>3, <3>1, <3>2, Zenon DEF PodsAreTold
  <2>4. mount[0] = newest /\ \A p \in 0..(turn - 1) : Current(p)
    BY <2>1 DEF PodsAreTold
  <2>6. ASSUME NEW p \in 0..turn PROVE Current(p)'
    <3>1. p \in Ordinals
      BY <1>0
    <3>2. CASE p = turn
      <4>1. serves'[p] = mount[p]
        BY <1>0, <2>1, <3>2
      <4>2. mount[p] = newest \/ (p # 0 /\ p \in behind')
        BY <2>1, <2>4, <3>2
      <4> QED  BY <2>1, <4>1, <4>2 DEF Current
    <3>3. CASE p # turn
      <4>1. p \in 0..(turn - 1) /\ serves'[p] = serves[p] /\ (p \in behind => p \in behind')
        BY <1>0, <2>1, <3>1, <3>3
      <4>2. Current(p)
        BY <2>4, <4>1
      <4> QED  BY <2>1, <3>1, <4>1, <4>2, CurrentStays
    <3> QED  BY <3>2, <3>3
  <2> QED  BY <2>1, <2>4, <2>6
<1>6. CASE Reload!callReloadWithRetry
  <2>1. /\ hpc = "reload"
        /\ UNCHANGED serves \/ serves' = [serves EXCEPT ![turn] = mount[turn]]
        /\ UNCHANGED <<hpc, turn, failed>> \/ (failed' = TRUE /\ Reload!NextPod)
        /\ UNCHANGED <<method, newest, mount, asked, behind, blind, cut>>
    BY <1>6 DEF Reload!callReloadWithRetry
  <2>2. \A p \in Ordinals : serves'[p] \in {serves[p], mount[p], newest}
    BY <1>0, <2>1
  <2>3. CASE UNCHANGED <<hpc, turn, failed>>
    BY <1>q, <2>1, <2>2, <2>3
  <2>4. CASE failed' = TRUE /\ Reload!NextPod
    <3>1. hpc' \in {"apply", "reload"}
      BY <2>1, <2>4, NextPodTypes
    <3> QED  BY <2>4, <3>1 DEF PodsAreTold
  <2> QED  BY <2>1, <2>3, <2>4, Zenon
<1>7. CASE Reload!ApplyIndexer
  <2>1. /\ hpc = "apply" /\ hpc' = "idle" /\ asked' = IF failed THEN newest ELSE asked
        /\ UNCHANGED <<method, newest, serves, behind, blind, cut>>
    BY <1>7 DEF Reload!ApplyIndexer
  <2>2. CASE failed
    BY <2>1, <2>2 DEF PodsAreTold, Looked
  <2>3. CASE ~failed
    <3>1. \A p \in Ordinals : Current(p)' = Current(p)
      BY <2>1 DEF Current
    <3> QED  BY <2>1, <2>3, <3>1 DEF PodsAreTold, Looked
  <2> QED  BY <2>2, <2>3
<1>8. ASSUME NEW p \in Ordinals, Reload!Kubelet(p)
      PROVE  PodsAreTold'
  <2>1. /\ mount' = [mount EXCEPT ![p] = newest]
        /\ UNCHANGED <<method, newest, serves, asked, behind, blind, cut, hpc, turn,
                       failed>>
    BY <1>8 DEF Reload!Kubelet
  <2>2. mount[0] = newest => mount'[0] = newest
    BY <1>0, <2>1
  <2> QED  BY <1>q, <2>1, <2>2
<1>9. ASSUME NEW p \in Ordinals, Reload!FileWatch(p)
      PROVE  PodsAreTold'
  <2>1. /\ serves' = [serves EXCEPT ![p] = mount[p]]
        /\ UNCHANGED <<method, newest, mount, asked, behind, blind, cut, hpc, turn,
                       failed>>
    BY <1>9 DEF Reload!FileWatch
  <2>2. \A q \in Ordinals : serves'[q] \in {serves[q], mount[q], newest}
    BY <1>0, <2>1
  <2> QED  BY <1>q, <2>1, <2>2
<1>10. ASSUME NEW p \in Ordinals, Reload!Start(p)
       PROVE  PodsAreTold'
  <2>1. /\ mount' = [mount EXCEPT ![p] = newest]
        /\ serves' = [serves EXCEPT ![p] = newest] /\ behind' = behind \ {p}
        /\ UNCHANGED <<method, newest, asked, blind, cut, hpc, turn, failed>>
    BY <1>10 DEF Reload!Start
  <2>2. \A q \in Ordinals : /\ serves'[q] \in {serves[q], mount[q], newest}
                            /\ q \in behind => q \in behind' \/ serves'[q] = newest
    BY <1>0, <2>1
  <2>3. mount[0] = newest => mount'[0] = newest
    BY <1>0, <2>1
  <2> QED  BY <1>q, <2>1, <2>2, <2>3
<1>11. ASSUME NEW p \in Ordinals, Reload!GoDown(p)
       PROVE  PodsAreTold'
  <2>1. UNCHANGED <<method, newest, mount, serves, asked, behind, blind, cut, hpc, turn,
                    failed>>
    BY <1>11 DEF Reload!GoDown
  <2> QED  BY <1>q, <2>1
<1>12. CASE Reload!Crash
  BY <1>12 DEF Reload!Crash, PodsAreTold, Looked
<1>13. CASE UNCHANGED Reload!hVars
  BY <1>q, <1>13 DEF Reload!hVars
<1> QED
  BY <1>0, <1>1, <1>2, <1>3, <1>4, <1>5, <1>6, <1>7, <1>8, <1>9, <1>10, <1>11, <1>12,
     <1>13 DEF Reload!Next, Reload!Operator, Reload!Cluster

\* A hot reload that ended without an error is done, for any number of pods:
\* the first pod uses the renewed certificate, and so do the others but for
\* those that were told to reload before the kubelet had brought it to them.
\* This is about reloads before which pod 0's file was compared with the renewed
\* Secret, not with the one before it in the cache and not by a TLS handshake.
THEOREM ReloadedPodsAreCurrent ==
  ASSUME Reload!ReloadConstants
  PROVE  Reload!Spec => []Reload!ReloadIsTrue
<1>1. Reload!Init => ReloadTypes /\ PodsAreTold
  <2> SUFFICES ASSUME Reload!Init PROVE ReloadTypes /\ PodsAreTold
    OBVIOUS
  <2> USE ReloadArithmetic
  <2>1. ReloadSetup
    BY DEF Reload!Init, ReloadSetup, Reload!ReloadConstants
  <2>2. ReloadNumbers
    BY DEF Reload!Init, ReloadNumbers, Numbers
  <2>3. ReloadPods
    BY DEF Reload!Init, ReloadPods, Numbers
  <2>4. ReloadPass
    <3>1. hpc = "idle" /\ turn = 0 /\ attempt = 1 /\ failed = FALSE
      BY DEF Reload!Init
    <3>2. failed \in BOOLEAN
      BY <3>1, Zenon
    <3> QED  BY <3>1, <3>2 DEF ReloadPass, Reload!defaultRetryAttempts
  <2>5. PodsAreTold
    BY DEF Reload!Init, PodsAreTold, Current
  <2> QED  BY <2>1, <2>2, <2>3, <2>4, <2>5 DEF ReloadTypes
<1>2. ReloadTypes /\ PodsAreTold /\ [Reload!Next]_(Reload!hVars)
        => ReloadTypes' /\ PodsAreTold'
  BY ReloadTypesInductive, PodsAreToldInductive
<1>3. ReloadTypes /\ PodsAreTold => Reload!ReloadIsTrue
  BY ReloadArithmetic DEF PodsAreTold, Looked, Current, Reload!ReloadIsTrue
<1> QED  BY <1>1, <1>2, <1>3, PTL DEF Reload!Spec

=============================================================================

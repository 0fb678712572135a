--------------------------- MODULE ManagerContent ---------------------------
(***************************************************************************)
(* The WazuhRules (or the WazuhDecoders) of a cluster on their way to the  *)
(* managers.  Their controller, one worker, validates a resource and       *)
(* writes its text into a ConfigMap.  The pass over the cluster mounts the *)
(* ConfigMaps of the resources that are Applied and puts a hash of their   *)
(* texts into the pod template.  Each file is mounted by subPath, so a     *)
(* manager has the text that was in the ConfigMap when its pod started.    *)
(*                                                                         *)
(* The two controllers are copies of each other but for the way they write *)
(* the status.  A text is what its XML says: the rule ID (or the name of   *)
(* the decoder) in it, and whether it can be parsed and its names and IDs  *)
(* are allowed.  What spec.targetNodes says only shows in the status; the  *)
(* manager followed here is one that every resource is meant for.  Each    *)
(* status of an applied resource carries the present time: the write       *)
(* brings the resource back into the work queue unless nothing else        *)
(* changes and it falls into the same second as the last one.              *)
(***************************************************************************)
EXTENDS Naturals, Sequences, Functions

CONSTANTS ContentEdits,         \* how often a resource is made or changed
          ContentFaults,        \* how often something goes wrong
          ContentEnvironments,  \* the sets of kinds of faults that may occur
          None                  \* no resource, no ConfigMap

(***************************************************************************)
(* list   the resources cannot be listed                                   *)
(* apply  the API server fails the write of the ConfigMap, or does it and  *)
(*        the answer is lost                                               *)
(* write  another write of the controller is refused                       *)
(* crash  the operator restarts                                            *)
(* late   the managers restart while a ConfigMap or the template is behind *)
(***************************************************************************)
ContentFaultKinds == {"list", "apply", "write", "crash", "late"}

Items == {"a", "b"}
Texts == {[id |-> 1, ok |-> TRUE], [id |-> 2, ok |-> TRUE], [id |-> 1, ok |-> FALSE]}

VARIABLES mEnv, mFaults,
          kind,      \* "rule" or "decoder"
          twins,     \* the two have the same spec.ruleName (file name)
          away,      \* the resources in another namespace than the cluster
          up,        \* the WazuhCluster exists
          res,       \* the resources
          cm,        \* their ConfigMaps
          mEdits,    \* changes so far
          mView,     \* the resource in work, as it was read
          mpc, mQueue,
          template,  \* what the pod template mounts, and the hash in it
          pod        \* the template the manager started from, and the texts

mVars == <<mEnv, mFaults, kind, twins, away, up, res, cm, mEdits, mView, mpc,
           mQueue, template, pod>>
mFixed == <<mEnv, kind, twins, away>>
mounted == <<template, pod>>

\* The phase of a resource no pass has come to.
NoPhase == ""

WazuhRuleSpec == [text : Texts, gen : 1..(ContentEdits + 1)]
WazuhRuleStatus == [phase : {NoPhase, "Pending", "Applied", "Failed"}, ref : BOOLEAN]
WazuhDecoderStatus == [observed : 0..(ContentEdits + 1)]
Resources ==
  [spec : WazuhRuleSpec, status : WazuhRuleStatus, seen : WazuhDecoderStatus,
   finalizer : BOOLEAN, deleting : BOOLEAN]
Templates == [mounts : SUBSET Items, hash : SUBSET Texts]

Queues == {<<>>} \cup {<<i>> : i \in Items} \cup {q \in Items \X Items : q[1] # q[2]}

\* What the constants are.
ContentConstants ==
  /\ {ContentEdits, ContentFaults} \subseteq Nat
  /\ ContentEnvironments \subseteq SUBSET ContentFaultKinds
  /\ None \notin Resources \cup Texts

TypeOK ==
  /\ mEnv \in SUBSET ContentFaultKinds /\ mFaults \in 0..ContentFaults
  /\ kind \in {"rule", "decoder"} /\ twins \in BOOLEAN /\ away \subseteq Items
  /\ up \in BOOLEAN
  /\ \A i \in Items : res[i] \in Resources \cup {None}
  /\ \A i \in Items : cm[i] \in Texts \cup {None}
  /\ mEdits \in 0..ContentEdits
  /\ mView \in [item : Items, spec : WazuhRuleSpec, deleting : {FALSE}] \cup {None}
  /\ mpc \in {"idle", "validate", "apply", "applied", "invalid", "pending"}
  /\ mQueue \in Queues
  /\ template \in Templates /\ pod.template \in Templates
  /\ \A i \in Items : pod.text[i] \in Texts \cup {None}

NoContent == [mounts |-> {}, hash |-> {}]
Fresh(text) ==
  [spec |-> [text |-> text, gen |-> 1],
   status |-> [phase |-> NoPhase, ref |-> FALSE], seen |-> [observed |-> 0],
   finalizer |-> FALSE, deleting |-> FALSE]

\* First in, first out, and each but once.
Add(i, q) == IF i \in Range(q) THEN q ELSE Append(q, i)
Everything == SelectSeq(<<"a", "b">>, LAMBDA i : res[i] # None)

Init ==
  /\ mEnv \in ContentEnvironments /\ mFaults = 0
  /\ kind \in {"rule", "decoder"} /\ twins \in BOOLEAN /\ away \in SUBSET Items
  /\ up \in BOOLEAN
  /\ res \in [Items -> {None} \cup {Fresh(t) : t \in Texts}]
  /\ cm = [i \in Items |-> None] /\ mEdits = 0
  /\ mView = None /\ mpc = "idle"
  /\ mQueue = Everything
  /\ template = NoContent
  /\ pod = [template |-> NoContent, text |-> [i \in Items |-> None]]

Fault(k) == k \in mEnv /\ mFaults < ContentFaults /\ mFaults' = mFaults + 1

-----------------------------------------------------------------------------
(* The controller of the resources.                                        *)
\* The finalizer is put on first, and the resource is taken up again.
Reconcile(i) ==
  /\ mpc = "idle" /\ mQueue # <<>> /\ i = Head(mQueue) /\ res[i] # None /\ ~res[i].deleting
  /\ IF res[i].finalizer
       THEN /\ mView' = [item |-> i, spec |-> res[i].spec, deleting |-> FALSE]
            /\ mpc' = "validate" /\ mQueue' = Tail(mQueue)
            /\ UNCHANGED <<res, mFaults>>
       ELSE /\ \/ res' = [res EXCEPT ![i].finalizer = TRUE] /\ UNCHANGED mFaults
               \/ Fault("write") /\ UNCHANGED res
            /\ UNCHANGED <<mView, mpc, mQueue>>
  /\ UNCHANGED <<mFixed, up, cm, mEdits, mounted>>

\* Without its finalizer the resource goes, and its ConfigMap with it.
Delete(i) ==
  /\ mpc = "idle" /\ mQueue # <<>> /\ i = Head(mQueue) /\ res[i] # None /\ res[i].deleting
  /\ \/ /\ res' = [res EXCEPT ![i] = None] /\ cm' = [cm EXCEPT ![i] = None]
        /\ mQueue' = Tail(mQueue) /\ UNCHANGED mFaults
     \/ Fault("write") /\ UNCHANGED <<res, cm, mQueue>>
  /\ UNCHANGED <<mFixed, up, mEdits, mView, mpc, mounted>>

NotFound(i) ==
  /\ mpc = "idle" /\ mQueue # <<>> /\ i = Head(mQueue) /\ res[i] = None /\ mQueue' = Tail(mQueue)
  /\ UNCHANGED <<mFixed, mFaults, up, res, cm, mEdits, mView, mpc, mounted>>

\* That the text is XML, has allowed IDs and a name that can be a file's.
RuleIsWellFormed(text) == text.ok
DecoderIsWellFormed(text) == text.ok
WellFormed(text) ==
  IF kind = "rule" THEN RuleIsWellFormed(text) ELSE DecoderIsWellFormed(text)

\* The others of the namespace, whatever became of them.
checkDuplicateRuleIDs(i, text) ==
  {j \in Items \ {i} : /\ res[j] # None /\ res[j].spec.text.id = text.id
                       /\ (j \in away) = (i \in away)}

\* Mutant of Validate: the text is not looked at, only its ID.
IDsOnly(i, text) == checkDuplicateRuleIDs(i, text) = {}

Validate(i, text) == WellFormed(text) /\ checkDuplicateRuleIDs(i, text) = {}

\* A list that fails counts as one without duplicates.
validateRule ==
  /\ mpc = "validate"
  /\ \E valid \in BOOLEAN :
       /\ \/ valid = Validate(mView.item, mView.spec.text) /\ UNCHANGED mFaults
          \/ valid = WellFormed(mView.spec.text) /\ Fault("list")
       /\ mpc' = IF ~valid THEN "invalid" ELSE IF up THEN "apply" ELSE "pending"
  /\ UNCHANGED <<mFixed, up, res, cm, mEdits, mView, mQueue, mounted>>

\* Mutant of reconcileConfigMap: the text is read anew.
ConfigMapOfLatest ==
  /\ mpc = "apply" /\ mpc' = "applied"
  /\ cm' = [cm EXCEPT ![mView.item] = res[mView.item].spec.text]
  /\ mQueue' = IF cm' # cm THEN Add(mView.item, mQueue) ELSE mQueue
  /\ UNCHANGED <<mFixed, mFaults, up, res, mEdits, mView, mounted>>

\* On an error the status stays as it was.
reconcileConfigMap ==
  /\ mpc = "apply"
  /\ LET new == [cm EXCEPT ![mView.item] = mView.spec.text]
     IN \/ /\ cm' = new /\ mpc' = "applied" /\ UNCHANGED mFaults
           /\ mQueue' = IF cm' # cm THEN Add(mView.item, mQueue) ELSE mQueue
        \/ /\ Fault("apply") /\ cm' \in {cm, new} /\ mpc' = "idle"
           /\ mQueue' = Add(mView.item, mQueue)
  /\ UNCHANGED <<mFixed, up, res, mEdits, mView, mounted>>

-----------------------------------------------------------------------------
\* The rule is written as it was read, and refused if it is another since.
updateRuleStatus == res[mView.item].spec = mView.spec /\ ~res[mView.item].deleting
\* The status of the decoder is put on the decoder as it is now.
updateDecoderStatus == TRUE

updateStatus(status, seen) ==
  LET i == mView.item
      same == status = res[i].status /\ seen = res[i].seen
      accepted == IF kind = "rule" THEN updateRuleStatus ELSE updateDecoderStatus
  IN /\ \/ /\ accepted /\ UNCHANGED mFaults
           /\ res' = [res EXCEPT ![i].status = status, ![i].seen = seen]
           /\ \/ (same => status.phase = "Applied") /\ mQueue' = Add(i, mQueue)
              \/ same /\ UNCHANGED mQueue
        \/ /\ \/ ~accepted /\ UNCHANGED mFaults
              \/ Fault("write")
           /\ mQueue' = Add(i, mQueue) /\ UNCHANGED res
     /\ mpc' = "idle" /\ mView' = None
     /\ UNCHANGED <<mFixed, up, cm, mEdits, mounted>>

Held == res[mView.item]
ValidationFailed ==
  mpc = "invalid" /\ updateStatus([Held.status EXCEPT !.phase = "Failed"], Held.seen)
ClusterNotFound ==
  mpc = "pending" /\ updateStatus([Held.status EXCEPT !.phase = "Pending"], Held.seen)
\* Mutant of Applied: the generation is read anew.
AppliedLatest ==
  /\ mpc = "applied"
  /\ updateStatus([phase |-> "Applied", ref |-> TRUE],
                  [observed |-> Held.spec.gen])

Applied ==
  /\ mpc = "applied"
  /\ updateStatus([phase |-> "Applied", ref |-> TRUE], [observed |-> mView.spec.gen])

-----------------------------------------------------------------------------
(* The pass over the cluster and the managers.                             *)
Mounted(i) ==
  /\ res[i] # None /\ i \notin away
  /\ res[i].status.phase = "Applied" /\ res[i].status.ref

\* Mutant of GetRuleConfigMapsForCluster: the phase is not looked at.
AllConfigMaps ==
  LET found == {i \in Items : res[i] # None /\ i \notin away /\ res[i].status.ref}
  IN [mounts |-> found, hash |-> {res[i].spec.text : i \in found}]

\* The hash is over the sorted texts of the specs, whosever they are.
GetRuleConfigMapsForCluster ==
  LET found == {i \in Items : Mounted(i)}
  IN [mounts |-> found, hash |-> {res[i].spec.text : i \in found}]

\* Without a list there is nothing to mount.  Two files of one name make a
\* template that is refused.
reconcileManager ==
  /\ up
  /\ \/ template' = GetRuleConfigMapsForCluster /\ UNCHANGED mFaults
     \/ Fault("list") /\ template' = NoContent
  /\ template' # template
  /\ ~(twins /\ template'.mounts = Items)
  /\ UNCHANGED <<mFixed, up, res, cm, mEdits, mView, mpc, mQueue, pod>>

CaughtUp ==
  /\ template = GetRuleConfigMapsForCluster
  /\ \A i \in Items : Mounted(i) => res[i].seen.observed = res[i].spec.gen

\* A pod waits for the ConfigMaps it mounts.
StartPod ==
  /\ pod.template # template
  /\ \A i \in template.mounts : cm[i] # None
  /\ "late" \in mEnv \/ CaughtUp
  /\ pod' = [template |-> template,
             text |-> [i \in Items |-> IF i \in template.mounts THEN cm[i] ELSE None]]
  /\ UNCHANGED <<mFixed, mFaults, up, res, cm, mEdits, mView, mpc, mQueue, template>>

Controller ==
  \/ \E i \in Items : Reconcile(i) \/ Delete(i) \/ NotFound(i)
  \/ validateRule \/ reconcileConfigMap \/ ValidationFailed \/ ClusterNotFound
  \/ Applied

Managers == reconcileManager \/ StartPod

-----------------------------------------------------------------------------
Edit(i) ==
  /\ mEdits < ContentEdits /\ mEdits' = mEdits + 1
  /\ \E t \in Texts :
       \/ /\ res[i] = None /\ res' = [res EXCEPT ![i] = Fresh(t)]
       \/ /\ res[i] # None /\ ~res[i].deleting /\ t # res[i].spec.text
          /\ res' = [res EXCEPT ![i].spec = [text |-> t, gen |-> @.gen + 1]]
  /\ mQueue' = Add(i, mQueue)
  /\ UNCHANGED <<mFixed, mFaults, up, cm, mView, mpc, mounted>>

DeleteResource(i) ==
  /\ res[i] # None /\ ~res[i].deleting
  /\ mEdits < ContentEdits /\ mEdits' = mEdits + 1
  /\ res' = [res EXCEPT ![i] = IF @.finalizer THEN [@ EXCEPT !.deleting = TRUE]
                               ELSE None]
  /\ mQueue' = Add(i, mQueue)
  /\ UNCHANGED <<mFixed, mFaults, up, cm, mView, mpc, mounted>>

Missing(items) == SelectSeq(Everything, LAMBDA i : i \in items \ Range(mQueue))

\* The cluster is made, or its status changes: the resources of its namespace.
findRulesForCluster ==
  /\ up => Missing(Items \ away) # <<>>
  /\ mQueue' = mQueue \o Missing(Items \ away)
  /\ up' = TRUE
  /\ UNCHANGED <<mFixed, mFaults, res, cm, mEdits, mView, mpc, mounted>>

\* The informer hands over all resources anew, every ten hours or so.
Resync ==
  /\ Missing(Items) # <<>>
  /\ mQueue' = mQueue \o Missing(Items)
  /\ UNCHANGED <<mFixed, mFaults, up, res, cm, mEdits, mView, mpc, mounted>>

Crash ==
  /\ Fault("crash") /\ mpc' = "idle" /\ mView' = None
  /\ mQueue' = Everything
  /\ UNCHANGED <<mFixed, up, res, cm, mEdits, mounted>>

Next ==
  \/ Controller \/ Managers \/ findRulesForCluster \/ Resync \/ Crash
  \/ \E i \in Items : Edit(i) \/ DeleteResource(i)

Spec == Init /\ [][Next]_mVars

-----------------------------------------------------------------------------
\* An Applied resource whose status has seen its generation has exactly its
\* text in its ConfigMap, and that text was accepted: a status written onto a
\* resource that was edited in the meantime does not pass for the new text.
AppliedIsWritten ==
  \A i \in Items :
    res[i] # None /\ res[i].status.phase = "Applied"
      /\ res[i].seen.observed = res[i].spec.gen =>
      cm[i] = res[i].spec.text /\ cm[i].ok

\* No manager ever starts with a text that did not pass validation, whichever
\* edits fall between the validation, the ConfigMap, the pass and the start.
LoadedIsValid == \A i \in Items : pod.text[i] # None => pod.text[i].ok

\* In the end the phase tells whether the resource passes, the managers run on
\* the mounts and the hash of the resources that are Applied, and have their
\* texts unless they started while these were behind.  Two resources with
\* one ID are both out, and one file name for two keeps the template as it is.
ContentFollowed ==
  up =>
  /\ \A i \in Items : res[i] # None =>
       /\ ~res[i].deleting
       /\ IF Validate(i, res[i].spec.text)
            THEN res[i].status.phase = "Applied" /\ res[i].seen.observed = res[i].spec.gen
            ELSE res[i].status.phase = "Failed"
  /\ LET passing == {i \in Items \ away :
                      res[i] # None /\ Validate(i, res[i].spec.text)}
         texts == {res[i].spec.text : i \in passing}
     IN ~(twins /\ passing = Items) =>
          /\ template = [mounts |-> passing, hash |-> texts]
          /\ pod.template = template
          /\ "late" \notin mEnv => {pod.text[i] : i \in passing} = texts

=============================================================================

--------------------------- MODULE VolumeExpansion ---------------------------
(***************************************************************************)
(* The step of a pass over the cluster that makes the volumes of the       *)
(* manager's master or workers as large as spec.storageSize.  The claims   *)
(* are made by the StatefulSet, whose volumeClaimTemplates never change,   *)
(* and are found by their labels.  The storage system and the user act in  *)
(* between.  Master and workers are treated alike; one is followed.        *)
(*                                                                         *)
(* What became of the claims is put into the status.volumeExpansion of the *)
(* copy in memory, and goes with it: updateStatus reads the cluster anew   *)
(* and does not carry this field over.  An error is logged.  So nothing    *)
(* that outlasts the step depends on the outcome but the claims.           *)
(***************************************************************************)
EXTENDS Naturals

CONSTANTS Claims,              \* the ordinals of the StatefulSet
          MaxSize,             \* sizes are 1..MaxSize
          VolumeEdits,         \* how often the user changes something
          VolumeFaults,        \* how often something goes wrong
          VolumeEnvironments,  \* the sets of kinds of faults that may occur
          None                 \* no claim

(***************************************************************************)
(* class  the StorageClass cannot be read                                  *)
(* cache  the list is the one of the pass before                           *)
(* patch  the API server fails the patch of a claim, or does it and the    *)
(*        answer is lost                                                   *)
(***************************************************************************)
VolumeFaultKinds == {"class", "cache", "patch"}

VARIABLES vEnv, vFaults,
          expandable,   \* the StorageClass has allowVolumeExpansion
          labelled,     \* the claims that carry the component's label
          size, vEdits, \* spec.storageSize
          claims,       \* the PersistentVolumeClaims
          found,        \* the claims as the last pass listed them
          vpc, pass     \* the step: the size it goes by and what is left

vVars == <<vEnv, vFaults, expandable, labelled, size, vEdits, claims, found,
           vpc, pass>>
vFixed == <<vEnv, expandable, labelled>>

Sizes == 1..MaxSize
PersistentVolumeClaims == [request : Sizes, capacity : Sizes, resizing : BOOLEAN]

\* What the constants are.
VolumeConstants ==
  /\ MaxSize \in Nat \ {0} /\ {VolumeEdits, VolumeFaults} \subseteq Nat
  /\ VolumeEnvironments \subseteq SUBSET VolumeFaultKinds
  /\ None \notin PersistentVolumeClaims

TypeOK ==
  /\ vEnv \in SUBSET VolumeFaultKinds /\ vFaults \in 0..VolumeFaults
  /\ expandable \in BOOLEAN /\ labelled \subseteq Claims
  /\ size \in Sizes /\ vEdits \in 0..VolumeEdits
  /\ \A p \in Claims : {claims[p], found[p]} \subseteq PersistentVolumeClaims \cup {None}
  /\ vpc \in {"idle", "claims"}
  /\ pass \in [size : Sizes, left : SUBSET Claims]

New == [request |-> 1, capacity |-> 1, resizing |-> FALSE]

\* SelectorLabels puts no component label on a claim; somebody may have.
Init ==
  /\ vEnv \in VolumeEnvironments /\ vFaults = 0
  /\ expandable \in BOOLEAN /\ labelled \in SUBSET Claims
  /\ size = 1 /\ vEdits = 0
  /\ claims \in [Claims -> {New, None}]
  /\ found = claims
  /\ vpc = "idle" /\ pass = [size |-> 1, left |-> {}]

Fault(kind) == kind \in vEnv /\ vFaults < VolumeFaults /\ vFaults' = vFaults + 1

-----------------------------------------------------------------------------
getManagerMasterPVCs(list) == {p \in labelled : list[p] # None}

\* With no claim the step ends.
reconcileMasterVolumeExpansion ==
  /\ vpc = "idle"
  /\ \E list \in {claims, found} :
       /\ IF list = claims THEN UNCHANGED vFaults ELSE Fault("cache")
       /\ found' = list
       /\ pass' = [size |-> size, left |-> getManagerMasterPVCs(list)]
  /\ vpc' = IF pass'.left = {} THEN "idle" ELSE "claims"
  /\ UNCHANGED <<vFixed, size, vEdits, claims>>

\* The claim is as large as asked for, too large, or to be expanded.
CompareStorageSizes(p) ==
  CASE found[p].request = pass.size -> "equal"
    [] found[p].request > pass.size -> "shrink"
    [] found[p].request < pass.size -> "expand"

GetPVCExpansionCondition(p) == ~found[p].resizing

CanStorageClassExpand == expandable

\* A claim never gets smaller: Kubernetes refuses the patch.
ExpandPVC(p) ==
  LET grown == pass.size >= claims[p].request
               /\ claims' = [claims EXCEPT ![p].request = pass.size]
  IN \/ grown /\ UNCHANGED vFaults
     \/ pass.size < claims[p].request /\ UNCHANGED <<claims, vFaults>>
     \/ Fault("patch") /\ (grown \/ UNCHANGED claims)

\* Mutant of processVolumeExpansion: an error with one claim ends the step.
StopAtError(p) ==
  /\ vpc = "claims" /\ p \in pass.left
  /\ IF CompareStorageSizes(p) = "expand" /\ CanStorageClassExpand
          /\ GetPVCExpansionCondition(p)
     THEN ExpandPVC(p) ELSE UNCHANGED <<claims, vFaults>>
  /\ pass' = [pass EXCEPT !.left = IF CompareStorageSizes(p) = "shrink" THEN {} ELSE @ \ {p}]
  /\ vpc' = IF pass'.left = {} THEN "idle" ELSE "claims"
  /\ UNCHANGED <<vFixed, size, vEdits, found>>

\* One claim after the other; an error with one does not keep the next.  One
\* that is being resized is left alone.
processVolumeExpansion(p) ==
  /\ vpc = "claims" /\ p \in pass.left
  /\ \/ /\ CompareStorageSizes(p) = "expand" /\ CanStorageClassExpand
        /\ GetPVCExpansionCondition(p)
        /\ ExpandPVC(p)
     \/ /\ CompareStorageSizes(p) # "expand" \/ ~CanStorageClassExpand
             \/ ~GetPVCExpansionCondition(p)
        /\ UNCHANGED <<claims, vFaults>>
     \/ CompareStorageSizes(p) = "expand" /\ Fault("class") /\ UNCHANGED claims
  /\ pass' = [pass EXCEPT !.left = @ \ {p}]
  /\ vpc' = IF pass'.left = {} THEN "idle" ELSE "claims"
  /\ UNCHANGED <<vFixed, size, vEdits, found>>

Operator ==
  \/ reconcileMasterVolumeExpansion
  \/ \E p \in Claims : processVolumeExpansion(p)

-----------------------------------------------------------------------------
EditStorageSize ==
  /\ vEdits < VolumeEdits /\ vEdits' = vEdits + 1
  /\ size' \in Sizes \ {size}
  /\ UNCHANGED <<vFixed, vFaults, claims, found, vpc, pass>>

\* The StatefulSet makes a claim of the size of its template.
NewClaim(p) ==
  /\ claims[p] = None /\ claims' = [claims EXCEPT ![p] = New]
  /\ UNCHANGED <<vFixed, vFaults, size, vEdits, found, vpc, pass>>

\* The storage system.
ResizeVolume(p) ==
  /\ claims[p] # None /\ claims[p].request > claims[p].capacity
  /\ claims' = [claims EXCEPT ![p] =
       IF @.resizing THEN [request |-> @.request, capacity |-> @.request, resizing |-> FALSE]
       ELSE [@ EXCEPT !.resizing = TRUE]]
  /\ UNCHANGED <<vFixed, vFaults, size, vEdits, found, vpc, pass>>

Storage == \E p \in Claims : ResizeVolume(p)

Next ==
  Operator \/ EditStorageSize \/ Storage \/ \E p \in Claims : NewClaim(p)

Spec == Init /\ [][Next]_vVars

-----------------------------------------------------------------------------
\* In the end every claim with the label is as large as the spec says, or larger
\* where the spec was larger before, whatever was stale, refused or lost on the
\* way, unless its class lets nobody expand it; and the storage system has
\* followed.
VolumesFollow ==
  \A p \in getManagerMasterPVCs(claims) :
    /\ expandable => claims[p].request >= size
    /\ claims[p].capacity = claims[p].request

=============================================================================

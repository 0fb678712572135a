--------------------------- MODULE ManualSnapshot ---------------------------
(***************************************************************************)
(* The reconciler of one OpenSearchSnapshot: it picks a name, records it,  *)
(* asks OpenSearch for the snapshot and copies its state into the status.  *)
(* No phase is terminal: whatever brings the object back into the work     *)
(* queue, the pass starts from the repository check again.                 *)
(***************************************************************************)
EXTENDS Naturals, FiniteSets

CONSTANTS SnapshotNames,         \* how many names a behaviour may generate
          SnapshotFaults,        \* how often something goes wrong
          SnapshotEnvironments   \* the sets of kinds of faults that may occur

(***************************************************************************)
(* read    OpenSearch fails a read                                         *)
(* call    OpenSearch fails the snapshot, or takes it and the answer is    *)
(*         lost                                                            *)
(* write   the API server refuses a status write                           *)
(* edit    someone changes the object between its read and a write         *)
(* cache   a pass reads the object as it was before the last write         *)
(* crash   the operator restarts                                           *)
(* prune   a retention policy deletes the snapshot from the repository     *)
(***************************************************************************)
SnapshotFaultKinds == {"read", "call", "write", "edit", "cache", "crash", "prune"}

SnapshotConstants ==
  /\ {SnapshotNames, SnapshotFaults} \subseteq Nat
  /\ SnapshotEnvironments \subseteq SUBSET SnapshotFaultKinds

VARIABLES sEnv,      \* the faults that may occur
          sFaults,   \* the faults that did
          excused,   \* writes refused or overtaken, snapshots pruned
          repo,      \* OpenSearch knows the repository
          taken,     \* per name the state of the snapshot, or "absent"
          attempts,  \* the snapshots OpenSearch began
          sStored,   \* the status in the API server
          sBefore,   \* the status before the last write
          sCopy,     \* the status in the pass
          sStale,    \* the object changed since the pass read it
          spc,       \* where the pass stands
          sQueued,   \* the object is in the work queue
          issued     \* the names that were generated

searchVars == <<repo, taken, attempts>>
sVars == <<sEnv, sFaults, excused, searchVars, sStored, sBefore, sCopy, sStale,
           spc, sQueued, issued>>

Names == 1..SnapshotNames
States == {"IN_PROGRESS", "SUCCESS", "PARTIAL", "FAILED"}

\* The phase before the first pass.
NoPhase == ""
Phases == {NoPhase, "InProgress", "Completed", "Partial", "Failed"}

\* name 0 is no name
NoStatus == [phase |-> NoPhase, name |-> 0]

TypeOK ==
  /\ sEnv \in SUBSET SnapshotFaultKinds
  /\ sFaults \in 0..SnapshotFaults
  /\ excused \in 0..SnapshotFaults
  /\ repo \in BOOLEAN
  /\ taken \in [Names -> States \cup {"absent"}]
  /\ attempts \in 0..(SnapshotFaults + 1)
  /\ {sStored, sBefore, sCopy} \subseteq
       [phase : Phases, name : 0..SnapshotNames]
  /\ sStale \in BOOLEAN /\ sQueued \in BOOLEAN /\ issued \in 0..SnapshotNames
  /\ spc \in {"idle", "check", "look", "record", "create", "poll", "fail"}

Init ==
  /\ sEnv \in SnapshotEnvironments
  /\ sFaults = 0 /\ excused = 0
  /\ repo \in BOOLEAN
  /\ taken = [n \in Names |-> "absent"]
  /\ attempts = 0
  /\ sStored = NoStatus /\ sBefore = NoStatus /\ sCopy = NoStatus
  /\ sStale = FALSE /\ spc = "idle" /\ sQueued = TRUE /\ issued = 0

Fault(kind) ==
  kind \in sEnv /\ sFaults < SnapshotFaults /\ sFaults' = sFaults + 1

-----------------------------------------------------------------------------
\* Mutant of updateStatus: a change of the status is not an event.
SilentUpdateStatus(status, changes) ==
  /\ ~sStale
  /\ sStored' = status /\ sBefore' = sStored
  /\ sQueued' = (status.phase = "InProgress" \/ sQueued)
  /\ UNCHANGED <<sFaults, excused>>

\* The object comes back into the queue with an error of the pass, with a
\* write that changed it (changes, if other fields than the model's did), and
\* in the InProgress phase after ten seconds.
updateStatus(status, changes) ==
  \/ /\ ~sStale
     /\ sStored' = status /\ sBefore' = sStored
     /\ sQueued' = (changes \/ status # sStored \/ status.phase = "InProgress" \/ sQueued)
     /\ UNCHANGED <<sFaults, excused>>
  \/ /\ sStale
     /\ sQueued' = TRUE
     /\ UNCHANGED <<sStored, sBefore, sFaults, excused>>
  \/ /\ Fault("write")
     /\ excused' = excused + 1 /\ sQueued' = TRUE
     /\ UNCHANGED <<sStored, sBefore>>

Return(status, changes) ==
  updateStatus(status, changes) /\ sCopy' = NoStatus /\ spc' = "idle"

Reconcile ==
  /\ spc = "idle" /\ sQueued
  /\ \/ sCopy' = sStored /\ sStale' = FALSE /\ UNCHANGED <<sFaults, excused>>
     \/ /\ Fault("cache") /\ sBefore # sStored
        /\ sCopy' = sBefore /\ sStale' = TRUE /\ excused' = excused + 1
  /\ spc' = "check" /\ sQueued' = FALSE
  /\ UNCHANGED <<sEnv, searchVars, sStored, sBefore, issued>>

GetRepository ==
  /\ spc = "check"
  /\ \/ repo /\ spc' = "look" /\ UNCHANGED sFaults
     \/ ~repo /\ spc' = "fail" /\ UNCHANGED sFaults
     \/ Fault("read") /\ spc' = "fail"
  /\ UNCHANGED <<sEnv, excused, searchVars, sStored, sBefore, sCopy, sStale,
                 sQueued, issued>>

\* The pass gives the resource a name, the time of day, and looks for a
\* snapshot of that name.
GetSnapshot ==
  /\ spc = "look"
  /\ issued' = IF sCopy.name = 0 THEN issued + 1 ELSE issued
  /\ LET name == IF sCopy.name = 0 THEN issued + 1 ELSE sCopy.name
     IN  /\ name \in Names
         /\ sCopy' = [sCopy EXCEPT !.name = name]
         /\ \/ taken[name] = "absent" /\ spc' = "record" /\ UNCHANGED sFaults
            \/ taken[name] # "absent" /\ spc' = "poll" /\ UNCHANGED sFaults
            \/ Fault("read") /\ spc' = "fail"
  /\ UNCHANGED <<sEnv, excused, searchVars, sStored, sBefore, sStale, sQueued>>

\* Mutant of RecordName: the name is not written before the request.
RecordNoName ==
  /\ spc = "record"
  /\ sCopy' = [sCopy EXCEPT !.phase = "InProgress"]
  /\ spc' = "create"
  /\ UNCHANGED <<sEnv, sFaults, excused, searchVars, sStored, sBefore, sStale,
                 sQueued, issued>>

\* The name is recorded before the snapshot is asked for; a failure of this
\* write is only logged.
RecordName ==
  /\ spc = "record"
  /\ LET status == [sCopy EXCEPT !.phase = "InProgress"]
     IN  updateStatus(status, FALSE) /\ sCopy' = status
  /\ spc' = "create"
  /\ UNCHANGED <<sEnv, searchVars, sStale, issued>>

CreateSnapshot ==
  /\ spc = "create"
  /\ \/ /\ taken' = [taken EXCEPT ![sCopy.name] = "IN_PROGRESS"]
        /\ attempts' = attempts + 1
     \/ "call" \in sEnv /\ UNCHANGED <<taken, attempts>>
  /\ \/ taken' # taken /\ spc' = "poll" /\ UNCHANGED sFaults
     \/ Fault("call") /\ spc' = "fail"
  /\ UNCHANGED <<sEnv, excused, repo, sStored, sBefore, sCopy, sStale, sQueued, issued>>

\* Mutant of PhaseOf: the state goes into the status as it is.
PhaseOfRaw(state) == state

PhaseOf(state) ==
  CASE state = "IN_PROGRESS" -> "InProgress"
    [] state = "SUCCESS" -> "Completed"
    [] state = "PARTIAL" -> "Partial"
    [] state = "FAILED" -> "Failed"

\* Mutant of updateSnapshotStatus: a snapshot that was accepted is complete.
AcceptedIsComplete ==
  /\ spc = "poll"
  /\ Return([sCopy EXCEPT !.phase = "Completed"], TRUE)
  /\ UNCHANGED <<sEnv, searchVars, sStale, issued>>

\* An end of the snapshot is written with the present time as its end time,
\* so that the write always changes the object.
updateSnapshotStatus ==
  /\ spc = "poll"
  /\ \/ /\ taken[sCopy.name] # "absent"
        /\ LET phase == PhaseOf(taken[sCopy.name])
           IN  Return([sCopy EXCEPT !.phase = phase], phase # "InProgress")
     \/ /\ taken[sCopy.name] = "absent"
        /\ spc' = "fail"
        /\ UNCHANGED <<sStored, sBefore, sCopy, sQueued, sFaults, excused>>
     \/ /\ Fault("read")
        /\ spc' = "fail"
        /\ UNCHANGED <<sStored, sBefore, sCopy, sQueued, excused>>
  /\ UNCHANGED <<sEnv, searchVars, sStale, issued>>

Fail ==
  /\ spc = "fail"
  /\ Return([sCopy EXCEPT !.phase = "Failed"], FALSE)
  /\ UNCHANGED <<sEnv, searchVars, sStale, issued>>

Operator ==
  \/ Reconcile \/ GetRepository \/ GetSnapshot \/ RecordName \/ CreateSnapshot
  \/ updateSnapshotStatus \/ Fail

-----------------------------------------------------------------------------
(***************************************************************************)
(* OpenSearch ends the snapshot, a retention policy deletes it, the        *)
(* repository appears; the process may die, the object may change.         *)
(***************************************************************************)
EndSnapshot(n) ==
  /\ taken[n] = "IN_PROGRESS"
  /\ \E state \in States \ {"IN_PROGRESS"} : taken' = [taken EXCEPT ![n] = state]
  /\ UNCHANGED <<sEnv, sFaults, excused, repo, attempts, sStored, sBefore, sCopy,
                 sStale, spc, sQueued, issued>>

Prune(n) ==
  /\ taken[n] \in {"SUCCESS", "PARTIAL", "FAILED"}
  /\ Fault("prune")
  /\ taken' = [taken EXCEPT ![n] = "absent"]
  /\ excused' = excused + 1
  /\ UNCHANGED <<sEnv, repo, attempts, sStored, sBefore, sCopy, sStale, spc,
                 sQueued, issued>>

Crash ==
  /\ Fault("crash")
  /\ sCopy' = NoStatus /\ spc' = "idle" /\ sQueued' = TRUE
  /\ UNCHANGED <<sEnv, excused, searchVars, sStored, sBefore, sStale, issued>>

Edit ==
  /\ Fault("edit")
  /\ spc # "idle" /\ ~sStale
  /\ sStale' = TRUE /\ sQueued' = TRUE /\ excused' = excused + 1
  /\ UNCHANGED <<sEnv, searchVars, sStored, sBefore, sCopy, spc, issued>>

Ends == \E n \in Names : EndSnapshot(n)

Next == Operator \/ Ends \/ (\E n \in Names : Prune(n)) \/ Crash \/ Edit

Spec == Init /\ [][Next]_sVars

-----------------------------------------------------------------------------
\* A resource takes one snapshot, whatever fails and whenever the operator
\* restarts between RecordName and CreateSnapshot: a second one needs a status
\* write that was refused or overtaken, or a snapshot deleted from the
\* repository, each at most one.
OneSnapshot == attempts <= 1 + excused

\* Completed and Partial are what became of the snapshot the status names,
\* also after retries and overtaken writes: as long as nothing is deleted from
\* the repository that snapshot is there, and it ended that way.
PhaseIsTrue ==
  sStored.phase \in {"Completed", "Partial"} /\ "prune" \notin sEnv =>
    /\ sStored.name # 0
    /\ taken[sStored.name] # "absent"
    /\ PhaseOf(taken[sStored.name]) = sStored.phase

\* A failed request is retried, although the pass that met it reports Failed
\* without an error: the write of that phase is what brings the object back.
\* With one fault in a behaviour the phase ends as the state of the snapshot.
FailureRetried ==
  repo /\ sEnv \subseteq {"read", "call", "write", "crash"} =>
    \/ sFaults > 1
    \/ /\ sStored.name # 0 /\ taken[sStored.name] # "absent"
       /\ sStored.phase = PhaseOf(taken[sStored.name])
OneFailureIsRetried == <>[]FailureRetried

=============================================================================

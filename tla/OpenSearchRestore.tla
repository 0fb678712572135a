------------------------- MODULE OpenSearchRestore -------------------------
(***************************************************************************)
(* The reconciler of one OpenSearchRestore: it validates the repository    *)
(* and the snapshot, records that it restores, asks OpenSearch to restore  *)
(* and polls the recovery.  A pass works on its own copy of the status;    *)
(* the copy is lost with the process, and a write of it is refused when    *)
(* the object changed since it was read.                                   *)
(***************************************************************************)
EXTENDS Naturals

CONSTANTS RestoreIndices,       \* the indices the snapshot holds
          FirstIndex,           \* the one the list of restored indices begins with
          RestoreFaults,        \* how often something goes wrong
          RestoreEnvironments   \* the sets of kinds of faults that may occur

(***************************************************************************)
(* client  the OpenSearch client cannot be built                           *)
(* read    OpenSearch fails a read                                         *)
(* call    OpenSearch fails the restore, or does it and the answer is lost *)
(* empty   the answer to the restore lists neither indices nor shards      *)
(* write   the API server refuses a status write                           *)
(* edit    someone changes the object between its read and a write         *)
(* cache   a pass reads the object as it was before the last write         *)
(* crash   the operator restarts                                           *)
(***************************************************************************)
RestoreFaultKinds ==
  {"client", "read", "call", "empty", "write", "edit", "cache", "crash"}

RestoreConstants ==
  /\ RestoreFaults \in Nat
  /\ RestoreEnvironments \subseteq SUBSET RestoreFaultKinds

VARIABLES rEnv,       \* the faults that may occur
          rFaults,    \* the faults that did
          rLost,      \* status writes that were refused or overtaken
          repository, \* OpenSearch knows the repository
          snapshot,   \* the state of the snapshot, or "absent"
          recovery,   \* per index "absent", "RUNNING" or "DONE"
          performed,  \* the restores OpenSearch started
          stored,     \* the status in the API server
          before,     \* the status before the last write
          copy,       \* the status in the pass
          stale,      \* the object changed since the pass read it
          rpc,        \* where the pass stands
          rQueued     \* the object is in the work queue

osVars == <<repository, snapshot, recovery, performed>>
rVars == <<rEnv, rFaults, rLost, osVars, stored, before, copy, stale, rpc,
           rQueued>>

\* The phase of an object that no pass has looked at.
NoPhase == ""

Phases == {NoPhase, "Validating", "InProgress", "Completed", "Failed"}
Terminal == {"Completed", "Failed"}

NoStatus == [phase |-> NoPhase, started |-> FALSE, indices |-> {}, shards |-> "nil"]

TypeOK ==
  /\ rEnv \in SUBSET RestoreFaultKinds
  /\ rFaults \in 0..RestoreFaults
  /\ rLost \in 0..(2 * RestoreFaults)
  /\ repository \in BOOLEAN
  /\ snapshot \in {"absent", "IN_PROGRESS", "SUCCESS", "PARTIAL", "FAILED"}
  /\ recovery \in [RestoreIndices -> {"absent", "RUNNING", "DONE"}]
  /\ performed \in Nat
  /\ {stored, before, copy} \subseteq
       [phase : Phases, started : BOOLEAN, indices : SUBSET RestoreIndices,
        shards : {"nil", "zero", "some"}]
  /\ stale \in BOOLEAN /\ rQueued \in BOOLEAN
  /\ rpc \in {"idle", "announce", "validate", "start", "call",
              "monitor", "fail"}

Init ==
  /\ rEnv \in RestoreEnvironments
  /\ rFaults = 0 /\ rLost = 0
  /\ repository \in BOOLEAN
  /\ snapshot \in {"absent", "IN_PROGRESS", "SUCCESS", "PARTIAL", "FAILED"}
  /\ recovery = [i \in RestoreIndices |-> "absent"]
  /\ performed = 0
  /\ stored = NoStatus /\ before = NoStatus /\ copy = NoStatus
  /\ stale = FALSE /\ rpc = "idle" /\ rQueued = TRUE

May(kind) == kind \in rEnv /\ rFaults < RestoreFaults
Fault(kind) == May(kind) /\ rFaults' = rFaults + 1

-----------------------------------------------------------------------------
(***************************************************************************)
(* A status write of the pass.  It is refused when the object changed      *)
(* since the pass read it; whatever becomes of it, the copy has the phase. *)
(***************************************************************************)
updateStatus(status) ==
  \/ /\ ~stale
     /\ stored' = status /\ before' = stored /\ UNCHANGED <<rFaults, rLost>>
  \/ stale /\ UNCHANGED <<stored, before, rFaults, rLost>>
  \/ Fault("write") /\ rLost' = rLost + 1 /\ UNCHANGED <<stored, before>>

\* A write whose error is only logged: the pass goes on.
WriteAndGoOn(status, next) ==
  updateStatus(status) /\ copy' = status /\ rpc' = next

\* The write that ends a pass.  The object stays queued: the write of a phase
\* is an event, an error is retried, and a phase that is not terminal is
\* looked at again after ten seconds.
Return(status) ==
  updateStatus(status) /\ copy' = NoStatus /\ rpc' = "idle"

ReturnUnsaved ==
  copy' = NoStatus /\ rpc' = "idle" /\ UNCHANGED <<stored, before, rLost>>

\* Mutant of Begin: a terminal phase is looked at for ever.
BeginAlways(status) ==
  /\ copy' = status
  /\ rQueued' = TRUE
  /\ rpc' = CASE status.phase = NoPhase -> "announce"
              [] status.phase = "Validating" -> "start"
              [] status.phase = "InProgress" -> "monitor"
              [] OTHER -> "idle"

\* What a pass does first follows from the phase it read.
Begin(status) ==
  /\ copy' = status
  /\ rQueued' = (status.phase \notin Terminal)
  /\ rpc' = CASE status.phase = NoPhase -> "announce"
              [] status.phase = "Validating" -> "start"
              [] status.phase = "InProgress" -> "monitor"
              [] OTHER -> "idle"

\* The object is read from the cache of the manager's client, which may still
\* hold the version before the last write.  A client that cannot be built is
\* an error of the pass.
Reconcile ==
  /\ rpc = "idle" /\ rQueued
  /\ \/ /\ Begin(stored) /\ stale' = FALSE
        /\ UNCHANGED <<rFaults, rLost>>
     \/ /\ Fault("cache") /\ before # stored
        /\ Begin(before) /\ stale' = TRUE /\ rLost' = rLost + 1
     \/ /\ Fault("client") /\ stored.phase \notin Terminal
        /\ UNCHANGED <<rLost, copy, stale, rpc, rQueued>>
  /\ UNCHANGED <<rEnv, osVars, stored, before>>

AnnounceValidation ==
  /\ rpc = "announce"
  /\ WriteAndGoOn([copy EXCEPT !.phase = "Validating"], "validate")
  /\ UNCHANGED <<rEnv, osVars, stale, rQueued>>

\* A snapshot is found in a repository that is.
GetSnapshot == IF repository THEN snapshot ELSE "absent"

\* Only a snapshot that ended is restored.
Restorable == GetSnapshot \in {"SUCCESS", "PARTIAL"}

\* A failed check is as final as a negative one.
Validate ==
  /\ rpc = "validate"
  /\ \/ Restorable /\ rpc' = "start" /\ UNCHANGED rFaults
     \/ ~Restorable /\ rpc' = "fail" /\ UNCHANGED rFaults
     \/ Fault("read") /\ rpc' = "fail"
  /\ UNCHANGED <<rEnv, osVars, stored, before, copy, rLost, stale, rQueued>>

Fail ==
  /\ rpc = "fail"
  /\ Return([copy EXCEPT !.phase = "Failed"])
  /\ UNCHANGED <<rEnv, osVars, stale, rQueued>>

\* Mutant of RecordStart: nothing is recorded before the request.
RecordNothing ==
  /\ rpc = "start"
  /\ copy' = [copy EXCEPT !.phase = "InProgress", !.started = TRUE]
  /\ rpc' = "call"
  /\ UNCHANGED <<rEnv, rFaults, rLost, osVars, stored, before, stale, rQueued>>

\* The record that a restore was asked for comes before the request.
RecordStart ==
  /\ rpc = "start"
  /\ WriteAndGoOn([copy EXCEPT !.phase = "InProgress", !.started = TRUE], "call")
  /\ UNCHANGED <<rEnv, osVars, stale, rQueued>>

Starts ==
  /\ Restorable
  /\ performed' = performed + 1
  /\ recovery' = [i \in RestoreIndices |-> "RUNNING"]
  /\ UNCHANGED <<repository, snapshot>>

\* The outcomes of POST _restore: started and answered; refused; failed, or
\* done with the answer lost.
RestoreSnapshot ==
  /\ rpc = "call"
  /\ \/ /\ Starts
        /\ \/ copy' = [copy EXCEPT !.indices = RestoreIndices, !.shards = "some"]
           \/ "empty" \in rEnv /\ copy' = [copy EXCEPT !.shards = "zero"]
        /\ rpc' = "monitor"
        /\ UNCHANGED rFaults
     \/ /\ ~Restorable
        /\ rpc' = "fail"
        /\ UNCHANGED <<osVars, copy, rFaults>>
     \/ /\ Fault("call")
        /\ Starts \/ UNCHANGED osVars
        /\ rpc' = "fail"
        /\ UNCHANGED copy
  /\ UNCHANGED <<rEnv, stored, before, rLost, stale, rQueued>>

\* Only the first index is polled.
GetRestoreStatus == recovery[FirstIndex]

\* Mutant of monitorRestoreProgress: a failed poll fails the restore.
MonitorOrFail ==
  /\ rpc = "monitor"
  /\ \/ /\ copy.indices # {} /\ Fault("read")
        /\ rpc' = "fail" /\ UNCHANGED <<stored, before, copy, rLost>>
     \/ /\ copy.indices # {} /\ GetRestoreStatus = "DONE"
        /\ Return([copy EXCEPT !.phase = "Completed"])
  /\ UNCHANGED <<rEnv, osVars, stale, rQueued>>

\* A failed poll ends the pass unsaved.
monitorRestoreProgress ==
  /\ rpc = "monitor"
  /\ \/ /\ copy.indices = {} /\ copy.started /\ copy.shards = "zero"
        /\ Return([copy EXCEPT !.phase = "Completed"])
     \/ /\ copy.indices = {} /\ ~(copy.started /\ copy.shards = "zero")
        /\ Return([copy EXCEPT !.phase = "InProgress"])
     \/ /\ copy.indices # {} /\ Fault("read")
        /\ ReturnUnsaved
     \/ /\ copy.indices # {} /\ GetRestoreStatus # "DONE"
        /\ Return([copy EXCEPT !.phase = "InProgress"])
     \/ /\ copy.indices # {} /\ GetRestoreStatus = "DONE"
        /\ Return([copy EXCEPT !.phase = "Completed"])
  /\ UNCHANGED <<rEnv, osVars, stale, rQueued>>

Operator ==
  \/ Reconcile \/ AnnounceValidation \/ Validate \/ Fail
  \/ RecordStart \/ RestoreSnapshot \/ monitorRestoreProgress

-----------------------------------------------------------------------------
(***************************************************************************)
(* OpenSearch recovers the shards; the snapshot may end; the process may   *)
(* die; someone may change the object.                                     *)
(***************************************************************************)
Recover(i) ==
  /\ recovery[i] = "RUNNING"
  /\ recovery' = [recovery EXCEPT ![i] = "DONE"]
  /\ UNCHANGED <<rEnv, rFaults, rLost, repository, snapshot, performed,
                 stored, before, copy, stale, rpc, rQueued>>

EndSnapshot ==
  /\ snapshot = "IN_PROGRESS"
  /\ snapshot' \in {"SUCCESS", "PARTIAL", "FAILED"}
  /\ UNCHANGED <<rEnv, rFaults, rLost, repository, recovery, performed,
                 stored, before, copy, stale, rpc, rQueued>>

Crash ==
  /\ Fault("crash")
  /\ copy' = NoStatus /\ rpc' = "idle" /\ rQueued' = TRUE
  /\ UNCHANGED <<rEnv, rLost, osVars, stored, before, stale>>

Edit ==
  /\ Fault("edit")
  /\ rpc # "idle" /\ ~stale
  /\ stale' = TRUE /\ rQueued' = TRUE /\ rLost' = rLost + 1
  /\ UNCHANGED <<rEnv, osVars, stored, before, copy, rpc>>

Next ==
  \/ Operator
  \/ \E i \in RestoreIndices : Recover(i)
  \/ EndSnapshot \/ Crash \/ Edit

Spec == Init /\ [][Next]_rVars

-----------------------------------------------------------------------------
(***************************************************************************)
(* A restore overwrites indices.  OpenSearch is asked for it once, however *)
(* often the operator restarts between the record (RecordStart) and the    *)
(* request, and again only if a record could not be written; after the     *)
(* Completed or Failed phase is stored nothing is restored and the phase   *)
(* stays.                                                                  *)
(***************************************************************************)
StageOf(phase) ==
  CASE phase \in {NoPhase, "Validating"} -> "asked"
    [] phase = "InProgress" -> "working"
    [] OTHER -> "ended"

Promise == INSTANCE OneShot WITH stage <- StageOf(stored.phase), lost <- rLost
RestoresOnce == Promise!Spec

\* Left alone, a restore comes to an end: Completed or Failed is stored, and
\* the operator then stops looking at it (Reconcile).
RestoreEnded ==
  rEnv \subseteq {"client", "empty"} => stored.phase \in Terminal /\ ~rQueued
RestoreEnds == <>[]RestoreEnded

\* A restore that was asked for and whose indices are all there is not
\* reported as failed, unless the request itself failed.
FailureIsFinal ==
  stored.phase = "Failed" /\ "call" \notin rEnv => performed <= rLost

=============================================================================

----------------------------- MODULE RestoreJob -----------------------------
(***************************************************************************)
(* The reconciler of one WazuhRestore, the Job it creates and the script   *)
(* that Job runs against a manager pod: fetch the archive, stop the        *)
(* manager, save what is there, unpack, start the manager again.           *)
(***************************************************************************)
EXTENDS JobFields, Naturals, Sequences

CONSTANTS JobFaults,        \* how often something goes wrong
          JobEnvironments,  \* the sets of kinds of faults that may occur
          None              \* no object

(***************************************************************************)
(* read    the API server fails a read                                     *)
(* apply   it refuses to create or update an object of the restore         *)
(* write   it refuses the status                                           *)
(* call    kubectl or rclone fails                                         *)
(* tool    a command in the manager's container fails                      *)
(* evict   the Job's pod is killed                                         *)
(* down    the operator is away until the Job has expired                  *)
(* crash   the operator restarts                                           *)
(* delete  the user deletes the resource                                   *)
(***************************************************************************)
JobFaultKinds ==
  {"read", "apply", "write", "call", "tool", "evict", "down", "crash", "delete"}

JobConstants ==
  JobFaults \in Nat /\ JobEnvironments \subseteq SUBSET JobFaultKinds

VARIABLES jEnv,      \* the faults that may occur
          jFaults,   \* the faults that did
          source,    \* where the archive is
          jField,    \* a field of the spec
          opts,      \* preRestoreBackup, stopManager and restartAfterRestore
          exists,    \* of the cluster, the Secret and the backup, those there are
          jLife,     \* "live", "deleting" or "gone"
          phase,     \* the phase in the API server
          job,       \* the Job: its state, failed pods and the script's next line
          honoured,  \* the Job was built from the field
          up,        \* the manager runs
          data,      \* the manager's data: "old", "partial" or "new"
          saved,     \* the storage has an archive of the old data
          skipped,   \* the lines that failed and did not stop the script
          jView,     \* the phase the pass writes
          jpc        \* where the pass stands

jWorld == <<jEnv, source, jField, opts, exists>>
manager == <<up, data, saved, skipped>>
jVars == <<jWorld, jFaults, jLife, phase, job, honoured, manager, jView, jpc>>

Needs(s) ==
  CASE s = "s3" -> {"cluster", "secret"}
    [] s = "wazuhBackupRef" -> {"cluster", "backup"}
    [] OTHER -> {"cluster"}

BackoffLimit == 1
Lines == {"config", "find", "download", "stop", "save", "copy", "extract", "start"}

\* The phase before the first pass.
NoPhase == ""
Terminal == {"Completed", "Failed"}

Init ==
  /\ jEnv \in JobEnvironments /\ jFaults = 0
  /\ source \in Sources /\ jField \in WazuhRestoreSpec(source)
  /\ opts \in SUBSET {"save", "stop", "start"}
  /\ exists \in SUBSET {"cluster", "secret", "backup"}
  /\ jLife = "live" /\ phase = NoPhase /\ job = None /\ honoured = FALSE
  /\ up = TRUE /\ data = "old" /\ saved = FALSE /\ skipped = {}
  /\ jView = NoPhase /\ jpc = "idle"

Fault(kind) == kind \in jEnv /\ jFaults < JobFaults /\ jFaults' = jFaults + 1

-----------------------------------------------------------------------------
\* Any error of the validation is an invalid source, a read that failed too.
validateSource == source \in {"s3", "wazuhBackupRef"} /\ Needs(source) \subseteq exists

\* The slip of a reconciler that starts over once the Job is gone.
ReconcileAnyPhase ==
  /\ jpc = "idle" /\ jLife = "live"
  /\ \/ /\ "cluster" \in exists /\ validateSource
        /\ jpc' = "rbac" /\ UNCHANGED <<jView, jFaults>>
     \/ /\ "cluster" \notin exists \/ ~validateSource
        /\ jView' = "Failed" /\ jpc' = "status" /\ UNCHANGED jFaults
  /\ UNCHANGED <<jWorld, jLife, phase, job, honoured, manager>>

Reconcile ==
  /\ jpc = "idle" /\ jLife = "live" /\ phase \notin Terminal
  /\ \/ /\ "cluster" \in exists /\ validateSource
        /\ jpc' = "rbac" /\ UNCHANGED <<jView, jFaults>>
     \/ /\ "cluster" \notin exists \/ ~validateSource
        /\ jView' = "Failed" /\ jpc' = "status" /\ UNCHANGED jFaults
     \/ Fault("read") /\ \/ UNCHANGED <<jView, jpc>>
                         \/ jView' = "Failed" /\ jpc' = "status"
  /\ UNCHANGED <<jWorld, jLife, phase, job, honoured, manager>>

reconcileRBAC ==
  /\ jpc = "rbac"
  /\ \/ jpc' = "job" /\ UNCHANGED jFaults
     \/ Fault("apply") /\ jpc' = "idle"
  /\ UNCHANGED <<jWorld, jLife, phase, job, honoured, manager, jView>>

\* A Job with a failed pod has failed, even if another pod is trying again.
reconcileJob ==
  /\ jpc = "job"
  /\ \/ /\ job = None
        /\ job' = [state |-> "running", failed |-> 0, line |-> 1]
        /\ honoured' = (source \in Storages /\ jField \in BuildRestoreJob(source))
        /\ jView' = "Restoring" /\ jpc' = "status" /\ UNCHANGED jFaults
     \/ job = None /\ Fault("apply") /\ jpc' = "idle" /\ UNCHANGED <<job, honoured, jView>>
     \/ /\ job # None
        /\ jView' = CASE job.state = "succeeded" -> "Completed"
                      [] job.state # "succeeded" /\ job.failed > 0 -> "Failed"
                      [] OTHER -> "Restoring"
        /\ jpc' = "status" /\ UNCHANGED <<job, honoured, jFaults>>
  /\ UNCHANGED <<jWorld, jLife, phase, manager>>

updateStatus ==
  /\ jpc = "status" /\ jpc' = "idle"
  /\ \/ jLife = "live" /\ phase' = jView /\ UNCHANGED jFaults
     \/ jLife # "live" /\ UNCHANGED <<phase, jFaults>>
     \/ Fault("write") /\ UNCHANGED phase
  /\ UNCHANGED <<jWorld, jLife, job, honoured, manager, jView>>

\* The finalizer goes, and the garbage collector takes the Job and its pod.
handleDeletion ==
  /\ jpc = "idle" /\ jLife = "deleting" /\ jLife' = "gone" /\ job' = None
  /\ UNCHANGED <<jWorld, jFaults, phase, honoured, manager, jView, jpc>>

Crash ==
  /\ jpc # "idle" /\ Fault("crash") /\ jpc' = "idle"
  /\ UNCHANGED <<jWorld, jLife, phase, job, honoured, manager, jView>>

-----------------------------------------------------------------------------
\* The slip of a script that saves what it has just overwritten.
ScriptSavingLate ==
  SelectSeq(<<"find", "download", "stop", "copy", "extract", "save", "start">>,
            LAMBDA l : l \in {"save", "stop", "start"} => l \in opts)
buildRestoreScript ==
  LET ifAsked(line) == IF line \in opts THEN <<line>> ELSE <<>>
  IN  IF getStorageType(source) = NoStorage THEN <<"config">>
      ELSE <<"find", "download">> \o ifAsked("stop") \o ifAsked("save")
           \o <<"copy", "extract">> \o ifAsked("start")

Running == job # None /\ job.state = "running"
Line == buildRestoreScript[job.line]

\* The Job starts another pod, and the script from its first line.
PodFails ==
  /\ job' = [state |-> IF job.failed = BackoffLimit THEN "failed" ELSE "running",
             failed |-> job.failed + 1, line |-> 1]
  /\ UNCHANGED manager

Advance ==
  job' = IF job.line = Len(buildRestoreScript) THEN [job EXCEPT !.state = "succeeded"]
         ELSE [job EXCEPT !.line = @ + 1]

Succeeds ==
  /\ Line # "config" /\ Advance
  /\ up' = (CASE Line = "stop" -> FALSE [] Line = "start" -> TRUE [] OTHER -> up)
  /\ data' = IF Line = "extract" THEN "new" ELSE data
  /\ saved' = (saved \/ (Line = "save" /\ data = "old"))
  /\ UNCHANGED <<skipped, jFaults>>

\* Under "set -e" an error ends the script, unless the line ends in "|| ...".
RunScript ==
  /\ Running
  /\ \/ Succeeds
     \/ Line = "config" /\ PodFails /\ UNCHANGED jFaults
     \/ /\ Line \in {"find", "download", "save", "copy", "extract"}
        /\ Fault("call") /\ PodFails
     \/ /\ Line \in {"stop", "save", "extract", "start"}
        /\ Fault("tool") /\ Advance
        /\ skipped' = skipped \cup {Line}
        /\ data' = IF Line = "extract" THEN "partial" ELSE data
        /\ UNCHANGED <<up, saved>>
  /\ UNCHANGED <<jWorld, jLife, phase, honoured, jView, jpc>>

Evict ==
  /\ Running /\ Fault("evict") /\ PodFails
  /\ UNCHANGED <<jWorld, jLife, phase, honoured, jView, jpc>>

\* A day after its end Kubernetes removes the Job.
Expire ==
  /\ job # None /\ ~Running /\ job' = None
  /\ \/ phase \in Terminal /\ UNCHANGED jFaults
     \/ phase \notin Terminal /\ Fault("down")
  /\ UNCHANGED <<jWorld, jLife, phase, honoured, manager, jView, jpc>>

Delete ==
  /\ jLife = "live" /\ Fault("delete") /\ jLife' = "deleting"
  /\ UNCHANGED <<jWorld, phase, job, honoured, manager, jView, jpc>>

Operator ==
  \/ Reconcile \/ reconcileRBAC \/ reconcileJob \/ updateStatus \/ handleDeletion

Next == Operator \/ Crash \/ RunScript \/ Evict \/ Expire \/ Delete

Spec == Init /\ [][Next]_jVars

-----------------------------------------------------------------------------
TypeOK ==
  /\ jEnv \in SUBSET JobFaultKinds /\ jFaults \in 0..JobFaults
  /\ source \in Sources /\ jField \in WazuhRestoreSpec(source)
  /\ opts \in SUBSET Lines /\ exists \in SUBSET {"cluster", "secret", "backup"}
  /\ jLife \in {"live", "deleting", "gone"}
  /\ phase \in {NoPhase, "Restoring"} \cup Terminal
  /\ job \in [state : {"running", "succeeded", "failed"},
              failed : 0..(BackoffLimit + 1), line : 1..7] \cup {None}
  /\ honoured \in BOOLEAN /\ up \in BOOLEAN /\ saved \in BOOLEAN
  /\ data \in {"old", "partial", "new"} /\ skipped \subseteq Lines
  /\ jView \in {NoPhase, "Restoring"} \cup Terminal
  /\ jpc \in {"idle", "rbac", "job", "status"}

\* Whatever pods were killed and Jobs expired, the old data is in the storage
\* before anything is unpacked over it, if the user wants that (the order of
\* the script's lines, and that it ends when the upload fails).
SavedBeforeOverwritten ==
  data # "old" /\ "save" \in opts => saved \/ "save" \in skipped

\* A restore reported as Completed unpacked the archive, started the manager
\* again if asked to and was built from the whole spec (reconcileJob reads
\* Succeeded of the Job), but for the errors the script passes over.
CompletedIsTrue ==
  phase = "Completed" =>
    /\ data = "new" \/ "extract" \in skipped
    /\ "start" \in opts => up \/ "start" \in skipped
    /\ honoured \/ jField \in RestoreGaps

\* After Completed nothing is unpacked again, though the Job expires and the
\* resource is reconciled again (Reconcile returns in a terminal phase).
CompletedIsFinal ==
  [][phase = "Completed" => UNCHANGED <<phase, data, up>>]_jVars

\* A restore from a bucket ends, and as Completed if nothing went wrong and what
\* it names is there.  Of the other sources nothing is said: validateSource
\* refuses all but wazuhBackupRef, whose script knows no storage.
RestoreJobEnded ==
  source = "s3" =>
    \/ jLife = "gone"
    \/ phase = "Completed"
    \/ phase = "Failed" /\ (jEnv # {} \/ ~(Needs(source) \subseteq exists))

=============================================================================

------------------------------ MODULE BackupJob ------------------------------
(***************************************************************************)
(* The reconciler of one WazuhBackup.  With a schedule it keeps a CronJob  *)
(* as the spec asks; without one it creates a Job and reports its end.     *)
(* Nothing but the objects of the resource wakes it, and the informers'    *)
(* periodic resync: a pass may begin at any time.                          *)
(***************************************************************************)
EXTENDS JobFields, Naturals

CONSTANTS BackupEdits,         \* how often the user edits the spec
          BackupFaults,        \* how often something goes wrong
          BackupEnvironments,  \* the sets of kinds of faults that may occur
          MostShots,           \* backups of one-shot Jobs are counted so far
          None                 \* no object

(***************************************************************************)
(* read    the API server fails a read                                     *)
(* apply   it refuses to create or update an object of the backup          *)
(* write   it refuses the status                                           *)
(* run     the backup script ends in an error each time the Job tries it   *)
(* down    the operator is away until the Job has expired                  *)
(* crash   the operator restarts                                           *)
(* delete  the user deletes the resource                                   *)
(***************************************************************************)
BackupFaultKinds == {"read", "apply", "write", "run", "down", "crash", "delete"}

VARIABLES bEnv,      \* the faults that may occur
          bFaults,   \* the faults that did
          storage,   \* spec.storage.type
          bField,    \* the field of the spec that an edit changes
          plan,      \* the spec: has a schedule, is suspended, its generation
          present,   \* of the cluster and the credentials Secret, those there are
          bLife,     \* "live", "deleting" or "gone"
          account,   \* the ServiceAccount with its Role and RoleBinding: the
                     \* generation of the field in it, or None
          cron,      \* the CronJob
          shot,      \* the Job of a backup without a schedule
          shots,     \* the archives such Jobs made
          bReport,   \* the status in the API server
          bView,     \* what the pass read, and its copy of the last backup
          bpc        \* where the pass stands

bWorld == <<bEnv, storage, bField>>
bObjects == <<account, cron, shot, shots>>
bVars == <<bWorld, bFaults, plan, present, bLife, bObjects, bReport, bView, bpc>>

Plans == [scheduled : BOOLEAN, suspend : BOOLEAN, gen : 1..(BackupEdits + 1)]
Ends == {"", "Success", "Failed"}
CronJobs == [suspend : BOOLEAN, gen : 1..(BackupEdits + 1), value : 0..(BackupEdits + 1)]

TypeOK ==
  /\ bEnv \in SUBSET BackupFaultKinds /\ bFaults \in 0..BackupFaults
  /\ storage \in Storages /\ bField \in WazuhBackupSpec(storage)
  /\ plan \in Plans /\ present \in SUBSET {"cluster", "secret"}
  /\ bLife \in {"live", "deleting", "gone"}
  /\ account \in 1..(BackupEdits + 1) \cup {None}
  /\ cron \in CronJobs \cup {None}
  /\ shot \in {"running", "succeeded", "failed", None}
  /\ shots \in 0..MostShots
  /\ bReport \in [phase : {"", "Active", "Suspended", "Failed"}, last : Ends,
                  plan : Plans \cup {None}]
  /\ bView \in [plan : Plans, last : Ends]
  /\ bpc \in {"idle", "rbac", "work", "failed", "status"}

Init ==
  /\ bEnv \in BackupEnvironments /\ bFaults = 0
  /\ storage \in Storages /\ bField \in WazuhBackupSpec(storage)
  /\ plan \in [scheduled : BOOLEAN, suspend : BOOLEAN, gen : {1}]
  /\ present \in SUBSET {"cluster", "secret"}
  /\ bLife = "live" /\ account = None /\ cron = None /\ shot = None /\ shots = 0
  /\ bReport = [phase |-> "", last |-> "", plan |-> None]
  /\ bView = [plan |-> plan, last |-> ""]
  /\ bpc = "idle"

Fault(kind) == kind \in bEnv /\ bFaults < BackupFaults /\ bFaults' = bFaults + 1

-----------------------------------------------------------------------------
\* Neither watches the cluster nor the Secret: without one of them the pass
\* reports Failed and asks for no other.
Reconcile ==
  /\ bpc = "idle" /\ bLife = "live"
  /\ \/ /\ bpc' = IF present = {"cluster", "secret"} THEN "rbac" ELSE "failed"
        /\ bView' = [plan |-> plan, last |-> bReport.last]
        /\ UNCHANGED bFaults
     \/ Fault("read") /\ UNCHANGED <<bView, bpc>>
  /\ UNCHANGED <<bWorld, plan, present, bLife, bObjects, bReport>>

\* Another name is another account.  Of one that is there only the labels are
\* updated.
createOrUpdate(p) ==
  IF account = None \/ bField \in BuildServiceAccount \ {"serviceAccountAnnotations"}
  THEN p.gen ELSE account

reconcileRBAC ==
  /\ bpc = "rbac"
  /\ \/ account' = createOrUpdate(bView.plan) /\ bpc' = "work" /\ UNCHANGED bFaults
     \/ Fault("apply") /\ bpc' = "idle" /\ UNCHANGED account
  /\ UNCHANGED <<bWorld, plan, present, bLife, cron, shot, shots, bReport, bView>>

BuildCronJob(p) ==
  [suspend |-> p.suspend, gen |-> p.gen,
   value |-> IF bField \in buildPodSpec(storage) THEN p.gen ELSE 0]

\* The slip of a reconciler that leaves a CronJob it finds alone.
reconcileCronJobOnce ==
  /\ bpc = "work" /\ bView.plan.scheduled
  /\ \/ /\ cron' = IF cron = None THEN BuildCronJob(bView.plan) ELSE cron
        /\ bpc' = "status" /\ UNCHANGED bFaults
     \/ Fault("apply") /\ bpc' = "idle" /\ UNCHANGED cron
  /\ UNCHANGED <<bWorld, plan, present, bLife, account, shot, shots, bReport, bView>>

\* A Job left by a time without a schedule stays.
reconcileCronJob ==
  /\ bpc = "work" /\ bView.plan.scheduled
  /\ \/ cron' = BuildCronJob(bView.plan) /\ bpc' = "status" /\ UNCHANGED bFaults
     \/ Fault("apply") /\ bpc' = "idle" /\ UNCHANGED cron
  /\ UNCHANGED <<bWorld, plan, present, bLife, account, shot, shots, bReport, bView>>

\* A Job there is stays as it is, and so does a CronJob.
reconcileJob ==
  /\ bpc = "work" /\ ~bView.plan.scheduled
  /\ \/ /\ shot' = IF shot = None THEN "running" ELSE shot
        /\ bView' = [bView EXCEPT !.last = CASE shot = "succeeded" -> "Success"
                                             [] shot = "failed" -> "Failed"
                                             [] OTHER -> @]
        /\ bpc' = "status" /\ UNCHANGED bFaults
     \/ Fault("apply") /\ bpc' = "idle" /\ UNCHANGED <<shot, bView>>
  /\ UNCHANGED <<bWorld, plan, present, bLife, account, cron, shots, bReport>>

\* The write is refused when the object is not the one that was read.
updateStatus ==
  /\ bpc \in {"failed", "status"}
  /\ \/ /\ plan = bView.plan /\ bLife = "live"
        /\ bReport' = [phase |-> CASE bpc = "failed" -> "Failed"
                                   [] plan.suspend -> "Suspended"
                                   [] OTHER -> "Active",
                       last |-> bView.last, plan |-> plan]
        /\ UNCHANGED bFaults
     \/ (plan # bView.plan \/ bLife # "live") /\ UNCHANGED <<bFaults, bReport>>
     \/ Fault("write") /\ UNCHANGED bReport
  /\ bpc' = "idle"
  /\ UNCHANGED <<bWorld, plan, present, bLife, bObjects, bView>>

\* The finalizer goes, and the garbage collector takes what the backup owns.
handleDeletion ==
  /\ bpc = "idle" /\ bLife = "deleting"
  /\ bLife' = "gone" /\ account' = None /\ cron' = None /\ shot' = None
  /\ UNCHANGED <<bWorld, bFaults, plan, present, shots, bReport, bView, bpc>>

Crash ==
  /\ bpc # "idle" /\ Fault("crash") /\ bpc' = "idle"
  /\ UNCHANGED <<bWorld, plan, present, bLife, bObjects, bReport, bView>>

-----------------------------------------------------------------------------
\* The Job's pod, with the retries of the Job.
RunJob ==
  /\ shot = "running" /\ account # None
  /\ \/ /\ shot' = "succeeded" /\ UNCHANGED bFaults
        /\ shots' = IF shots < MostShots THEN shots + 1 ELSE shots
     \/ Fault("run") /\ shot' = "failed" /\ UNCHANGED shots
  /\ UNCHANGED <<bWorld, plan, present, bLife, account, cron, bReport, bView, bpc>>

\* A day after its end Kubernetes removes the Job.
Expire ==
  /\ shot \in {"succeeded", "failed"} /\ shot' = None
  /\ \/ bReport.last # "" /\ UNCHANGED bFaults
     \/ bReport.last = "" /\ Fault("down")
  /\ UNCHANGED <<bWorld, plan, present, bLife, account, cron, shots,
                 bReport, bView, bpc>>

Edit ==
  /\ bLife = "live" /\ plan.gen <= BackupEdits
  /\ \E s, u \in BOOLEAN :
       plan' = [scheduled |-> s, suspend |-> u, gen |-> plan.gen + 1]
  /\ UNCHANGED <<bWorld, bFaults, present, bLife, bObjects, bReport, bView, bpc>>

Appear ==
  /\ \E t \in {"cluster", "secret"} \ present : present' = present \cup {t}
  /\ UNCHANGED <<bWorld, bFaults, plan, bLife, bObjects, bReport, bView, bpc>>

Delete ==
  /\ bLife = "live" /\ Fault("delete") /\ bLife' = "deleting"
  /\ UNCHANGED <<bWorld, plan, present, bObjects, bReport, bView, bpc>>

Operator ==
  \/ Reconcile \/ reconcileRBAC \/ reconcileCronJob \/ reconcileJob
  \/ updateStatus \/ handleDeletion

Next == Operator \/ Crash \/ RunJob \/ Expire \/ Edit \/ Appear \/ Delete

Spec == Init /\ [][Next]_bVars /\ WF_bVars(Operator) /\ WF_bVars(RunJob)

-----------------------------------------------------------------------------
\* LastBackup says Success only of an archive that was made, and a status
\* that is Active or Suspended is the state of a CronJob at least as new as
\* the spec it was written for (updateStatus, after reconcileCronJob).
BackupReportIsTrue ==
  /\ bReport.last = "Success" => shots > 0
  /\ (bLife = "live" /\ bReport.phase \in {"Active", "Suspended"}
      /\ bReport.plan.scheduled)
     => /\ cron # None /\ cron.gen >= bReport.plan.gen
        /\ cron.gen = bReport.plan.gen =>
             cron.suspend = (bReport.phase = "Suspended")

\* What a backup comes to: its CronJob and its ServiceAccount have every field
\* as last edited, except those no builder looks at and annotations of an
\* account that was there, or its one-shot Job has been reported.
BackupFollowed ==
  bLife = "gone" \/ present # {"cluster", "secret"}
  \/ /\ bReport.plan = plan
     /\ bField \in {"serviceAccountName", "serviceAccountLabels"} =>
          account = plan.gen
     /\ plan.scheduled =>
          /\ cron # None /\ cron.suspend = plan.suspend
          /\ bField \in BackupGaps \cup
               {"serviceAccountLabels", "serviceAccountAnnotations"}
             \/ cron.value = plan.gen
     /\ ~plan.scheduled => bReport.last # ""

\* "No schedule = one-shot Job": a backup without a schedule that nobody edits
\* makes one archive (reconcileJob creates the Job whenever there is none).
OneShotIsOne == plan.gen = 1 /\ ~plan.scheduled => shots <= 1

=============================================================================

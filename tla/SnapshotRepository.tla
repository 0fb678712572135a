------------------------- MODULE SnapshotRepository -------------------------
(***************************************************************************)
(* The reconciler of one OpenSearchSnapshotRepository: it registers the    *)
(* repository with OpenSearch, settings and credentials included, has it   *)
(* verified and reports.  Its status writes start from a fresh read and    *)
(* are retried, so that a conflict never refuses one.  Each carries the    *)
(* present time and so brings the object back into the work queue, unless  *)
(* nothing else changes and it falls into the same second as the last one. *)
(***************************************************************************)
EXTENDS Naturals

CONSTANTS RepoEdits,         \* how often the user changes something
          RepoFaults,        \* how often something goes wrong
          RepoEnvironments,  \* the sets of kinds of faults that may occur
          None               \* no repository

(***************************************************************************)
(* client  the OpenSearch client cannot be built                           *)
(* read    OpenSearch fails a read                                         *)
(* put     OpenSearch fails a write, or does it and the answer is lost     *)
(* verify  the nodes cannot reach the repository                           *)
(* delete  OpenSearch fails the deletion                                   *)
(* write   the API server refuses a status write                           *)
(* crash   the operator restarts                                           *)
(***************************************************************************)
RepoFaultKinds == {"client", "read", "put", "verify", "delete", "write", "crash"}

VARIABLES pEnv,        \* the faults that may occur
          pFaults,     \* the faults that did
          options,     \* spec.verify, and spec.settings.useKeystore
          asked,       \* the generation of the spec, and of the Secret (0: none)
          life,        \* "live", "deleting" or "gone"
          view,        \* what the pass read of asked
          registered,  \* what OpenSearch has of it
          report,      \* the status in the API server
          ppc,         \* where the pass stands
          pQueued      \* the object is in the work queue

pVars == <<pEnv, pFaults, options, asked, life, view, registered, report, ppc, pQueued>>
world == <<pEnv, options, asked>>

\* The phase before the first pass.
NoPhase == ""
Versions == [spec : 1..(RepoEdits + 1), secret : 0..(RepoEdits + 1)]

RepoConstants ==
  /\ {RepoEdits, RepoFaults} \subseteq Nat
  /\ RepoEnvironments \subseteq SUBSET RepoFaultKinds
  /\ None \notin Versions

TypeOK ==
  /\ pEnv \in SUBSET RepoFaultKinds
  /\ pFaults \in 0..RepoFaults
  /\ options \in [verify : BOOLEAN, keystore : BOOLEAN]
  /\ asked \in Versions /\ view \in Versions
  /\ registered \in Versions \cup {None}
  /\ life \in {"live", "deleting", "gone"}
  /\ report \in [phase : {NoPhase, "Creating", "Verifying", "Ready", "Failed"},
                 verified : BOOLEAN, observed : 0..(RepoEdits + 1)]
  /\ ppc \in {"idle", "get", "build", "create", "put", "check", "verify", "fail",
              "ready"}
  /\ pQueued \in BOOLEAN

Init ==
  /\ pEnv \in RepoEnvironments
  /\ pFaults = 0
  /\ options \in [verify : BOOLEAN, keystore : BOOLEAN]
  /\ asked \in [spec : {1}, secret : {0, 1}]
  /\ view = asked /\ registered = None /\ life = "live"
  /\ report = [phase |-> NoPhase, verified |-> FALSE, observed |-> 0]
  /\ ppc = "idle" /\ pQueued = TRUE

Fault(kind) == kind \in pEnv /\ pFaults < RepoFaults /\ pFaults' = pFaults + 1

-----------------------------------------------------------------------------
Write(new) ==
  /\ report' = new
  /\ \/ pQueued' = TRUE
     \/ new = report /\ UNCHANGED pQueued

updateStatus(phase) ==
  \/ /\ Write([report EXCEPT !.phase = phase, !.verified = FALSE])
     /\ UNCHANGED pFaults
  \/ Fault("write") /\ UNCHANGED <<report, pQueued>>

\* A write whose error is only logged.
Announce(phase, next) == updateStatus(phase) /\ ppc' = next

Reconcile ==
  /\ ppc = "idle" /\ pQueued /\ life = "live"
  /\ \/ Fault("client") /\ UNCHANGED <<view, ppc, pQueued>>
     \/ view' = asked /\ ppc' = "get" /\ pQueued' = FALSE /\ UNCHANGED pFaults
  /\ UNCHANGED <<world, life, registered, report>>

GetRepository ==
  /\ ppc = "get"
  /\ \/ ppc' = "build" /\ UNCHANGED pFaults
     \/ Fault("read") /\ ppc' = "fail"
  /\ UNCHANGED <<world, life, view, registered, report, pQueued>>

\* Mutant of buildRepositorySettings: a repository that exists is left alone.
BuildOnce ==
  /\ ppc = "build"
  /\ view' = [view EXCEPT !.secret = IF options.keystore THEN 0 ELSE asked.secret]
  /\ ppc' = CASE ~options.keystore /\ asked.secret = 0 -> "fail"
              [] registered = None -> "create"
              [] OTHER -> "ready"
  /\ UNCHANGED <<world, pFaults, life, registered, report, pQueued>>

\* The credentials go into the settings unless the nodes have them in their
\* keystore; a Secret that is missing fails the pass.
buildRepositorySettings ==
  /\ ppc = "build"
  /\ view' = [view EXCEPT !.secret = IF options.keystore THEN 0 ELSE asked.secret]
  /\ ppc' = CASE ~options.keystore /\ asked.secret = 0 -> "fail"
              [] registered = None -> "create"
              [] OTHER -> "put"
  /\ UNCHANGED <<world, pFaults, life, registered, report, pQueued>>

AnnounceCreation ==
  /\ ppc = "create"
  /\ Announce("Creating", "put")
  /\ UNCHANGED <<world, life, view, registered>>

\* Mutant of PutRepository: a failed request does not end the pass.
PutAndGoOn ==
  /\ ppc = "put"
  /\ \/ registered' = view /\ UNCHANGED pFaults
     \/ Fault("put") /\ registered' \in {registered, view}
  /\ ppc' = IF options.verify THEN "check" ELSE "ready"
  /\ UNCHANGED <<world, life, view, report, pQueued>>

PutRepository ==
  /\ ppc = "put"
  /\ \/ /\ registered' = view
        /\ ppc' = IF options.verify THEN "check" ELSE "ready"
        /\ UNCHANGED pFaults
     \/ Fault("put") /\ registered' \in {registered, view} /\ ppc' = "fail"
  /\ UNCHANGED <<world, life, view, report, pQueued>>

AnnounceVerification ==
  /\ ppc = "check"
  /\ Announce("Verifying", "verify")
  /\ UNCHANGED <<world, life, view, registered>>

VerifyRepository ==
  /\ ppc = "verify"
  /\ \/ ppc' = "ready" /\ UNCHANGED pFaults
     \/ Fault("verify") /\ ppc' = "fail"
  /\ UNCHANGED <<world, life, view, registered, report, pQueued>>

\* A pass that failed says so, and is an error that is retried.
Fail ==
  /\ ppc = "fail"
  /\ \/ report' = [report EXCEPT !.phase = "Failed", !.verified = FALSE]
        /\ UNCHANGED pFaults
     \/ Fault("write") /\ UNCHANGED report
  /\ pQueued' = TRUE /\ ppc' = "idle"
  /\ UNCHANGED <<world, life, view, registered>>

Ready ==
  /\ ppc = "ready"
  /\ \/ /\ Write([phase |-> "Ready", verified |-> options.verify,
                  observed |-> view.spec])
        /\ UNCHANGED pFaults
     \/ Fault("write") /\ pQueued' = TRUE /\ UNCHANGED report
  /\ ppc' = "idle"
  /\ UNCHANGED <<world, life, view, registered>>

\* Mutant of handleDeletion: only the finalizer is removed.
RemoveFinalizerOnly ==
  /\ ppc = "idle" /\ pQueued /\ life = "deleting"
  /\ life' = "gone" /\ pQueued' = FALSE
  /\ UNCHANGED <<world, pFaults, view, registered, report, ppc>>

\* Whatever becomes of the deletion in OpenSearch, the finalizer is removed.
handleDeletion ==
  /\ ppc = "idle" /\ pQueued /\ life = "deleting"
  /\ \/ registered' = None /\ UNCHANGED pFaults
     \/ (Fault("delete") \/ Fault("client")) /\ UNCHANGED registered
  /\ life' = "gone" /\ pQueued' = FALSE
  /\ UNCHANGED <<world, view, report, ppc>>

Operator ==
  \/ Reconcile \/ GetRepository \/ buildRepositorySettings \/ AnnounceCreation
  \/ PutRepository \/ AnnounceVerification \/ VerifyRepository \/ Fail \/ Ready
  \/ handleDeletion

-----------------------------------------------------------------------------
\* The user changes the resource or its Secret (findRepositoriesForSecret
\* queues the repositories that name it), or deletes the resource.
EditSpec ==
  /\ life = "live" /\ asked.spec <= RepoEdits
  /\ asked' = [asked EXCEPT !.spec = @ + 1] /\ pQueued' = TRUE
  /\ UNCHANGED <<pEnv, pFaults, options, life, view, registered, report, ppc>>

findRepositoriesForSecret ==
  /\ life = "live" /\ asked.secret <= RepoEdits
  /\ asked' = [asked EXCEPT !.secret = @ + 1] /\ pQueued' = TRUE
  /\ UNCHANGED <<pEnv, pFaults, options, life, view, registered, report, ppc>>

Delete ==
  /\ life = "live" /\ life' = "deleting" /\ pQueued' = TRUE
  /\ UNCHANGED <<world, pFaults, view, registered, report, ppc>>

Crash ==
  /\ Fault("crash") /\ life # "gone"
  /\ ppc' = "idle" /\ pQueued' = TRUE
  /\ UNCHANGED <<world, life, view, registered, report>>

Next == Operator \/ EditSpec \/ findRepositoriesForSecret \/ Delete \/ Crash

Spec == Init /\ [][Next]_pVars

-----------------------------------------------------------------------------
\* Ready speaks for the generation the status observed: OpenSearch has the
\* settings of that generation or of a later one, verified if the resource
\* asks for it, whatever failed or restarted in between.
ReadyIsRegistered ==
  report.phase = "Ready" /\ life # "gone" =>
    /\ registered # None
    /\ registered.spec >= report.observed
    /\ report.verified = options.verify

\* A change of the settings or of the Secret reaches OpenSearch in the end:
\* errors are retried, and the Secret is watched.
RegistrationFollowed ==
  life = "live" /\ (asked.secret > 0 \/ options.keystore) =>
    /\ registered # None
    /\ registered.spec = asked.spec
    /\ ~options.keystore => registered.secret = asked.secret
RegistrationFollows == <>[]RegistrationFollowed

\* A resource that is gone has left nothing in OpenSearch, unless the one
\* attempt to delete it failed (handleDeletion).
GoneIsUnregistered ==
  life = "gone" /\ pEnv \cap {"delete", "client"} = {} => registered = None

=============================================================================

----------------------- MODULE StandaloneCertificate -----------------------
(***************************************************************************)
(* The reconciler of one WazuhCertificate.  Every pass makes a new key and *)
(* a new certificate, signed with the CA of the WazuhCluster that it names *)
(* or, while there is none, with one that is made up and thrown away, and  *)
(* writes them over the Secret.  One field of the spec is followed; a      *)
(* value is the generation of the spec that it comes from.                 *)
(*                                                                         *)
(* The Secret is owned, so the news of each write brings the resource back *)
(* into the work queue: the passes never end.  The CA is not watched, and  *)
(* it is only these passes that follow it.                                 *)
(***************************************************************************)
EXTENDS Naturals, CertificateFields

CONSTANTS CertEdits,         \* how often the user changes the spec, and the CA
          CertFaults,        \* how often something goes wrong
          CertEnvironments,  \* the sets of kinds of faults that may occur
          None               \* no Secret

(***************************************************************************)
(* read   the Secret of the CA or the one to write cannot be read          *)
(* apply  the API server fails the write of the Secret, or does it and     *)
(*        the answer is lost                                               *)
(* write  the status write is refused                                      *)
(* crash  the operator restarts                                            *)
(***************************************************************************)
CertFaultKinds == {"read", "apply", "write", "crash"}

VARIABLES kEnv,      \* the faults that may occur
          kFaults,   \* the faults that did
          kType, kField,  \* the certificate's type and the field followed
          kGen,      \* the generation of the spec
          authority, \* the Secret of the CA (id 0: there is none)
          kLife,     \* "live" or "gone"
          pair,      \* the certificate and key in the Secret
          news,      \* the informer has yet to see the last write of it
          kReport,   \* the status in the API server
          kView,     \* what the pass read of the spec, and the certificate made
          kpc, kQueued

kVars == <<kEnv, kFaults, kType, kField, kGen, authority, kLife, pair, news,
           kReport, kView, kpc, kQueued>>
kWorld == <<kEnv, kType, kField, kGen, authority, kLife>>

Generations == 0..(CertEdits + 1)
Pairs == [gen : Generations, value : Generations, ca : Generations]

TypeOK ==
  /\ kEnv \in SUBSET CertFaultKinds /\ kFaults \in 0..CertFaults
  /\ kType \in CertificateTypes /\ kField \in WazuhCertificateSpec
  /\ kGen \in Generations /\ authority \in [id : Generations, good : BOOLEAN]
  /\ kLife \in {"live", "gone"}
  /\ pair \in Pairs \cup {None} /\ kView \in Pairs
  /\ news \in BOOLEAN /\ kQueued \in BOOLEAN
  /\ kReport \in [phase : {"", "Ready", "Failed"}, observed : Generations]
  /\ kpc \in {"idle", "ca", "apply", "ready", "failed"}

Init ==
  /\ kEnv \in CertEnvironments /\ kFaults = 0
  /\ kType \in CertificateTypes /\ kField \in WazuhCertificateSpec
  /\ kGen = 1 /\ authority \in [id : {0, 1}, good : {TRUE}]
  /\ kLife = "live" /\ pair = None /\ news = FALSE
  /\ kReport = [phase |-> "", observed |-> 0]
  /\ kView = [gen |-> 1, value |-> 0, ca |-> 0]
  /\ kpc = "idle" /\ kQueued = TRUE

Fault(kind) == kind \in kEnv /\ kFaults < CertFaults /\ kFaults' = kFaults + 1

-----------------------------------------------------------------------------
Reconcile ==
  /\ kpc = "idle" /\ kQueued /\ kLife = "live"
  /\ kView' = [gen |-> kGen, value |-> 0, ca |-> 0]
  /\ kpc' = "ca" /\ kQueued' = FALSE
  /\ UNCHANGED <<kWorld, kFaults, pair, news, kReport>>

NotFound ==
  /\ kpc = "idle" /\ kQueued /\ kLife = "gone" /\ kQueued' = FALSE
  /\ UNCHANGED <<kWorld, kFaults, pair, news, kReport, kView, kpc>>

\* A CA that is there has to be readable and usable; one of type "ca" signs
\* itself.  The certificate is then made in memory.
getOrCreateStandaloneCA ==
  /\ kpc = "ca"
  /\ \/ /\ kType = "ca" \/ authority.good
        /\ kView' = [kView EXCEPT !.ca = IF kType = "ca" THEN 0 ELSE authority.id,
                       !.value = IF kField \in Carried(kType) THEN kView.gen ELSE 0]
        /\ kpc' = "apply" /\ UNCHANGED kFaults
     \/ /\ kType # "ca" /\ kpc' = "failed" /\ UNCHANGED kView
        /\ \/ ~authority.good /\ UNCHANGED kFaults
           \/ Fault("read")
  /\ UNCHANGED <<kWorld, pair, news, kReport, kQueued>>

\* Mutant of ReconcileStandalone: a Secret that exists is left alone.
CreateSecretOnly ==
  /\ kpc = "apply"
  /\ pair' = IF pair = None THEN kView ELSE pair
  /\ news' = (pair = None \/ news)
  /\ kpc' = "ready"
  /\ UNCHANGED <<kWorld, kFaults, kReport, kView, kQueued>>

\* The Secret is created, or written over at the version the cache has.  The
\* API server refuses either when the cache lags behind a write.
ReconcileStandalone ==
  /\ kpc = "apply"
  /\ \/ ~news /\ pair' = kView /\ news' = TRUE /\ kpc' = "ready" /\ UNCHANGED kFaults
     \/ /\ kpc' = "failed"
        /\ \/ news /\ UNCHANGED <<pair, news, kFaults>>
           \/ Fault("read") /\ UNCHANGED <<pair, news>>
           \/ ~news /\ Fault("apply") /\ UNCHANGED <<pair, news>>
           \/ ~news /\ Fault("apply") /\ pair' = kView /\ news' = TRUE
  /\ UNCHANGED <<kWorld, kReport, kView, kQueued>>

\* A write is refused when the resource is another since the pass read it;
\* one that changes something wakes the reconciler.  again: the pass ends
\* with an error anyway.
updateCertificateStatus(phase, again) ==
  /\ kpc' = "idle"
  /\ LET new == [phase |-> phase, observed |-> kView.gen]
     IN \/ /\ kLife = "live" /\ kView.gen = kGen
           /\ kReport' = new
           /\ kQueued' = (kQueued \/ again \/ new # kReport)
           /\ UNCHANGED kFaults
        \/ /\ \/ (kLife = "gone" \/ kView.gen # kGen) /\ UNCHANGED kFaults
              \/ Fault("write")
           /\ kQueued' = TRUE
           /\ UNCHANGED kReport
  /\ UNCHANGED <<kWorld, pair, news, kView>>

Ready == kpc = "ready" /\ updateCertificateStatus("Ready", FALSE)
Failed == kpc = "failed" /\ updateCertificateStatus("Failed", TRUE)

Operator ==
  \/ Reconcile \/ NotFound \/ getOrCreateStandaloneCA \/ ReconcileStandalone
  \/ Ready \/ Failed

-----------------------------------------------------------------------------
\* The informer sees the Secret and wakes its owner.
SecretEvent ==
  /\ news /\ news' = FALSE /\ kQueued' = TRUE
  /\ UNCHANGED <<kWorld, kFaults, pair, kReport, kView, kpc>>

EditSpec ==
  /\ kLife = "live" /\ kGen <= CertEdits /\ kGen' = kGen + 1 /\ kQueued' = TRUE
  /\ UNCHANGED <<kEnv, kFaults, kType, kField, authority, kLife, pair, news,
                 kReport, kView, kpc>>

\* The CA is made or renewed by the WazuhCluster's reconciler, or replaced by
\* the user with something that cannot be used.  Nobody is told.
ReplaceCA ==
  /\ authority.id <= CertEdits
  /\ \E good \in BOOLEAN : authority' = [id |-> authority.id + 1, good |-> good]
  /\ UNCHANGED <<kEnv, kFaults, kType, kField, kGen, kLife, pair, news, kReport,
                 kView, kpc, kQueued>>

\* With the resource goes the Secret it owns.
Delete ==
  /\ kLife = "live" /\ kpc = "idle" /\ kLife' = "gone"
  /\ pair' = None /\ news' = FALSE /\ kQueued' = TRUE
  /\ UNCHANGED <<kEnv, kFaults, kType, kField, kGen, authority, kReport, kView, kpc>>

Crash ==
  /\ Fault("crash") /\ kpc' = "idle" /\ kQueued' = TRUE /\ news' = FALSE
  /\ UNCHANGED <<kWorld, pair, kReport, kView>>

Next == Operator \/ SecretEvent \/ EditSpec \/ ReplaceCA \/ Delete \/ Crash

-----------------------------------------------------------------------------
\* Ready speaks for the generation the status observed, whatever failed in
\* between: the Secret holds a certificate of that generation or a later one
\* which has the field that is followed.
CertificateIsMade ==
  kReport.phase = "Ready" /\ kLife = "live" =>
    /\ pair # None /\ pair.gen >= kReport.observed
    /\ kField \notin CertificateGaps(kType) => pair.value = pair.gen

\* In the end the certificate is what the spec says and is signed by the
\* cluster's CA as it is, though nothing tells the reconciler of a new one;
\* with a CA that cannot be used the resource is Failed.  (The phase of a
\* good one is not settled: a pass that the news of the last write has not
\* reached is refused its own.)
CertificateFollowed ==
  kLife = "live" =>
    IF kType = "ca" \/ authority.good
    THEN /\ pair # None /\ pair.gen = kGen
         /\ kField \notin CertificateGaps(kType) => pair.value = kGen
         /\ kType # "ca" => pair.ca = authority.id
    ELSE kReport = [phase |-> "Failed", observed |-> kGen]

=============================================================================

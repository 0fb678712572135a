----------------------------- MODULE AuthConfig -----------------------------
(***************************************************************************)
(* The reconciler of one OpenSearchAuthConfig: it resolves the Secrets the *)
(* resource names, validates it, writes the security configuration and,    *)
(* for single sign-on, the authentication section of the dashboard into    *)
(* ConfigMaps, and reports.  One field of one method is followed; a value  *)
(* is the generation of the spec, or of the Secret, that it comes from.    *)
(*                                                                         *)
(* A pass that fails reports it and is no error: it is made again only     *)
(* when the report changes the resource, when the resource or its Secret   *)
(* changes, or when the informer sends everything again (ten hours).  What *)
(* securityadmin.sh loads is a file of the pod's image, whatever the       *)
(* ConfigMap holds, and its error is only logged: it changes nothing here. *)
(***************************************************************************)
EXTENDS Naturals, AuthFields

CONSTANTS AuthEdits,         \* how often the user changes something
          AuthFaults,        \* how often something goes wrong
          AuthEnvironments,  \* the sets of kinds of faults that may occur
          None               \* no ConfigMap

(***************************************************************************)
(* apply   the API server fails the write of a ConfigMap, or does it and   *)
(*         the answer is lost                                              *)
(* read    a Secret or a ConfigMap cannot be read                          *)
(* write   the status write is refused                                     *)
(* crash   the operator restarts                                           *)
(***************************************************************************)
AuthFaultKinds == {"apply", "read", "write", "crash"}

VARIABLES aEnv,      \* the faults that may occur
          aFaults,   \* the faults that did
          aHook,     \* the admission webhook is installed
          aField,    \* the method and the field that are followed
          ask,       \* the spec: generation, methods enabled, what is wrong
          secret,    \* the generation of the Secret (0: none)
          aLife,     \* "live" or "gone"
          security,  \* the ConfigMap for the indexer
          section,   \* the ConfigMap for the dashboard
          aReport,   \* the status in the API server
          aView,     \* the spec and the Secret that the pass read
          apc, aQueued

aVars == <<aEnv, aFaults, aHook, aField, ask, secret, aLife, security, section,
           aReport, aView, apc, aQueued>>
aWorld == <<aEnv, aHook, aField, ask, secret, aLife>>

Method == aField[1]
ByRef == aField[2] \in SecretRefs

\* many: several methods challenge.  lacks: a field that is required where
\* the method is enabled, or the roleBase of the LDAP authorization.
Asks ==
  [gen : 1..(AuthEdits + 1),
   on : {{}, {"basic"}, {Method}, {"basic", Method}},
   many : BOOLEAN, lacks : {"", "field", "roleBase"}]
Sensible(a) ==
  /\ a.many => a.on = {"basic", Method} /\ Method # "basic"
  /\ a.lacks # "" => Method \in a.on /\ Method # "basic"
  /\ a.lacks = "roleBase" => Method = "ldap"

Contents ==
  [on : SUBSET Methods, gen : 1..(AuthEdits + 1), value : 0..(AuthEdits + 2)]

TypeOK ==
  /\ aEnv \in SUBSET AuthFaultKinds /\ aFaults \in 0..AuthFaults
  /\ aHook \in BOOLEAN
  /\ Method \in Methods /\ aField[2] \in AuthSpec(Method)
  /\ ask \in Asks /\ secret \in 0..(AuthEdits + 1)
  /\ aLife \in {"live", "gone"}
  /\ {security, section} \subseteq Contents \cup {None}
  /\ aReport \in [phase : {"", "Ready", "Failed"}, observed : 0..(AuthEdits + 1),
                  domains : SUBSET Methods]
  /\ aView.spec \in Asks /\ aView.secret \in 0..(AuthEdits + 1)
  /\ apc \in {"idle", "secrets", "validate", "indexer", "dashboard", "ready",
              "failed"}
  /\ aQueued \in BOOLEAN

Fault(kind) == kind \in aEnv /\ aFaults < AuthFaults /\ aFaults' = aFaults + 1

-----------------------------------------------------------------------------
\* The webhook only warns of several challenges.
validateOpenSearchAuthConfig(a) == aHook => a.on # {} /\ a.lacks # "field"

\* The reconciler asks for more.
validateConfig(a) == ~a.many /\ a.lacks = ""

Init ==
  /\ aEnv \in AuthEnvironments /\ aFaults = 0
  /\ aHook \in BOOLEAN
  /\ aField \in UNION {{m} \X AuthSpec(m) : m \in Methods}
  /\ ask \in {a \in Asks : a.gen = 1 /\ Sensible(a) /\ validateOpenSearchAuthConfig(a)}
  /\ secret \in (IF ByRef THEN {0, 1} ELSE {0})
  /\ aLife = "live" /\ security = None /\ section = None
  /\ aReport = [phase |-> "", observed |-> 0, domains |-> {}]
  /\ aView = [spec |-> ask, secret |-> 0]
  /\ apc = "idle" /\ aQueued = TRUE

Reconcile ==
  /\ apc = "idle" /\ aQueued /\ aLife = "live"
  /\ aView' = [spec |-> ask, secret |-> 0]
  /\ apc' = "secrets" /\ aQueued' = FALSE
  /\ UNCHANGED <<aWorld, aFaults, security, section, aReport>>

\* Whether or not the method is enabled.
resolveSecrets ==
  /\ apc = "secrets"
  /\ \/ /\ aView' = [aView EXCEPT !.secret = secret]
        /\ apc' = IF ByRef /\ secret = 0 THEN "failed" ELSE "validate"
        /\ UNCHANGED aFaults
     \/ Fault("read") /\ apc' = "failed" /\ UNCHANGED aView
  /\ UNCHANGED <<aWorld, security, section, aReport, aQueued>>

Validate ==
  /\ apc = "validate"
  /\ apc' = IF validateConfig(aView.spec) THEN "indexer" ELSE "failed"
  /\ UNCHANGED <<aWorld, aFaults, security, section, aReport, aView, aQueued>>

\* What a builder that prints these fields of the method makes of the spec.
Rendition(on, fields) ==
  [on |-> on, gen |-> aView.spec.gen,
   value |-> IF Method \notin aView.spec.on \/ aField[2] \notin fields THEN 0
             ELSE IF ByRef THEN aView.secret ELSE aView.spec.gen]

reconcileIndexerSecurityConfig ==
  /\ apc = "indexer"
  /\ LET new == Rendition(aView.spec.on, BuildSecurityConfig(Method)) IN
     \/ security' = new /\ apc' = "dashboard" /\ UNCHANGED aFaults
     \/ Fault("apply") /\ security' \in {security, new} /\ apc' = "failed"
     \/ Fault("read") /\ security' = security /\ apc' = "failed"
  /\ UNCHANGED <<aWorld, section, aReport, aView, aQueued>>

\* Mutant of reconcileDashboardConfig: its error does not end the pass.
DashboardErrorIgnored ==
  /\ apc = "dashboard" /\ apc' = "ready"
  /\ LET new == Rendition(determineAuthType(aView.spec.on),
                          BuildAuthSection(Method)) IN
     \/ /\ section' = IF aView.spec.on \cap SingleSignOn = {} THEN section ELSE new
        /\ UNCHANGED aFaults
     \/ Fault("apply") /\ section' = section
  /\ UNCHANGED <<aWorld, security, aReport, aView, aQueued>>

\* Without single sign-on the ConfigMap is left as it is, not removed.
reconcileDashboardConfig ==
  /\ apc = "dashboard"
  /\ LET new == Rendition(determineAuthType(aView.spec.on),
                          BuildAuthSection(Method)) IN
     \/ /\ section' = IF aView.spec.on \cap SingleSignOn = {} THEN section ELSE new
        /\ apc' = "ready" /\ UNCHANGED aFaults
     \/ /\ aView.spec.on \cap SingleSignOn # {} /\ apc' = "failed"
        /\ \/ Fault("apply") /\ section' \in {section, new}
           \/ Fault("read") /\ section' = section
  /\ UNCHANGED <<aWorld, security, aReport, aView, aQueued>>

-----------------------------------------------------------------------------
\* A write is refused when the resource is another since the pass read it;
\* that is an error.  One that changes the resource queues it again.
updateStatus(phase) ==
  /\ apc' = "idle"
  /\ LET new == [phase |-> phase, observed |-> aView.spec.gen,
                 domains |-> aView.spec.on]
     IN \/ /\ aLife = "live" /\ aView.spec = ask
           /\ aReport' = new
           /\ IF new # aReport THEN aQueued' = TRUE
              ELSE aQueued' \in {aQueued, aQueued \/ phase = "Ready"}
           /\ UNCHANGED aFaults
        \/ /\ aLife = "gone" \/ aView.spec # ask
           /\ aQueued' = TRUE /\ UNCHANGED <<aReport, aFaults>>
        \/ Fault("write") /\ aQueued' = TRUE /\ UNCHANGED aReport
  /\ UNCHANGED <<aWorld, security, section, aView>>

Ready == apc = "ready" /\ updateStatus("Ready")
Failed == apc = "failed" /\ updateStatus("Failed")

\* The resource is gone: the ConfigMaps, which have no owner, stay.
NotFound ==
  /\ apc = "idle" /\ aQueued /\ aLife = "gone" /\ aQueued' = FALSE
  /\ UNCHANGED <<aWorld, aFaults, security, section, aReport, aView, apc>>

Operator ==
  \/ Reconcile \/ resolveSecrets \/ Validate \/ reconcileIndexerSecurityConfig
  \/ reconcileDashboardConfig \/ Ready \/ Failed \/ NotFound

-----------------------------------------------------------------------------
EditSpec ==
  /\ aLife = "live" /\ ask.gen <= AuthEdits
  /\ ask' \in {a \in Asks : /\ a.gen = ask.gen + 1 /\ Sensible(a)
                            /\ validateOpenSearchAuthConfig(a)}
  /\ aQueued' = TRUE
  /\ UNCHANGED <<aEnv, aFaults, aHook, aField, secret, aLife, security, section,
                 aReport, aView, apc>>

findAuthConfigsForSecret ==
  /\ aLife = "live" /\ ByRef /\ secret <= AuthEdits
  /\ secret' = secret + 1 /\ aQueued' = TRUE
  /\ UNCHANGED <<aEnv, aFaults, aHook, aField, ask, aLife, security, section,
                 aReport, aView, apc>>

Delete ==
  /\ aLife = "live" /\ aLife' = "gone" /\ aQueued' = TRUE
  /\ UNCHANGED <<aEnv, aFaults, aHook, aField, ask, secret, security, section,
                 aReport, aView, apc>>

Resync ==
  /\ aLife = "live" /\ ~aQueued /\ aQueued' = TRUE
  /\ UNCHANGED <<aWorld, aFaults, security, section, aReport, aView, apc>>

Crash ==
  /\ Fault("crash") /\ apc' = "idle" /\ aQueued' = TRUE
  /\ UNCHANGED <<aWorld, security, section, aReport, aView>>

Next ==
  Operator \/ EditSpec \/ findAuthConfigsForSecret \/ Delete \/ Resync \/ Crash

-----------------------------------------------------------------------------
\* The value of the field that is followed is where its reader looks.
Arrived(value) ==
  \/ aField \in AuthGaps
  \/ IF aField[2] \in OIDCDashboardSpec \cup SAMLDashboardSpec
     THEN section.value = value
     ELSE security.value = value

\* Ready speaks for the generation the status observed, whatever failed in
\* between: the ConfigMap of the indexer is of that generation or a later one
\* and, while that is the present one, has exactly the enabled methods and
\* the field that is followed, and the dashboard offers the same methods
\* where single sign-on is enabled.  (Where it is not, the ConfigMap of the
\* dashboard is what it was before.)
ReadyIsRendered ==
  aReport.phase = "Ready" =>
    /\ security # None /\ security.gen >= aReport.observed
    /\ security.gen = aReport.observed =>
         /\ security.on = aReport.domains
         /\ aReport.domains \cap SingleSignOn # {} =>
              section # None /\ section.on = determineAuthType(aReport.domains)
         /\ Method \in aReport.domains /\ ~ByRef => Arrived(aReport.observed)

\* In the end the ConfigMaps have what the resource and its Secret say, and a
\* resource the reconciler does not accept is Failed, although the webhook
\* admitted it.
AuthFollowed ==
  aLife = "live" =>
    IF validateConfig(ask) /\ (ByRef => secret > 0)
    THEN /\ aReport.phase = "Ready" /\ aReport.observed = ask.gen
         /\ Method \in ask.on => Arrived(IF ByRef THEN secret ELSE ask.gen)
    ELSE aReport.phase = "Failed"

=============================================================================

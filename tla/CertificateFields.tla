------------------------- MODULE CertificateFields -------------------------
(***************************************************************************)
(* What of a WazuhCertificate comes into the certificate made for it.      *)
(* clusterRef and secretName stay as they are, and names for the           *)
(* certificate are generated (autoGenerateSANs.enabled) throughout.        *)
(***************************************************************************)

CertificateTypes == {"ca", "node", "indexer", "admin", "filebeat", "dashboard"}

DistinguishedNameConfig ==
  {"commonName", "organization", "organizationalUnit", "locality", "state",
   "country", "emailAddress"}
AutoRenewalConfig == {"autoRenewal.enabled", "thresholdDays", "schedule"}
KeyConfig == {"algorithm", "size", "curve"}
AutoGenerateSANsConfig ==
  {"indexerReplicas", "namespace", "additionalSANs", "includeIPSANs"}

WazuhCertificateSpec ==
  UNION {DistinguishedNameConfig, AutoRenewalConfig, KeyConfig,
         AutoGenerateSANsConfig, {"validity", "sans", "hotReload"}}

-----------------------------------------------------------------------------
\* What the generators have a place for.  The administrator's certificate
\* is always for localhost.
Subject ==
  {"commonName", "organization", "organizationalUnit", "locality", "state",
   "country"}
GenerateCA == Subject \cup {"validity", "algorithm", "size", "curve"}
GenerateNodeCert == GenerateCA \cup {"dnsNames", "ipAddresses"}
GenerateAdminCert == GenerateCA
GenerateFilebeatCert == GenerateNodeCert
GenerateDashboardCert == GenerateNodeCert

\* What ReconcileStandalone sets of their configuration.
caConfig == {"organization", "validity", "algorithm", "curve"}
nodeConfig == Subject \cup {"validity", "algorithm", "curve", "dnsNames"}
adminConfig == (Subject \cup {"validity", "algorithm", "curve"}) \ {"commonName"}
filebeatConfig == nodeConfig
dashboardConfig == nodeConfig

\* What the names of the component's pods and Services are made from.  The
\* names for filebeat are made as if there were no workers.
GenerateIndexerNodeSANs == {"namespace", "indexerReplicas"}
GenerateDashboardSANs == {"namespace"}
GenerateFilebeatSANs == {"namespace"}

generateSANs(type) ==
  {"sans", "additionalSANs"} \cup
    CASE type \in {"indexer", "node"} -> GenerateIndexerNodeSANs
      [] type = "dashboard" -> GenerateDashboardSANs
      [] type = "filebeat" -> GenerateFilebeatSANs
      [] OTHER -> {}

\* Mutant of certificateOf: the names of an indexer are not set.
NoNodeNames(type) ==
  CASE type = "ca" -> caConfig \cap GenerateCA
    [] type \in {"node", "indexer"} -> (nodeConfig \ {"dnsNames"}) \cap GenerateNodeCert
    [] type = "admin" -> adminConfig \cap GenerateAdminCert
    [] type = "filebeat" -> filebeatConfig \cap GenerateFilebeatCert
    [] type = "dashboard" -> dashboardConfig \cap GenerateDashboardCert

certificateOf(type) ==
  CASE type = "ca" -> caConfig \cap GenerateCA
    [] type \in {"node", "indexer"} -> nodeConfig \cap GenerateNodeCert
    [] type = "admin" -> adminConfig \cap GenerateAdminCert
    [] type = "filebeat" -> filebeatConfig \cap GenerateFilebeatCert
    [] type = "dashboard" -> dashboardConfig \cap GenerateDashboardCert

\* The fields of the spec that are in the certificate.
Carried(type) ==
  certificateOf(type) \cup
    (IF "dnsNames" \in certificateOf(type) THEN generateSANs(type) ELSE {})

\* Known not to come through, for any type and for some.
CertificateGaps(type) ==
  AutoRenewalConfig \cup {"emailAddress", "size", "includeIPSANs", "hotReload"} \cup
    CASE type = "ca" ->
           {"commonName", "organizationalUnit", "locality", "state", "country",
            "sans", "namespace", "additionalSANs", "indexerReplicas"}
      [] type = "admin" ->
           {"commonName", "sans", "namespace", "additionalSANs", "indexerReplicas"}
      [] type \in {"filebeat", "dashboard"} -> {"indexerReplicas"}
      [] OTHER -> {}

=============================================================================

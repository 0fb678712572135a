--------------------------- MODULE FilebeatFields ---------------------------
(***************************************************************************)
(* What of a WazuhFilebeat comes into filebeat.yml, the index template and *)
(* the ingest pipeline of its ConfigMap.                                   *)
(***************************************************************************)

FilebeatTemplateConfig ==
  {"shards", "replicas", "refreshInterval", "fieldLimit", "customTemplateRef",
   "additionalMappings"}
FilebeatPipelineConfig ==
  {"geoipEnabled", "indexPrefix", "additionalRemoveFields", "timestampFormat",
   "customPipelineRef"}
FilebeatLoggingConfig == {"level", "toFiles", "keepFiles"}
FilebeatSSLConfig ==
  {"verificationMode", "caCertSecretRef", "clientCertSecretRef",
   "clientKeySecretRef"}
FilebeatOutputConfig == {"hosts", "credentialsSecretRef", "protocol", "port"}

WazuhFilebeatSpec ==
  UNION {{"alerts", "archives"}, FilebeatTemplateConfig, FilebeatPipelineConfig,
         FilebeatLoggingConfig, FilebeatSSLConfig, FilebeatOutputConfig}

\* The fields whose value is in a ConfigMap that the user keeps.
CustomRefs == {"customTemplateRef", "customPipelineRef"}

-----------------------------------------------------------------------------
\* Mutant of NewFilebeatConfigBuilderFromSpec: the logging section is not read.
BuilderWithoutLogging == {"alerts", "archives", "verificationMode", "port"}

\* What the builder takes from the spec; all else has its default.
NewFilebeatConfigBuilderFromSpec ==
  {"alerts", "archives", "level", "keepFiles", "verificationMode", "port"}

\* What the text has a place for.
filebeatConfigTemplate ==
  {"alerts", "archives", "protocol", "hosts", "port", "credentialsSecretRef",
   "caCertSecretRef", "clientCertSecretRef", "clientKeySecretRef",
   "verificationMode", "level", "keepFiles"}

FilebeatTemplateBuilder ==
  {"shards", "replicas", "refreshInterval", "fieldLimit", "additionalMappings"}

FilebeatPipelineBuilder ==
  {"geoipEnabled", "indexPrefix", "timestampFormat", "additionalRemoveFields"}

\* A template or pipeline of the user's own takes the place of the built one.
buildIndexTemplate(custom) ==
  IF "customTemplateRef" \in custom THEN {"customTemplateRef"}
  ELSE FilebeatTemplateBuilder

buildIngestPipeline(custom) ==
  IF "customPipelineRef" \in custom THEN {"customPipelineRef"}
  ELSE FilebeatPipelineBuilder

BuildFilebeatData(custom) ==
  UNION {NewFilebeatConfigBuilderFromSpec \cap filebeatConfigTemplate,
         buildIndexTemplate(custom), buildIngestPipeline(custom)}

\* Known not to come through; and what the user's own files leave no place for.
FilebeatGaps ==
  {"toFiles", "caCertSecretRef", "clientCertSecretRef", "clientKeySecretRef",
   "hosts", "credentialsSecretRef", "protocol"}
Overridden(custom) ==
  UNION {IF "customTemplateRef" \in custom
           THEN FilebeatTemplateConfig \ {"customTemplateRef"} ELSE {},
         IF "customPipelineRef" \in custom
           THEN FilebeatPipelineConfig \ {"customPipelineRef"} ELSE {}}

=============================================================================

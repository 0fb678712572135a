--------------------------- MODULE RenderedFields ---------------------------
(***************************************************************************)
(* The fields that become text: ossec.conf of the managers and wazuh.yml   *)
(* of the dashboard's plugin.  A field of ossec.conf is first carried from *)
(* the custom resource into a configuration record (xxxConfigFromSpec) and *)
(* then named by the template; it reaches the text when both know it.      *)
(***************************************************************************)

OSSECGlobalSpec ==
  {"global.jsonoutOutput", "global.alertsLog", "global.logAll",
   "global.logAllJson", "global.emailNotification", "global.smtpServer",
   "global.emailFrom", "global.emailTo", "global.emailMaxPerHour",
   "global.emailLogSource", "global.agentsDisconnectionTime",
   "global.agentsDisconnectionAlertTime"}
OSSECAlertsSpec == {"alerts.logAlertLevel", "alerts.emailAlertLevel"}
OSSECLoggingSpec == {"logging.logFormat"}
OSSECRemoteSpec ==
  {"remote.connection", "remote.port", "remote.protocol", "remote.queueSize"}
OSSECAuthSpec ==
  {"auth.disabled", "auth.port", "auth.useSourceIP", "auth.purge",
   "auth.usePassword", "auth.passwordSecretRef", "auth.ciphers",
   "auth.sslVerifyHost", "auth.sslManagerCert", "auth.sslManagerKey",
   "auth.sslAutoNegotiate", "auth.enabledOnMasterOnly"}
WazuhConfigSpec ==
  OSSECGlobalSpec \cup OSSECAlertsSpec \cup OSSECLoggingSpec \cup
  OSSECRemoteSpec \cup OSSECAuthSpec

GlobalConfigFromSpec ==
  {"global.jsonoutOutput", "global.alertsLog", "global.logAll",
   "global.logAllJson", "global.emailNotification", "global.smtpServer",
   "global.emailFrom", "global.emailTo", "global.emailMaxPerHour",
   "global.emailLogSource", "global.agentsDisconnectionTime",
   "global.agentsDisconnectionAlertTime"}
AlertsConfigFromSpec == {"alerts.logAlertLevel", "alerts.emailAlertLevel"}
LoggingConfigFromSpec == {"logging.logFormat"}
RemoteConfigFromSpec ==
  {"remote.connection", "remote.port", "remote.protocol", "remote.queueSize"}
AuthConfigFromSpec ==
  {"auth.disabled", "auth.port", "auth.useSourceIP", "auth.purge",
   "auth.usePassword", "auth.passwordSecretRef", "auth.ciphers",
   "auth.sslVerifyHost", "auth.sslManagerCert", "auth.sslManagerKey",
   "auth.sslAutoNegotiate", "auth.enabledOnMasterOnly"}
WazuhConfigFromSpec ==
  GlobalConfigFromSpec \cup AlertsConfigFromSpec \cup LoggingConfigFromSpec
    \cup RemoteConfigFromSpec \cup AuthConfigFromSpec

\* What the template names.  That authd runs on the master only changes the
\* text of the workers; the password is mounted, not rendered.
ossecConfTemplate ==
  {"global.jsonoutOutput", "global.alertsLog", "global.logAll",
   "global.logAllJson", "global.emailNotification", "global.smtpServer",
   "global.emailFrom", "global.emailTo", "global.emailMaxPerHour",
   "global.emailLogSource", "global.agentsDisconnectionTime",
   "global.agentsDisconnectionAlertTime",
   "alerts.logAlertLevel", "alerts.emailAlertLevel", "logging.logFormat",
   "remote.connection", "remote.port", "remote.protocol", "remote.queueSize",
   "auth.disabled", "auth.port", "auth.useSourceIP", "auth.purge",
   "auth.usePassword", "auth.ciphers", "auth.sslVerifyHost",
   "auth.sslManagerCert", "auth.sslManagerKey", "auth.sslAutoNegotiate",
   "extraConfig"}

BuildMasterConfig ==
  (WazuhConfigFromSpec \cup {"extraConfig"}) \cap ossecConfTemplate
BuildWorkerConfig == BuildMasterConfig \cup {"auth.enabledOnMasterOnly"}

-----------------------------------------------------------------------------
WazuhPluginConfig ==
  {"plugin.enabled", "plugin.pattern", "plugin.timeout", "plugin.ipSelector",
   "plugin.ipIgnore", "plugin.hideManagerAlerts", "plugin.alertsSamplePrefix",
   "plugin.enrollmentDns", "plugin.enrollmentPassword", "plugin.cronPrefix",
   "plugin.updatesDisabled"}
WazuhMonitoringConfig ==
  {"plugin.monitoring.enabled", "plugin.monitoring.frequency",
   "plugin.monitoring.pattern", "plugin.monitoring.creation",
   "plugin.monitoring.shards", "plugin.monitoring.replicas"}
WazuhChecksConfig ==
  {"plugin.checks.pattern", "plugin.checks.template", "plugin.checks.api",
   "plugin.checks.setup", "plugin.checks.fields", "plugin.checks.metaFields",
   "plugin.checks.timeFilter", "plugin.checks.maxBuckets"}
WazuhCronStatisticsConfig ==
  {"plugin.cron.status", "plugin.cron.apis", "plugin.cron.interval",
   "plugin.cron.indexName", "plugin.cron.indexCreation",
   "plugin.cron.shards", "plugin.cron.replicas"}
WazuhAPIEndpoint ==
  {"plugin.endpoint.id", "plugin.endpoint.url", "plugin.endpoint.port",
   "plugin.endpoint.username", "plugin.endpoint.password",
   "plugin.endpoint.credentialsSecretRef", "plugin.endpoint.runAs",
   "plugin.default.credentialsSecret", "plugin.default.port",
   "plugin.default.runAs"}
WazuhPlugin ==
  WazuhPluginConfig \cup WazuhMonitoringConfig \cup WazuhChecksConfig \cup
  WazuhCronStatisticsConfig \cup WazuhAPIEndpoint

\* The credentials a Secret gave for the endpoints are kept only until the
\* default ones are looked up: NeedsDefaultCredentials holds and the map is
\* replaced.  A standalone dashboard looks up no default ones.
resolveAPIEndpointCredentials == {"plugin.default.credentialsSecret"}
WazuhYmlHosts ==
  {"plugin.endpoint.id", "plugin.endpoint.url", "plugin.endpoint.port",
   "plugin.endpoint.username", "plugin.endpoint.password",
   "plugin.endpoint.runAs", "plugin.default.port", "plugin.default.runAs"}
WazuhYmlSettings ==
  (WazuhPluginConfig \ {"plugin.enabled"}) \cup WazuhMonitoringConfig
    \cup WazuhChecksConfig \cup WazuhCronStatisticsConfig
buildWazuhConfig ==
  WazuhYmlHosts \cup WazuhYmlSettings \cup resolveAPIEndpointCredentials

=============================================================================

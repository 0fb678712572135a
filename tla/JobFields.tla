------------------------------ MODULE JobFields ------------------------------
(***************************************************************************)
(* The fields of a WazuhBackup and of a WazuhRestore, and which of them    *)
(* the builders of the Jobs look at, for each kind of storage.  A field of *)
(* a nested structure goes by its own name.                                *)
(***************************************************************************)

Storages == {"s3", "gcs", "azure", "hdfs"}

Components ==
  {"agentKeys", "fimDatabase", "agentDatabase", "integrations", "alertLogs",
   "customPaths"}
RestoreComponents == Components
BackupRetention == {"maxBackups", "maxAge"}
BackupImage == {"repository", "tag", "pullPolicy"}

\* Of an account the operator makes; with create switched off it is the user's.
ServiceAccountConfig ==
  {"serviceAccountName", "serviceAccountLabels", "serviceAccountAnnotations"}

\* The fields of spec.storage that mean something for a kind of storage.
BackupStorage(storage) ==
  {"type", "prefix"} \cup
  CASE storage = "s3" -> {"bucket", "region", "endpoint", "forcePathStyle",
                          "credentialsSecret"}
    [] storage = "gcs" -> {"bucket", "project", "credentialsSecret"}
    [] storage = "azure" -> {"bucket", "container", "accountName",
                             "endpointSuffix", "credentialsSecret"}
    [] storage = "hdfs" -> {"uri", "path"}

WazuhBackupSpec(storage) ==
  Components \cup BackupRetention \cup BackupImage \cup BackupStorage(storage)
  \cup ServiceAccountConfig \cup {"backupTimeout", "resources", "clusterRef"}

-----------------------------------------------------------------------------
\* backup_job.go
buildBackupPaths == Components

buildRcloneConfig(storage) ==
  {"type"} \cup
  CASE storage = "s3" -> {"endpoint", "region", "forcePathStyle"}
    [] storage = "gcs" -> {"project", "credentialsSecret"}
    [] storage = "azure" -> {"accountName", "endpointSuffix"}
    [] storage = "hdfs" -> {"uri"}

buildRemotePath(storage) ==
  CASE storage = "hdfs" -> {"path"}
    [] storage = "azure" -> {"bucket", "container"}
    [] OTHER -> {"bucket"}

buildBackupScript(storage) ==
  buildBackupPaths \cup buildRcloneConfig(storage) \cup buildRemotePath(storage)
  \cup {"prefix", "clusterRef"}

buildEnvVars(storage) ==
  IF storage \in {"s3", "azure"} THEN {"credentialsSecret"} ELSE {}

buildVolumes(storage) == IF storage = "gcs" THEN {"credentialsSecret"} ELSE {}

getImage == {"repository", "tag", "pullPolicy", "resources"}

\* The slip of a pod that keeps the default image.
buildPodSpecOfDefaultImage(storage) ==
  buildBackupScript(storage) \cup buildEnvVars(storage) \cup
  buildVolumes(storage) \cup {"serviceAccountName"}
buildPodSpec(storage) ==
  buildBackupScript(storage) \cup buildEnvVars(storage) \cup
  buildVolumes(storage) \cup getImage \cup {"serviceAccountName"}

\* What a new account is given.
BuildServiceAccount == ServiceAccountConfig

\* No builder looks at these: archives are never pruned and nothing ends a
\* backup that takes too long.
BackupGaps == BackupRetention \cup {"backupTimeout"}

-----------------------------------------------------------------------------
\* A restore names one source, the last one by another resource.
Sources == Storages \cup {"wazuhBackupRef"}

RestoreSource(source) ==
  CASE source = "s3" -> {"bucket", "key", "region", "endpoint",
                         "forcePathStyle", "credentialsSecret"}
    [] source = "gcs" -> {"bucket", "key", "project", "credentialsSecret"}
    [] source = "azure" -> {"container", "key", "accountName",
                            "endpointSuffix", "credentialsSecret"}
    [] source = "hdfs" -> {"uri", "path", "key"}
    [] source = "wazuhBackupRef" -> {"name", "backupTimestamp"}

WazuhRestoreSpec(source) ==
  RestoreSource(source) \cup RestoreComponents \cup BackupImage \cup
  ServiceAccountConfig \cup
  {"preRestoreBackup", "stopManager", "restartAfterRestore", "restoreTimeout",
   "resources", "clusterRef"}

\* restore_job.go
NoStorage == ""
getStorageType(source) == IF source \in Storages THEN source ELSE NoStorage

buildRestorePaths == RestoreComponents

restoreRcloneConfig(source) ==
  CASE source = "s3" -> {"endpoint", "region", "forcePathStyle"}
    [] source = "gcs" -> {"project", "credentialsSecret"}
    [] source = "azure" -> {"accountName", "endpointSuffix"}
    [] source = "hdfs" -> {"uri"}

buildSourceRemotePath(source) ==
  CASE source \in {"s3", "gcs"} -> {"bucket", "key"}
    [] source = "azure" -> {"container", "key"}
    [] source = "hdfs" -> {"path", "key"}

restoreEnvVars(source) ==
  IF source \in {"s3", "azure"} THEN {"credentialsSecret"} ELSE {}

restoreVolumes(source) == IF source = "gcs" THEN {"credentialsSecret"} ELSE {}

restoreImage == {"repository", "tag", "pullPolicy", "resources"}

\* Who the Job's pod runs as: the account, made before the Job.
restoreRBAC == ServiceAccountConfig

\* What the script is told.
restoreOptions ==
  {"preRestoreBackup", "stopManager", "restartAfterRestore", "clusterRef"}

\* The slip of a Job that unpacks the default components.
BuildJobOfDefaults(source) ==
  restoreRcloneConfig(source) \cup buildSourceRemotePath(source) \cup
  restoreOptions \cup restoreEnvVars(source) \cup restoreVolumes(source)
  \cup restoreImage \cup restoreRBAC
BuildRestoreJob(source) ==
  restoreRcloneConfig(source) \cup buildSourceRemotePath(source) \cup
  buildRestorePaths \cup restoreOptions \cup restoreEnvVars(source) \cup
  restoreVolumes(source) \cup restoreImage \cup restoreRBAC

RestoreGaps == {"restoreTimeout"}

=============================================================================

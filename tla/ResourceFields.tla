--------------------------- MODULE ResourceFields ---------------------------
(***************************************************************************)
(* The fields of the OpenSearch resources and what becomes of them on the  *)
(* way to OpenSearch.  For each kind: the fields of its spec, clusterRef   *)
(* apart; those the request can carry, by the names of the spec; those the *)
(* reconciler fills in; those the synchronizer of the WazuhCluster sends,  *)
(* for the security kinds; and the gaps, the fields that do not come       *)
(* through.                                                                *)
(***************************************************************************)

\* defaultAdmin is read by the WazuhCluster's reconciler only.
OpenSearchUserSpec ==
  {"passwordSecret", "hash", "backendRoles", "openSearchRoles", "attributes",
   "description"}
SecurityUser ==
  {"passwordSecret", "hash", "backendRoles", "attributes", "description",
   "openSearchRoles"}
\* The mutant leaves the roles to the role mappings.
buildUserWithoutRoles ==
  {"passwordSecret", "backendRoles", "attributes", "description"}
\* A hash is sent in the place of the password.
buildUser ==
  {"passwordSecret", "backendRoles", "attributes", "description",
   "openSearchRoles"}
buildSecurityUser == SecurityUser
UserGaps == {"hash"}

OpenSearchRoleSpec ==
  {"clusterPermissions", "indexPatterns", "allowedActions", "dls", "fls",
   "maskedFields", "tenantPatterns", "tenantActions", "description"}
SecurityRole == OpenSearchRoleSpec
buildRole ==
  {"description", "clusterPermissions", "indexPatterns", "allowedActions",
   "tenantPatterns", "tenantActions"}
buildSecurityRole == buildRole
RoleGaps == {"dls", "fls", "maskedFields"}

OpenSearchTenantSpec == {"description"}
TenantBody == {"description"}
buildTenant == {"description"}
syncTenant == {"description"}

OpenSearchRoleMappingSpec ==
  {"users", "backendRoles", "hosts", "andBackendRoles", "description"}
RoleMappingBody == OpenSearchRoleMappingSpec
buildRoleMapping ==
  {"users", "backendRoles", "hosts", "andBackendRoles", "description"}
syncRoleMapping == {"backendRoles", "hosts", "users"}

OpenSearchActionGroupSpec == {"allowedActions", "type", "description"}
ActionGroupBody == OpenSearchActionGroupSpec
buildActionGroup == {"allowedActions", "type", "description"}
syncActionGroup == {"allowedActions"}

-----------------------------------------------------------------------------
Alias == {"filter", "indexRouting", "searchRouting", "isWriteIndex"}

OpenSearchComponentTemplateSpec ==
  {"settings", "mappings", "version", "_meta"} \cup Alias
ComponentTemplateBody == {"settings", "mappings", "version", "_meta"} \cup Alias
buildComponentTemplate == {"settings", "mappings"}
ComponentTemplateGaps == {"version", "_meta"} \cup Alias

OpenSearchIndexTemplateSpec ==
  {"indexPatterns", "settings", "mappings", "composedOf", "priority",
   "version", "_meta", "timestampField", "hidden"} \cup Alias
IndexTemplateBody ==
  {"indexPatterns", "settings", "mappings", "composedOf", "priority",
   "version", "_meta", "hidden"} \cup Alias
buildIndexTemplate ==
  {"indexPatterns", "priority", "composedOf", "settings", "mappings"} \cup Alias
IndexTemplateGaps == {"version", "_meta", "timestampField", "hidden"}

ISMRetryConfig == {"retryCount", "backoff", "delay"}
CronCondition == {"cronExpression", "cronTimezone"}
OpenSearchISMPolicySpec ==
  {"description", "defaultState", "stateName", "config", "timeout",
   "transition", "minIndexAge", "minDocCount", "minSize", "indexPatterns",
   "priority"} \cup ISMRetryConfig \cup CronCondition
ISMPolicyBody ==
  {"description", "defaultState", "stateName", "config", "transition",
   "minIndexAge", "minDocCount", "minSize", "indexPatterns", "priority"}
  \cup CronCondition
buildISMPolicy ==
  {"description", "defaultState", "stateName", "config", "transition",
   "minIndexAge", "minDocCount", "minSize", "indexPatterns", "priority"}
ISMPolicyGaps == {"timeout"} \cup ISMRetryConfig \cup CronCondition

RepositorySettings ==
  {"location", "bucket", "basePath", "compress", "region", "endpoint",
   "credentialsSecretRef"}
SnapshotNotification ==
  {"channelID", "notifyCreation", "notifyDeletion", "notifyFailure"}
OpenSearchSnapshotPolicySpec ==
  {"description", "repository", "repositoryType", "indices",
   "ignoreUnavailable", "includeGlobalState", "partial", "creationCron",
   "creationTimezone", "timeLimit", "deletionCron", "deletionTimezone",
   "maxAge", "maxCount", "minCount"} \cup RepositorySettings
  \cup SnapshotNotification
SnapshotPolicyBody ==
  {"description", "repository", "indices", "creationCron", "creationTimezone",
   "timeLimit", "deletionCron", "deletionTimezone", "maxAge", "maxCount",
   "minCount"}
buildSnapshotPolicy ==
  {"description", "repository", "indices", "creationCron", "creationTimezone",
   "timeLimit", "deletionCron", "deletionTimezone", "maxAge", "maxCount",
   "minCount"}
SnapshotPolicyGaps ==
  {"repositoryType", "ignoreUnavailable", "includeGlobalState", "partial"}
  \cup RepositorySettings \cup SnapshotNotification

IndexMappings == {"properties", "dynamic", "dateDetection", "numericDetection"}
OpenSearchIndexAlias == {"alias", "filter", "routing", "isWriteIndex"}
OpenSearchIndexSpec ==
  {"numberOfShards", "numberOfReplicas", "refreshInterval", "codec", "custom"}
  \cup IndexMappings \cup OpenSearchIndexAlias
\* What an index is created with, and what is sent when it exists.
buildIndexSettings == {"numberOfShards", "numberOfReplicas"}
buildDynamicSettings == {"numberOfReplicas"}
IndexGaps ==
  {"numberOfShards", "refreshInterval", "codec", "custom"} \cup IndexMappings
  \cup OpenSearchIndexAlias

-----------------------------------------------------------------------------
(***************************************************************************)
(* What the reconcilers of the kinds do differently.                       *)
(*   fails    a failed request sets the Failed phase                       *)
(*   merges   the status is written onto a fresh copy: there is no         *)
(*            conflict and only the phase is kept, not the hash            *)
(*   spec     the fields, and of these:                                    *)
(*   creates  those in the request that creates the object                 *)
(*   updates  those in a request for an object that exists; it replaces    *)
(*            the object, except that an index keeps what is not in it     *)
(*   syncs    those the synchronizer sends, none if it leaves the kind out *)
(*   gaps     those known not to come through                              *)
(***************************************************************************)
User ==
  [fails |-> FALSE, merges |-> FALSE, spec |-> OpenSearchUserSpec,
   creates |-> buildUser \cap SecurityUser,
   updates |-> buildUser \cap SecurityUser,
   syncs |-> buildSecurityUser, gaps |-> UserGaps]
Role ==
  [fails |-> FALSE, merges |-> FALSE, spec |-> OpenSearchRoleSpec,
   creates |-> buildRole \cap SecurityRole,
   updates |-> buildRole \cap SecurityRole,
   syncs |-> buildSecurityRole, gaps |-> RoleGaps]
Tenant ==
  [fails |-> TRUE, merges |-> FALSE, spec |-> OpenSearchTenantSpec,
   creates |-> buildTenant \cap TenantBody,
   updates |-> buildTenant \cap TenantBody,
   syncs |-> syncTenant, gaps |-> {}]
RoleMapping ==
  [fails |-> TRUE, merges |-> FALSE, spec |-> OpenSearchRoleMappingSpec,
   creates |-> buildRoleMapping \cap RoleMappingBody,
   updates |-> buildRoleMapping \cap RoleMappingBody,
   syncs |-> syncRoleMapping, gaps |-> {}]
ActionGroup ==
  [fails |-> TRUE, merges |-> FALSE, spec |-> OpenSearchActionGroupSpec,
   creates |-> buildActionGroup \cap ActionGroupBody,
   updates |-> buildActionGroup \cap ActionGroupBody,
   syncs |-> syncActionGroup, gaps |-> {}]
ComponentTemplate ==
  [fails |-> TRUE, merges |-> FALSE, spec |-> OpenSearchComponentTemplateSpec,
   creates |-> buildComponentTemplate \cap ComponentTemplateBody,
   updates |-> buildComponentTemplate \cap ComponentTemplateBody,
   syncs |-> {}, gaps |-> ComponentTemplateGaps]
IndexTemplate ==
  [fails |-> TRUE, merges |-> FALSE, spec |-> OpenSearchIndexTemplateSpec,
   creates |-> buildIndexTemplate \cap IndexTemplateBody,
   updates |-> buildIndexTemplate \cap IndexTemplateBody,
   syncs |-> {}, gaps |-> IndexTemplateGaps]
ISMPolicy ==
  [fails |-> TRUE, merges |-> FALSE, spec |-> OpenSearchISMPolicySpec,
   creates |-> buildISMPolicy \cap ISMPolicyBody,
   updates |-> buildISMPolicy \cap ISMPolicyBody,
   syncs |-> {}, gaps |-> ISMPolicyGaps]
Index ==
  [fails |-> FALSE, merges |-> FALSE, spec |-> OpenSearchIndexSpec,
   creates |-> buildIndexSettings, updates |-> buildDynamicSettings,
   syncs |-> {}, gaps |-> IndexGaps]
SnapshotPolicy ==
  [fails |-> TRUE, merges |-> TRUE, spec |-> OpenSearchSnapshotPolicySpec,
   creates |-> buildSnapshotPolicy \cap SnapshotPolicyBody,
   updates |-> buildSnapshotPolicy \cap SnapshotPolicyBody,
   syncs |-> {}, gaps |-> SnapshotPolicyGaps]

KindNames ==
  {"User", "Role", "Tenant", "RoleMapping", "ActionGroup", "ComponentTemplate",
   "IndexTemplate", "ISMPolicy", "Index", "SnapshotPolicy"}

Of(k) ==
  CASE k = "User" -> User [] k = "Role" -> Role [] k = "Tenant" -> Tenant
    [] k = "RoleMapping" -> RoleMapping [] k = "ActionGroup" -> ActionGroup
    [] k = "ComponentTemplate" -> ComponentTemplate
    [] k = "IndexTemplate" -> IndexTemplate [] k = "ISMPolicy" -> ISMPolicy
    [] k = "Index" -> Index [] k = "SnapshotPolicy" -> SnapshotPolicy

=============================================================================

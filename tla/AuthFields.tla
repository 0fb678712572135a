----------------------------- MODULE AuthFields -----------------------------
(***************************************************************************)
(* What of an OpenSearchAuthConfig comes into the security configuration   *)
(* of the indexer and the authentication section of the dashboard.  The    *)
(* methods are named as in status.activeAuthDomains.                       *)
(***************************************************************************)

Methods == {"basic", "oidc", "saml", "ldap"}

BasicAuthSpec == {"order", "challenge", "httpEnabled", "transportEnabled"}
OIDCAuthSpec ==
  {"order", "challenge", "httpEnabled", "connectURL", "clientId",
   "clientSecretRef", "subjectKey", "rolesKey", "scope", "logoutUrl"}
OIDCDashboardSpec ==
  {"rootUrl", "loginEndpoint", "logoutEndpoint", "cookiePasswordRef",
   "additionalCookies", "cookiePrefix"}
SAMLAuthSpec ==
  {"order", "challenge", "httpEnabled", "idpMetadataUrl", "idpMetadataFile",
   "idpEntityId", "spEntityId", "kibanaUrl", "subjectKey", "rolesKey",
   "exchangeKeyRef"}
SAMLDashboardSpec == {"requestedAuthnContextRef", "xsrfAllowlist"}
LDAPAuthSpec == {"order", "challenge", "httpEnabled", "transportEnabled", "hosts"}
LDAPAuthenticationSpec ==
  {"bindDn", "bindPasswordRef", "userBase", "userSearch", "usernameAttribute"}
LDAPAuthorizationSpec ==
  {"roleBase", "roleSearch", "userRoleName", "roleName", "resolveNestedRoles",
   "skipUsers"}
LDAPTLSSpec ==
  {"enableSsl", "enableStartTls", "verifyHostnames", "trustAllCertificates",
   "pemTrustedCasFilepath"}
LDAPConnectionPoolSpec == {"minSize", "maxSize"}

AuthSpec(m) ==
  CASE m = "basic" -> BasicAuthSpec
    [] m = "oidc" -> OIDCAuthSpec \cup OIDCDashboardSpec
    [] m = "saml" -> SAMLAuthSpec \cup SAMLDashboardSpec
    [] m = "ldap" -> UNION {LDAPAuthSpec, LDAPAuthenticationSpec,
                            LDAPAuthorizationSpec, LDAPTLSSpec,
                            LDAPConnectionPoolSpec}

\* The fields whose value is in a Secret (resolveSecrets).
SecretRefs ==
  {"clientSecretRef", "cookiePasswordRef", "exchangeKeyRef", "bindPasswordRef"}

-----------------------------------------------------------------------------
(***************************************************************************)
(* config.yml: one domain for each method, and one to authorize with LDAP. *)
(* A part of a domain is made of the fields that stand beside it.          *)
(***************************************************************************)
Switches ==
  [order |-> {"order"}, httpEnabled |-> {"httpEnabled"},
   challenge |-> {"challenge"}, transportEnabled |-> {},
   authenticator |-> {}, backend |-> {}]

buildBasicAuthDomain ==
  [Switches EXCEPT !.transportEnabled = {"transportEnabled"}]

\* Mutant of buildOIDCAuthDomain: the resolved client secret is left out.
buildOIDCWithoutSecret ==
  [Switches EXCEPT !.authenticator =
     {"connectURL", "clientId", "subjectKey", "rolesKey", "scope", "logoutUrl"}]

buildOIDCAuthDomain ==
  [Switches EXCEPT !.authenticator =
     {"connectURL", "clientId", "clientSecretRef", "subjectKey", "rolesKey",
      "scope", "logoutUrl"}]

\* The metadata file counts where there is no URL.
buildSAMLAuthDomain ==
  [Switches EXCEPT !.authenticator =
     {"idpMetadataUrl", "idpMetadataFile", "idpEntityId", "spEntityId",
      "kibanaUrl", "subjectKey", "rolesKey", "exchangeKeyRef"}]

LDAPConnection ==
  {"enableSsl", "enableStartTls", "verifyHostnames", "pemTrustedCasFilepath",
   "hosts", "bindDn", "bindPasswordRef", "userBase", "userSearch"}

buildLDAPAuthDomain ==
  [Switches EXCEPT
     !.transportEnabled = {"transportEnabled"},
     !.backend = LDAPConnection \cup {"trustAllCertificates", "usernameAttribute"}]

buildLDAPAuthzDomain ==
  [httpEnabled |-> {"httpEnabled"},
   backend |-> LDAPConnection \cup
     {"roleBase", "roleSearch", "roleName", "userRoleName", "resolveNestedRoles",
      "skipUsers"}]

\* The parts that are printed.
formatAuthDomain ==
  {"httpEnabled", "transportEnabled", "order", "challenge", "authenticator",
   "backend"}
formatAuthzDomain == {"httpEnabled", "backend"}

Printed(domain, parts) == UNION {domain[p] : p \in parts}

BuildSecurityConfig(m) ==
  CASE m = "basic" -> Printed(buildBasicAuthDomain, formatAuthDomain)
    [] m = "oidc" -> Printed(buildOIDCAuthDomain, formatAuthDomain)
    [] m = "saml" -> Printed(buildSAMLAuthDomain, formatAuthDomain)
    [] m = "ldap" -> Printed(buildLDAPAuthDomain, formatAuthDomain)
                       \cup Printed(buildLDAPAuthzDomain, formatAuthzDomain)

-----------------------------------------------------------------------------
(***************************************************************************)
(* auth.yml, for the methods that bring the user from somewhere else.      *)
(***************************************************************************)
SingleSignOn == {"oidc", "saml"}

\* Of additionalCookies only the number.
buildOIDCDashboardConfig ==
  {"connectURL", "clientId", "clientSecretRef", "scope", "logoutUrl", "rootUrl",
   "loginEndpoint", "logoutEndpoint", "cookiePrefix", "cookiePasswordRef"}

buildSAMLDashboardConfig ==
  {"exchangeKeyRef", "requestedAuthnContextRef", "xsrfAllowlist"}

\* The methods that the dashboard offers; their order is written with them.
determineAuthType(on) == on \ {"ldap"}
buildMultiAuthConfig == {"order"}

BuildAuthSection(m) ==
  CASE m = "basic" -> buildMultiAuthConfig
    [] m = "oidc" -> buildOIDCDashboardConfig \cup buildMultiAuthConfig
    [] m = "saml" -> buildSAMLDashboardConfig \cup buildMultiAuthConfig
    [] m = "ldap" -> {}

\* Known not to come through.
AuthGaps ==
  {<<"oidc", "additionalCookies">>, <<"ldap", "minSize">>, <<"ldap", "maxSize">>}

=============================================================================

SPECIFICATION Spec
CONSTANTS
  d1 = d1
  d2 = d2
  u1 = u1
  u2 = u2
  t1 = t1
  reader = reader
  ask1 = ask1
  ask2 = ask2
  adm1 = adm1
  adm2 = adm2
  Docs <- const_Docs
  Users <- const_Users
  Tenants = {t1}
  Roles <- const_Roles
  Clearance <- const_Clearance
  UserTenant <- const_UserTenant
  DocTenant <- const_DocTenant
  DocShared <- const_DocShared
  DocCapability <- const_Capability
  ActiveTenants = {t1}
  Questions = {question}
  Capabilities <- const_Unscoped
  Requests = {ask1}
  Asker <- const_Asker
  AdminRoles = {}
  Admins = {adm1, adm2}
  AdminTenant <- const_AdminTenant
  Sensitivities = {2}
  GrantEffects = {}
  GrantExpiries = {}
  InitDocs <- const_InitDocs
  InitRoles <- const_InitRoles
  CACHE_TTL_SECONDS = 0
  CACHE_MAX_ENTRIES = 2
  MaxVersion = 4
  MaxTime = 0
INVARIANT ServedWasReadable
CHECK_DEADLOCK FALSE

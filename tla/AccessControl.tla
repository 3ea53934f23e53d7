--------------------------- MODULE AccessControl ---------------------------
(***************************************************************************)
(* The access predicate of app/rag/retrieval.py (VISIBLE_DOCS_CTE), the    *)
(* capability scope laid over it (SCOPED_DOCS_CTE) and the principal that  *)
(* app/core/security.py builds for a caller.  Everything here is a pure    *)
(* operator: the tables the predicate reads are passed in as arguments.    *)
(***************************************************************************)
EXTENDS Integers, FiniteSetsExt

CONSTANTS
  Docs,           \* identities of the rows documents may hold
  Users,          \* rows of users
  Tenants,        \* rows of tenants
  Roles,          \* rows of roles
  Clearance,      \* roles.clearance, never changed after the seed
  UserTenant,     \* users.tenant_id, never changed after the insert
  DocTenant,      \* documents.tenant_id
  DocShared,      \* documents.is_shared, set when the row is created
  DocCapability,  \* documents.capability
  ActiveTenants   \* tenants with is_active; no route changes it

ASSUME ClearanceAssumption     == Clearance \in [Roles -> 1..4]
ASSUME UserTenantAssumption    == UserTenant \in [Users -> Tenants]
ASSUME DocTenantAssumption     == DocTenant \in [Docs -> Tenants]
ASSUME DocSharedAssumption     == DocShared \in [Docs -> BOOLEAN]
ASSUME ActiveTenantsAssumption == ActiveTenants \subseteq Tenants

\* Sensitivity.CUSTOMER: sharing never carries anything above it to another
\* tenant.
MAX_CROSS_TENANT_SENSITIVITY == 2

\* expires_at IS NULL.
NEVER == 0

\* capability = '' in SCOPED_DOCS_CTE, and routing.ALL_CAPABILITIES.
UNSCOPED         == ""
ALL_CAPABILITIES == "*"

DocStatus == {"absent", "PENDING_REVIEW", "APPROVED"}

\* A document's access state: its status, its sensitivity and its ACL rows.
DocumentRow == [status : DocStatus, sensitivity : 1..4, acl : SUBSET Roles]

\* A row of user_document_grants.
GrantRow(times) ==
  [user : Users, doc : Docs, effect : {"ALLOW", "DENY"}, expires : times]

\* load_principal: "a user with no roles has clearance 0".
PrincipalOf(u, roles) ==
  [user      |-> u,
   tenant    |-> UserTenant[u],
   roles     |-> roles,
   clearance |-> IF roles = {} THEN 0 ELSE Max({Clearance[r] : r \in roles})]

\* Principal.acl_fingerprint: the user is not part of it.
AclFingerprint(p) ==
  [tenant |-> p.tenant, roles |-> p.roles, clearance |-> p.clearance]

\* A grant row that names this document and caller and has not expired at t.
LiveGrant(g, p, d, t) ==
  /\ g.doc = d
  /\ g.user = p.user
  /\ g.expires = NEVER \/ g.expires > t

Granted(p, d, grants, effect, t) ==
  \E g \in grants : g.effect = effect /\ LiveGrant(g, p, d, t)

\* VISIBLE_DOCS_CTE for one document; t is now(), the start of the caller's
\* transaction.
Visible(p, d, docs, grants, t) ==
  /\ p.tenant \in ActiveTenants
  /\ \/ DocTenant[d] = p.tenant
     \/ /\ DocShared[d]
        /\ docs[d].sensitivity <= MAX_CROSS_TENANT_SENSITIVITY
  /\ docs[d].status = "APPROVED"
  /\ docs[d].sensitivity <= p.clearance
  /\ \/ docs[d].acl \cap p.roles # {}
     \/ Granted(p, d, grants, "ALLOW", t)
  /\ ~ Granted(p, d, grants, "DENY", t)

VisibleDocs(p, docs, grants, t) == {d \in Docs : Visible(p, d, docs, grants, t)}

\* SCOPED_DOCS_CTE: a scope only ever removes documents.
InScope(capability) ==
  {d \in Docs : capability = UNSCOPED \/ DocCapability[d] = capability}

\* search_scope: "*" means no filter.
SearchScope(capability) ==
  IF capability = ALL_CAPABILITIES THEN UNSCOPED ELSE capability

\* Mutant: the DENY rows are not consulted.
AuthorizedDocsIgnoringDeny(p, docs, grants, t) ==
  IF p.roles = {} THEN {}
  ELSE VisibleDocs(p, docs, {g \in grants : g.effect # "DENY"}, t)

\* authorized_document_ids, and what hybrid_search selects from: both return
\* nothing at all to a caller without a role, before asking the database.
AuthorizedDocs(p, docs, grants, t) ==
  IF p.roles = {} THEN {} ELSE VisibleDocs(p, docs, grants, t)
=============================================================================

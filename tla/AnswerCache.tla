---------------------------- MODULE AnswerCache ----------------------------
(***************************************************************************)
(* The answer cache of app/rag/answer.py (guardrail G7) beside the access  *)
(* state it must not outlive.  Requests run stepwise, one step between two *)
(* awaits: load the principal, read acl_version, look in the cache, search *)
(* (G3), re-verify (G4), perhaps search again inside a named capability,   *)
(* answer and store.  Administrators run database transactions under READ  *)
(* COMMITTED: their row changes, the SELECT of acl_version, the UPDATE     *)
(* that writes it back, and the commit that makes it all visible.          *)
(*                                                                         *)
(* Two transactions in flight never have the same target row here; what    *)
(* happens when they do is the subject of DocumentLifecycle.               *)
(***************************************************************************)
EXTENDS AccessControl

CONSTANTS
  Questions,      \* resolved question texts
  Capabilities,   \* capabilities a caller may send: UNSCOPED, "*", chips
  Requests,       \* slots for requests in flight
  Asker,          \* the user behind each slot
  AdminRoles,     \* the role keys that satisfy require_admin
  Admins,         \* slots for administrative transactions in flight
  AdminTenant,    \* the tenant of the administrator in each slot
  Sensitivities,  \* sensitivities administrators approve with
  GrantEffects,   \* effects of the per-user grants administrators add
  GrantExpiries,  \* expiry times of those grants
  InitDocs, InitRoles,            \* the seeded database
  CACHE_TTL_SECONDS, CACHE_MAX_ENTRIES,
  MaxVersion, MaxTime             \* bounds of the model

ASSUME QuestionAssumption   == Questions # {} /\ UNSCOPED \in Capabilities
ASSUME AskerAssumption       == Asker \in [Requests -> Users]
ASSUME AdminTenantAssumption == AdminTenant \in [Admins -> Tenants]
ASSUME SensitivityAssumption == Sensitivities \subseteq 1..4
ASSUME GrantAssumption       == /\ GrantEffects \subseteq {"ALLOW", "DENY"}
                                /\ GrantExpiries \subseteq Nat
ASSUME InitAssumption        == /\ InitDocs \in [Docs -> DocumentRow]
                                /\ InitRoles \in [Users -> SUBSET Roles]
ASSUME CacheAssumption       == /\ CACHE_TTL_SECONDS \in Nat
                                /\ CACHE_MAX_ENTRIES \in Nat \ {0}
ASSUME BoundsAssumption      == MaxVersion \in Nat \ {0} /\ MaxTime \in Nat

VARIABLES
  docs,     \* committed documents and their ACL rows
  grants,   \* committed user_document_grants
  roles,    \* committed user_roles
  active,   \* committed users.is_active
  version,  \* committed system_state.acl_version
  tx,       \* the administrative transactions
  cache,    \* _CACHE: a partial function from keys to stored results
  req,      \* the requests
  now       \* the wall clock

database == <<docs, grants, roles, active, version>>
vars     == <<docs, grants, roles, active, version, tx, cache, req, now>>

-----------------------------------------------------------------------------
(***************************************************************************)
(* Requests.                                                               *)
(***************************************************************************)

\* A stored AnswerResult: the documents its text was drawn from ({} is the
\* refusal), and whether G4 had dropped a chunk.
Result(sources, anomalous) == [sources |-> sources, anomalous |-> anomalous]

\* The function with no argument: no row, or an empty cache.
Empty == [x \in {} |-> x]

\* What a transaction will change when it commits: the rows of documents,
\* user_roles and users it has overwritten, the grants it adds and removes.
NoEffect == [docs |-> Empty, roles |-> Empty, active |-> Empty,
             granted |-> {}, cleared |-> {}]

IdleTx == [pc |-> "idle", effect |-> NoEffect, seen |-> 0]

\* ever, always and lost are history: the documents the access predicate gave
\* the caller at some instant, and at every instant, since its principal was
\* loaded; and of what the last search found, what it no longer gave at some
\* instant since that search.
IdleRequest ==
  [pc |-> "idle", roles |-> {}, question |-> CHOOSE q \in Questions : TRUE,
   capability |-> UNSCOPED, began |-> 0, version |-> 0, scoped |-> FALSE,
   found |-> {}, context |-> {}, anomalous |-> FALSE, cached |-> FALSE,
   ever |-> {}, always |-> {}, lost |-> {}]

InFlight(r) == req[r].pc \notin {"idle", "done"}

\* The principal a request carries from its first step to its last.
Caller(r) == PrincipalOf(Asker[r], req[r].roles)

Init ==
  /\ docs = InitDocs
  /\ grants = {}
  /\ roles = InitRoles
  /\ active = [u \in Users |-> TRUE]
  /\ version = 1
  /\ tx = [a \in Admins |-> IdleTx]
  /\ cache = Empty
  /\ req = [r \in Requests |-> IdleRequest]
  /\ now = 0

Advance(r, fields) == req' = [req EXCEPT ![r] = fields]

\* The request is answered; of its working state only what it was given, and
\* the history, is kept.
Deliver(r, result, fromCache) ==
  Advance(r, [IdleRequest EXCEPT
                !.pc = "done", !.cached = fromCache,
                !.capability = req[r].capability,
                !.context = result.sources, !.anomalous = result.anomalous,
                !.ever = req[r].ever, !.always = req[r].always])

\* A request begins with the caller's principal, built from the database.
Begin(r, callerRoles, q, capability) ==
  LET mayRead == VisibleDocs(PrincipalOf(Asker[r], callerRoles),
                             docs, grants, now)
  IN  Advance(r, [IdleRequest EXCEPT
                    !.pc = "version", !.roles = callerRoles, !.question = q,
                    !.capability = capability, !.began = now,
                    !.ever = mayRead, !.always = mayRead])

\* POST /ask and /ask/stream.
Ask(r, q, capability) ==
  /\ ~InFlight(r)
  /\ active[Asker[r]]
  /\ UserTenant[Asker[r]] \in ActiveTenants
  /\ Begin(r, roles[Asker[r]], q, capability)
  /\ UNCHANGED <<database, tx, cache, now>>

\* One column of POST /compare: an administrator's user_id carrying exactly
\* one role, asked only when a first search, which takes "*" literally, finds
\* something.  Each column is a request of its own here.
CompareRole(r, role, q, capability) ==
  /\ ~InFlight(r)
  /\ active[Asker[r]]
  /\ UserTenant[Asker[r]] \in ActiveTenants
  /\ roles[Asker[r]] \cap AdminRoles # {}
  /\ AuthorizedDocs(PrincipalOf(Asker[r], {role}), docs, grants, now)
       \cap InScope(capability) # {}
  /\ Begin(r, {role}, q, capability)
  /\ UNCHANGED <<database, tx, cache, now>>

\* Mutant: a missing system_state row read as generation 0.
GetAclVersionUnseeded(r) ==
  /\ req[r].pc = "version"
  /\ Advance(r, [req[r] EXCEPT !.pc = "lookup", !.version = 0])
  /\ UNCHANGED <<database, tx, cache, now>>

GetAclVersion(r) ==
  /\ req[r].pc = "version"
  /\ Advance(r, [req[r] EXCEPT !.pc = "lookup", !.version = version])
  /\ UNCHANGED <<database, tx, cache, now>>

\* Mutant: a key without the caller's permissions.
CacheKeyWithoutFingerprint(r) ==
  [question    |-> req[r].question,
   fingerprint |-> AclFingerprint(PrincipalOf(Asker[r], {})),
   version     |-> req[r].version,
   capability  |-> req[r].capability]

\* Mutant: a key without the ACL generation.
CacheKeyWithoutVersion(r) ==
  [question    |-> req[r].question,
   fingerprint |-> AclFingerprint(Caller(r)),
   version     |-> 1,
   capability  |-> req[r].capability]

CacheKey(r) ==
  [question    |-> req[r].question,
   fingerprint |-> AclFingerprint(Caller(r)),
   version     |-> req[r].version,
   capability  |-> req[r].capability]

Expired(key) == now - cache[key].stored > CACHE_TTL_SECONDS

\* cache_get finds a live entry: the request is answered from it.
CacheHit(r) ==
  LET key == CacheKey(r)
  IN  /\ req[r].pc = "lookup"
      /\ key \in DOMAIN cache
      /\ ~Expired(key)
      /\ Deliver(r, cache[key].result, TRUE)
      /\ UNCHANGED <<database, tx, cache, now>>

\* cache_get finds nothing, or drops an expired entry.
CacheMiss(r) ==
  LET key == CacheKey(r)
  IN  /\ req[r].pc = "lookup"
      /\ key \in DOMAIN cache => Expired(key)
      /\ cache' = [k \in DOMAIN cache \ {key} |-> cache[k]]
      /\ Advance(r, [req[r] EXCEPT !.pc = "search"])
      /\ UNCHANGED <<database, tx, now>>

\* Mutant: the search leaves access to the re-verification after it.
HybridSearchUnfiltered(r) ==
  LET readable == InScope(SearchScope(req[r].capability))
  IN  /\ req[r].pc = "search"
      /\ \E found \in SUBSET readable :
           /\ found = {} => readable = {}
           /\ Advance(r, [req[r] EXCEPT !.pc = "verify", !.found = found])
      /\ UNCHANGED <<database, tx, cache, now>>

\* hybrid_search, the first time under the caller's scope: at most top_k
\* chunks, so any of the readable documents in scope, and none only when
\* there are none.
HybridSearch(r) ==
  LET readable == AuthorizedDocs(Caller(r), docs, grants, req[r].began)
                    \cap InScope(SearchScope(req[r].capability))
  IN  /\ req[r].pc = "search"
      /\ \E found \in SUBSET readable :
           /\ found = {} => readable = {}
           /\ Advance(r, [req[r] EXCEPT !.pc = "verify", !.found = found])
      /\ UNCHANGED <<database, tx, cache, now>>

\* The question named the capability of a document just found: search again
\* inside that capability, keeping the first context aside.
RouteToNamedCapability(r, d) ==
  LET readable == AuthorizedDocs(Caller(r), docs, grants, req[r].began)
                    \cap InScope(DocCapability[d])
  IN  /\ req[r].pc = "answer"
      /\ ~req[r].scoped
      /\ req[r].capability = UNSCOPED
      /\ d \in req[r].context
      /\ DocCapability[d] # UNSCOPED
      /\ \E found \in SUBSET readable :
           /\ found = {} => readable = {}
           /\ Advance(r, [req[r] EXCEPT
                            !.pc = "verify", !.scoped = TRUE, !.found = found])
      /\ UNCHANGED <<database, tx, cache, now>>

\* Mutant: the second implementation of the ceiling is strict.
VerifyChunksStrictCeiling(r) ==
  LET kept == {d \in req[r].found \cap AuthorizedDocs(Caller(r), docs, grants,
                                                     req[r].began) :
                 docs[d].sensitivity < Caller(r).clearance}
  IN  /\ req[r].pc = "verify"
      /\ Advance(r, [req[r] EXCEPT
                       !.pc = "answer", !.found = {}, !.context = kept,
                       !.anomalous = kept # req[r].found, !.lost = {}])
      /\ UNCHANGED <<database, tx, cache, now>>

\* verify_chunks: drop what the caller may not read now, and note it.  A
\* second search that leaves nothing keeps the first result.
VerifyChunks(r) ==
  LET kept == req[r].found
                \cap AuthorizedDocs(Caller(r), docs, grants, req[r].began)
      keepsFirst == req[r].scoped /\ kept = {}
  IN  /\ req[r].pc = "verify"
      /\ Advance(r, [req[r] EXCEPT
                       !.pc = "answer", !.found = {},
                       !.context = IF keepsFirst THEN @ ELSE kept,
                       !.anomalous = IF keepsFirst THEN @
                                     ELSE kept # req[r].found,
                       !.lost = {}])
      /\ UNCHANGED <<database, tx, cache, now>>

\* Mutant: room is made one insertion too late.
SurvivorsOffByOne(keys) ==
  IF Cardinality(keys) <= CACHE_MAX_ENTRIES
  THEN {keys}
  ELSE {keys \ {oldest} : oldest \in
          {k \in keys : \A other \in keys :
                          cache[k].stored <= cache[other].stored}}

\* The keys that survive cache_put's eviction: a full cache loses its oldest
\* entry, whether or not the new key is already in it.
Survivors(keys) ==
  IF Cardinality(keys) < CACHE_MAX_ENTRIES
  THEN {keys}
  ELSE {keys \ {oldest} : oldest \in
          {k \in keys : \A other \in keys :
                          cache[k].stored <= cache[other].stored}}

\* cache_put, under the key computed before the search; then the answer goes
\* out.  The audit rows were committed before, without a step in between.
AnswerWith(r, result) ==
  /\ req[r].pc = "answer"
  /\ \E keys \in Survivors(DOMAIN cache) :
       cache' = [k \in keys \cup {CacheKey(r)} |->
                   IF k = CacheKey(r)
                   THEN [stored |-> now, result |-> result]
                   ELSE cache[k]]
  /\ Deliver(r, result, FALSE)
  /\ UNCHANGED <<database, tx, now>>

\* The model answers from the context, or there is none and it refuses.
FinaliseAndStore(r) ==
  AnswerWith(r, Result(req[r].context, req[r].anomalous))

\* The context straddles capabilities and the question names none: the answer
\* asks which one was meant, and says nothing of what G4 dropped.
FinaliseClarification(r) ==
  /\ req[r].capability = UNSCOPED
  /\ ~req[r].scoped
  /\ \E d, other \in req[r].context : DocCapability[d] # DocCapability[other]
  /\ AnswerWith(r, Result(req[r].context, FALSE))

\* Embedding or completion fails after its retries, or the client goes away:
\* nothing is stored.
Abandon(r) ==
  /\ InFlight(r)
  /\ Advance(r, IdleRequest)
  /\ UNCHANGED <<database, tx, cache, now>>

-----------------------------------------------------------------------------
(***************************************************************************)
(* Administrative transactions.                                            *)
(***************************************************************************)

\* Rows a pending effect locks until the transaction ends.
Targets(effect) ==
  (DOMAIN effect.docs) \cup (DOMAIN effect.roles) \cup (DOMAIN effect.active)
    \cup {<<g.user, g.doc>> : g \in effect.granted \cup effect.cleared}

Free(targets) == \A a \in Admins : Targets(tx[a].effect) \cap targets = {}

\* The handler has executed its row changes; they are not visible yet.
Mutate(a, effect) ==
  /\ tx[a].pc = "idle"
  /\ version + Cardinality({b \in Admins : tx[b].pc # "idle"}) < MaxVersion
  /\ Free(Targets(effect))
  /\ tx' = [tx EXCEPT ![a] = [pc |-> "changed", effect |-> effect, seen |-> 0]]
  /\ UNCHANGED <<database, cache, req, now>>

\* _get_document: the row exists and belongs to the administrator's tenant.
GetDocument(a, d) ==
  /\ docs[d].status # "absent"
  /\ DocTenant[d] = AdminTenant[a]

ApproveDocument(a, d, roleKeys, sensitivity) ==
  /\ GetDocument(a, d)
  /\ roleKeys # {}
  /\ \A role \in roleKeys : Clearance[role] >= sensitivity
  /\ Mutate(a, [NoEffect EXCEPT !.docs =
       [x \in {d} |-> [status |-> "APPROVED", sensitivity |-> sensitivity,
                       acl |-> roleKeys]]])

\* Also what a replacement does when its content classifies as stricter.
RevokeDocument(a, d) ==
  /\ GetDocument(a, d)
  /\ Mutate(a, [NoEffect EXCEPT !.docs =
       [x \in {d} |-> [docs[d] EXCEPT !.status = "PENDING_REVIEW",
                                      !.acl = {}]]])

\* The foreign key of a grant locks the document against deletion, and a
\* pending deletion makes the insertion of a grant wait, then fail.
GrantPending(d)    == \E a \in Admins :
                        \E g \in tx[a].effect.granted : g.doc = d
DeletionPending(d) == \E a \in Admins :
                        /\ d \in DOMAIN tx[a].effect.docs
                        /\ tx[a].effect.docs[d].status = "absent"

\* ON DELETE CASCADE takes the ACL rows and the per-user grants with it.
DeleteDocument(a, d) ==
  /\ GetDocument(a, d)
  /\ ~GrantPending(d)
  /\ Mutate(a, [NoEffect EXCEPT
       !.docs = [x \in {d} |-> [docs[d] EXCEPT !.status = "absent",
                                               !.acl = {}]],
       !.cleared = {g \in grants : g.doc = d}])

SetUserRoles(a, u, roleKeys) ==
  Mutate(a, [NoEffect EXCEPT !.roles = [x \in {u} |-> roleKeys]])

SetUserActive(a, u, isActive) ==
  Mutate(a, [NoEffect EXCEPT !.active = [x \in {u} |-> isActive]])

\* A grant replaces the one of the same user, document and effect.
AddUserGrant(a, u, d, effect, expires) ==
  /\ docs[d].status # "absent"
  /\ ~DeletionPending(d)
  /\ Mutate(a, [NoEffect EXCEPT
       !.granted = {[user |-> u, doc |-> d, effect |-> effect,
                     expires |-> expires]},
       !.cleared = {g \in grants : g.user = u /\ g.doc = d
                                               /\ g.effect = effect}])

\* Bumps the generation even when there was no grant to remove.
RemoveUserGrants(a, u, d) ==
  Mutate(a, [NoEffect EXCEPT
    !.cleared = {g \in grants : g.user = u /\ g.doc = d}])

\* bump_acl_version reads the counter: the last committed value.
SelectAclVersion(a) ==
  /\ tx[a].pc = "changed"
  /\ version < MaxVersion
  /\ tx' = [tx EXCEPT ![a].pc = "selected", ![a].seen = version]
  /\ UNCHANGED <<database, cache, req, now>>

\* The UPDATE takes the row lock of system_state; a second transaction waits
\* for the first to end.
UpdateAclVersion(a) ==
  /\ tx[a].pc = "selected"
  /\ \A other \in Admins : tx[other].pc # "updated"
  /\ tx' = [tx EXCEPT ![a].pc = "updated"]
  /\ UNCHANGED <<database, cache, req, now>>

Overwrite(table, rows) ==
  [x \in DOMAIN table |-> IF x \in DOMAIN rows THEN rows[x] ELSE table[x]]

\* Every request in flight observes the new tables for its history.
Observe(newDocs, newGrants) ==
  [r \in Requests |->
     IF InFlight(r)
     THEN LET mayRead == VisibleDocs(Caller(r), newDocs, newGrants,
                                     req[r].began)
          IN  [req[r] EXCEPT !.ever = @ \cup mayRead,
                             !.always = @ \cap mayRead,
                             !.lost = @ \cup (req[r].found \ mayRead)]
     ELSE req[r]]

\* Mutant: a handler that forgets bump_acl_version.
CommitWithoutBump(a) ==
  LET effect    == tx[a].effect
      newDocs   == Overwrite(docs, effect.docs)
      newGrants == (grants \ effect.cleared) \cup effect.granted
  IN  /\ tx[a].pc = "updated"
      /\ docs' = newDocs
      /\ grants' = newGrants
      /\ roles' = Overwrite(roles, effect.roles)
      /\ active' = Overwrite(active, effect.active)
      /\ version' = version
      /\ req' = Observe(newDocs, newGrants)
      /\ tx' = [tx EXCEPT ![a] = IdleTx]
      /\ UNCHANGED <<cache, now>>

\* The UPDATE wrote an absolute value: the one read before, plus one.
Commit(a) ==
  LET effect    == tx[a].effect
      newDocs   == Overwrite(docs, effect.docs)
      newGrants == (grants \ effect.cleared) \cup effect.granted
  IN  /\ tx[a].pc = "updated"
      /\ docs' = newDocs
      /\ grants' = newGrants
      /\ roles' = Overwrite(roles, effect.roles)
      /\ active' = Overwrite(active, effect.active)
      /\ version' = tx[a].seen + 1
      /\ req' = Observe(newDocs, newGrants)
      /\ tx' = [tx EXCEPT ![a] = IdleTx]
      /\ UNCHANGED <<cache, now>>

\* get_session rolls back when the handler fails.
Rollback(a) ==
  /\ tx[a].pc # "idle"
  /\ tx' = [tx EXCEPT ![a] = IdleTx]
  /\ UNCHANGED <<database, cache, req, now>>

-----------------------------------------------------------------------------
(***************************************************************************)
(* The process and the clock.                                              *)
(***************************************************************************)

\* POST /cache/clear.
ClearCache ==
  /\ DOMAIN cache # {}
  /\ cache' = Empty
  /\ UNCHANGED <<database, tx, req, now>>

\* The process dies and starts again: what was in memory is gone, open
\* transactions are rolled back, the database stays.
Restart ==
  /\ cache' = Empty
  /\ tx' = [a \in Admins |-> IdleTx]
  /\ req' = [r \in Requests |-> IdleRequest]
  /\ UNCHANGED <<database, now>>

Tick ==
  /\ now < MaxTime
  /\ now' = now + 1
  /\ UNCHANGED <<database, tx, cache, req>>

RequestStep(r) ==
  \/ \E q \in Questions, capability \in Capabilities : Ask(r, q, capability)
  \/ \E q \in Questions, capability \in Capabilities, role \in Roles :
       CompareRole(r, role, q, capability)
  \/ GetAclVersion(r)
  \/ CacheHit(r)
  \/ CacheMiss(r)
  \/ HybridSearch(r)
  \/ \E d \in Docs : RouteToNamedCapability(r, d)
  \/ VerifyChunks(r)
  \/ FinaliseAndStore(r)
  \/ FinaliseClarification(r)
  \/ Abandon(r)

AdminStep(a) ==
  \/ \E d \in Docs, roleKeys \in SUBSET Roles, sensitivity \in Sensitivities :
       ApproveDocument(a, d, roleKeys, sensitivity)
  \/ \E d \in Docs : RevokeDocument(a, d)
  \/ \E d \in Docs : DeleteDocument(a, d)
  \/ \E u \in Users, roleKeys \in SUBSET Roles : SetUserRoles(a, u, roleKeys)
  \/ \E u \in Users, isActive \in BOOLEAN : SetUserActive(a, u, isActive)
  \/ \E u \in Users, d \in Docs, effect \in GrantEffects,
        expires \in GrantExpiries : AddUserGrant(a, u, d, effect, expires)
  \/ \E u \in Users, d \in Docs : RemoveUserGrants(a, u, d)
  \/ SelectAclVersion(a)
  \/ UpdateAclVersion(a)
  \/ Commit(a)
  \/ Rollback(a)

Next ==
  \/ \E r \in Requests : RequestStep(r)
  \/ \E a \in Admins : AdminStep(a)
  \/ ClearCache
  \/ Restart
  \/ Tick

Spec == Init /\ [][Next]_vars

-----------------------------------------------------------------------------
(***************************************************************************)
(* Properties.                                                             *)
(***************************************************************************)

\* No two administrative transactions are ever in flight together.
SerialAdmins == \A a, b \in Admins : a = b

\* Access comes from roles alone: no per-user ALLOW or DENY is ever added.
NoPerUserGrants == GrantEffects = {}

Times == 0..MaxTime

Versions == 1..MaxVersion

PartialFunctions(S, T) == UNION {[U -> T] : U \in SUBSET S}

EffectType ==
  [docs : PartialFunctions(Docs, DocumentRow),
   roles : PartialFunctions(Users, SUBSET Roles),
   active : PartialFunctions(Users, BOOLEAN),
   granted : SUBSET GrantRow(GrantExpiries),
   cleared : SUBSET GrantRow(GrantExpiries)]

TxType ==
  [pc : {"idle", "changed", "selected", "updated"},
   effect : EffectType,
   seen : 0..(MaxVersion - 1)]

KeyType ==
  [question : Questions,
   fingerprint : [tenant : Tenants, roles : SUBSET Roles, clearance : 0..4],
   version : Versions,
   capability : Capabilities]

EntryType ==
  [stored : Times, result : [sources : SUBSET Docs, anomalous : BOOLEAN]]

RequestType ==
  [pc : {"idle", "version", "lookup", "search", "verify", "answer", "done"},
   roles : SUBSET Roles, question : Questions, capability : Capabilities,
   began : Times, version : 0..MaxVersion, scoped : BOOLEAN,
   found : SUBSET Docs, context : SUBSET Docs, anomalous : BOOLEAN,
   cached : BOOLEAN, ever : SUBSET Docs, always : SUBSET Docs,
   lost : SUBSET Docs]

\* The principal is loaded and acl_version read, the answer not yet given.
Carries(r) == req[r].pc \in {"lookup", "search", "verify", "answer"}

(***************************************************************************)
(* Type invariant.  A request that computes a cache key carries a version  *)
(* the database has really had: get_acl_version never yields 0.            *)
(***************************************************************************)
TypeOK ==
  /\ docs \in [Docs -> DocumentRow]
  /\ grants \subseteq GrantRow(GrantExpiries)
  /\ roles \in [Users -> SUBSET Roles]
  /\ active \in [Users -> BOOLEAN]
  /\ version \in Versions
  /\ tx \in [Admins -> TxType]
  /\ DOMAIN cache \subseteq KeyType
  /\ \A key \in DOMAIN cache : cache[key] \in EntryType
  /\ req \in [Requests -> RequestType]
  /\ \A r \in Requests : Carries(r) => req[r].version \in Versions
  /\ now \in Times

(***************************************************************************)
(* What a finished request is given, from the cache or not, was drawn from *)
(* documents its caller could read at some instant of that very request    *)
(* (G3, G4 and G7 together).                                               *)
(***************************************************************************)
ServedWasReadable ==
  \A r \in Requests :
    req[r].pc = "done" => req[r].context \subseteq req[r].ever

(***************************************************************************)
(* A refusal for want of documents, from the cache or not, is true: no     *)
(* document in the requested scope was readable by the caller during the   *)
(* whole request.  A search whose chunks G4 dropped is the exception, and  *)
(* is marked anomalous.  The search is taken to find something whenever    *)
(* something is readable; a refusal the model words over a context is an   *)
(* answer here, as it is to the code.                                      *)
(***************************************************************************)
RefusalWasTrue ==
  \A r \in Requests :
    /\ req[r].pc = "done"
    /\ req[r].context = {}
    /\ ~req[r].anomalous
    => req[r].always \cap InScope(SearchScope(req[r].capability)) = {}

(***************************************************************************)
(* An answer generated for this request, per-user grants and concurrent    *)
(* administrators included, never draws on a document the caller could not *)
(* read while the request ran.                                             *)
(***************************************************************************)
FreshWasReadable ==
  \A r \in Requests :
    /\ req[r].pc \in {"answer", "done"}
    /\ ~req[r].cached
    => req[r].context \subseteq req[r].ever

(***************************************************************************)
(* G4 raises no false alarm and drops nothing without cause: whatever      *)
(* verify_chunks drops, a commit between the search that found it and this *)
(* very re-verification took from the caller, and a SECURITY_ANOMALY is    *)
(* noted for nothing else.                                                 *)
(***************************************************************************)
AnomalyMeansChange ==
  [][ \A r \in Requests :
        req[r].pc = "verify" /\ req'[r].pc = "answer" =>
          LET dropped == req[r].found \ req'[r].context
          IN  /\ dropped \subseteq req[r].lost
              /\ req'[r].anomalous => req[r].anomalous \/ dropped # {} ]_vars

(***************************************************************************)
(* The cache never holds more than _CACHE_MAX_ENTRIES results.             *)
(***************************************************************************)
CacheBounded == Cardinality(DOMAIN cache) <= CACHE_MAX_ENTRIES

(***************************************************************************)
(* "Any ACL, role or document-status change increments acl_version"        *)
(* (models.py, SystemState): no step makes a new access state visible      *)
(* under a version that some cached answer may already carry.              *)
(***************************************************************************)
EveryChangeBumps ==
  [][ <<docs, grants, roles, active>>' # <<docs, grants, roles, active>>
      => version' > version ]_vars

-----------------------------------------------------------------------------
(***************************************************************************)
(* Why ServedWasReadable and RefusalWasTrue hold when administrators work  *)
(* one at a time and access comes from roles alone: the inductive          *)
(* invariant, in named parts.                                              *)
(***************************************************************************)

\* What a principal reads when nobody has a grant of their own: a function of
\* its fingerprint.
RoleReadable(fingerprint) == VisibleDocs(fingerprint, docs, {}, 0)

Fingerprint(r) == AclFingerprint(Caller(r))

NoGrants ==
  /\ grants = {}
  /\ \A a \in Admins : tx[a].effect.granted = {}

\* The counter a transaction has read is still the committed one.
SeenIsCurrent ==
  \A a \in Admins : tx[a].pc \in {"selected", "updated"} => tx[a].seen = version

\* No key, stored or carried, is ahead of the counter: a bump outdates them all.
NoKeyFromTheFuture ==
  /\ \A key \in DOMAIN cache : key.version <= version
  /\ \A r \in Requests : Carries(r) => req[r].version <= version

\* The history covers the present.
HistoryCoversNow ==
  \A r \in Requests :
    InFlight(r) => /\ RoleReadable(Fingerprint(r)) \subseteq req[r].ever
                   /\ req[r].always \subseteq RoleReadable(Fingerprint(r))

\* Nothing is collected before the version is read, and a second search is
\* only made when the first one gave something.
ContextAfterSearch ==
  \A r \in Requests :
    /\ req[r].pc \in {"version", "lookup", "search"}
         => req[r].context = {} /\ ~req[r].scoped
    /\ req[r].pc = "verify" /\ ~req[r].scoped => req[r].context = {}
    /\ InFlight(r) /\ req[r].scoped => req[r].context # {}

\* What is stored, or about to be, under the current version is readable now
\* by everyone with that fingerprint ...
CurrentIsReadable ==
  /\ \A key \in DOMAIN cache :
       key.version = version
         => cache[key].result.sources \subseteq RoleReadable(key.fingerprint)
  /\ \A r \in Requests :
       Carries(r) /\ req[r].version = version
         => req[r].context \subseteq RoleReadable(Fingerprint(r))

\* ... and under an older version, was readable to those still carrying it.
CarriedWasReadable ==
  \A s \in Requests : Carries(s) =>
    /\ \A key \in DOMAIN cache :
         key.version = req[s].version /\ key.fingerprint = Fingerprint(s)
           => cache[key].result.sources \subseteq req[s].ever
    /\ \A r \in Requests :
         /\ Carries(r)
         /\ req[r].version = req[s].version
         /\ Fingerprint(r) = Fingerprint(s)
         => req[r].context \subseteq req[s].ever

(***************************************************************************)
(* The strengthening of ServedWasReadable that every step preserves.       *)
(***************************************************************************)
ServedInv ==
  /\ NoGrants
  /\ SeenIsCurrent
  /\ NoKeyFromTheFuture
  /\ HistoryCoversNow
  /\ ContextAfterSearch
  /\ CurrentIsReadable
  /\ CarriedWasReadable
  /\ ServedWasReadable

(***************************************************************************)
(* The strengthening of FreshWasReadable and AnomalyMeansChange that every *)
(* step preserves, whatever administrators and grants do: the history      *)
(* covers the present, what was found or taken into the context lies in    *)
(* the history, and what was found is still readable unless it was lost.   *)
(***************************************************************************)
FreshInv ==
  \A r \in Requests :
    LET readable == VisibleDocs(Caller(r), docs, grants, req[r].began)
    IN  /\ InFlight(r) => /\ ~req[r].cached
                          /\ readable \subseteq req[r].ever
                          /\ req[r].always \subseteq readable
                          /\ req[r].found \subseteq readable \cup req[r].lost
        /\ req[r].found \subseteq req[r].ever
        /\ ~req[r].cached => req[r].context \subseteq req[r].ever

\* A result that says "nothing you may read answers this", stored or coming.
Refusal(result) == result.sources = {} /\ ~result.anomalous

Refusing(r) ==
  \/ req[r].pc = "verify" /\ ~req[r].scoped /\ req[r].found = {}
  \/ req[r].pc = "answer" /\ req[r].context = {} /\ ~req[r].anomalous

\* A refusal under the current version is still true for its fingerprint and
\* scope ...
CurrentRefusalIsTrue ==
  /\ \A key \in DOMAIN cache :
       key.version = version /\ Refusal(cache[key].result)
         => RoleReadable(key.fingerprint)
              \cap InScope(SearchScope(key.capability)) = {}
  /\ \A r \in Requests :
       Refusing(r) /\ req[r].version = version
         => RoleReadable(Fingerprint(r))
              \cap InScope(SearchScope(req[r].capability)) = {}

\* ... and under an older version was true for those still carrying it.
CarriedRefusalWasTrue ==
  \A s \in Requests : Carries(s) =>
    /\ \A key \in DOMAIN cache :
         /\ key.version = req[s].version
         /\ key.fingerprint = Fingerprint(s)
         /\ key.capability = req[s].capability
         /\ Refusal(cache[key].result)
         => req[s].always \cap InScope(SearchScope(req[s].capability)) = {}
    /\ \A r \in Requests :
         /\ Refusing(r)
         /\ req[r].version = req[s].version
         /\ Fingerprint(r) = Fingerprint(s)
         /\ req[r].capability = req[s].capability
         => req[s].always \cap InScope(SearchScope(req[s].capability)) = {}

(***************************************************************************)
(* The strengthening of RefusalWasTrue that every step preserves.          *)
(***************************************************************************)
RefusalInv ==
  /\ CurrentRefusalIsTrue
  /\ CarriedRefusalWasTrue
  /\ RefusalWasTrue
=============================================================================

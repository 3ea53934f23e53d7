------------------------- MODULE AnswerCacheServed -------------------------
(***************************************************************************)
(* Proof that AnswerCache serves nothing its caller could not read and     *)
(* refuses nobody who could have been answered, when administrators work   *)
(* one at a time and nobody has a grant of their own.                      *)
(***************************************************************************)
EXTENDS AnswerCacheProofs

-----------------------------------------------------------------------------
(***************************************************************************)
(* Without per-user grants, what a principal reads depends on its          *)
(* fingerprint alone: neither on who it is nor on the time.                *)
(***************************************************************************)
LEMMA FingerprintDecides ==
  ASSUME NEW p, NEW table, NEW t
  PROVE  VisibleDocs(p, table, {}, t)
           = VisibleDocs(AclFingerprint(p), table, {}, 0)
<1>1. /\ AclFingerprint(p).tenant = p.tenant
      /\ AclFingerprint(p).roles = p.roles
      /\ AclFingerprint(p).clearance = p.clearance
  BY DEF AclFingerprint
<1>2. ASSUME NEW q, NEW d, NEW e, NEW s
      PROVE  Granted(q, d, {}, e, s) = FALSE
  BY DEF Granted
<1>3. ASSUME NEW d \in Docs
      PROVE  Visible(p, d, table, {}, t)
               <=> Visible(AclFingerprint(p), d, table, {}, 0)
  BY <1>1, <1>2 DEF Visible
<1> QED
  BY <1>3 DEF VisibleDocs

\* The parts of the cache invariant that concern one request only.
OwnPart(f, r) ==
  LET readable == VisibleDocs(AclFingerprint(PrincipalOf(Asker[r], f.roles)),
                              docs, {}, 0)
  IN  /\ f.pc \notin {"idle", "done"}
           => readable \subseteq f.ever /\ f.always \subseteq readable
      /\ f.pc \in {"version", "lookup", "search"}
           => f.context = {} /\ ~f.scoped
      /\ f.pc = "verify" /\ ~f.scoped => f.context = {}
      /\ f.pc \notin {"idle", "done"} /\ f.scoped => f.context # {}
      /\ f.pc = "done" => f.context \subseteq f.ever

\* A request that carries a version goes on with what it had, or has just read
\* the version, or has just collected what is readable now.
Goes(f, r) ==
  f.pc \in {"lookup", "search", "verify", "answer"} =>
    /\ f.version <= version
    /\ \/ f.context \subseteq
            VisibleDocs(AclFingerprint(PrincipalOf(Asker[r], f.roles)),
                        docs, {}, 0)
       \/ /\ Carries(r)
          /\ f.version = req[r].version
          /\ f.roles = req[r].roles
          /\ f.context = req[r].context
    /\ \/ f.version = version
       \/ /\ Carries(r)
          /\ f.version = req[r].version
          /\ f.roles = req[r].roles
          /\ f.ever = req[r].ever

\* The cache keeps entries, and gains at most the context of r under its key.
CacheFollows(r) ==
  \A key \in DOMAIN cache' :
    \/ key \in DOMAIN cache /\ cache'[key] = cache[key]
    \/ /\ Carries(r)
       /\ key = CacheKey(r)
       /\ cache'[key].result.sources = req[r].context

LEMMA RequestStepServed ==
  ASSUME TypeOK, ServedInv, TypeOK',
         NEW r \in Requests, NEW f \in RequestType, Advance(r, f),
         UNCHANGED <<database, tx>>,
         OwnPart(f, r), Goes(f, r), CacheFollows(r)
  PROVE  ServedInv'
<1> USE DEF RoleReadable, Fingerprint, Caller
<1>1. /\ req'[r] = f
      /\ \A s \in Requests : s # r => req'[s] = req[s]
  BY DEF Advance, TypeOK
<1>2. docs' = docs /\ grants' = grants /\ version' = version /\ tx' = tx
  BY DEF database
<1>3. version \in Nat
  BY BoundsAssumption DEF TypeOK, Versions
<1>4. NoGrants' /\ SeenIsCurrent'
  BY <1>2 DEF ServedInv, NoGrants, SeenIsCurrent
<1>5. NoKeyFromTheFuture'
  <2>1. \A key \in DOMAIN cache' : key.version <= version
    BY DEF CacheFollows, CacheKey, ServedInv, NoKeyFromTheFuture
  <2>2. \A s \in Requests : Carries(s)' => req'[s].version <= version
    BY <1>1 DEF Goes, ServedInv, NoKeyFromTheFuture, Carries
  <2> QED
    BY <1>2, <2>1, <2>2 DEF NoKeyFromTheFuture
<1>6. HistoryCoversNow'
  BY <1>1, <1>2 DEF OwnPart, ServedInv, HistoryCoversNow, InFlight
<1>7. ContextAfterSearch'
  BY <1>1, <1>2 DEF OwnPart, ServedInv, ContextAfterSearch, InFlight
<1>8. CurrentIsReadable'
  <2>1. ASSUME NEW s \in Requests, Carries(s)', req'[s].version = version
        PROVE  req'[s].context
                 \subseteq VisibleDocs(AclFingerprint(PrincipalOf(
                             Asker[s], req'[s].roles)), docs, {}, 0)
    BY <1>1, <2>1 DEF Goes, Carries, ServedInv, CurrentIsReadable
  <2>2. ASSUME NEW key \in DOMAIN cache', key.version = version
        PROVE  cache'[key].result.sources
                 \subseteq VisibleDocs(key.fingerprint, docs, {}, 0)
    BY <2>2 DEF CacheFollows, CacheKey, ServedInv, CurrentIsReadable
  <2> QED
    BY <1>2, <2>1, <2>2 DEF CurrentIsReadable
<1>9. CarriedWasReadable'
  <2> SUFFICES ASSUME NEW s \in Requests, Carries(s)'
      PROVE  /\ \A key \in DOMAIN cache' :
                  /\ key.version = req'[s].version
                  /\ key.fingerprint = AclFingerprint(PrincipalOf(
                                         Asker[s], req'[s].roles))
                  => cache'[key].result.sources \subseteq req'[s].ever
             /\ \A r2 \in Requests :
                  /\ Carries(r2)'
                  /\ req'[r2].version = req'[s].version
                  /\ AclFingerprint(PrincipalOf(Asker[r2], req'[r2].roles))
                       = AclFingerprint(PrincipalOf(Asker[s], req'[s].roles))
                  => req'[r2].context \subseteq req'[s].ever
    BY DEF CarriedWasReadable
  <2> DEFINE readable == VisibleDocs(AclFingerprint(PrincipalOf(
                           Asker[s], req'[s].roles)), docs, {}, 0)
  <2>1. readable \subseteq req'[s].ever
    BY <1>2, <1>6 DEF HistoryCoversNow, InFlight, Carries
  <2>2. \/ req'[s].version = version
        \/ /\ Carries(s)
           /\ req'[s].version = req[s].version
           /\ req'[s].roles = req[s].roles
           /\ req'[s].ever = req[s].ever
    BY <1>1 DEF Goes, Carries
  <2>3. ASSUME NEW key \in DOMAIN cache', key.version = req'[s].version,
               key.fingerprint
                 = AclFingerprint(PrincipalOf(Asker[s], req'[s].roles))
        PROVE  cache'[key].result.sources \subseteq req'[s].ever
    <3>1. CASE req'[s].version = version
      BY <1>2, <1>8, <2>1, <2>3, <3>1 DEF CurrentIsReadable
    <3>2. CASE /\ Carries(s)
               /\ req'[s].version = req[s].version
               /\ req'[s].roles = req[s].roles
               /\ req'[s].ever = req[s].ever
      BY <2>3, <3>2
      DEF CacheFollows, CacheKey, ServedInv, CarriedWasReadable
    <3> QED
      BY <2>2, <3>1, <3>2
  <2>4. ASSUME NEW r2 \in Requests, Carries(r2)',
               req'[r2].version = req'[s].version,
               AclFingerprint(PrincipalOf(Asker[r2], req'[r2].roles))
                 = AclFingerprint(PrincipalOf(Asker[s], req'[s].roles))
        PROVE  req'[r2].context \subseteq req'[s].ever
    <3>1. CASE req'[r2].context
                 \subseteq VisibleDocs(AclFingerprint(PrincipalOf(
                             Asker[r2], req'[r2].roles)), docs, {}, 0)
      BY <2>1, <2>4, <3>1
    <3>2. CASE /\ Carries(r2)
               /\ req'[r2].version = req[r2].version
               /\ req'[r2].roles = req[r2].roles
               /\ req'[r2].context = req[r2].context
      <4>1. CASE req'[s].version = version
        BY <1>2, <1>8, <2>1, <2>4, <4>1 DEF CurrentIsReadable
      <4>2. CASE /\ Carries(s)
                 /\ req'[s].version = req[s].version
                 /\ req'[s].roles = req[s].roles
                 /\ req'[s].ever = req[s].ever
        BY <2>4, <3>2, <4>2 DEF ServedInv, CarriedWasReadable
      <4> QED
        BY <2>2, <4>1, <4>2
    <3> QED
      BY <1>1, <2>4, <3>1, <3>2 DEF Goes, Carries
  <2> QED
    BY <2>3, <2>4
<1>10. ServedWasReadable'
  BY <1>1 DEF OwnPart, ServedInv, ServedWasReadable
<1> QED
  BY <1>4, <1>5, <1>6, <1>7, <1>8, <1>9, <1>10 DEF ServedInv

\* What an unchanged cache, or one that only loses entries, satisfies.
LEMMA CacheShrinks ==
  ASSUME NEW r \in Requests,
         \A key \in DOMAIN cache' : key \in DOMAIN cache
                                      /\ cache'[key] = cache[key]
  PROVE  CacheFollows(r)
  BY DEF CacheFollows

LEMMA BeginServed ==
  ASSUME TypeOK, ServedInv, TypeOK', NEW r \in Requests,
         NEW callerRoles \in SUBSET Roles, NEW q \in Questions,
         NEW capability \in Capabilities,
         Begin(r, callerRoles, q, capability),
         UNCHANGED <<database, tx, cache, now>>
  PROVE  ServedInv'
<1> DEFINE p == PrincipalOf(Asker[r], callerRoles)
           mayRead == VisibleDocs(p, docs, grants, now)
           f == [IdleRequest EXCEPT
                    !.pc = "version", !.roles = callerRoles, !.question = q,
                    !.capability = capability, !.began = now,
                    !.ever = mayRead, !.always = mayRead]
<1>1. mayRead = VisibleDocs(AclFingerprint(p), docs, {}, 0)
  BY FingerprintDecides DEF ServedInv, NoGrants
<1>2. mayRead \in SUBSET Docs
  BY DEF VisibleDocs
<1> HIDE DEF mayRead
<1>3. f \in RequestType /\ f.pc = "version" /\ f.roles = callerRoles
      /\ f.context = {} /\ f.scoped = FALSE
      /\ f.ever = mayRead /\ f.always = mayRead
  BY <1>2, IdleRequestTyped DEF TypeOK, RequestType, IdleRequest
<1>4. Advance(r, f)
  BY DEF Begin, mayRead
<1> HIDE DEF f
<1>5. OwnPart(f, r)
  BY <1>1, <1>3 DEF OwnPart
<1>6. Goes(f, r)
  BY <1>3 DEF Goes
<1>7. CacheFollows(r)
  BY CacheShrinks
<1> QED
  BY <1>3, <1>4, <1>5, <1>6, <1>7, RequestStepServed

LEMMA GetAclVersionServed ==
  ASSUME TypeOK, ServedInv, TypeOK', NEW r \in Requests, GetAclVersion(r)
  PROVE  ServedInv'
<1> DEFINE f == [req[r] EXCEPT !.pc = "lookup", !.version = version]
<1>1. version \in Versions /\ version \in 0..MaxVersion /\ version \in Nat
  BY BoundsAssumption DEF TypeOK, Versions
<1>2. /\ req[r] \in RequestType
      /\ req[r].pc = "version"
  BY DEF TypeOK, GetAclVersion
<1>3. /\ f \in RequestType
      /\ f.pc = "lookup"
      /\ f.version = version
      /\ f.context = {}
      /\ f.context = req[r].context
      /\ f.scoped = req[r].scoped
      /\ f.roles = req[r].roles
      /\ f.ever = req[r].ever
      /\ f.always = req[r].always
  BY <1>1, <1>2 DEF RequestType, ServedInv, ContextAfterSearch
<1>4. Advance(r, f)
  BY DEF GetAclVersion
<1> HIDE DEF f
<1>5. OwnPart(f, r)
  BY <1>2, <1>3 DEF OwnPart, ServedInv, HistoryCoversNow, ContextAfterSearch,
                    InFlight, RoleReadable, Fingerprint, Caller
<1>6. Goes(f, r)
  BY <1>1, <1>3 DEF Goes
<1>7. CacheFollows(r)
  BY CacheShrinks DEF GetAclVersion
<1> QED
  BY <1>3, <1>4, <1>5, <1>6, <1>7, RequestStepServed DEF GetAclVersion

\* A request that ends keeps only its answer and its history.
LEMMA DeliverServed ==
  ASSUME TypeOK, ServedInv, TypeOK', NEW r \in Requests,
         NEW result \in [sources : SUBSET Docs, anomalous : BOOLEAN],
         NEW fromCache \in BOOLEAN, Deliver(r, result, fromCache),
         result.sources \subseteq req[r].ever,
         UNCHANGED <<database, tx>>, CacheFollows(r)
  PROVE  ServedInv'
<1> DEFINE f == [IdleRequest EXCEPT
                !.pc = "done", !.cached = fromCache,
                !.capability = req[r].capability,
                !.context = result.sources, !.anomalous = result.anomalous,
                !.ever = req[r].ever, !.always = req[r].always]
<1>1. f \in RequestType /\ f.pc = "done"
      /\ f.context = result.sources /\ f.ever = req[r].ever
  BY IdleRequestTyped DEF TypeOK, RequestType
<1>2. Advance(r, f)
  BY DEF Deliver
<1> HIDE DEF f
<1>3. OwnPart(f, r) /\ Goes(f, r)
  BY <1>1 DEF OwnPart, Goes
<1> QED
  BY <1>1, <1>2, <1>3, RequestStepServed

LEMMA CacheHitServed ==
  ASSUME TypeOK, ServedInv, TypeOK', NEW r \in Requests, CacheHit(r)
  PROVE  ServedInv'
<1> DEFINE result == cache[CacheKey(r)].result
<1>1. CacheKey(r) \in DOMAIN cache /\ Deliver(r, result, TRUE)
  BY DEF CacheHit
<1>2. result \in [sources : SUBSET Docs, anomalous : BOOLEAN]
  BY <1>1 DEF TypeOK, EntryType
<1>3. Carries(r)
  BY DEF CacheHit, Carries
<1>4. CacheKey(r).version = req[r].version
      /\ CacheKey(r).fingerprint = Fingerprint(r)
  BY DEF CacheKey, Fingerprint
<1>5. result.sources \subseteq req[r].ever
  BY <1>1, <1>3, <1>4 DEF ServedInv, CarriedWasReadable
<1>6. CacheFollows(r)
  BY CacheShrinks DEF CacheHit
<1> QED
  BY <1>1, <1>2, <1>5, <1>6, DeliverServed DEF CacheHit

\* A step of a request between its version and its answer that keeps its
\* version, its principal and its history.
LEMMA OnwardServed ==
  ASSUME TypeOK, ServedInv, TypeOK', NEW r \in Requests, Carries(r),
         NEW f \in RequestType, Advance(r, f),
         f.pc \in {"search", "verify", "answer"},
         f.version = req[r].version, f.roles = req[r].roles,
         f.ever = req[r].ever, f.always = req[r].always,
         \/ f.context = req[r].context
         \/ f.context \subseteq RoleReadable(Fingerprint(r)),
         f.scoped => f.context # {},
         f.pc = "search" => f.context = {} /\ ~f.scoped,
         f.pc = "verify" /\ ~f.scoped => f.context = {},
         UNCHANGED <<database, tx>>, CacheFollows(r)
  PROVE  ServedInv'
<1>1. OwnPart(f, r)
  BY DEF OwnPart, ServedInv, HistoryCoversNow, InFlight, Carries,
         RoleReadable, Fingerprint, Caller
<1>2. Goes(f, r)
  BY DEF Goes, ServedInv, NoKeyFromTheFuture, RoleReadable, Fingerprint, Caller
<1> QED
  BY <1>1, <1>2, RequestStepServed

LEMMA CacheMissServed ==
  ASSUME TypeOK, ServedInv, TypeOK', NEW r \in Requests, CacheMiss(r)
  PROVE  ServedInv'
<1> DEFINE f == [req[r] EXCEPT !.pc = "search"]
<1>1. req[r] \in RequestType /\ req[r].pc = "lookup" /\ Carries(r)
  BY DEF TypeOK, CacheMiss, Carries
<1>2. f \in RequestType /\ f.pc = "search"
      /\ f.context = req[r].context /\ f.scoped = req[r].scoped
      /\ f.version = req[r].version /\ f.roles = req[r].roles
      /\ f.ever = req[r].ever /\ f.always = req[r].always
      /\ f.context = {} /\ ~f.scoped
  BY <1>1 DEF RequestType, ServedInv, ContextAfterSearch
<1>3. Advance(r, f) /\ UNCHANGED <<database, tx>>
  BY DEF CacheMiss
<1> HIDE DEF f
<1>4. CacheFollows(r)
  BY CacheShrinks DEF CacheMiss
<1> QED
  BY <1>1, <1>2, <1>3, <1>4, OnwardServed

LEMMA HybridSearchServed ==
  ASSUME TypeOK, ServedInv, TypeOK', NEW r \in Requests, HybridSearch(r)
  PROVE  ServedInv'
<1>1. PICK found \in SUBSET Docs :
        Advance(r, [req[r] EXCEPT !.pc = "verify", !.found = found])
  BY DEF HybridSearch, AuthorizedDocs, VisibleDocs
<1> DEFINE f == [req[r] EXCEPT !.pc = "verify", !.found = found]
<1>2. req[r] \in RequestType /\ req[r].pc = "search" /\ Carries(r)
  BY DEF TypeOK, HybridSearch, Carries
<1>3. f \in RequestType /\ f.pc = "verify"
      /\ f.context = req[r].context /\ f.scoped = req[r].scoped
      /\ f.version = req[r].version /\ f.roles = req[r].roles
      /\ f.ever = req[r].ever /\ f.always = req[r].always
      /\ f.context = {} /\ ~f.scoped
  BY <1>2 DEF RequestType, ServedInv, ContextAfterSearch
<1>4. Advance(r, f)
  BY <1>1
<1> HIDE DEF f
<1>5. CacheFollows(r)
  BY CacheShrinks DEF HybridSearch
<1> QED
  BY <1>2, <1>3, <1>4, <1>5, OnwardServed DEF HybridSearch

LEMMA RouteServed ==
  ASSUME TypeOK, ServedInv, TypeOK', NEW r \in Requests, NEW d \in Docs,
         RouteToNamedCapability(r, d)
  PROVE  ServedInv'
<1>1. PICK found \in SUBSET Docs :
        Advance(r, [req[r] EXCEPT
                      !.pc = "verify", !.scoped = TRUE, !.found = found])
  BY DEF RouteToNamedCapability, AuthorizedDocs, VisibleDocs
<1> DEFINE f == [req[r] EXCEPT
                   !.pc = "verify", !.scoped = TRUE, !.found = found]
<1>2. req[r] \in RequestType /\ d \in req[r].context /\ Carries(r)
  BY DEF TypeOK, RouteToNamedCapability, Carries
<1>3. f \in RequestType /\ f.pc = "verify" /\ f.scoped = TRUE
      /\ f.context = req[r].context
      /\ f.version = req[r].version /\ f.roles = req[r].roles
      /\ f.ever = req[r].ever /\ f.always = req[r].always
  BY <1>2 DEF RequestType
<1>4. Advance(r, f)
  BY <1>1
<1> HIDE DEF f
<1>5. CacheFollows(r)
  BY CacheShrinks DEF RouteToNamedCapability
<1> QED
  BY <1>2, <1>3, <1>4, <1>5, OnwardServed DEF RouteToNamedCapability

LEMMA VerifyChunksServed ==
  ASSUME TypeOK, ServedInv, TypeOK', NEW r \in Requests, VerifyChunks(r)
  PROVE  ServedInv'
<1> DEFINE readable == AuthorizedDocs(Caller(r), docs, grants, req[r].began)
           kept == req[r].found \cap readable
           keepsFirst == req[r].scoped /\ kept = {}
           context == IF keepsFirst THEN req[r].context ELSE kept
           anomalous == IF keepsFirst THEN req[r].anomalous
                        ELSE kept # req[r].found
           f == [req[r] EXCEPT !.pc = "answer", !.found = {},
                               !.context = context, !.anomalous = anomalous,
                               !.lost = {}]
<1>1. req[r] \in RequestType /\ req[r].pc = "verify" /\ Carries(r)
  BY DEF TypeOK, VerifyChunks, Carries
<1>2. readable \subseteq RoleReadable(Fingerprint(r))
  <2>1. VisibleDocs(Caller(r), docs, grants, req[r].began)
          = RoleReadable(Fingerprint(r))
    BY FingerprintDecides DEF ServedInv, NoGrants, RoleReadable, Fingerprint
  <2> QED
    BY <2>1 DEF AuthorizedDocs
<1>3. Advance(r, f)
  BY DEF VerifyChunks
<1> HIDE DEF readable
<1>4. context \in SUBSET Docs /\ anomalous \in BOOLEAN
  BY <1>1 DEF RequestType
<1>5. \/ context = req[r].context
      \/ context \subseteq RoleReadable(Fingerprint(r))
  BY <1>2
<1>6. req[r].scoped => context # {}
  BY <1>1 DEF ServedInv, ContextAfterSearch, InFlight
<1> HIDE DEF context, anomalous
<1>7. f \in RequestType /\ f.pc = "answer"
      /\ f.context = context /\ f.scoped = req[r].scoped
      /\ f.version = req[r].version /\ f.roles = req[r].roles
      /\ f.ever = req[r].ever /\ f.always = req[r].always
  BY <1>1, <1>4 DEF RequestType
<1> HIDE DEF f
<1>8. CacheFollows(r)
  BY CacheShrinks DEF VerifyChunks
<1> QED
  BY <1>1, <1>3, <1>5, <1>6, <1>7, <1>8, OnwardServed DEF VerifyChunks

LEMMA AnswerWithServed ==
  ASSUME TypeOK, ServedInv, TypeOK', NEW r \in Requests,
         NEW anomalous \in BOOLEAN,
         AnswerWith(r, Result(req[r].context, anomalous))
  PROVE  ServedInv'
<1> DEFINE result == Result(req[r].context, anomalous)
<1>1. Carries(r)
  BY DEF AnswerWith, Carries
<1>2. result \in [sources : SUBSET Docs, anomalous : BOOLEAN]
  BY DEF TypeOK, RequestType, Result
<1>3. result.sources = req[r].context
  BY DEF Result
<1>4. req[r].context \subseteq req[r].ever
  BY <1>1 DEF ServedInv, CarriedWasReadable
<1>5. CacheFollows(r)
  <2>1. PICK keys \in Survivors(DOMAIN cache) :
          cache' = [k \in keys \cup {CacheKey(r)} |->
                      IF k = CacheKey(r)
                      THEN [stored |-> now, result |-> result]
                      ELSE cache[k]]
    BY DEF AnswerWith
  <2>2. keys \subseteq DOMAIN cache
    BY <2>1 DEF Survivors
  <2> HIDE DEF result
  <2> QED
    BY <1>1, <1>3, <2>1, <2>2 DEF CacheFollows
<1> QED
  BY <1>2, <1>3, <1>4, <1>5, DeliverServed DEF AnswerWith

LEMMA AbandonServed ==
  ASSUME TypeOK, ServedInv, TypeOK', NEW r \in Requests, Abandon(r)
  PROVE  ServedInv'
<1>1. OwnPart(IdleRequest, r) /\ Goes(IdleRequest, r)
  BY DEF OwnPart, Goes, IdleRequest
<1>2. CacheFollows(r)
  BY CacheShrinks DEF Abandon
<1> QED
  BY <1>1, <1>2, IdleRequestTyped, RequestStepServed DEF Abandon

LEMMA RequestServed ==
  ASSUME TypeOK, ServedInv, TypeOK', NEW r \in Requests, RequestStep(r)
  PROVE  ServedInv'
<1>1. ASSUME NEW q \in Questions, NEW c \in Capabilities, Ask(r, q, c)
      PROVE  ServedInv'
  <2>1. roles[Asker[r]] \in SUBSET Roles
    BY AskerAssumption DEF TypeOK
  <2> QED
    BY <1>1, <2>1, BeginServed DEF Ask
<1>2. ASSUME NEW q \in Questions, NEW c \in Capabilities, NEW role \in Roles,
             CompareRole(r, role, q, c)
      PROVE  ServedInv'
  BY <1>2, BeginServed DEF CompareRole
<1>3. CASE FinaliseAndStore(r)
  BY <1>3, AnswerWithServed DEF FinaliseAndStore, TypeOK, RequestType
<1>4. CASE FinaliseClarification(r)
  BY <1>4, AnswerWithServed DEF FinaliseClarification
<1> QED
  BY <1>1, <1>2, <1>3, <1>4, GetAclVersionServed, CacheHitServed,
     CacheMissServed, HybridSearchServed, RouteServed, VerifyChunksServed,
     AbandonServed
  DEF RequestStep

-----------------------------------------------------------------------------
(***************************************************************************)
(* Administrators.                                                         *)
(***************************************************************************)

\* A step that only moves a transaction.
LEMMA TxStepServed ==
  ASSUME ServedInv, UNCHANGED <<database, cache, req>>,
         NoGrants', SeenIsCurrent'
  PROVE  ServedInv'
  BY DEF ServedInv, database, NoKeyFromTheFuture, HistoryCoversNow,
         ContextAfterSearch, CurrentIsReadable, CarriedWasReadable,
         ServedWasReadable, RoleReadable, Fingerprint, Caller, Carries,
         InFlight

LEMMA MutateServed ==
  ASSUME TypeOK, ServedInv, NEW a \in Admins, NEW effect, Mutate(a, effect),
         effect.granted = {}
  PROVE  ServedInv'
<1>1. /\ tx'[a].pc = "changed"
      /\ tx'[a].effect = effect
      /\ \A b \in Admins : b # a => tx'[b] = tx[b]
  BY DEF Mutate, TypeOK
<1>2. NoGrants' /\ SeenIsCurrent'
  BY <1>1 DEF Mutate, database, ServedInv, NoGrants, SeenIsCurrent
<1> QED
  BY <1>2, TxStepServed DEF Mutate

LEMMA CommitServed ==
  ASSUME SerialAdmins, TypeOK, ServedInv, TypeOK', NEW a \in Admins, Commit(a)
  PROVE  ServedInv'
<1> USE DEF RoleReadable, Fingerprint
<1>1. version' = version + 1 /\ version \in Nat
  BY BoundsAssumption
  DEF Commit, ServedInv, SeenIsCurrent, TypeOK, Versions
<1>2. grants' = {} /\ cache' = cache
  BY DEF Commit, ServedInv, NoGrants
<1>3. /\ tx' = [tx EXCEPT ![a] = IdleTx]
      /\ IdleTx.effect.granted = {} /\ IdleTx.pc = "idle"
  BY DEF Commit, IdleTx, NoEffect
<1>4. NoGrants' /\ SeenIsCurrent'
  BY <1>2, <1>3 DEF SerialAdmins, TypeOK, NoGrants, SeenIsCurrent
<1>5. ASSUME NEW r \in Requests
      PROVE  /\ req'[r].pc = req[r].pc
             /\ req'[r].roles = req[r].roles
             /\ req'[r].version = req[r].version
             /\ req'[r].scoped = req[r].scoped
             /\ req'[r].context = req[r].context
             /\ Caller(r)' = Caller(r)
             /\ req[r].ever \subseteq req'[r].ever
             /\ InFlight(r) =>
                  LET readable == VisibleDocs(AclFingerprint(Caller(r)),
                                              docs', {}, 0)
                  IN  readable \subseteq req'[r].ever
                        /\ req'[r].always \subseteq readable
  <2>1. req[r] \in RequestType
    BY DEF TypeOK
  <2>2. req' = Observe(docs', grants')
    BY DEF Commit
  <2>3. CASE ~InFlight(r)
    <3>1. req'[r] = req[r]
      BY <2>2, <2>3 DEF Observe
    <3> QED
      BY <2>3, <3>1 DEF Caller
  <2>4. CASE InFlight(r)
    <3> DEFINE mayRead == VisibleDocs(Caller(r), docs', grants', req[r].began)
    <3>1. req'[r] = [req[r] EXCEPT !.ever = @ \cup mayRead,
                                   !.always = @ \cap mayRead,
                                   !.lost = @ \cup (req[r].found \ mayRead)]
      BY <2>2, <2>4 DEF Observe
    <3>2. mayRead = VisibleDocs(AclFingerprint(Caller(r)), docs', {}, 0)
      BY <1>2, FingerprintDecides
    <3> HIDE DEF mayRead
    <3>3. /\ req'[r].ever = req[r].ever \cup mayRead
          /\ req'[r].always = req[r].always \cap mayRead
          /\ req'[r].pc = req[r].pc /\ req'[r].roles = req[r].roles
          /\ req'[r].version = req[r].version
          /\ req'[r].scoped = req[r].scoped
          /\ req'[r].context = req[r].context
      BY <2>1, <3>1 DEF RequestType
    <3> QED
      BY <3>2, <3>3 DEF Caller
  <2> QED
    BY <2>3, <2>4
<1>6. NoKeyFromTheFuture'
  <2>1. ASSUME NEW key \in DOMAIN cache
        PROVE  key.version <= version + 1
    <3>1. key.version \in Nat /\ key.version <= version
      BY BoundsAssumption
      DEF ServedInv, NoKeyFromTheFuture, TypeOK, KeyType, Versions
    <3> QED
      BY <1>1, <3>1
  <2>2. ASSUME NEW r \in Requests, Carries(r)
        PROVE  req[r].version <= version + 1
    <3>1. req[r].version \in Nat /\ req[r].version <= version
      BY <2>2, BoundsAssumption
      DEF ServedInv, NoKeyFromTheFuture, TypeOK, Versions
    <3> QED
      BY <1>1, <3>1
  <2> QED
    BY <1>1, <1>2, <1>5, <2>1, <2>2 DEF NoKeyFromTheFuture, Carries
<1>7. HistoryCoversNow'
  BY <1>5 DEF HistoryCoversNow, InFlight
<1>8. ContextAfterSearch'
  BY <1>5 DEF ServedInv, ContextAfterSearch, InFlight
<1>9. CurrentIsReadable'
  <2>1. \A key \in DOMAIN cache : key.version # version + 1
    BY <1>1, BoundsAssumption
    DEF ServedInv, NoKeyFromTheFuture, TypeOK, KeyType, Versions
  <2>2. \A r \in Requests : Carries(r) => req[r].version # version + 1
    BY <1>1, BoundsAssumption
    DEF ServedInv, NoKeyFromTheFuture, TypeOK, Versions
  <2> QED
    BY <1>1, <1>2, <1>5, <2>1, <2>2 DEF CurrentIsReadable, Carries
<1>10. CarriedWasReadable'
  <2> SUFFICES ASSUME NEW s \in Requests, Carries(s)
      PROVE  /\ \A key \in DOMAIN cache :
                  key.version = req[s].version /\ key.fingerprint
                                               = AclFingerprint(Caller(s))
                  => cache[key].result.sources \subseteq req'[s].ever
             /\ \A r \in Requests :
                  /\ Carries(r)
                  /\ req[r].version = req[s].version
                  /\ AclFingerprint(Caller(r)) = AclFingerprint(Caller(s))
                  => req[r].context \subseteq req'[s].ever
    BY <1>2, <1>5 DEF CarriedWasReadable, Carries
  <2> QED
    BY <1>5 DEF ServedInv, CarriedWasReadable
<1>11. ServedWasReadable'
  BY <1>5 DEF ServedInv, ServedWasReadable
<1> QED
  BY <1>4, <1>6, <1>7, <1>8, <1>9, <1>10, <1>11 DEF ServedInv

LEMMA AdminServed ==
  ASSUME SerialAdmins, NoPerUserGrants, TypeOK, ServedInv, TypeOK',
         NEW a \in Admins, AdminStep(a)
  PROVE  ServedInv'
<1>1. ASSUME NEW effect, Mutate(a, effect), effect.granted = {}
      PROVE  ServedInv'
  BY <1>1, MutateServed
<1>2. ASSUME NEW d \in Docs, NEW roleKeys \in SUBSET Roles,
             NEW sensitivity \in Sensitivities,
             ApproveDocument(a, d, roleKeys, sensitivity)
      PROVE  ServedInv'
  BY <1>1, <1>2 DEF ApproveDocument, NoEffect
<1>3. ASSUME NEW d \in Docs, RevokeDocument(a, d)
      PROVE  ServedInv'
  BY <1>1, <1>3 DEF RevokeDocument, NoEffect
<1>4. ASSUME NEW d \in Docs, DeleteDocument(a, d)
      PROVE  ServedInv'
  BY <1>1, <1>4 DEF DeleteDocument, NoEffect
<1>5. ASSUME NEW u \in Users, NEW roleKeys \in SUBSET Roles,
             SetUserRoles(a, u, roleKeys)
      PROVE  ServedInv'
  BY <1>1, <1>5 DEF SetUserRoles, NoEffect
<1>6. ASSUME NEW u \in Users, NEW isActive \in BOOLEAN,
             SetUserActive(a, u, isActive)
      PROVE  ServedInv'
  BY <1>1, <1>6 DEF SetUserActive, NoEffect
<1>7. ASSUME NEW u \in Users, NEW d \in Docs, RemoveUserGrants(a, u, d)
      PROVE  ServedInv'
  BY <1>1, <1>7 DEF RemoveUserGrants, NoEffect
<1>8. CASE SelectAclVersion(a)
  <2>1. NoGrants' /\ SeenIsCurrent'
    BY <1>8 DEF SelectAclVersion, database, ServedInv, NoGrants, SeenIsCurrent,
                TypeOK, TxType
  <2> QED
    BY <1>8, <2>1, TxStepServed DEF SelectAclVersion
<1>9. CASE UpdateAclVersion(a)
  <2>1. NoGrants' /\ SeenIsCurrent'
    BY <1>9 DEF UpdateAclVersion, database, ServedInv, NoGrants, SeenIsCurrent,
                TypeOK, TxType
  <2> QED
    BY <1>9, <2>1, TxStepServed DEF UpdateAclVersion
<1>10. CASE Rollback(a)
  <2>1. NoGrants' /\ SeenIsCurrent'
    BY <1>10 DEF Rollback, database, ServedInv, NoGrants, SeenIsCurrent,
                 TypeOK, IdleTx, NoEffect
  <2> QED
    BY <1>10, <2>1, TxStepServed DEF Rollback
<1> QED
  BY <1>2, <1>3, <1>4, <1>5, <1>6, <1>7, <1>8, <1>9, <1>10, CommitServed
  DEF AdminStep, NoPerUserGrants

-----------------------------------------------------------------------------
(***************************************************************************)
(* The invariant, and the theorem.                                         *)
(***************************************************************************)

LEMMA InitServed == Init => ServedInv
<1> SUFFICES ASSUME Init PROVE ServedInv
  OBVIOUS
<1>1. DOMAIN cache = {}
  BY DEF Init, Empty
<1>2. \A r \in Requests : req[r] = IdleRequest
  BY DEF Init
<1>3. \A r \in Requests : req[r].pc = "idle"
  <2>1. IdleRequest.pc = "idle"
    BY DEF IdleRequest
  <2> QED
    BY <1>2, <2>1
<1>4. NoGrants /\ SeenIsCurrent
  BY DEF Init, NoGrants, SeenIsCurrent, IdleTx, NoEffect
<1> QED
  BY <1>1, <1>3, <1>4 DEF ServedInv, NoKeyFromTheFuture, HistoryCoversNow,
     ContextAfterSearch, CurrentIsReadable, CarriedWasReadable,
     ServedWasReadable, Carries, InFlight

LEMMA NextServed ==
  ASSUME SerialAdmins, NoPerUserGrants
  PROVE  TypeOK /\ TypeOK' /\ ServedInv /\ [Next]_vars => ServedInv'
<1> SUFFICES ASSUME TypeOK, TypeOK', ServedInv, [Next]_vars PROVE ServedInv'
  OBVIOUS
<1> USE DEF RoleReadable, Fingerprint, Caller, Carries, InFlight
<1>1. CASE ClearCache
  <2>1. DOMAIN cache' = {}
    BY <1>1 DEF ClearCache, Empty
  <2> QED
    BY <1>1, <2>1 DEF ClearCache, database, ServedInv, NoGrants, SeenIsCurrent,
       NoKeyFromTheFuture, HistoryCoversNow, ContextAfterSearch,
       CurrentIsReadable, CarriedWasReadable, ServedWasReadable
<1>2. CASE Restart
  <2>1. DOMAIN cache' = {}
    BY <1>2 DEF Restart, Empty
  <2>2. \A r \in Requests : req'[r].pc = "idle"
    BY <1>2 DEF Restart, IdleRequest
  <2>3. \A a \in Admins : tx'[a].pc = "idle" /\ tx'[a].effect.granted = {}
    BY <1>2 DEF Restart, IdleTx, NoEffect
  <2>4. grants' = {}
    BY <1>2 DEF Restart, database, ServedInv, NoGrants
  <2> QED
    BY <2>1, <2>2, <2>3, <2>4 DEF ServedInv, NoGrants, SeenIsCurrent,
       NoKeyFromTheFuture, HistoryCoversNow, ContextAfterSearch,
       CurrentIsReadable, CarriedWasReadable, ServedWasReadable
<1>3. CASE Tick
  BY <1>3, TxStepServed
  DEF Tick, database, ServedInv, NoGrants, SeenIsCurrent
<1>4. CASE UNCHANGED vars
  BY <1>4, TxStepServed
  DEF vars, database, ServedInv, NoGrants, SeenIsCurrent
<1> QED
  BY <1>1, <1>2, <1>3, <1>4, RequestServed, AdminServed DEF Next

(***************************************************************************)
(* With administrators one at a time and access from roles alone, every    *)
(* request, answered from the cache or not, is given an answer drawn from  *)
(* documents its caller could read while that request ran: whatever the    *)
(* number of callers, documents and roles, the size and lifetime of the    *)
(* cache, and the point at which approvals, revocations, role changes,     *)
(* failures and restarts fall.                                             *)
(***************************************************************************)
THEOREM ServedCorrect ==
  ASSUME SerialAdmins, NoPerUserGrants
  PROVE  Spec => []ServedWasReadable
<1>1. Init => TypeOK /\ ServedInv
  BY InitTyped, InitServed
<1>2. TypeOK /\ ServedInv /\ [Next]_vars => (TypeOK /\ ServedInv)'
  BY NextTyped, NextServed
<1>3. ServedInv => ServedWasReadable
  BY DEF ServedInv
<1> QED
  BY <1>1, <1>2, <1>3, PTL DEF Spec

-----------------------------------------------------------------------------
(***************************************************************************)
(* The steps of a request.                                                 *)
(***************************************************************************)

\* What the owner of f reads by role in the scope it asked for.
ReadableInScope(f, r) ==
  VisibleDocs(AclFingerprint(PrincipalOf(Asker[r], f.roles)), docs, {}, 0)
    \cap InScope(SearchScope(f.capability))

\* Refusing, as a property of the request record.
RefusingRecord(f) ==
  \/ f.pc = "verify" /\ ~f.scoped /\ f.found = {}
  \/ f.pc = "answer" /\ f.context = {} /\ ~f.anomalous

\* A request starts to refuse only when there is nothing to read now.
RefusalGoes(f, r) ==
  RefusingRecord(f) =>
    \/ ReadableInScope(f, r) = {}
    \/ /\ Refusing(r)
       /\ f.version = req[r].version
       /\ f.roles = req[r].roles
       /\ f.capability = req[r].capability

\* A request that carries a version has just read it or had it already.
CarriesOn(f, r) ==
  f.pc \in {"lookup", "search", "verify", "answer"} =>
    \/ f.version = version
    \/ /\ Carries(r)
       /\ f.version = req[r].version
       /\ f.roles = req[r].roles
       /\ f.capability = req[r].capability
       /\ f.always = req[r].always

\* A finished request refuses truly.
EndsTruly(f) ==
  f.pc = "done" /\ f.context = {} /\ ~f.anomalous
    => f.always \cap InScope(SearchScope(f.capability)) = {}

\* The cache keeps entries, and gains a refusal only from a refusing request.
CacheRefusal(r) ==
  \A key \in DOMAIN cache' :
    \/ key \in DOMAIN cache /\ cache'[key] = cache[key]
    \/ /\ key = CacheKey(r)
       /\ Refusal(cache'[key].result) => Refusing(r)

LEMMA RequestStepRefusal ==
  ASSUME TypeOK, ServedInv', RefusalInv,
         NEW r \in Requests, NEW f \in RequestType, Advance(r, f),
         UNCHANGED <<database, tx>>,
         RefusalGoes(f, r), CarriesOn(f, r), EndsTruly(f), CacheRefusal(r)
  PROVE  RefusalInv'
<1> USE DEF RoleReadable, Fingerprint, Caller
<1>1. /\ req'[r] = f
      /\ \A s \in Requests : s # r => req'[s] = req[s]
  BY DEF Advance, TypeOK
<1>2. docs' = docs /\ version' = version
  BY DEF database
<1>3. ASSUME NEW s \in Requests, Refusing(s)'
      PROVE  \/ ReadableInScope(req'[s], s) = {}
             \/ /\ Refusing(s)
                /\ req'[s].version = req[s].version
                /\ req'[s].roles = req[s].roles
                /\ req'[s].capability = req[s].capability
  BY <1>1, <1>3 DEF RefusalGoes, Refusing, RefusingRecord
<1>4. CurrentRefusalIsTrue'
  <2>1. ASSUME NEW key \in DOMAIN cache', key.version = version,
               Refusal(cache'[key].result)
        PROVE  VisibleDocs(key.fingerprint, docs, {}, 0)
                 \cap InScope(SearchScope(key.capability)) = {}
    BY <2>1 DEF CacheRefusal, CacheKey, RefusalInv, CurrentRefusalIsTrue
  <2>2. ASSUME NEW s \in Requests, Refusing(s)', req'[s].version = version
        PROVE  ReadableInScope(req'[s], s) = {}
    BY <1>3, <2>2 DEF RefusalInv, CurrentRefusalIsTrue, ReadableInScope
  <2> QED
    BY <1>2, <2>1, <2>2 DEF CurrentRefusalIsTrue, Refusal, ReadableInScope
<1>5. CarriedRefusalWasTrue'
  <2> SUFFICES ASSUME NEW s \in Requests, Carries(s)'
      PROVE  /\ \A key \in DOMAIN cache' :
                  /\ key.version = req'[s].version
                  /\ key.fingerprint = AclFingerprint(PrincipalOf(
                                         Asker[s], req'[s].roles))
                  /\ key.capability = req'[s].capability
                  /\ Refusal(cache'[key].result)
                  => req'[s].always
                       \cap InScope(SearchScope(req'[s].capability)) = {}
             /\ \A r2 \in Requests :
                  /\ Refusing(r2)'
                  /\ req'[r2].version = req'[s].version
                  /\ AclFingerprint(PrincipalOf(Asker[r2], req'[r2].roles))
                       = AclFingerprint(PrincipalOf(Asker[s], req'[s].roles))
                  /\ req'[r2].capability = req'[s].capability
                  => req'[s].always
                       \cap InScope(SearchScope(req'[s].capability)) = {}
    BY DEF CarriedRefusalWasTrue, Refusal
  <2>1. req'[s].always \subseteq
          VisibleDocs(AclFingerprint(PrincipalOf(Asker[s], req'[s].roles)),
                      docs, {}, 0)
    BY <1>2 DEF ServedInv, HistoryCoversNow, InFlight, Carries
  <2>2. \/ req'[s].version = version
        \/ /\ Carries(s)
           /\ req'[s].version = req[s].version
           /\ req'[s].roles = req[s].roles
           /\ req'[s].capability = req[s].capability
           /\ req'[s].always = req[s].always
    BY <1>1 DEF CarriesOn, Carries
  <2>3. ASSUME NEW key \in DOMAIN cache', key.version = req'[s].version,
               key.fingerprint
                 = AclFingerprint(PrincipalOf(Asker[s], req'[s].roles)),
               key.capability = req'[s].capability,
               Refusal(cache'[key].result)
        PROVE  req'[s].always
                 \cap InScope(SearchScope(req'[s].capability)) = {}
    <3>1. CASE req'[s].version = version
      BY <1>2, <1>4, <2>1, <2>3, <3>1 DEF CurrentRefusalIsTrue, Refusal
    <3>2. CASE /\ Carries(s)
               /\ req'[s].version = req[s].version
               /\ req'[s].roles = req[s].roles
               /\ req'[s].capability = req[s].capability
               /\ req'[s].always = req[s].always
      BY <2>3, <3>2
      DEF CacheRefusal, CacheKey, RefusalInv, CarriedRefusalWasTrue
    <3> QED
      BY <2>2, <3>1, <3>2
  <2>4. ASSUME NEW r2 \in Requests, Refusing(r2)',
               req'[r2].version = req'[s].version,
               AclFingerprint(PrincipalOf(Asker[r2], req'[r2].roles))
                 = AclFingerprint(PrincipalOf(Asker[s], req'[s].roles)),
               req'[r2].capability = req'[s].capability
        PROVE  req'[s].always
                 \cap InScope(SearchScope(req'[s].capability)) = {}
    <3>1. CASE ReadableInScope(req'[r2], r2) = {}
      BY <2>1, <2>4, <3>1 DEF ReadableInScope
    <3>2. CASE /\ Refusing(r2)
               /\ req'[r2].version = req[r2].version
               /\ req'[r2].roles = req[r2].roles
               /\ req'[r2].capability = req[r2].capability
      <4>1. CASE req'[s].version = version
        BY <2>1, <2>4, <3>2, <4>1 DEF RefusalInv, CurrentRefusalIsTrue
      <4>2. CASE /\ Carries(s)
                 /\ req'[s].version = req[s].version
                 /\ req'[s].roles = req[s].roles
                 /\ req'[s].capability = req[s].capability
                 /\ req'[s].always = req[s].always
        BY <2>4, <3>2, <4>2 DEF RefusalInv, CarriedRefusalWasTrue
      <4> QED
        BY <2>2, <4>1, <4>2
    <3> QED
      BY <1>3, <2>4, <3>1, <3>2
  <2> QED
    BY <2>3, <2>4
<1>6. RefusalWasTrue'
  BY <1>1 DEF EndsTruly, RefusalInv, RefusalWasTrue
<1> QED
  BY <1>4, <1>5, <1>6 DEF RefusalInv

\* What an unchanged cache, or one that only loses entries, satisfies.
LEMMA CacheShrinksRefusal ==
  ASSUME NEW r \in Requests,
         \A key \in DOMAIN cache' : key \in DOMAIN cache
                                      /\ cache'[key] = cache[key]
  PROVE  CacheRefusal(r)
  BY DEF CacheRefusal

\* A step to a state that cannot refuse, or that refuses as before.
LEMMA OnwardRefusal ==
  ASSUME TypeOK, ServedInv', RefusalInv,
         NEW r \in Requests, NEW f \in RequestType, Advance(r, f),
         UNCHANGED <<database, tx>>, Carries(r),
         \A key \in DOMAIN cache' : key \in DOMAIN cache
                                      /\ cache'[key] = cache[key],
         f.pc \in {"search", "verify", "answer"},
         f.version = req[r].version, f.roles = req[r].roles,
         f.capability = req[r].capability, f.always = req[r].always,
         RefusingRecord(f) => Refusing(r) \/ ReadableInScope(f, r) = {}
  PROVE  RefusalInv'
<1>1. RefusalGoes(f, r) /\ CarriesOn(f, r) /\ EndsTruly(f)
  BY DEF RefusalGoes, CarriesOn, EndsTruly
<1>2. CacheRefusal(r)
  BY CacheShrinksRefusal
<1> QED
  BY <1>1, <1>2, RequestStepRefusal

LEMMA BeginRefusal ==
  ASSUME TypeOK, ServedInv', RefusalInv, NEW r \in Requests,
         NEW callerRoles \in SUBSET Roles, NEW q \in Questions,
         NEW capability \in Capabilities,
         Begin(r, callerRoles, q, capability),
         UNCHANGED <<database, tx, cache, now>>
  PROVE  RefusalInv'
<1> DEFINE p == PrincipalOf(Asker[r], callerRoles)
           mayRead == VisibleDocs(p, docs, grants, now)
           f == [IdleRequest EXCEPT
                    !.pc = "version", !.roles = callerRoles, !.question = q,
                    !.capability = capability, !.began = now,
                    !.ever = mayRead, !.always = mayRead]
<1>1. mayRead \in SUBSET Docs
  BY DEF VisibleDocs
<1> HIDE DEF mayRead
<1>2. f \in RequestType /\ f.pc = "version"
  BY <1>1, IdleRequestTyped DEF TypeOK, RequestType, IdleRequest
<1>3. Advance(r, f)
  BY DEF Begin, mayRead
<1> HIDE DEF f
<1>4. RefusalGoes(f, r) /\ CarriesOn(f, r) /\ EndsTruly(f)
  BY <1>2 DEF RefusalGoes, RefusingRecord, CarriesOn, EndsTruly
<1>5. CacheRefusal(r)
  BY CacheShrinksRefusal
<1> QED
  BY <1>2, <1>3, <1>4, <1>5, RequestStepRefusal

LEMMA GetAclVersionRefusal ==
  ASSUME TypeOK, ServedInv', RefusalInv, NEW r \in Requests, GetAclVersion(r)
  PROVE  RefusalInv'
<1> DEFINE f == [req[r] EXCEPT !.pc = "lookup", !.version = version]
<1>1. version \in 0..MaxVersion
  BY BoundsAssumption DEF TypeOK, Versions
<1>2. f \in RequestType /\ f.pc = "lookup" /\ f.version = version
  BY <1>1, ZenonT(30) DEF TypeOK, RequestType
<1>3. Advance(r, f)
  BY DEF GetAclVersion
<1> HIDE DEF f
<1>4. RefusalGoes(f, r) /\ CarriesOn(f, r) /\ EndsTruly(f)
  BY <1>2 DEF RefusalGoes, RefusingRecord, CarriesOn, EndsTruly
<1>5. CacheRefusal(r)
  BY CacheShrinksRefusal DEF GetAclVersion
<1> QED
  BY <1>2, <1>3, <1>4, <1>5, RequestStepRefusal DEF GetAclVersion

\* A request that ends with a refusal ends with a true one.
LEMMA DeliverRefusal ==
  ASSUME TypeOK, ServedInv', RefusalInv, NEW r \in Requests,
         NEW result \in [sources : SUBSET Docs, anomalous : BOOLEAN],
         NEW fromCache \in BOOLEAN, Deliver(r, result, fromCache),
         UNCHANGED <<database, tx>>,
         Refusal(result) =>
           req[r].always \cap InScope(SearchScope(req[r].capability)) = {},
         CacheRefusal(r)
  PROVE  RefusalInv'
<1> DEFINE f == [IdleRequest EXCEPT
                !.pc = "done", !.cached = fromCache,
                !.capability = req[r].capability,
                !.context = result.sources, !.anomalous = result.anomalous,
                !.ever = req[r].ever, !.always = req[r].always]
<1>1. /\ f \in RequestType
      /\ f.pc = "done"
      /\ f.context = result.sources
      /\ f.anomalous = result.anomalous
      /\ f.always = req[r].always
      /\ f.capability = req[r].capability
  BY IdleRequestTyped DEF TypeOK, RequestType
<1>2. Advance(r, f)
  BY DEF Deliver
<1> HIDE DEF f
<1>3. RefusalGoes(f, r) /\ CarriesOn(f, r)
  BY <1>1 DEF RefusalGoes, RefusingRecord, CarriesOn
<1>4. EndsTruly(f)
  BY <1>1 DEF EndsTruly, Refusal
<1> QED
  BY <1>1, <1>2, <1>3, <1>4, RequestStepRefusal

LEMMA CacheHitRefusal ==
  ASSUME TypeOK, ServedInv', RefusalInv, NEW r \in Requests, CacheHit(r)
  PROVE  RefusalInv'
<1> DEFINE result == cache[CacheKey(r)].result
<1>1. CacheKey(r) \in DOMAIN cache /\ Deliver(r, result, TRUE)
  BY DEF CacheHit
<1>2. result \in [sources : SUBSET Docs, anomalous : BOOLEAN]
  BY <1>1 DEF TypeOK, EntryType
<1>3. Carries(r)
  BY DEF CacheHit, Carries
<1>4. /\ CacheKey(r).version = req[r].version
      /\ CacheKey(r).fingerprint = Fingerprint(r)
      /\ CacheKey(r).capability = req[r].capability
  BY DEF CacheKey, Fingerprint
<1>5. Refusal(result) =>
        req[r].always \cap InScope(SearchScope(req[r].capability)) = {}
  BY <1>1, <1>3, <1>4 DEF RefusalInv, CarriedRefusalWasTrue
<1>6. CacheRefusal(r)
  BY CacheShrinksRefusal DEF CacheHit
<1> QED
  BY <1>1, <1>2, <1>5, <1>6, DeliverRefusal DEF CacheHit

LEMMA CacheMissRefusal ==
  ASSUME TypeOK, ServedInv', RefusalInv, NEW r \in Requests, CacheMiss(r)
  PROVE  RefusalInv'
<1> DEFINE f == [req[r] EXCEPT !.pc = "search"]
<1>1. Carries(r)
  BY DEF CacheMiss, Carries
<1>2. /\ f \in RequestType
      /\ f.pc = "search"
      /\ f.version = req[r].version
      /\ f.roles = req[r].roles
      /\ f.capability = req[r].capability
      /\ f.always = req[r].always
  BY DEF TypeOK, RequestType
<1>3. Advance(r, f)
  BY DEF CacheMiss
<1> HIDE DEF f
<1>4. \A key \in DOMAIN cache' : key \in DOMAIN cache
                                   /\ cache'[key] = cache[key]
  BY DEF CacheMiss
<1>5. ~RefusingRecord(f)
  BY <1>2 DEF RefusingRecord
<1> QED
  BY <1>1, <1>2, <1>3, <1>4, <1>5, OnwardRefusal DEF CacheMiss

\* Without per-user grants the early return for a caller without roles is no
\* special case: the access predicate gives it nothing either.
LEMMA AuthorizedByRole ==
  ASSUME NEW p, NEW table, NEW t
  PROVE  AuthorizedDocs(p, table, {}, t)
           = VisibleDocs(AclFingerprint(p), table, {}, 0)
<1>1. CASE p.roles = {}
  <2>1. \A d \in Docs : ~Visible(p, d, table, {}, t)
    BY <1>1 DEF Visible, Granted
  <2>2. VisibleDocs(p, table, {}, t) = {}
    BY <2>1 DEF VisibleDocs
  <2> QED
    BY <1>1, <2>2, FingerprintDecides DEF AuthorizedDocs
<1>2. CASE p.roles # {}
  BY <1>2, FingerprintDecides DEF AuthorizedDocs
<1> QED
  BY <1>1, <1>2

LEMMA HybridSearchRefusal ==
  ASSUME TypeOK, ServedInv, ServedInv', RefusalInv, NEW r \in Requests,
         HybridSearch(r)
  PROVE  RefusalInv'
<1> DEFINE readable == AuthorizedDocs(Caller(r), docs, grants, req[r].began)
                         \cap InScope(SearchScope(req[r].capability))
<1>1. readable \in SUBSET Docs
  BY DEF AuthorizedDocs, VisibleDocs
<1>2. readable = ReadableInScope(req[r], r)
  BY AuthorizedByRole DEF ServedInv, NoGrants, ReadableInScope, Caller
<1>3. PICK found \in SUBSET readable :
        /\ found = {} => readable = {}
        /\ Advance(r, [req[r] EXCEPT !.pc = "verify", !.found = found])
  BY DEF HybridSearch
<1> HIDE DEF readable
<1> DEFINE f == [req[r] EXCEPT !.pc = "verify", !.found = found]
<1>4. Carries(r)
  BY DEF HybridSearch, Carries
<1>5. /\ f \in RequestType
      /\ f.pc = "verify"
      /\ f.found = found
      /\ f.version = req[r].version
      /\ f.roles = req[r].roles
      /\ f.capability = req[r].capability
      /\ f.always = req[r].always
  <2>1. req[r] \in RequestType
    BY DEF TypeOK
  <2>2. f \in RequestType
    BY <1>1, <2>1, FoundTyped
  <2> QED BY <2>1, <2>2 DEF RequestType
<1>6. Advance(r, f)
  BY <1>3
<1> HIDE DEF f
<1>7. RefusingRecord(f) => ReadableInScope(f, r) = {}
  BY <1>2, <1>3, <1>5 DEF RefusingRecord, ReadableInScope
<1> QED
  BY <1>4, <1>5, <1>6, <1>7, OnwardRefusal DEF HybridSearch

LEMMA RouteRefusal ==
  ASSUME TypeOK, ServedInv', RefusalInv, NEW r \in Requests, NEW d \in Docs,
         RouteToNamedCapability(r, d)
  PROVE  RefusalInv'
<1>1. PICK found \in SUBSET Docs :
        Advance(r, [req[r] EXCEPT
                      !.pc = "verify", !.scoped = TRUE, !.found = found])
  BY DEF RouteToNamedCapability, AuthorizedDocs, VisibleDocs
<1> DEFINE f == [req[r] EXCEPT
                   !.pc = "verify", !.scoped = TRUE, !.found = found]
<1>2. Carries(r)
  BY DEF RouteToNamedCapability, Carries
<1>3. /\ f \in RequestType
      /\ f.pc = "verify"
      /\ f.scoped = TRUE
      /\ f.version = req[r].version
      /\ f.roles = req[r].roles
      /\ f.capability = req[r].capability
      /\ f.always = req[r].always
  BY ZenonT(30) DEF TypeOK, RequestType
<1>4. Advance(r, f)
  BY <1>1
<1> HIDE DEF f
<1>5. ~RefusingRecord(f)
  BY <1>3 DEF RefusingRecord
<1> QED
  BY <1>2, <1>3, <1>4, <1>5, OnwardRefusal DEF RouteToNamedCapability

\* A result that lost every chunk to G4 is anomalous, and no refusal; one that
\* lost none refuses only if the search before it found nothing.
LEMMA VerifyChunksRefusal ==
  ASSUME TypeOK, ServedInv, ServedInv', RefusalInv, NEW r \in Requests,
         VerifyChunks(r)
  PROVE  RefusalInv'
<1> DEFINE kept == req[r].found
                     \cap AuthorizedDocs(Caller(r), docs, grants, req[r].began)
           keepsFirst == req[r].scoped /\ kept = {}
           context == IF keepsFirst THEN req[r].context ELSE kept
           anomalous == IF keepsFirst THEN req[r].anomalous
                        ELSE kept # req[r].found
           f == [req[r] EXCEPT !.pc = "answer", !.found = {},
                               !.context = context, !.anomalous = anomalous,
                               !.lost = {}]
<1>1. req[r] \in RequestType /\ req[r].pc = "verify" /\ Carries(r)
  BY DEF TypeOK, VerifyChunks, Carries
<1>2. Advance(r, f)
  BY DEF VerifyChunks
<1>3. context \in SUBSET Docs /\ anomalous \in BOOLEAN
  BY <1>1 DEF RequestType
<1>4. context = {} /\ ~anomalous => Refusing(r)
  <2> SUFFICES ASSUME context = {}, ~anomalous PROVE Refusing(r)
    OBVIOUS
  <2>1. req[r].scoped => req[r].context # {}
    BY <1>1 DEF ServedInv, ContextAfterSearch, InFlight
  <2>2. ~req[r].scoped /\ kept = {} /\ kept = req[r].found
    BY <2>1
  <2> QED
    BY <1>1, <2>2 DEF Refusing
<1> HIDE DEF context, anomalous
<1>5. /\ f \in RequestType
      /\ f.pc = "answer"
      /\ f.context = context
      /\ f.anomalous = anomalous
      /\ f.version = req[r].version
      /\ f.roles = req[r].roles
      /\ f.capability = req[r].capability
      /\ f.always = req[r].always
  BY <1>1, <1>3 DEF RequestType
<1> HIDE DEF f
<1>6. RefusingRecord(f) => Refusing(r)
  BY <1>4, <1>5 DEF RefusingRecord
<1> QED
  BY <1>1, <1>2, <1>5, <1>6, OnwardRefusal DEF VerifyChunks

LEMMA AnswerWithRefusal ==
  ASSUME TypeOK, ServedInv', RefusalInv, NEW r \in Requests,
         NEW anomalous \in BOOLEAN,
         AnswerWith(r, Result(req[r].context, anomalous)),
         Refusal(Result(req[r].context, anomalous)) => Refusing(r)
  PROVE  RefusalInv'
<1> DEFINE result == Result(req[r].context, anomalous)
<1>1. Carries(r)
  BY DEF AnswerWith, Carries
<1>2. result \in [sources : SUBSET Docs, anomalous : BOOLEAN]
  BY DEF TypeOK, RequestType, Result
<1>3. Refusal(result) =>
        req[r].always \cap InScope(SearchScope(req[r].capability)) = {}
  BY <1>1 DEF RefusalInv, CarriedRefusalWasTrue
<1>4. CacheRefusal(r)
  <2>1. PICK keys \in Survivors(DOMAIN cache) :
          cache' = [k \in keys \cup {CacheKey(r)} |->
                      IF k = CacheKey(r)
                      THEN [stored |-> now, result |-> result]
                      ELSE cache[k]]
    BY DEF AnswerWith
  <2>2. keys \subseteq DOMAIN cache
    BY <2>1 DEF Survivors
  <2> HIDE DEF result
  <2>3. Refusal(result) => Refusing(r)
    BY DEF result
  <2> QED
    BY <2>1, <2>2, <2>3 DEF CacheRefusal
<1> QED
  BY <1>2, <1>3, <1>4, DeliverRefusal DEF AnswerWith

LEMMA AbandonRefusal ==
  ASSUME TypeOK, ServedInv', RefusalInv, NEW r \in Requests, Abandon(r)
  PROVE  RefusalInv'
<1>1. RefusalGoes(IdleRequest, r) /\ CarriesOn(IdleRequest, r)
        /\ EndsTruly(IdleRequest)
  BY DEF RefusalGoes, RefusingRecord, CarriesOn, EndsTruly, IdleRequest
<1>2. CacheRefusal(r)
  BY CacheShrinksRefusal DEF Abandon
<1> QED
  BY <1>1, <1>2, IdleRequestTyped, RequestStepRefusal DEF Abandon

LEMMA RequestRefusal ==
  ASSUME TypeOK, ServedInv, ServedInv', RefusalInv, NEW r \in Requests,
         RequestStep(r)
  PROVE  RefusalInv'
<1>1. ASSUME NEW q \in Questions, NEW c \in Capabilities, Ask(r, q, c)
      PROVE  RefusalInv'
  <2>1. roles[Asker[r]] \in SUBSET Roles
    BY AskerAssumption DEF TypeOK
  <2> QED
    BY <1>1, <2>1, BeginRefusal DEF Ask
<1>2. ASSUME NEW q \in Questions, NEW c \in Capabilities, NEW role \in Roles,
             CompareRole(r, role, q, c)
      PROVE  RefusalInv'
  BY <1>2, BeginRefusal DEF CompareRole
<1>3. CASE FinaliseAndStore(r)
  <2>1. AnswerWith(r, Result(req[r].context, req[r].anomalous))
          /\ req[r].pc = "answer"
    BY <1>3 DEF FinaliseAndStore, AnswerWith
  <2>2. Refusal(Result(req[r].context, req[r].anomalous)) => Refusing(r)
    BY <2>1 DEF Refusal, Result, Refusing
  <2> QED
    BY <2>1, <2>2, AnswerWithRefusal DEF TypeOK, RequestType
<1>4. CASE FinaliseClarification(r)
  <2>1. AnswerWith(r, Result(req[r].context, FALSE)) /\ req[r].context # {}
    BY <1>4 DEF FinaliseClarification
  <2>2. ~Refusal(Result(req[r].context, FALSE))
    BY <2>1 DEF Refusal, Result
  <2> QED
    BY <2>1, <2>2, AnswerWithRefusal
<1> QED
  BY <1>1, <1>2, <1>3, <1>4, GetAclVersionRefusal, CacheHitRefusal,
     CacheMissRefusal, HybridSearchRefusal, RouteRefusal, VerifyChunksRefusal,
     AbandonRefusal
  DEF RequestStep

-----------------------------------------------------------------------------
(***************************************************************************)
(* Administrators.                                                         *)
(***************************************************************************)

\* A step that only moves a transaction.
LEMMA TxStepRefusal ==
  ASSUME RefusalInv, UNCHANGED <<database, cache, req>>
  PROVE  RefusalInv'
  BY DEF RefusalInv, database, CurrentRefusalIsTrue, CarriedRefusalWasTrue,
         RefusalWasTrue, RoleReadable, Fingerprint, Caller, Carries, Refusing

\* A bump outdates every refusal stored or on its way, and the history of a
\* request in flight only shrinks.
LEMMA CommitRefusal ==
  ASSUME SerialAdmins, TypeOK, ServedInv, RefusalInv, NEW a \in Admins,
         Commit(a)
  PROVE  RefusalInv'
<1>1. version' = version + 1 /\ version \in Nat
  BY BoundsAssumption
  DEF Commit, ServedInv, SeenIsCurrent, TypeOK, Versions
<1>2. cache' = cache
  BY DEF Commit
<1>3. ASSUME NEW r \in Requests
      PROVE  /\ req'[r].pc = req[r].pc
             /\ req'[r].roles = req[r].roles
             /\ req'[r].version = req[r].version
             /\ req'[r].capability = req[r].capability
             /\ req'[r].scoped = req[r].scoped
             /\ req'[r].found = req[r].found
             /\ req'[r].context = req[r].context
             /\ req'[r].anomalous = req[r].anomalous
             /\ req'[r].always \subseteq req[r].always
  <2>1. req[r] \in RequestType
    BY DEF TypeOK
  <2>2. req' = Observe(docs', grants')
    BY DEF Commit
  <2>3. CASE ~InFlight(r)
    BY <2>2, <2>3 DEF Observe
  <2>4. CASE InFlight(r)
    <3> DEFINE mayRead == VisibleDocs(Caller(r), docs', grants', req[r].began)
    <3>1. req'[r] = [req[r] EXCEPT !.ever = @ \cup mayRead,
                                   !.always = @ \cap mayRead,
                                   !.lost = @ \cup (req[r].found \ mayRead)]
      BY <2>2, <2>4 DEF Observe
    <3> HIDE DEF mayRead
    <3> QED
      BY <2>1, <3>1 DEF RequestType
  <2> QED
    BY <2>3, <2>4
<1>4. \A r \in Requests : Refusing(r) => Carries(r)
  BY DEF Refusing, Carries
<1>5. CurrentRefusalIsTrue'
  <2>1. \A key \in DOMAIN cache : key.version # version + 1
    BY <1>1, BoundsAssumption
    DEF ServedInv, NoKeyFromTheFuture, TypeOK, KeyType, Versions
  <2>2. \A r \in Requests : Carries(r) => req[r].version # version + 1
    BY <1>1, BoundsAssumption
    DEF ServedInv, NoKeyFromTheFuture, TypeOK, Versions
  <2>3. \A key \in DOMAIN cache' : key.version # version'
    BY <1>1, <1>2, <2>1
  <2>4. \A r \in Requests : Refusing(r)' => req'[r].version # version'
    BY <1>1, <1>3, <1>4, <2>2 DEF Refusing
  <2> QED
    BY <2>3, <2>4 DEF CurrentRefusalIsTrue
<1>6. CarriedRefusalWasTrue'
  <2> SUFFICES ASSUME NEW s \in Requests, Carries(s)
      PROVE  /\ \A key \in DOMAIN cache :
                  /\ key.version = req[s].version
                  /\ key.fingerprint = Fingerprint(s)
                  /\ key.capability = req[s].capability
                  /\ Refusal(cache[key].result)
                  => req'[s].always
                       \cap InScope(SearchScope(req[s].capability)) = {}
             /\ \A r \in Requests :
                  /\ Refusing(r)
                  /\ req[r].version = req[s].version
                  /\ Fingerprint(r) = Fingerprint(s)
                  /\ req[r].capability = req[s].capability
                  => req'[s].always
                       \cap InScope(SearchScope(req[s].capability)) = {}
    BY <1>2, <1>3 DEF CarriedRefusalWasTrue, Refusal, Refusing, Carries,
                      Fingerprint, Caller
  <2>1. req'[s].always \subseteq req[s].always
    BY <1>3
  <2> QED
    BY <2>1 DEF RefusalInv, CarriedRefusalWasTrue
<1>7. RefusalWasTrue'
  BY <1>3 DEF RefusalInv, RefusalWasTrue
<1> QED
  BY <1>5, <1>6, <1>7 DEF RefusalInv

LEMMA AdminRefusal ==
  ASSUME SerialAdmins, TypeOK, ServedInv, RefusalInv, NEW a \in Admins,
         AdminStep(a)
  PROVE  RefusalInv'
<1>1. ASSUME NEW effect, Mutate(a, effect)
      PROVE  RefusalInv'
  BY <1>1, TxStepRefusal DEF Mutate
<1>2. CASE SelectAclVersion(a) \/ UpdateAclVersion(a) \/ Rollback(a)
  BY <1>2, TxStepRefusal DEF SelectAclVersion, UpdateAclVersion, Rollback
<1> QED
  BY <1>1, <1>2, CommitRefusal
  DEF AdminStep, ApproveDocument, RevokeDocument, DeleteDocument, SetUserRoles,
      SetUserActive, AddUserGrant, RemoveUserGrants

-----------------------------------------------------------------------------
(***************************************************************************)
(* The invariant, and the theorem.                                         *)
(***************************************************************************)

LEMMA InitRefusal == Init => RefusalInv
<1> SUFFICES ASSUME Init PROVE RefusalInv
  OBVIOUS
<1>1. DOMAIN cache = {}
  BY DEF Init, Empty
<1>2. \A r \in Requests : req[r] = IdleRequest
  BY DEF Init
<1>3. IdleRequest.pc = "idle"
  BY DEF IdleRequest
<1> QED
  BY <1>1, <1>2, <1>3 DEF RefusalInv, CurrentRefusalIsTrue,
     CarriedRefusalWasTrue, RefusalWasTrue, Refusing, Carries

LEMMA NextRefusal ==
  ASSUME SerialAdmins
  PROVE  TypeOK /\ ServedInv /\ ServedInv' /\ RefusalInv /\ [Next]_vars
           => RefusalInv'
<1> SUFFICES ASSUME TypeOK, ServedInv, ServedInv', RefusalInv, [Next]_vars
    PROVE  RefusalInv'
  OBVIOUS
<1>1. CASE ClearCache
  <2>1. DOMAIN cache' = {}
    BY <1>1 DEF ClearCache, Empty
  <2> QED
    BY <1>1, <2>1 DEF ClearCache, database, RefusalInv, CurrentRefusalIsTrue,
       CarriedRefusalWasTrue, RefusalWasTrue, RoleReadable, Fingerprint,
       Caller, Carries, Refusing
<1>2. CASE Restart
  <2>1. DOMAIN cache' = {}
    BY <1>2 DEF Restart, Empty
  <2>2. \A r \in Requests : req'[r].pc = "idle"
    BY <1>2 DEF Restart, IdleRequest
  <2> QED
    BY <2>1, <2>2 DEF RefusalInv, CurrentRefusalIsTrue, CarriedRefusalWasTrue,
       RefusalWasTrue, Carries, Refusing
<1>3. CASE Tick
  BY <1>3, TxStepRefusal DEF Tick
<1>4. CASE UNCHANGED vars
  BY <1>4, TxStepRefusal DEF vars, database
<1> QED
  BY <1>1, <1>2, <1>3, <1>4, RequestRefusal, AdminRefusal DEF Next

(***************************************************************************)
(* Under the same assumptions, nobody is refused for want of documents     *)
(* when one in the requested scope was readable throughout the request:    *)
(* not by the search, not by its second implementation, and not by a       *)
(* refusal cached for somebody else or before a change of access.          *)
(***************************************************************************)
THEOREM RefusalCorrect ==
  ASSUME SerialAdmins, NoPerUserGrants
  PROVE  Spec => []RefusalWasTrue
<1>1. Init => TypeOK /\ ServedInv /\ RefusalInv
  BY InitTyped, InitServed, InitRefusal
<1>2. TypeOK /\ ServedInv /\ RefusalInv /\ [Next]_vars
        => (TypeOK /\ ServedInv /\ RefusalInv)'
  BY NextTyped, NextServed, NextRefusal
<1>3. RefusalInv => RefusalWasTrue
  BY DEF RefusalInv
<1> QED
  BY <1>1, <1>2, <1>3, PTL DEF Spec
=============================================================================

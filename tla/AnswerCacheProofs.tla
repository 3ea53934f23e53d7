------------------------- MODULE AnswerCacheProofs -------------------------
(***************************************************************************)
(* Proofs about AnswerCache, for every value of its constants.             *)
(***************************************************************************)
EXTENDS AnswerCache, FiniteSetTheorems, TLAPS

-----------------------------------------------------------------------------
(***************************************************************************)
(* Type correctness.                                                       *)
(***************************************************************************)

LEMMA EmptyPartial ==
  ASSUME NEW S, NEW T
  PROVE  Empty \in PartialFunctions(S, T)
<1>1. Empty \in [{} -> T]
  BY DEF Empty
<1>2. {} \in SUBSET S
  OBVIOUS
<1> QED
  BY <1>1, <1>2 DEF PartialFunctions

\* The one-row functions the handlers write.
LEMMA OneRowPartial ==
  ASSUME NEW S, NEW T, NEW s \in S, NEW t \in T
  PROVE  [x \in {s} |-> t] \in PartialFunctions(S, T)
<1>1. [x \in {s} |-> t] \in [{s} -> T]
  OBVIOUS
<1>2. {s} \in SUBSET S
  OBVIOUS
<1> QED
  BY <1>1, <1>2 DEF PartialFunctions

LEMMA NoEffectTyped == NoEffect \in EffectType
  BY EmptyPartial DEF NoEffect, EffectType

LEMMA IdleTxTyped == IdleTx \in TxType
  BY NoEffectTyped, BoundsAssumption DEF IdleTx, TxType

LEMMA IdleRequestTyped == IdleRequest \in RequestType
<1>1. (CHOOSE q \in Questions : TRUE) \in Questions
  BY QuestionAssumption
<1>2. 0 \in Times /\ 0 \in 0..MaxVersion
  BY BoundsAssumption DEF Times
<1> QED
  BY <1>1, <1>2, QuestionAssumption DEF IdleRequest, RequestType

LEMMA OverwriteTyped ==
  ASSUME NEW S, NEW T, NEW table \in [S -> T],
         NEW rows \in PartialFunctions(S, T)
  PROVE  Overwrite(table, rows) \in [S -> T]
<1>1. PICK U \in SUBSET S : rows \in [U -> T]
  BY DEF PartialFunctions
<1> QED
  BY <1>1 DEF Overwrite

\* A step that changes one request only, to a well-typed value.
LEMMA AdvanceTyped ==
  ASSUME TypeOK, NEW r \in Requests, NEW fields \in RequestType,
         Advance(r, fields),
         fields.pc \in {"lookup", "search", "verify", "answer"}
           => fields.version \in Versions
  PROVE  /\ req' \in [Requests -> RequestType]
         /\ \A s \in Requests : Carries(s)' => req'[s].version \in Versions
  BY DEF TypeOK, Advance, Carries

LEMMA MutateTyped ==
  ASSUME TypeOK, NEW a \in Admins, NEW effect \in EffectType,
         Mutate(a, effect)
  PROVE  TypeOK'
<1>1. [pc |-> "changed", effect |-> effect, seen |-> 0] \in TxType
  BY BoundsAssumption DEF TxType
<1>2. tx' \in [Admins -> TxType]
  BY <1>1 DEF TypeOK, Mutate
<1> QED
  BY <1>2 DEF TypeOK, Mutate, database, Carries

LEMMA MaxOfLevels ==
  ASSUME NEW S \in SUBSET (1..4), S # {}
  PROVE  Max(S) \in 1..4
<1>1. \E x \in S : \A y \in S : x >= y
  <2>1. CASE 4 \in S
    BY <2>1
  <2>2. CASE 4 \notin S /\ 3 \in S
    BY <2>2
  <2>3. CASE 4 \notin S /\ 3 \notin S /\ 2 \in S
    BY <2>3
  <2>4. CASE 4 \notin S /\ 3 \notin S /\ 2 \notin S
    <3>1. \A y \in S : y = 1
      BY <2>4
    <3>2. 1 \in S
      BY <3>1
    <3> QED
      BY <3>1, <3>2
  <2> QED
    BY <2>1, <2>2, <2>3, <2>4
<1> QED
  BY <1>1 DEF Max

LEMMA CallerTyped ==
  ASSUME TypeOK, NEW r \in Requests
  PROVE  /\ Caller(r).tenant \in Tenants
         /\ Caller(r).roles \in SUBSET Roles
         /\ Caller(r).clearance \in 0..4
<1>1. req[r].roles \in SUBSET Roles
  BY DEF TypeOK, RequestType
<1>2. {Clearance[x] : x \in req[r].roles} \in SUBSET (1..4)
  BY <1>1, ClearanceAssumption
<1>3. CASE req[r].roles = {}
  BY <1>1, <1>3, AskerAssumption, UserTenantAssumption DEF Caller, PrincipalOf
<1>4. CASE req[r].roles # {}
  <2>1. Max({Clearance[x] : x \in req[r].roles}) \in 1..4
    BY <1>2, <1>4, MaxOfLevels
  <2> QED
    BY <1>1, <1>4, <2>1, AskerAssumption, UserTenantAssumption
    DEF Caller, PrincipalOf
<1> QED
  BY <1>3, <1>4

LEMMA CacheKeyTyped ==
  ASSUME TypeOK, NEW r \in Requests, Carries(r)
  PROVE  CacheKey(r) \in KeyType
  BY CallerTyped DEF CacheKey, KeyType, AclFingerprint, TypeOK, RequestType

LEMMA DeliverTyped ==
  ASSUME TypeOK, NEW r \in Requests, NEW fromCache \in BOOLEAN,
         NEW result \in [sources : SUBSET Docs, anomalous : BOOLEAN],
         Deliver(r, result, fromCache)
  PROVE  /\ req' \in [Requests -> RequestType]
         /\ \A s \in Requests : Carries(s)' => req'[s].version \in Versions
<1> DEFINE fields == [IdleRequest EXCEPT
                !.pc = "done", !.cached = fromCache,
                !.capability = req[r].capability,
                !.context = result.sources, !.anomalous = result.anomalous,
                !.ever = req[r].ever, !.always = req[r].always]
<1>1. fields \in RequestType /\ fields.pc = "done"
  BY IdleRequestTyped DEF TypeOK, RequestType
<1>2. Advance(r, fields)
  BY DEF Deliver
<1> QED
  BY <1>1, <1>2, AdvanceTyped

LEMMA BeginTyped ==
  ASSUME TypeOK, NEW r \in Requests, NEW callerRoles \in SUBSET Roles,
         NEW q \in Questions, NEW capability \in Capabilities,
         Begin(r, callerRoles, q, capability)
  PROVE  /\ req' \in [Requests -> RequestType]
         /\ \A s \in Requests : Carries(s)' => req'[s].version \in Versions
<1> DEFINE mayRead == VisibleDocs(PrincipalOf(Asker[r], callerRoles),
                                  docs, grants, now)
           fields  == [IdleRequest EXCEPT
                    !.pc = "version", !.roles = callerRoles, !.question = q,
                    !.capability = capability, !.began = now,
                    !.ever = mayRead, !.always = mayRead]
<1>1. mayRead \in SUBSET Docs
  BY DEF VisibleDocs
<1> HIDE DEF mayRead
<1>2. fields \in RequestType /\ fields.pc = "version"
  BY <1>1, IdleRequestTyped DEF TypeOK, RequestType
<1>3. Advance(r, fields)
  BY DEF Begin, mayRead
<1> QED
  BY <1>2, <1>3, AdvanceTyped

\* A step that only advances a request.
LEMMA RequestOnly ==
  ASSUME TypeOK, UNCHANGED <<database, tx, cache, now>>,
         req' \in [Requests -> RequestType],
         \A r \in Requests : Carries(r)' => req'[r].version \in Versions
  PROVE  TypeOK'
  BY DEF TypeOK, database

LEMMA AnswerWithTyped ==
  ASSUME TypeOK, NEW r \in Requests,
         NEW sources \in SUBSET Docs, NEW anomalous \in BOOLEAN,
         AnswerWith(r, Result(sources, anomalous))
  PROVE  TypeOK'
<1> DEFINE result == Result(sources, anomalous)
<1>1. result \in [sources : SUBSET Docs, anomalous : BOOLEAN]
  BY DEF Result
<1>2. /\ req' \in [Requests -> RequestType]
      /\ \A s \in Requests : Carries(s)' => req'[s].version \in Versions
  BY <1>1, DeliverTyped DEF AnswerWith
<1>3. CacheKey(r) \in KeyType
  BY CacheKeyTyped DEF AnswerWith, Carries
<1>4. PICK keys \in Survivors(DOMAIN cache) :
        cache' = [k \in keys \cup {CacheKey(r)} |->
                    IF k = CacheKey(r)
                    THEN [stored |-> now, result |-> result]
                    ELSE cache[k]]
  BY DEF AnswerWith
<1>5. keys \subseteq DOMAIN cache
  BY <1>4 DEF Survivors
<1>6. [stored |-> now, result |-> result] \in EntryType
  BY <1>1 DEF TypeOK, EntryType
<1>7. /\ DOMAIN cache' \subseteq KeyType
      /\ \A key \in DOMAIN cache' : cache'[key] \in EntryType
  BY <1>3, <1>4, <1>5, <1>6 DEF TypeOK
<1> QED
  BY <1>2, <1>7 DEF AnswerWith, TypeOK, database

\* What a search writes into a request.
LEMMA FoundTyped ==
  ASSUME NEW q \in RequestType, NEW found \in SUBSET Docs
  PROVE  /\ [q EXCEPT !.pc = "verify", !.found = found] \in RequestType
         /\ [q EXCEPT !.pc = "verify", !.scoped = TRUE, !.found = found] \in RequestType
BY DEF RequestType

\* What the re-verification writes into it.
LEMMA KeptTyped ==
  ASSUME NEW q \in RequestType, NEW kept \in SUBSET Docs, NEW anomalous \in BOOLEAN
  PROVE  [q EXCEPT !.pc = "answer", !.found = {}, !.context = kept,
                   !.anomalous = anomalous, !.lost = {}] \in RequestType
BY ZenonT(30) DEF RequestType

LEMMA RequestStepTyped ==
  ASSUME TypeOK, NEW r \in Requests, RequestStep(r)
  PROVE  TypeOK'
<1>1. ASSUME NEW q \in Questions, NEW c \in Capabilities, Ask(r, q, c)
      PROVE  TypeOK'
  <2>1. roles[Asker[r]] \in SUBSET Roles
    BY AskerAssumption DEF TypeOK
  <2> QED
    BY <1>1, <2>1, BeginTyped, RequestOnly DEF Ask
<1>2. ASSUME NEW q \in Questions, NEW c \in Capabilities, NEW role \in Roles,
             CompareRole(r, role, q, c)
      PROVE  TypeOK'
  BY <1>2, BeginTyped, RequestOnly DEF CompareRole
<1>3. CASE GetAclVersion(r)
  <2> DEFINE fields == [req[r] EXCEPT !.pc = "lookup", !.version = version]
  <2>1. version \in Versions /\ version \in 0..MaxVersion
    BY BoundsAssumption DEF TypeOK, Versions
  <2>2. req[r] \in RequestType
    BY DEF TypeOK
  <2>3. fields \in RequestType /\ fields.version \in Versions
    BY <2>1, <2>2 DEF RequestType
  <2> QED
    BY <1>3, <2>3, AdvanceTyped, RequestOnly DEF GetAclVersion
<1>4. CASE CacheHit(r)
  <2>1. cache[CacheKey(r)].result
          \in [sources : SUBSET Docs, anomalous : BOOLEAN]
    BY <1>4 DEF CacheHit, TypeOK, EntryType
  <2> QED
    BY <1>4, <2>1, DeliverTyped, RequestOnly DEF CacheHit
<1>5. CASE CacheMiss(r)
  <2> DEFINE fields == [req[r] EXCEPT !.pc = "search"]
  <2>1. fields \in RequestType /\ fields.version \in Versions
    BY <1>5 DEF TypeOK, RequestType, CacheMiss, Carries
  <2>2. /\ req' \in [Requests -> RequestType]
        /\ \A s \in Requests : Carries(s)' => req'[s].version \in Versions
    BY <1>5, <2>1, AdvanceTyped DEF CacheMiss
  <2>3. /\ DOMAIN cache' \subseteq DOMAIN cache
        /\ \A key \in DOMAIN cache' : cache'[key] = cache[key]
    BY <1>5 DEF CacheMiss
  <2> QED
    BY <1>5, <2>2, <2>3 DEF TypeOK, CacheMiss, database
<1>6. CASE HybridSearch(r)
  <2>1. PICK found \in SUBSET Docs :
          Advance(r, [req[r] EXCEPT !.pc = "verify", !.found = found])
    BY <1>6 DEF HybridSearch, AuthorizedDocs, VisibleDocs
  <2> DEFINE fields == [req[r] EXCEPT !.pc = "verify", !.found = found]
  <2>2. fields \in RequestType /\ fields.version \in Versions
    <3>1. req[r] \in RequestType /\ req[r].version \in Versions
      BY <1>6 DEF TypeOK, HybridSearch, Carries
    <3>2. fields.version = req[r].version
      BY <3>1 DEF RequestType
    <3> QED BY <3>1, <3>2, FoundTyped
  <2> QED
    BY <1>6, <2>1, <2>2, AdvanceTyped, RequestOnly DEF HybridSearch
<1>7. ASSUME NEW d \in Docs, RouteToNamedCapability(r, d)
      PROVE  TypeOK'
  <2>1. PICK found \in SUBSET Docs :
          Advance(r, [req[r] EXCEPT
                        !.pc = "verify", !.scoped = TRUE, !.found = found])
    BY <1>7 DEF RouteToNamedCapability, AuthorizedDocs, VisibleDocs
  <2> DEFINE fields == [req[r] EXCEPT
                          !.pc = "verify", !.scoped = TRUE, !.found = found]
  <2>2. fields \in RequestType /\ fields.version \in Versions
    <3>1. req[r] \in RequestType /\ req[r].version \in Versions
      BY <1>7 DEF TypeOK, RouteToNamedCapability, Carries
    <3>2. fields.version = req[r].version
      BY <3>1 DEF RequestType
    <3> QED BY <3>1, <3>2, FoundTyped
  <2> QED
    BY <1>7, <2>1, <2>2, AdvanceTyped, RequestOnly DEF RouteToNamedCapability
<1>8. CASE VerifyChunks(r)
  <2>1. PICK kept \in SUBSET Docs, anomalous \in BOOLEAN :
          Advance(r, [req[r] EXCEPT !.pc = "answer", !.found = {},
                                    !.context = kept,
                                    !.anomalous = anomalous, !.lost = {}])
    BY <1>8 DEF VerifyChunks, TypeOK, RequestType
  <2> DEFINE fields == [req[r] EXCEPT !.pc = "answer", !.found = {},
                                      !.context = kept,
                                      !.anomalous = anomalous, !.lost = {}]
  <2>2. fields \in RequestType /\ fields.version \in Versions
    <3>1. req[r] \in RequestType /\ req[r].version \in Versions
      BY <1>8 DEF TypeOK, VerifyChunks, Carries
    <3>2. fields.version = req[r].version
      BY <3>1 DEF RequestType
    <3>3. fields \in RequestType
      BY <3>1, KeptTyped
    <3> QED BY <3>1, <3>2, <3>3
  <2> QED
    BY <1>8, <2>1, <2>2, AdvanceTyped, RequestOnly DEF VerifyChunks
<1>9. CASE FinaliseAndStore(r)
  BY <1>9, AnswerWithTyped DEF FinaliseAndStore, TypeOK, RequestType
<1>10. CASE FinaliseClarification(r)
  BY <1>10, AnswerWithTyped DEF FinaliseClarification, TypeOK, RequestType
<1>11. CASE Abandon(r)
  BY <1>11, IdleRequestTyped, AdvanceTyped, RequestOnly DEF Abandon, IdleRequest
<1> QED
  BY <1>1, <1>2, <1>3, <1>4, <1>5, <1>6, <1>7, <1>8, <1>9, <1>10, <1>11
  DEF RequestStep

LEMMA AdminStepTyped ==
  ASSUME TypeOK, NEW a \in Admins, AdminStep(a)
  PROVE  TypeOK'
<1>1. ASSUME NEW d \in Docs, NEW roleKeys \in SUBSET Roles,
             NEW sensitivity \in Sensitivities,
             ApproveDocument(a, d, roleKeys, sensitivity)
      PROVE  TypeOK'
  <2> DEFINE row == [status |-> "APPROVED", sensitivity |-> sensitivity,
                     acl |-> roleKeys]
             effect == [NoEffect EXCEPT !.docs = [x \in {d} |-> row]]
  <2>1. row \in DocumentRow
    BY SensitivityAssumption DEF DocumentRow, DocStatus
  <2>2. [x \in {d} |-> row] \in PartialFunctions(Docs, DocumentRow)
    BY <2>1, OneRowPartial
  <2>3. effect \in EffectType
    BY <2>2, NoEffectTyped DEF EffectType
  <2>4. Mutate(a, effect)
    BY <1>1 DEF ApproveDocument
  <2> QED
    BY <2>3, <2>4, MutateTyped
<1>2. ASSUME NEW d \in Docs, RevokeDocument(a, d)
      PROVE  TypeOK'
  <2> DEFINE row == [docs[d] EXCEPT !.status = "PENDING_REVIEW", !.acl = {}]
             effect == [NoEffect EXCEPT !.docs = [x \in {d} |-> row]]
  <2>1. row \in DocumentRow
    BY DEF TypeOK, DocumentRow, DocStatus
  <2>2. [x \in {d} |-> row] \in PartialFunctions(Docs, DocumentRow)
    BY <2>1, OneRowPartial
  <2>3. effect \in EffectType
    BY <2>2, NoEffectTyped DEF EffectType
  <2>4. Mutate(a, effect)
    BY <1>2 DEF RevokeDocument
  <2> QED
    BY <2>3, <2>4, MutateTyped
<1>3. ASSUME NEW d \in Docs, DeleteDocument(a, d)
      PROVE  TypeOK'
  <2> DEFINE row == [docs[d] EXCEPT !.status = "absent", !.acl = {}]
             cleared == {g \in grants : g.doc = d}
             effect == [NoEffect EXCEPT !.docs = [x \in {d} |-> row],
                                        !.cleared = cleared]
  <2>1. row \in DocumentRow /\ cleared \in SUBSET GrantRow(GrantExpiries)
    BY DEF TypeOK, DocumentRow, DocStatus
  <2>2. [x \in {d} |-> row] \in PartialFunctions(Docs, DocumentRow)
    BY <2>1, OneRowPartial
  <2>3. effect \in EffectType
    BY <2>1, <2>2, NoEffectTyped DEF EffectType
  <2>4. Mutate(a, effect)
    BY <1>3 DEF DeleteDocument
  <2> QED
    BY <2>3, <2>4, MutateTyped
<1>4. ASSUME NEW u \in Users, NEW roleKeys \in SUBSET Roles,
             SetUserRoles(a, u, roleKeys)
      PROVE  TypeOK'
  <2> DEFINE effect == [NoEffect EXCEPT !.roles = [x \in {u} |-> roleKeys]]
  <2>1. [x \in {u} |-> roleKeys] \in PartialFunctions(Users, SUBSET Roles)
    BY OneRowPartial
  <2>2. effect \in EffectType
    BY <2>1, NoEffectTyped DEF EffectType
  <2> QED
    BY <1>4, <2>2, MutateTyped DEF SetUserRoles
<1>5. ASSUME NEW u \in Users, NEW isActive \in BOOLEAN,
             SetUserActive(a, u, isActive)
      PROVE  TypeOK'
  <2> DEFINE effect == [NoEffect EXCEPT !.active = [x \in {u} |-> isActive]]
  <2>1. [x \in {u} |-> isActive] \in PartialFunctions(Users, BOOLEAN)
    BY OneRowPartial
  <2>2. effect \in EffectType
    BY <2>1, NoEffectTyped DEF EffectType
  <2> QED
    BY <1>5, <2>2, MutateTyped DEF SetUserActive
<1>6. ASSUME NEW u \in Users, NEW d \in Docs, NEW e \in GrantEffects,
             NEW expires \in GrantExpiries, AddUserGrant(a, u, d, e, expires)
      PROVE  TypeOK'
  <2> DEFINE granted == {[user |-> u, doc |-> d, effect |-> e,
                          expires |-> expires]}
             cleared == {g \in grants : g.user = u /\ g.doc = d
                                                  /\ g.effect = e}
             effect == [NoEffect EXCEPT !.granted = granted,
                                        !.cleared = cleared]
  <2>1. granted \in SUBSET GrantRow(GrantExpiries)
    BY GrantAssumption DEF GrantRow
  <2>2. cleared \in SUBSET GrantRow(GrantExpiries)
    BY DEF TypeOK
  <2>3. effect \in EffectType
    BY <2>1, <2>2, NoEffectTyped DEF EffectType
  <2>4. Mutate(a, effect)
    BY <1>6 DEF AddUserGrant
  <2> QED
    BY <2>3, <2>4, MutateTyped
<1>7. ASSUME NEW u \in Users, NEW d \in Docs, RemoveUserGrants(a, u, d)
      PROVE  TypeOK'
  <2> DEFINE cleared == {g \in grants : g.user = u /\ g.doc = d}
             effect == [NoEffect EXCEPT !.cleared = cleared]
  <2>1. cleared \in SUBSET GrantRow(GrantExpiries)
    BY DEF TypeOK
  <2>2. effect \in EffectType
    BY <2>1, NoEffectTyped DEF EffectType
  <2>3. Mutate(a, effect)
    BY <1>7 DEF RemoveUserGrants
  <2> QED
    BY <2>2, <2>3, MutateTyped
<1>8. CASE SelectAclVersion(a)
  <2>1. version \in 0..(MaxVersion - 1)
    BY <1>8, BoundsAssumption DEF SelectAclVersion, TypeOK, Versions
  <2>2. tx' \in [Admins -> TxType]
    BY <1>8, <2>1 DEF SelectAclVersion, TypeOK, TxType
  <2> QED
    BY <1>8, <2>2 DEF SelectAclVersion, TypeOK, database, Carries
<1>9. CASE UpdateAclVersion(a)
  <2>1. tx' \in [Admins -> TxType]
    BY <1>9 DEF UpdateAclVersion, TypeOK, TxType
  <2> QED
    BY <1>9, <2>1 DEF UpdateAclVersion, TypeOK, database, Carries
<1>10. CASE Commit(a)
  <2>1. tx[a] \in TxType /\ tx[a].effect \in EffectType
    BY DEF TypeOK, TxType
  <2>2. docs' \in [Docs -> DocumentRow]
    BY <1>10, <2>1, OverwriteTyped DEF Commit, TypeOK, EffectType
  <2>3. roles' \in [Users -> SUBSET Roles]
    BY <1>10, <2>1, OverwriteTyped DEF Commit, TypeOK, EffectType
  <2>4. active' \in [Users -> BOOLEAN]
    BY <1>10, <2>1, OverwriteTyped DEF Commit, TypeOK, EffectType
  <2>5. grants' \subseteq GrantRow(GrantExpiries)
    BY <1>10, <2>1 DEF Commit, TypeOK, EffectType
  <2>6. version' \in Versions
    <3>1. tx[a].seen \in 0..(MaxVersion - 1)
      BY <2>1 DEF TxType
    <3> QED
      BY <1>10, <3>1, BoundsAssumption DEF Commit, Versions
  <2>7. tx' \in [Admins -> TxType]
    BY <1>10, IdleTxTyped DEF Commit, TypeOK
  <2>8. /\ req' \in [Requests -> RequestType]
        /\ \A r \in Requests : req'[r].pc = req[r].pc
                             /\ req'[r].version = req[r].version
    <3>1. req' = Observe(docs', grants')
      BY <1>10 DEF Commit
    <3>2. ASSUME NEW r \in Requests
          PROVE  VisibleDocs(Caller(r), docs', grants', req[r].began)
                   \in SUBSET Docs
      BY DEF VisibleDocs
    <3>3. ASSUME NEW r \in Requests
          PROVE  /\ req'[r] \in RequestType
                 /\ req'[r].pc = req[r].pc
                 /\ req'[r].version = req[r].version
      <4>1. req[r] \in RequestType
        BY DEF TypeOK
      <4>2. CASE ~InFlight(r)
        BY <3>1, <4>1, <4>2 DEF Observe
      <4>3. CASE InFlight(r)
        <5> DEFINE mayRead == VisibleDocs(Caller(r), docs', grants',
                                          req[r].began)
        <5>1. mayRead \in SUBSET Docs
          BY <3>2
        <5> DEFINE ever == req[r].ever \cup mayRead
                   always == req[r].always \cap mayRead
                   lost == req[r].lost \cup (req[r].found \ mayRead)
        <5>2. req'[r] = [req[r] EXCEPT !.ever = ever, !.always = always,
                                       !.lost = lost]
          BY <3>1, <4>3 DEF Observe
        <5>3. ever \in SUBSET Docs /\ always \in SUBSET Docs
                /\ lost \in SUBSET Docs
          BY <4>1, <5>1 DEF RequestType
        <5> HIDE DEF mayRead, ever, always, lost
        <5> QED
          BY <4>1, <5>2, <5>3, ZenonT(30) DEF RequestType
      <4> QED
        BY <4>2, <4>3
    <3>4. DOMAIN req' = Requests /\ req' = [r \in Requests |-> req'[r]]
      BY <3>1 DEF Observe
    <3> QED
      BY <3>3, <3>4
  <2> QED
    BY <1>10, <2>2, <2>3, <2>4, <2>5, <2>6, <2>7, <2>8
    DEF Commit, TypeOK, Carries
<1>11. CASE Rollback(a)
  <2>1. tx' \in [Admins -> TxType]
    BY <1>11, IdleTxTyped DEF Rollback, TypeOK
  <2> QED
    BY <1>11, <2>1 DEF Rollback, TypeOK, database, Carries
<1> QED
  BY <1>1, <1>2, <1>3, <1>4, <1>5, <1>6, <1>7, <1>8, <1>9, <1>10, <1>11
  DEF AdminStep

LEMMA InitTyped == Init => TypeOK
<1> SUFFICES ASSUME Init PROVE TypeOK
  OBVIOUS
<1>1. DOMAIN cache = {}
  BY DEF Init, Empty
<1>2. version \in Versions /\ now \in Times
  BY BoundsAssumption DEF Init, Versions, Times
<1>3. tx \in [Admins -> TxType]
  BY IdleTxTyped DEF Init
<1>4. req \in [Requests -> RequestType]
  BY IdleRequestTyped DEF Init
<1>5. \A r \in Requests : ~Carries(r)
  BY DEF Init, IdleRequest, Carries
<1>6. active \in [Users -> BOOLEAN]
  BY DEF Init
<1> QED
  BY <1>1, <1>2, <1>3, <1>4, <1>5, <1>6, InitAssumption DEF Init, TypeOK

LEMMA NextTyped == TypeOK /\ [Next]_vars => TypeOK'
<1> SUFFICES ASSUME TypeOK, [Next]_vars PROVE TypeOK'
  OBVIOUS
<1>1. CASE ClearCache
  <2>1. DOMAIN cache' = {}
    BY <1>1 DEF ClearCache, Empty
  <2> QED
    BY <1>1, <2>1 DEF ClearCache, TypeOK, database, Carries
<1>2. CASE Restart
  <2>1. DOMAIN cache' = {}
    BY <1>2 DEF Restart, Empty
  <2>2. tx' \in [Admins -> TxType] /\ req' \in [Requests -> RequestType]
    BY <1>2, IdleTxTyped, IdleRequestTyped DEF Restart
  <2>3. \A r \in Requests : ~Carries(r)'
    BY <1>2 DEF Restart, Carries, IdleRequest
  <2> QED
    BY <1>2, <2>1, <2>2, <2>3 DEF Restart, TypeOK, database
<1>3. CASE Tick
  <2>1. now' \in Times
    BY <1>3, BoundsAssumption DEF Tick, TypeOK, Times
  <2> QED
    BY <1>3, <2>1 DEF Tick, TypeOK, database, Carries
<1>4. CASE UNCHANGED vars
  BY <1>4 DEF vars, TypeOK, Carries
<1> QED
  BY <1>1, <1>2, <1>3, <1>4, RequestStepTyped, AdminStepTyped DEF Next

(***************************************************************************)
(* Every reachable state is well typed; in particular no request ever      *)
(* looks in the cache under a version the database has not had.            *)
(***************************************************************************)
THEOREM TypeCorrect == Spec => []TypeOK
  BY InitTyped, NextTyped, PTL DEF Spec

-----------------------------------------------------------------------------
(***************************************************************************)
(* What an answer made for its own request rests on, with any number of    *)
(* administrators and with per-user grants.                                *)
(***************************************************************************)

\* The part of FreshInv one request's record has to satisfy.
OwnFresh(f, r) ==
  LET readable == VisibleDocs(PrincipalOf(Asker[r], f.roles), docs, grants,
                              f.began)
  IN  /\ f.pc \notin {"idle", "done"} => /\ ~f.cached
                                        /\ readable \subseteq f.ever
                                        /\ f.always \subseteq readable
                                        /\ f.found \subseteq readable \cup f.lost
      /\ f.found \subseteq f.ever
      /\ ~f.cached => f.context \subseteq f.ever

LEMMA FreshParts == FreshInv <=> \A r \in Requests : OwnFresh(req[r], r)
  BY DEF FreshInv, OwnFresh, Caller, InFlight

LEMMA AdvanceFresh ==
  ASSUME TypeOK, FreshInv, NEW r \in Requests, NEW f, Advance(r, f),
         OwnFresh(f, r), UNCHANGED <<docs, grants>>
  PROVE  FreshInv'
<1>1. req'[r] = f /\ \A s \in Requests \ {r} : req'[s] = req[s]
  BY DEF TypeOK, Advance
<1>2. ASSUME NEW s \in Requests PROVE OwnFresh(req[s], s)'
  <2>1. CASE s = r
    BY <1>1, <2>1 DEF OwnFresh
  <2>2. CASE s # r
    <3>1. req'[s] = req[s] /\ OwnFresh(req[s], s)
      BY <1>1, <2>2, FreshParts
    <3> QED
      BY <3>1 DEF OwnFresh
  <2> QED
    BY <2>1, <2>2
<1> QED
  BY <1>2 DEF FreshInv, OwnFresh, Caller, InFlight

LEMMA IdleFresh == \A r \in Requests : OwnFresh(IdleRequest, r)
  BY DEF OwnFresh, IdleRequest

\* A step that moves nothing the invariant speaks of.
LEMMA StillFresh ==
  ASSUME FreshInv, UNCHANGED <<docs, grants, req>>
  PROVE  FreshInv'
  BY DEF FreshInv, Caller, InFlight

LEMMA BeginFresh ==
  ASSUME TypeOK, FreshInv, NEW r \in Requests, NEW callerRoles, NEW q,
         NEW capability, Begin(r, callerRoles, q, capability),
         UNCHANGED <<docs, grants>>
  PROVE  FreshInv'
<1> DEFINE mayRead == VisibleDocs(PrincipalOf(Asker[r], callerRoles),
                                  docs, grants, now)
           f == [IdleRequest EXCEPT
                    !.pc = "version", !.roles = callerRoles, !.question = q,
                    !.capability = capability, !.began = now,
                    !.ever = mayRead, !.always = mayRead]
<1>1. OwnFresh(f, r)
  BY DEF OwnFresh, IdleRequest
<1>2. Advance(r, f)
  BY DEF Begin
<1> QED
  BY <1>1, <1>2, AdvanceFresh

\* The early return for callers without roles changes nothing: their clearance
\* is 0, and every document's sensitivity is at least 1, ALLOW or not.
LEMMA EarlyReturnIsRedundant ==
  ASSUME TypeOK, NEW r \in Requests, NEW t
  PROVE  AuthorizedDocs(Caller(r), docs, grants, t)
           = VisibleDocs(Caller(r), docs, grants, t)
<1>1. CASE Caller(r).roles = {}
  <2>1. Caller(r).clearance = 0
    BY <1>1 DEF Caller, PrincipalOf
  <2>2. \A d \in Docs : docs[d].sensitivity \in 1..4
    BY DEF TypeOK, DocumentRow
  <2>3. VisibleDocs(Caller(r), docs, grants, t) = {}
    BY <2>1, <2>2 DEF VisibleDocs, Visible
  <2> QED
    BY <1>1, <2>3 DEF AuthorizedDocs
<1>2. CASE Caller(r).roles # {}
  BY <1>2 DEF AuthorizedDocs
<1> QED
  BY <1>1, <1>2

\* What a request in flight is authorized for lies within its history.
LEMMA AuthorizedObserved ==
  ASSUME TypeOK, FreshInv, NEW r \in Requests, InFlight(r)
  PROVE  LET found == AuthorizedDocs(Caller(r), docs, grants, req[r].began)
         IN  found \subseteq req[r].ever /\ req[r].always \subseteq found
  BY EarlyReturnIsRedundant DEF FreshInv

\* hybrid_search, whatever its scope.
LEMMA SearchFresh ==
  ASSUME TypeOK, FreshInv, NEW r \in Requests, InFlight(r),
         NEW scoped \in BOOLEAN,
         NEW found \in SUBSET AuthorizedDocs(Caller(r), docs, grants,
                                             req[r].began),
         Advance(r, [req[r] EXCEPT !.pc = "verify", !.scoped = scoped,
                                   !.found = found]),
         UNCHANGED <<docs, grants>>
  PROVE  FreshInv'
<1> DEFINE f == [req[r] EXCEPT !.pc = "verify", !.scoped = scoped,
                               !.found = found]
<1>1. req[r] \in RequestType /\ OwnFresh(req[r], r)
  BY FreshParts DEF TypeOK
<1>2. /\ found \subseteq req[r].ever
      /\ found \subseteq VisibleDocs(Caller(r), docs, grants, req[r].began)
  BY AuthorizedObserved, EarlyReturnIsRedundant
<1>3. OwnFresh(f, r)
  BY <1>1, <1>2 DEF OwnFresh, RequestType, InFlight, Caller
<1> QED
  BY <1>3, AdvanceFresh

LEMMA VerifyChunksFresh ==
  ASSUME TypeOK, FreshInv, NEW r \in Requests, VerifyChunks(r)
  PROVE  FreshInv'
<1> DEFINE readable == AuthorizedDocs(Caller(r), docs, grants, req[r].began)
           kept == req[r].found \cap readable
           keepsFirst == req[r].scoped /\ kept = {}
           context == IF keepsFirst THEN req[r].context ELSE kept
           anomalous == IF keepsFirst THEN req[r].anomalous
                        ELSE kept # req[r].found
           f == [req[r] EXCEPT !.pc = "answer", !.found = {},
                               !.context = context, !.anomalous = anomalous,
                               !.lost = {}]
<1>1. InFlight(r) /\ req[r] \in RequestType /\ OwnFresh(req[r], r)
  BY FreshParts DEF TypeOK, VerifyChunks, InFlight
<1>2. Advance(r, f) /\ UNCHANGED <<docs, grants>>
  BY DEF VerifyChunks, database
<1> HIDE DEF readable
<1>3. ~req[r].cached
  BY <1>1 DEF OwnFresh, InFlight
<1>4. context \subseteq req[r].ever
  BY <1>1, <1>3 DEF OwnFresh
<1> HIDE DEF context, anomalous
<1>5. OwnFresh(f, r)
  BY <1>1, <1>3, <1>4 DEF OwnFresh, RequestType, InFlight
<1> QED
  BY <1>2, <1>5, AdvanceFresh

LEMMA DeliverFresh ==
  ASSUME TypeOK, FreshInv, NEW r \in Requests, NEW result,
         NEW fromCache \in BOOLEAN, Deliver(r, result, fromCache),
         ~fromCache => /\ InFlight(r)
                       /\ result.sources = req[r].context
                       /\ result.anomalous => req[r].anomalous,
         UNCHANGED <<docs, grants>>
  PROVE  FreshInv'
<1> DEFINE f == [IdleRequest EXCEPT
                !.pc = "done", !.cached = fromCache,
                !.capability = req[r].capability,
                !.context = result.sources, !.anomalous = result.anomalous,
                !.ever = req[r].ever, !.always = req[r].always]
<1>1. OwnFresh(req[r], r)
  BY FreshParts
<1>2. OwnFresh(f, r)
  BY <1>1 DEF OwnFresh, IdleRequest, InFlight
<1>3. Advance(r, f)
  BY DEF Deliver
<1> QED
  BY <1>2, <1>3, AdvanceFresh

LEMMA RequestStepFresh ==
  ASSUME TypeOK, FreshInv, NEW r \in Requests, RequestStep(r)
  PROVE  FreshInv'
<1>1. CASE \E q \in Questions, capability \in Capabilities :
             Ask(r, q, capability)
  BY <1>1, BeginFresh DEF Ask, database
<1>2. CASE \E q \in Questions, capability \in Capabilities, role \in Roles :
             CompareRole(r, role, q, capability)
  BY <1>2, BeginFresh DEF CompareRole, database
<1>3. CASE GetAclVersion(r)
  <2> DEFINE f == [req[r] EXCEPT !.pc = "lookup", !.version = version]
  <2>1. OwnFresh(req[r], r) /\ req[r] \in RequestType /\ req[r].pc = "version"
    BY <1>3, FreshParts DEF GetAclVersion, TypeOK
  <2>2. OwnFresh(f, r)
    BY <2>1 DEF OwnFresh, RequestType
  <2>3. Advance(r, f) /\ UNCHANGED <<docs, grants>>
    BY <1>3 DEF GetAclVersion, database
  <2> QED
    BY <2>2, <2>3, AdvanceFresh
<1>4. CASE CacheHit(r)
  BY <1>4, DeliverFresh DEF CacheHit, database
<1>5. CASE CacheMiss(r)
  <2> DEFINE f == [req[r] EXCEPT !.pc = "search"]
  <2>1. OwnFresh(req[r], r) /\ req[r] \in RequestType /\ req[r].pc = "lookup"
    BY <1>5, FreshParts DEF CacheMiss, TypeOK
  <2>2. OwnFresh(f, r)
    BY <2>1 DEF OwnFresh, RequestType
  <2>3. Advance(r, f) /\ UNCHANGED <<docs, grants>>
    BY <1>5 DEF CacheMiss, database
  <2> QED
    BY <2>2, <2>3, AdvanceFresh
<1>6. CASE HybridSearch(r)
  <2>1. PICK found \in SUBSET AuthorizedDocs(Caller(r), docs, grants,
                                             req[r].began) :
          Advance(r, [req[r] EXCEPT !.pc = "verify", !.found = found])
    BY <1>6 DEF HybridSearch
  <2>2. req[r] \in RequestType /\ InFlight(r) /\ UNCHANGED <<docs, grants>>
    BY <1>6 DEF HybridSearch, TypeOK, InFlight, database
  <2>3. [req[r] EXCEPT !.pc = "verify", !.found = found]
          = [req[r] EXCEPT !.pc = "verify", !.scoped = req[r].scoped,
                           !.found = found]
    BY <2>2 DEF RequestType
  <2>4. req[r].scoped \in BOOLEAN
    BY <2>2 DEF RequestType
  <2> QED
    BY <2>1, <2>2, <2>3, <2>4, SearchFresh
<1>7. CASE \E d \in Docs : RouteToNamedCapability(r, d)
  BY <1>7, SearchFresh DEF RouteToNamedCapability, InFlight, database
<1>8. CASE VerifyChunks(r)
  BY <1>8, VerifyChunksFresh
<1>9. CASE FinaliseAndStore(r) \/ FinaliseClarification(r)
  <2>1. PICK anomalous \in {req[r].anomalous, FALSE} :
          AnswerWith(r, Result(req[r].context, anomalous))
    BY <1>9 DEF FinaliseAndStore, FinaliseClarification
  <2>2. Deliver(r, Result(req[r].context, anomalous), FALSE) /\ InFlight(r)
        /\ UNCHANGED <<docs, grants>>
    BY <2>1 DEF AnswerWith, InFlight, database
  <2> QED
    BY <2>1, <2>2, DeliverFresh DEF Result
<1>10. CASE Abandon(r)
  BY <1>10, IdleFresh, AdvanceFresh DEF Abandon, database
<1> QED
  BY <1>1, <1>2, <1>3, <1>4, <1>5, <1>6, <1>7, <1>8, <1>9, <1>10
  DEF RequestStep

\* A commit widens ever and narrows always by exactly what changed.
LEMMA CommitFresh ==
  ASSUME TypeOK, FreshInv, NEW a \in Admins, Commit(a)
  PROVE  FreshInv'
<1>1. req' = Observe(docs', grants')
  BY DEF Commit
<1>2. ASSUME NEW r \in Requests PROVE OwnFresh(req[r], r)'
  <2> DEFINE mayRead == VisibleDocs(Caller(r), docs', grants', req[r].began)
  <2>1. req[r] \in RequestType /\ OwnFresh(req[r], r)
    BY FreshParts DEF TypeOK
  <2>2. CASE InFlight(r)
    <3>1. req'[r] = [req[r] EXCEPT !.ever = @ \cup mayRead,
                                   !.always = @ \cap mayRead,
                                   !.lost = @ \cup (req[r].found \ mayRead)]
      BY <1>1, <2>2 DEF Observe
    <3>2. mayRead = VisibleDocs(PrincipalOf(Asker[r], req'[r].roles),
                                docs', grants', req'[r].began)
      BY <2>1, <3>1 DEF Caller, RequestType
    <3> HIDE DEF mayRead
    <3> QED
      BY <2>1, <2>2, <3>1, <3>2 DEF OwnFresh, RequestType, InFlight
  <2>3. CASE ~InFlight(r)
    <3>1. req'[r] = req[r]
      BY <1>1, <2>3 DEF Observe
    <3> QED
      BY <2>1, <2>3, <3>1 DEF OwnFresh, InFlight
  <2> QED
    BY <2>2, <2>3
<1> QED
  BY <1>2 DEF FreshInv, OwnFresh, Caller, InFlight

LEMMA NextFresh == TypeOK /\ FreshInv /\ [Next]_vars => FreshInv'
<1> SUFFICES ASSUME TypeOK, FreshInv, [Next]_vars PROVE FreshInv'
  OBVIOUS
<1>1. ASSUME NEW a \in Admins, AdminStep(a) PROVE FreshInv'
  <2>1. CASE Commit(a)
    BY <2>1, CommitFresh
  <2>2. CASE ~Commit(a)
    <3>1. UNCHANGED <<docs, grants, req>>
      BY <1>1, <2>2 DEF AdminStep, ApproveDocument, RevokeDocument,
         DeleteDocument, SetUserRoles, SetUserActive, AddUserGrant,
         RemoveUserGrants, Mutate, SelectAclVersion, UpdateAclVersion,
         Rollback, database
    <3> QED
      BY <3>1, StillFresh
  <2> QED
    BY <2>1, <2>2
<1>2. CASE Restart
  BY <1>2, IdleFresh DEF Restart, database, FreshInv, OwnFresh, Caller, InFlight
<1>3. CASE ClearCache \/ Tick \/ UNCHANGED vars
  BY <1>3, StillFresh DEF ClearCache, Tick, vars, database
<1> QED
  BY <1>1, <1>2, <1>3, RequestStepFresh DEF Next

LEMMA InitFresh == Init => FreshInv
  BY IdleFresh DEF Init, FreshInv, OwnFresh, Caller, InFlight

LEMMA FreshInvariant == Spec => [](TypeOK /\ FreshInv)
  BY InitTyped, NextTyped, InitFresh, NextFresh, PTL DEF Spec

(***************************************************************************)
(* Whatever administrators do meanwhile, with however many transactions    *)
(* and grants at once, an answer made for a request is drawn from what its *)
(* caller could read while it ran: G3 and G4 of answer.py need no cache    *)
(* discipline.                                                             *)
(***************************************************************************)
THEOREM FreshCorrect == Spec => []FreshWasReadable
<1>1. FreshInv => FreshWasReadable
  BY DEF FreshInv, FreshWasReadable
<1> QED
  BY <1>1, FreshInvariant, PTL

\* What verify_chunks drops was lost since the search that found it.
LEMMA VerifyChunksDrops ==
  ASSUME TypeOK, FreshInv, NEW r \in Requests, VerifyChunks(r)
  PROVE  LET dropped == req[r].found \ req'[r].context
         IN  /\ dropped \subseteq req[r].lost
             /\ req'[r].anomalous => req[r].anomalous \/ dropped # {}
<1> DEFINE readable == AuthorizedDocs(Caller(r), docs, grants, req[r].began)
           kept == req[r].found \cap readable
           keepsFirst == req[r].scoped /\ kept = {}
<1>1. req[r].found \subseteq readable \cup req[r].lost
  BY EarlyReturnIsRedundant DEF FreshInv, VerifyChunks, InFlight
<1>2. /\ req'[r].context = IF keepsFirst THEN req[r].context ELSE kept
      /\ req'[r].anomalous = IF keepsFirst THEN req[r].anomalous
                             ELSE kept # req[r].found
  BY DEF VerifyChunks, Advance, TypeOK, RequestType
<1> HIDE DEF readable
<1>3. CASE keepsFirst
  <2>1. req[r].found \subseteq req[r].lost
    BY <1>1, <1>3
  <2> QED
    BY <1>2, <1>3, <2>1
<1>4. CASE ~keepsFirst
  <2>1. req[r].found \ kept \subseteq req[r].lost
    BY <1>1
  <2>2. kept # req[r].found => req[r].found \ kept # {}
    OBVIOUS
  <2> QED
    BY <1>2, <1>4, <2>1, <2>2
<1> QED
  BY <1>3, <1>4

\* Only verify_chunks takes a request from G4 to its answer.
LEMMA OnlyVerifyChunksVerifies ==
  ASSUME TypeOK, [Next]_vars, NEW r \in Requests,
         req[r].pc = "verify", req'[r].pc = "answer"
  PROVE  VerifyChunks(r)
<1>1. req'[r] # req[r] /\ req' # req
  OBVIOUS
<1>2. ASSUME NEW a \in Admins, AdminStep(a) PROVE FALSE
  <2>1. Commit(a)
    BY <1>1, <1>2 DEF AdminStep, ApproveDocument, RevokeDocument, DeleteDocument,
       SetUserRoles, SetUserActive, AddUserGrant, RemoveUserGrants, Mutate,
       SelectAclVersion, UpdateAclVersion, Rollback
  <2>2. req'[r].pc = req[r].pc
    BY <2>1 DEF Commit, Observe, TypeOK, RequestType
  <2> QED
    BY <2>2
<1>3. ~Restart
  BY DEF Restart, IdleRequest
<1>4. PICK s \in Requests : RequestStep(s)
  BY <1>1, <1>2, <1>3 DEF Next, ClearCache, Tick, vars
<1>5. ASSUME NEW f, Advance(s, f) PROVE s = r /\ f.pc = "answer"
  BY <1>1, <1>5 DEF Advance, TypeOK
<1>6. ASSUME NEW result, NEW fromCache, Deliver(s, result, fromCache) PROVE FALSE
  <2> DEFINE f == [IdleRequest EXCEPT
                     !.pc = "done", !.cached = fromCache,
                     !.capability = req[s].capability,
                     !.context = result.sources, !.anomalous = result.anomalous,
                     !.ever = req[s].ever, !.always = req[s].always]
  <2>1. f.pc = "done"
    BY DEF IdleRequest
  <2>2. Advance(s, f)
    BY <1>6 DEF Deliver
  <2> HIDE DEF f
  <2> QED
    BY <1>5, <2>1, <2>2
<1>7. ASSUME NEW callerRoles, NEW q, NEW capability, Begin(s, callerRoles, q, capability)
      PROVE  FALSE
  <2> DEFINE mayRead == VisibleDocs(PrincipalOf(Asker[s], callerRoles),
                                    docs, grants, now)
             f == [IdleRequest EXCEPT
                     !.pc = "version", !.roles = callerRoles, !.question = q,
                     !.capability = capability, !.began = now,
                     !.ever = mayRead, !.always = mayRead]
  <2>1. f.pc = "version"
    BY DEF IdleRequest
  <2>2. Advance(s, f)
    BY <1>7 DEF Begin
  <2> HIDE DEF f
  <2> QED
    BY <1>5, <2>1, <2>2
<1>8. req[s] \in RequestType
  BY DEF TypeOK
<1>9. ~GetAclVersion(s) /\ ~CacheMiss(s) /\ ~HybridSearch(s)
  BY <1>5, <1>8 DEF GetAclVersion, CacheMiss, HybridSearch, RequestType
<1>10. \A d \in Docs : ~RouteToNamedCapability(s, d)
  BY <1>5, <1>8 DEF RouteToNamedCapability, RequestType
<1>11. ~Abandon(s)
  BY <1>5 DEF Abandon, IdleRequest
<1>12. VerifyChunks(s)
  BY <1>4, <1>6, <1>7, <1>9, <1>10, <1>11
  DEF RequestStep, Ask, CompareRole, CacheHit, FinaliseAndStore, FinaliseClarification,
      AnswerWith
<1>13. s = r
  BY <1>5, <1>12 DEF VerifyChunks
<1> QED
  BY <1>12, <1>13

(***************************************************************************)
(* A SECURITY_ANOMALY is never a false alarm, whatever administrators and  *)
(* grants do: each document verify_chunks drops was taken from the caller  *)
(* by a commit between the hybrid_search that found it and that very       *)
(* re-verification, and nothing else is noted as an anomaly.               *)
(***************************************************************************)
THEOREM AnomalyCorrect == Spec => AnomalyMeansChange
<1>1. ASSUME TypeOK, FreshInv, [Next]_vars,
             NEW r \in Requests, req[r].pc = "verify", req'[r].pc = "answer"
      PROVE  LET dropped == req[r].found \ req'[r].context
             IN  /\ dropped \subseteq req[r].lost
                 /\ req'[r].anomalous => req[r].anomalous \/ dropped # {}
  BY <1>1, OnlyVerifyChunksVerifies, VerifyChunksDrops
<1>2. TypeOK /\ FreshInv /\ [Next]_vars =>
        [ \A r \in Requests :
            req[r].pc = "verify" /\ req'[r].pc = "answer" =>
              LET dropped == req[r].found \ req'[r].context
              IN  /\ dropped \subseteq req[r].lost
                  /\ req'[r].anomalous => req[r].anomalous \/ dropped # {} ]_vars
  BY <1>1
<1> QED
  BY <1>2, FreshInvariant, PTL DEF Spec, AnomalyMeansChange

-----------------------------------------------------------------------------
(***************************************************************************)
(* The size of the cache.                                                  *)
(***************************************************************************)

SizeInv == IsFiniteSet(DOMAIN cache) /\ CacheBounded

\* cache_put makes room before it stores, and removes one entry at most.
LEMMA AnswerWithSize ==
  ASSUME SizeInv, NEW r \in Requests, NEW result, AnswerWith(r, result)
  PROVE  SizeInv'
<1> DEFINE size == Cardinality(DOMAIN cache)
           key  == CacheKey(r)
<1>1. PICK keys \in Survivors(DOMAIN cache) : DOMAIN cache' = keys \cup {key}
  BY DEF AnswerWith
<1>2. size \in Nat /\ size <= CACHE_MAX_ENTRIES /\ CACHE_MAX_ENTRIES \in Nat \ {0}
  BY FS_CardinalityType, CacheAssumption DEF SizeInv, CacheBounded
<1>3. IsFiniteSet(keys) /\ Cardinality(keys) < CACHE_MAX_ENTRIES
  <2>1. CASE size < CACHE_MAX_ENTRIES
    BY <1>1, <2>1 DEF Survivors, SizeInv
  <2>2. CASE ~(size < CACHE_MAX_ENTRIES)
    <3>1. PICK oldest \in DOMAIN cache : keys = DOMAIN cache \ {oldest}
      BY <1>1, <2>2 DEF Survivors
    <3>2. IsFiniteSet(keys) /\ Cardinality(keys) = size - 1
      BY <3>1, FS_RemoveElement DEF SizeInv
    <3> QED
      BY <1>2, <3>2
  <2> QED
    BY <2>1, <2>2
<1>4. Cardinality(keys) \in Nat
  BY <1>3, FS_CardinalityType
<1>5. /\ IsFiniteSet(DOMAIN cache')
      /\ \/ Cardinality(DOMAIN cache') = Cardinality(keys)
         \/ Cardinality(DOMAIN cache') = Cardinality(keys) + 1
  BY <1>1, <1>3, FS_AddElement
<1>6. Cardinality(DOMAIN cache') <= CACHE_MAX_ENTRIES
  BY <1>2, <1>3, <1>4, <1>5
<1> QED
  BY <1>5, <1>6 DEF SizeInv, CacheBounded

\* Everything else leaves the entries alone or removes some.
LEMMA SmallerSize ==
  ASSUME SizeInv, DOMAIN cache' \subseteq DOMAIN cache
  PROVE  SizeInv'
<1> DEFINE size == Cardinality(DOMAIN cache)
           size2 == Cardinality(DOMAIN cache')
<1>1. IsFiniteSet(DOMAIN cache') /\ size2 <= size
  BY FS_Subset DEF SizeInv
<1>2. size \in Nat /\ size2 \in Nat /\ size <= CACHE_MAX_ENTRIES /\ CACHE_MAX_ENTRIES \in Nat
  BY <1>1, FS_CardinalityType, CacheAssumption DEF SizeInv, CacheBounded
<1> HIDE DEF size, size2
<1>3. size2 <= CACHE_MAX_ENTRIES
  BY <1>1, <1>2
<1> QED
  BY <1>1, <1>3 DEF SizeInv, CacheBounded, size2

LEMMA NextSize == SizeInv /\ [Next]_vars => SizeInv'
<1> SUFFICES ASSUME SizeInv, [Next]_vars PROVE SizeInv'
  OBVIOUS
<1>1. ASSUME NEW r \in Requests, RequestStep(r) PROVE SizeInv'
  <2>1. CASE FinaliseAndStore(r) \/ FinaliseClarification(r)
    BY <2>1, AnswerWithSize DEF FinaliseAndStore, FinaliseClarification
  <2>2. CASE CacheMiss(r)
    <3>1. DOMAIN cache' \subseteq DOMAIN cache
      BY <2>2 DEF CacheMiss
    <3> QED
      BY <3>1, SmallerSize
  <2>3. CASE ~(FinaliseAndStore(r) \/ FinaliseClarification(r)) /\ ~CacheMiss(r)
    <3>1. cache' = cache
      BY <1>1, <2>3 DEF RequestStep, Ask, CompareRole, GetAclVersion, CacheHit, HybridSearch,
         RouteToNamedCapability, VerifyChunks, Abandon
    <3> QED
      BY <3>1, SmallerSize
  <2> QED
    BY <2>1, <2>2, <2>3
<1>2. ASSUME NEW a \in Admins, AdminStep(a) PROVE SizeInv'
  <2>1. cache' = cache
    BY <1>2 DEF AdminStep, ApproveDocument, RevokeDocument, DeleteDocument, SetUserRoles,
       SetUserActive, AddUserGrant, RemoveUserGrants, Mutate, SelectAclVersion,
       UpdateAclVersion, Commit, Rollback
  <2> QED
    BY <2>1, SmallerSize
<1>3. CASE ClearCache \/ Restart
  <2>1. DOMAIN cache' = {}
    BY <1>3 DEF ClearCache, Restart, Empty
  <2> QED
    BY <2>1, SmallerSize
<1>4. CASE Tick \/ UNCHANGED vars
  BY <1>4, SmallerSize DEF Tick, vars
<1> QED
  BY <1>1, <1>2, <1>3, <1>4 DEF Next

LEMMA InitSize == Init => SizeInv
<1> SUFFICES ASSUME Init PROVE SizeInv
  OBVIOUS
<1>1. DOMAIN cache = {}
  BY DEF Init, Empty
<1> QED
  BY <1>1, FS_EmptySet, CacheAssumption DEF SizeInv, CacheBounded

(***************************************************************************)
(* However many requests store at once, and whatever is stored twice under *)
(* one key, the cache of answer.py stays within _CACHE_MAX_ENTRIES.        *)
(***************************************************************************)
THEOREM BoundCorrect == Spec => []CacheBounded
<1>1. SizeInv => CacheBounded
  BY DEF SizeInv
<1> QED
  BY <1>1, InitSize, NextSize, PTL DEF Spec

-----------------------------------------------------------------------------
(***************************************************************************)
(* The generation counter, when administrators work one at a time.         *)
(***************************************************************************)

\* Only a commit shows new access, and it writes one more than the counter it
\* has read.
LEMMA NextBumps ==
  ASSUME SerialAdmins, TypeOK, SeenIsCurrent, [Next]_vars
  PROVE  /\ SeenIsCurrent'
         /\ <<docs, grants, roles, active>>' # <<docs, grants, roles, active>>
              => version' > version
<1> DEFINE bumps == <<docs, grants, roles, active>>' # <<docs, grants, roles, active>>
                      => version' > version
<1>1. ASSUME UNCHANGED database, UNCHANGED tx
      PROVE  SeenIsCurrent' /\ bumps
  BY <1>1 DEF database, SeenIsCurrent
<1>2. ASSUME NEW a \in Admins, NEW record, tx' = [tx EXCEPT ![a] = record],
             UNCHANGED database,
             record.pc \in {"selected", "updated"} => record.seen = version
      PROVE  SeenIsCurrent' /\ bumps
  <2>1. ASSUME NEW b \in Admins PROVE tx'[b] = record
    BY <1>2 DEF SerialAdmins, TypeOK
  <2> QED
    BY <1>2, <2>1 DEF SeenIsCurrent, database
<1>3. ASSUME NEW a \in Admins, AdminStep(a)
      PROVE  SeenIsCurrent' /\ bumps
  <2>1. ASSUME NEW effect, Mutate(a, effect)
        PROVE  SeenIsCurrent' /\ bumps
    BY <1>2, <2>1 DEF Mutate
  <2>2. CASE SelectAclVersion(a)
    <3> DEFINE record == [tx[a] EXCEPT !.pc = "selected", !.seen = version]
    <3>1. tx' = [tx EXCEPT ![a] = record] /\ record.seen = version
      BY <2>2 DEF SelectAclVersion, TypeOK, TxType
    <3> QED
      BY <1>2, <2>2, <3>1 DEF SelectAclVersion
  <2>3. CASE UpdateAclVersion(a)
    <3> DEFINE record == [tx[a] EXCEPT !.pc = "updated"]
    <3>1. tx' = [tx EXCEPT ![a] = record] /\ record.seen = version
      BY <2>3 DEF UpdateAclVersion, TypeOK, TxType, SeenIsCurrent
    <3> QED
      BY <1>2, <2>3, <3>1 DEF UpdateAclVersion
  <2>4. CASE Commit(a)
    <3>1. \A b \in Admins : tx'[b].pc = "idle"
      BY <2>4 DEF Commit, SerialAdmins, TypeOK, IdleTx
    <3>2. version \in Int /\ version' = version + 1
      BY <2>4 DEF Commit, SeenIsCurrent, TypeOK, Versions
    <3> QED
      BY <3>1, <3>2 DEF SeenIsCurrent
  <2>5. CASE Rollback(a)
    BY <1>2, <2>5 DEF Rollback, IdleTx
  <2> QED
    BY <1>3, <2>1, <2>2, <2>3, <2>4, <2>5
    DEF AdminStep, ApproveDocument, RevokeDocument, DeleteDocument, SetUserRoles,
        SetUserActive, AddUserGrant, RemoveUserGrants
<1>4. ASSUME NEW r \in Requests, RequestStep(r)
      PROVE  SeenIsCurrent' /\ bumps
  <2>1. UNCHANGED database /\ UNCHANGED tx
    BY <1>4 DEF RequestStep, Ask, CompareRole, GetAclVersion, CacheHit, CacheMiss,
       HybridSearch, RouteToNamedCapability, VerifyChunks, FinaliseAndStore,
       FinaliseClarification, AnswerWith, Abandon
  <2> QED
    BY <1>1, <2>1
<1>5. CASE Restart
  BY <1>5 DEF Restart, database, SeenIsCurrent, IdleTx
<1>6. CASE ClearCache \/ Tick \/ UNCHANGED vars
  BY <1>1, <1>6 DEF ClearCache, Tick, vars, database
<1> QED
  BY <1>3, <1>4, <1>5, <1>6 DEF Next

(***************************************************************************)
(* With one administrator at a time, no step shows a new access state      *)
(* under an acl_version that a cached answer may already carry: "any ACL,  *)
(* role or document-status change increments acl_version" (models.py).     *)
(***************************************************************************)
THEOREM BumpCorrect == ASSUME SerialAdmins PROVE Spec => EveryChangeBumps
<1>1. Init => SeenIsCurrent
  BY DEF Init, SeenIsCurrent, IdleTx
<1>2. TypeOK /\ SeenIsCurrent /\ [Next]_vars => SeenIsCurrent'
  BY NextBumps
<1>3. TypeOK /\ SeenIsCurrent /\ [Next]_vars
        => [ <<docs, grants, roles, active>>' # <<docs, grants, roles, active>>
               => version' > version ]_vars
  BY NextBumps
<1> QED
  BY <1>1, <1>2, <1>3, TypeCorrect, PTL DEF Spec, EveryChangeBumps

=============================================================================

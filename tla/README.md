# TLA+ models of the document assistant backend

The repository is a FastAPI backend that answers questions from an
organisation's documents. Its promise is about access: an answer is drawn only
from documents its caller may read, at the moment it is given, and says where it
comes from. The models follow a document and a question through the system:

* the **folder and its documents** (`app/ingest/`): how a file becomes chunks,
  how the folder sync, the backfill and the panel keep documents up to date, and
  how uploads, approvals, revocations and deletions of one document overlap as
  database transactions;
* the **question** (`app/rag/`, `app/api/routes/chat.py`): the gate in front of
  it, search and re-verification, routing, citations, the audit log, feedback;
* the **answer cache**, which keeps finished answers beside an access state that
  administrators change.

Paths below are relative to `src/app` unless they begin with `docs/`;
`pipeline.py:409` is a line.

## The system and its parts

| Part | State it keeps | Operations | Interacts by |
|---|---|---|---|
| Access predicate (`rag/retrieval.py`, G3/G4) | none; reads documents, ACL, grants, tenants | `hybrid_search`, `authorized_document_ids`, `verify_chunks` | one SQL statement each, READ COMMITTED, `now()` fixed at transaction start |
| Principal (`core/security.py`, `core/principal.py`, G2) | JWKS cache | `load_principal`, `acl_fingerprint`, `decode_token`, `_get_jwks` | loaded once per request, carried to its end; fetches of keys overlap |
| Rate limiter (`core/rate_limit.py`) | `_hits` per user | `enforce_rate_limit` | before every question |
| Answer cache and request (`rag/answer.py`, `routes/chat.py`, G7) | `_CACHE` | `ask`, `ask_stream`, `compare`, `cache_get/put/clear` | suspends at every model and database call |
| Routing (`rag/routing.py`) | none | `route`, `named_in`, `search_scope` | a second search, or a question back with chips |
| Answer pipeline (`rag/answer.py`, `rag/guardrails.py`, G5/G6/G10) | audit rows | `_finalise`, `_finalise_clarification`, citation checks, feedback | the audit row's id is the `turn_id` feedback refers to |
| Generation (`core/audit.py`, `system_state`) | `acl_version` | `get_acl_version`, `bump_acl_version` | SELECT, then UPDATE of an absolute value |
| Document lifecycle (`ingest/pipeline.py`, G1/G8) | `documents`, `document_acl`, `chunks`, `document_versions` | `ingest_bytes` (create, replace, no-op), `approve_document`, revoke, `delete_document` | one transaction per request; row locks, unique keys |
| Folder sync (`ingest/cli.py`) | none | `cmd_sync`, `_auto_approve`, `_remove_missing` | a sequence of lifecycle transactions |
| Enrichment, backfill (`ingest/enrich.py`, `backfill.py`) | contexts and vectors by digest, `enriched_at` | `enrich_document`, `enrich_stored_document`, `cmd_enrich` | writes beside replacements, from rows read long before |
| Chunking (`ingest/chunker.py`) | none | `chunk_markdown` | before the first write |
| Parsing, classification | none | pure functions and one model call | before the first write |
| User administration (`routes/admin.py`) | `users`, `user_roles`, `user_document_grants` | roles, activation, ALLOW/DENY grants | as the lifecycle, plus a bump |
| Sessions (`db/session.py`) | pool of connections | commit or rollback per request | every handler |
| Model client (`rag/llm.py`) | HTTP client | `embed`, `complete`, `stream_completion` with retries | awaited by requests and uploads |
| Application, health, schemas, configuration, seed, migrations, prompts | none at run time | wiring and wording | |

What is hard here: a request reads the principal, the generation, the search
and the re-verification at four different moments; the cache outlives all of
them; uploads, syncs and backfills hold a copy of a row for as long as parsing,
classification, enrichment and embedding take; SQLAlchemy writes back only the
columns that changed in that copy; `acl_version` is read and rewritten without a
lock; the lock order differs between uploads, approvals and deletions; a sync
takes what it did not see for gone; two notions of "no scope" travel through
routing, cache and feedback. `PROJECT.json` lists each of these at its line
under `hazards`.

## Modules

| Module | What it is |
|---|---|
| `AccessControl` | the access predicate, scopes, principal and fingerprint as operators |
| `AnswerCache` | requests, cache, administrative transactions, clock and restart |
| `AnswerCacheProofs`, `AnswerCacheServed` | type correctness, fresh answers, size of the cache and bumps; nothing unreadable is served and nobody is refused wrongly |
| `DocumentLifecycle` | one document under concurrent transactions |
| `DocumentLifecycleProofs` | type correctness, what holds for any number of overlapping requests, and what holds when they do not overlap, the refinement included |
| `DocumentRules` | what one whole request does to one document, as functions |
| `DocumentPromise` | the abstract document: every request takes effect at once or not at all |
| `DocumentRefinement` | `DocumentLifecycle` seen as `DocumentPromise` |
| `Corpus` | sync and backfill over many documents, on top of `DocumentRules` |
| `CorpusProofs` | chunks and vectors, access, and what a sync keeps, removes and leaves alone |
| `Chunker` | a document read line by line, and its chunks |
| `ChunkerProofs` | the parser's invariant, and what holds of the chunks of every document |
| `Induction` | induction over numbers and sequences, folds and flattened sequences, for the proofs |
| `RequestGate` | token verification with cached keys, and the rate limiter |
| `RequestGateProofs` | what overlapping fetches of keys may let through; the window and `Retry-After` |
| `Routing` | scores, thresholds, names and choices as operators |
| `AnswerPipeline` | one question from request to rating, using `Routing` |
| `AnswerPipelineProofs` | type correctness, and what is shown: its sources, choices and turn |
| `MCAnswerCache`, `MCDocumentLifecycle`, `MCCorpus`, `MCChunker`, `MCRequestGate`, `MCAnswerPipeline` | small instances for TLC |

How they fit together. `AnswerCache` and `AnswerPipeline` model the same request
twice, each keeping what the other leaves out: the first has the reads of a
request at their separate moments, transactions, time and eviction, and takes
for an answer the set of documents it was drawn from; the second has the content
of answers (citations, choices, audit rows, turns) and takes a change of access
with its new generation as one step. `DocumentLifecycle` shows that one document
behaves as `DocumentRules` say when requests do not overlap, and what is left of
that when they do; `Corpus` uses the same rules for many documents, so that the
inside of a transaction need not be repeated there.

### AccessControl

`Visible` is `VISIBLE_DOCS_CTE` conjunct by conjunct: active tenant; own tenant,
or shared and no more sensitive than CUSTOMER; APPROVED; clearance; a role in
the ACL or a live ALLOW; no live DENY. `AuthorizedDocs` adds the early return
for callers without roles that both `hybrid_search` and
`authorized_document_ids` have. `AclFingerprint` is what the cache key knows of
a caller: tenant, roles, clearance. A document's tenant, sharing and capability
are constants: a replacement may set a new capability, which changes scopes but
never access.

### AnswerCache

State: the committed tables (`docs` with status, sensitivity and ACL; `grants`;
`roles`; `active`; `version`), administrative transactions `tx`, the `cache`, the
requests `req`, the clock `now`. A request's `pc` names the next step; the code
between two awaits is one action.

| Action | Code |
|---|---|
| `Ask`, `CompareRole` | `chat.py` `ask`, `ask_stream`, one column of `compare_roles` (each column is a request of its own; the first search of `compare_roles` passes the capability on as it is, so `"*"` there matches nothing) with `load_principal` |
| `GetAclVersion` | `answer.py:487`; condensing the question follows and touches no state |
| `CacheHit`, `CacheMiss` | `cache_get`: an expired entry is dropped |
| `HybridSearch`, `VerifyChunks` | G3 and G4, each with the tables of its own moment; a search returns any non-empty subset of what is readable in scope, and the empty set only when there is nothing |
| `RouteToNamedCapability` | `route_question`'s second `gather_context`; the first result is kept if it comes back empty |
| `FinaliseAndStore`, `FinaliseClarification` | `_finalise` or `_finalise_clarification`, then `cache_put` under the key computed at the start. Routing's scores are abstracted: a clarification is possible whenever the context straddles two capabilities |
| `Abandon` | model failure after retries, or the client goes away |
| `ApproveDocument` ... `RemoveUserGrants` | the handlers' row changes, not yet visible |
| `SelectAclVersion`, `UpdateAclVersion`, `Commit`, `Rollback` | `bump_acl_version` and the end of the transaction |
| `ClearCache`, `Restart`, `Tick` | `/cache/clear`, process restart, time |

`ever`, `always` and `lost` are histories of a request: the documents the access
predicate gave this caller at some, and at every, instant since its principal was
loaded, and what the last search found and the predicate did not give at some
instant since. All three use the principal as it was loaded, because the code
does: roles taken away while a request runs still count for it, and the next
request loads them anew. So no property sees a running request outlive a role
change; that nothing of the old access reaches a request that begins after the
change, by way of the cache, is `ServedWasReadable`.

The content of an answer is the set of documents it was drawn from; the empty set
is a refusal for want of documents, which is all that `RefusalWasTrue` speaks of.
A refusal that the model words over a context it was given is an answer here. The
search is exact: it finds something whenever something is readable, which the
approximate index (HNSW) of a large table need not. Two transactions with the same target row are excluded here (`Free`): what then
happens is `DocumentLifecycle`'s subject.

### DocumentLifecycle, DocumentRules, DocumentPromise

State: the committed row `doc` (identity, version, content hash, status,
sensitivity, proposed sensitivity), `acl`, `chunks` (named by the file they come
from), the sessions. A session keeps `loaded`, the copy it first read, and
`row`, the copy it edits; at `Commit`, `Written` puts over the committed row the
columns in which the two differ. A bulk `DELETE` is two actions: the snapshot it
sees, and the removal once nobody else holds those rows (`DeleteChunks` /
`ChunksDeleted`, `DeleteAcl` / `AclDeleted`). `locked` is the document's row
lock. `Fail` is a statement that raises (unique key, stale row), `DeadlockVictim`
the deadlock detector, `Rollback` any failure outside the database.

| Action | Code |
|---|---|
| `Upload` | `ingest_bytes` up to the choice of create, replace or no-op |
| `InsertDocument` | `_create` and its flush |
| `DeleteChunks`, `ChunksDeleted`, `UpdateDocument` | the first half of `_replace` |
| `WriteChunks` | `_write_chunks`, then the safety rule for edits |
| `ApproveDocument`, `DeleteAcl`, `AclDeleted`, `WriteApproval` | `approve_document` |
| `RevokeDocument`, `WriteRevocation` | `revoke_document` |
| `DeleteDocument`, `DeleteRow`, `Cascade` | `delete_document` |
| `Commit` | the handler's commit |

The classifier is the constant function `Proposal`; 0 stands for "not asked or
not understood". `system_state` is left out: whoever locks it does so last, so it
adds no cycle of waiting.

`DocumentPromise` knows none of this: a document is a file, whether it is in
circulation, at which sensitivity, for which roles, with which proposal. Its
actions are the functions of `DocumentRules` (`Ingested` with the safety rule
for edits, `Approved`, `Withdrawn`). The refinement mapping reads them off the
committed rows; what sessions hold is invisible, so every step but a commit must
be a stutter, and every commit one of the four requests. With two sessions this
is false, as the findings show; with one it says that the statements' order, the
columns left unwritten and the point of failure cannot be seen from outside.

### Corpus

State: the folder `disk`, `docs` with their ACL, `chunks` as rows with text,
context, digest and vector, one process of `cmd_sync` and one of `cmd_enrich`
with what each has loaded, `moved` (vectors re-embedded since the last bump).
`since` and `settled` are histories for the properties.

| Action | Code |
|---|---|
| `SyncStart` | `cmd_sync` lists the folder, with `--auto-approve` and `--no-delete` |
| `SyncRead` | one file: gone by now, unparsable, unchanged (`UNCHANGED` by hash), or loaded for ingestion |
| `SyncWrite` | the transaction that writes it, minutes later; `_auto_approve` on the flushed copy |
| `SyncFail` | any failure of one file; the run goes on |
| `SyncSelectMissing`, `SyncRemove`, `SyncFinish` | `_remove_missing`, in a transaction of its own |
| `EnrichStart` | `select_documents` loads every row the run will work on |
| `EnrichRead`, `EnrichWrite`, `EnrichNothing` | `enrich_stored_document`: chunk rows read, then updated by id; `apply_profile` on the copy loaded at the start |
| `EnrichFail` | one document fails; the rollback expires the rows, and the handler's own message ends the run (finding) |
| `EnrichFinish` | the bump at the end |
| `SyncKilled`, `EnrichKilled` | the process dies |
| `Edit`, `PanelUpload`, `PanelApprove`, `PanelRevoke`, `PanelDelete` | authors and administrators, at any moment |

The folder's files, the documents to remove and those to enrich are taken in any
order; the code's, sorted by path or as the query returns them, is one of them.
A file is a set of texts. Vectors are what they were computed from, so a vector
matches its row when both name the same context and text; reuse of vectors by
digest, contexts carried forward from the previous chunks, contexts lost and
rewritten are the code's. Left out: sibling capabilities and summaries, which
change the text of contexts and nothing else here.

### Chunker

State: the lines read (`markdown`) and the locals of `_split_into_blocks`
(`stack`, `buffer`, `table_buffer`, `blocks`); `chunks` is what `chunk_markdown`
makes if the document ends there, so one behaviour checks every prefix.

| Action or operator | Code |
|---|---|
| `Heading`, `TableRow`, `TextLine`, `BlankLine` | the branches of `_split_into_blocks` |
| `CountTokens`, `Together` | `count_tokens`, and the running sums of its results |
| `SplitTable`, `SplitProse`, `Pieces` | `_split_table`, `_split_prose` and when they are used |
| `Add`, `Emit`, `TailOverlap` | the loop of `chunk_markdown`, `emit`, `_tail_overlap` |
| `MergeTiny` | `_merge_tiny` |

An atom is a table row, or what a line of prose has up to the next sentence end
or its own end. A chunk's ghost field `body` holds the atoms that are its own and
not carried over. Sentences are not lines: `_split_prose` cuts only behind `.`,
`!` or `?` (`chunker.py:241`), so a line says whether it `ends` a sentence, a
sentence may run over many lines, and a list without punctuation is one sentence
that is never cut. `CutAfter` forms the sentences of a block, and the lines of
the piece they are joined to.

Sizes are counted as the code counts them, at two levels. `CountTokens` counts a
joined text, where the white space before an atom costs its line's `gap` unless
nothing stands before it. `Together` is a running sum of parts counted one by
one, in which the joins are missing: `_split_table`, `_split_prose`,
`_tail_overlap` and the loop of `chunk_markdown` compare such sums with the
limits, so a chunk's own `token_count` may exceed the target by its joins. That
is why `OnlyUncuttableExceedsTarget` bounds the atoms (`TokensOf`) and says so.
What is abstracted: a join costs the same whichever of newline, blank line or
space it is, and never less than nothing (an encoder that merges across a join
might save a token); the empty lines between blocks in an overlap count none,
and an empty text none, where the fallback counter charges one each; the
fallback's rounding of each count is in the sizes of the atoms only. No title
contains " > ".

Of the sizes it is assumed that the minimum is at most the overlap, the overlap
at most the target, and twice the minimum at most the target; in the code they
are 24, 60 and 450. The last is why a chunk never takes in two small ones:
they would have been filled into one before.

### RequestGate

State: the provider's keys (`published`, `withdrawn`), `_jwks_cache` and
`_jwks_fetched_at`, requests at their step of `decode_token`, the user's bucket
`hits`. `admitted` and `told` are histories.

| Action | Code |
|---|---|
| `Arrive` | `decode_token`, first turn of its loop, answered from a fresh cache or fetching |
| `Serve`, `Store`, `FetchFails` | the HTTP request of `_get_jwks`: read at the provider, stored on arrival over whatever is there, or failed ("stale keys beat no keys") |
| `EnforceRateLimit` | `enforce_rate_limit`, which gives way nowhere inside |
| `Publish`, `Withdraw`, `Restart`, `Tick` | rotation, restart, time |

Time is in ticks, `Second` of which make a second, because `Retry-After` is
rounded. Left out: a clock that is set back, several processes, and the
shared-secret path, which has no state.

### Routing and AnswerPipeline

`Routing` has `route` with its thresholds as exact percentages, `named_in` with
names contained in each other, `search_scope`, and the folder's name standing in
for a missing capability. The choices it offers are the `MAX_CANDIDATES`
strongest, as a set: their order is only that of the chips. Which names a question contains is a constant.

State of `AnswerPipeline`: what each group of callers may read, the generation,
the cache, the audit log, the request each user has under way, what each was
shown last.

| Action | Code |
|---|---|
| `Ask`, `Compare` | `answer_question` and `stream_answer` up to the lookup; one role of `compare_roles` |
| `HybridSearch`, `VerifyScoped` | first and second `gather_context` |
| `RouteQuestion` | G4 on the first search, then refusal, the caller's own choice, or `route_question` |
| `Complete` | the model's answer, any citations it may invent, and `_finalise` |
| `Abandon` | failure or a client that hangs up: no row, no cache entry |
| `SubmitFeedback` | `submit_feedback` |
| `ChangeAccess` | a document enters or leaves a group's reach |

`reach` is history: what the caller could read while waiting. A change of access
and its new generation are one step here, so what a lost or late bump does is
`AnswerCache`'s; the sources that the stream sends ahead of the answer are not
covered, only those that come with it. `MarksLeadToSources` says what becomes of
made-up citations as `answer.py:376-385` has it, which strips them as long as one
is left; that answers with a made-up key are never served, as `guardrails.py:7-9`
says, is not what the code does any more. Condensing the
question and follow-up suggestions touch no state. The cache does not age here.

## Runs

| Run | Instance | Shows |
|---|---|---|
| `cache_serial` | 2 callers, 2 documents of two capabilities, 1 role, 1 administrator at a time, 2 generations to spend, room for 1 entry | no answer or refusal outlives the access it was computed with; every change bumps |
| `cache_concurrent` | 1 caller who may also compare, 1 document, 2 administrators, ALLOW and DENY grants with and without expiry, 2 instants, room for 2 of the 3 possible keys | fresh answers are right under full concurrency; re-verification drops exactly what was lost since the search; the cache stays within its limit |
| `cache_lost_update` | 2 administrators | a lost bump (finding) |
| `cache_deny` | 2 callers, DENY grants | a colleague's answer served past a DENY (finding) |
| `doc_serial` | 1 session, 4 files proposed at 2, 3, 1 and not at all, 2 roles of clearance 2 and 3, 3 sensitivities, versions to 3, two lives | requests that do not overlap implement `DocumentPromise`; stricter content is reviewed and roles clear their document |
| `doc_concurrent` | 2 sessions, 2 files, versions to 2, two lives | chunks, opening and termination under every interleaving; the inductive invariant the proof uses |
| `doc_review_race` | 2 sessions | stricter content live and unreviewed (finding) |
| `sync` | 2 paths, 3 files, 1 change of the folder, 1 panel request, 2 commands of any kind, kills | vectors and chunks match the files, sync deletes exactly what is gone, neither command decides access, a second sync changes nothing |
| `enrich_failure` | as `sync`, without kills | a failing document costs the run its bump (finding) |
| `chunks` | documents of at most 6 lines of 10 kinds (headings of levels 1 and 3, rows and a separator, lines that end their sentence, lines that do not, a line of two sentences, blank), joins that cost a token and joins that cost none; target 4, overlap 2, minimum 2 | nothing lost, doubled or reordered; sections and headers right; over the target only where there is no place to cut |
| `gate` | 2 requests, 2 keys, half-second ticks, window of one second, limit 2, keys live 2 ticks and travel 1, 4 ticks | keys across overlapping fetches and rotation; the window and `Retry-After` |
| `answer` | 3 documents of three capabilities (one by its folder only), 2 groups, a user and an administrator, 2 questions (one names a capability), scores 1, 3 and 6, 2 asks, 1 change of access, 1 rating | what is shown, its citations, its choices and its turn agree with each other, the log and the caller's access |

Why the bounds are enough to be interesting.

* Cache: a stale answer takes a request that has read the generation, a change,
  and a second request with the same fingerprint: two callers, one administrator
  and two generations. Entries meet only when one makes room for another, so one
  entry is enough for `cache_serial`; eviction among entries of different age is
  `cache_concurrent`'s. One document that is readable and one that waits for
  review give both directions of change.
* Documents: every race in the code is between two transactions; two versions
  and two identities give replacement during replacement and deletion followed
  by a new creation.
* Sync: what a sync or backfill can get wrong is about one document changed
  behind its back, once, by the folder, the panel or the other command; the
  second path is there so that one file may fail, or be listed late, while
  another goes through. Two commands give backfill during sync, and sync after
  sync. Files 1 and 2 share a text, so that vectors and contexts are reused.
* Chunks: six lines are a heading, a table of two lines of header and more rows
  than fit, and a paragraph on either side; the sizes meet the target exactly,
  exceed it, and fall below the minimum. Three lines without a sentence end are
  already over the target and cannot be cut, and blocks that sum to exactly the
  target exceed it by a join when they are put together.
* Gate: a window of two ticks with a limit of two has hits on both edges and
  inside; a key set that may travel for one tick can be overtaken by a newer one.
* Answer: two questions are the least for one to be answered from the other's
  cache entry; scores 1, 3 and 6 fall on every side of the three thresholds with
  two and with three capabilities found.

Deadlock is not checked (`CHECK_DEADLOCK FALSE`) because the bounds stop the
models: the generation, the clock, the versions, the commands, the questions and
the lines run out.

**Fairness.** `doc_concurrent` checks that every request ends under strong
fairness of each session's `Progress`. The justification: the handlers are
straight-line code with no unbounded loop; PostgreSQL queues the waiters of a
lock, so a waiter whose lock becomes free again and again gets it; and it aborts
a transaction of a waiting cycle. New requests and failures get no fairness.
Without deadlock detection the property is false (that is its mutant). No other
run needs fairness: the other parts wait for nothing but the model and the
database, whose answers nothing guarantees.

## What the runs found

* `cache_lost_update`: `bump_acl_version` loses an update when two
  administrators overlap. Change 1 becomes visible as generation 2, answers are
  cached under 2, change 2 also becomes generation 2.
* `cache_deny`: a per-user DENY is not part of the fingerprint.
* `doc_review_race`: an upload of stricter content that loaded the document in
  review, and an approval of the earlier content, leave the stricter content
  live and unreviewed.
* `enrich_failure`: `cli.py:263` means one bad document not to end the run, but
  the handler of the failure reads an attribute that the rollback has just
  expired. The exception leaves `cmd_enrich`; documents already re-embedded are
  committed and `acl_version` is not bumped.

The same models reach more states worth knowing, for which no run is kept:

* Of `AnswerCache`: with grants that expire, `ServedWasReadable` fails by time
  alone.
* Of `DocumentLifecycle` with two sessions: `RolesClearDocument` fails (two
  approvals, the later of which does not write a sensitivity equal to the one it
  loaded), so does `ImplementsPromise`; a revocation of a document loaded in
  review writes no status, and an approval committed meanwhile stays. With one:
  a replacement not classified stricter is live at once, as `_replace` and
  `docs/INGESTION.md` say, while the route's docstring (`admin.py:127-128`) and
  `docs/SECURITY.md:23` have every upload wait for review.
* Of `Corpus`: `--auto-approve` does nothing for a file that is unchanged but
  still in review; a folder with no supported file at all ends the sync before
  anything is removed; a replacement that keeps its access does not bump.
* Of `Chunker`: the overlap crosses into the next section, takes the rows of a
  table that a short paragraph follows (`chunker.py:218` and
  `docs/INGESTION.md:193` say tables are not carried), and takes its last line
  however long that is. What a chunk has of its own is right, which is what the
  properties say. A list without punctuation is one sentence and so one chunk,
  of any length; and a chunk may exceed the target by what joins its parts.
* Of `AnswerPipeline`: a clarification, or a second search that finds something,
  leaves no row for what G4 dropped before it (`retrieval.py:354-355` says
  otherwise); cached answers, failed ones and those whose client hangs up leave
  no row; a retraction over the stream has no turn to rate; a choice that is
  only a folder's name is refused when sent back; comparing with `"*"` refuses
  every role.

## Proofs

All are checked by TLAPS for every value of the constants: any number of
sessions, requests, documents, files, roles, keys or callers, and any bound. Each
rests on the named assumptions on constants of its module, which TLC evaluates in
the runs; three theorems of the cache and three of documents need more, and say
so in their statement:

| Assumption | Theorems | Without it |
|---|---|---|
| `SerialAdmins`: one administrative transaction at a time | `BumpCorrect` | `cache_lost_update` |
| `SerialAdmins` and `NoPerUserGrants` | `ServedCorrect`, `RefusalCorrect` | `cache_lost_update`, `cache_deny` |
| `OneAtATime`: requests on one document do not overlap | `ReviewCorrect`, `ClearanceCorrect`, `RefinementCorrect` | `doc_review_race`, and the states listed above |

**The answer cache.**

* `AnswerCacheProofs!TypeCorrect`: `TypeOK`. The part that is not shape: a
  request that carries a version carries one the database has had.
* `FreshCorrect` and `AnomalyCorrect`: `FreshWasReadable` and
  `AnomalyMeansChange`, with any number of concurrent administrators and grants.
  `FreshInv` adds that the histories cover the present, that what a search found
  lies in them, and that of what it found everything is still readable unless it
  is in `lost`. The last is what the second theorem needs: whatever
  `VerifyChunks` drops is not readable now, so it was lost since the search, and
  not at some earlier time of the request. The lemma `EarlyReturnIsRedundant` shows why the early
  return that search and re-verification have for callers without roles cannot
  raise an anomaly: with clearance 0 the predicate gives them nothing anyway.
* `BoundCorrect`: `CacheBounded`, for any limit above zero. What has to be added
  is that the cache is finite: an entry is dropped whenever a new key would
  exceed the limit, and a key stored again replaces its entry.
* `BumpCorrect`: `EveryChangeBumps`. The new version is the one the transaction
  read, plus one, and it is the lone administrator's reading that makes it
  current (`SeenIsCurrent`).
* `AnswerCacheServed!ServedCorrect`: `ServedWasReadable`. It is not inductive:
  it says nothing of what is in the cache or on its way there. `ServedInv` adds
  that keys never run ahead of the counter (`NoKeyFromTheFuture`, from
  `SeenIsCurrent`), that everything stored or carried under the *current*
  version is readable now for its fingerprint (`CurrentIsReadable`), and that
  everything under the version a request *carries* was readable to it at some
  instant (`CarriedWasReadable`). A commit outdates every key at once, so the
  first becomes vacuous, and only adds to the histories, so the second survives.
  The lemma `FingerprintDecides` says why a fingerprint may stand for a caller:
  without grants the predicate depends on nothing else.
* `AnswerCacheServed!RefusalCorrect`: `RefusalWasTrue`, on top of `ServedInv`,
  with the dual invariant `RefusalInv`.

**One document.**

* `DocumentLifecycleProofs!TypeCorrect`: `TypeOK`, for any number of sessions.
* `ChunksCorrect` and `OnlyApprovalOpensCorrect`: `ChunksAreContent` and
  `OnlyApprovalOpens`, with no assumption on how requests overlap. Neither is
  inductive: a commit replaces rows by what a session prepared many steps
  earlier. `LifecycleInv`, itself the statement of `LifecycleCorrect` and an
  invariant of `doc_concurrent`, says what was prepared. The row lock is
  exclusive (`OneWriter`); whoever holds it has every chunk there is among those
  it removes, and adds exactly those of the content it writes; a session without
  it commits neither the row nor chunks; and no upload, revocation or deletion
  carries a status its loaded copy did not have, other than `PENDING_REVIEW`
  (`TxShape`). The argument rests on the unique key of chunks: of two uploads
  that overlap, the later one meets chunks its `DELETE` did not see, and fails.
* `DocumentLifecycleProofs!ReviewCorrect`, `ClearanceCorrect` and
  `RefinementCorrect`: `StricterContentReviewed`, `RolesClearDocument` and
  `ImplementsPromise`, when requests do not overlap. `SerialInv` says that the
  copy of a lone request is the committed row (`SerialShape`) and gives, for
  every step of a request, the row and the ACL it has made so far
  (`UploadShape`, `DecisionShape`). So each commit is one of `Uploaded`,
  `ApprovedAs`, `Revoked` and `Deleted` (`AloneCommits`), and these are the
  requests of `DocumentPromise` (`CommitPromise`); every other step leaves row,
  ACL and chunks as they are, a stutter (`NextPromise`). `SerialInv` stands on
  `LifecycleInv`, which gives the chunks.

**Sync and backfill** (`CorpusProofs`), for any folder, files sharing any texts,
and any number of commands, edits, administrators' requests and kills.

* `VectorsCorrect`, `ChunksCorrect` and `AccessCorrect` (`VectorsMatch`,
  `ChunksAreFile`, `AccessIsDecided`) and `TypeCorrect` follow from `TablesInv`.
  The rows two processes hold are as old as their model calls took, so it says
  what survives of them: what sync has read differs from the file of the row it
  loaded (`SyncHolds`), backfill's chunk rows are those of the table or have been
  lost and are then written to nobody (`EnrichHolds`), a row without a file is
  no row (`RowsAreThere`), and the chunks that sync or backfill carry over are
  sound wherever they are kept (`RowsAreSound`).
* `PresentCorrect`, `RemovedCorrect` and `IdempotentCorrect`
  (`PresentFilesSurvive`, `RemovedFilesLeave`, `SyncIdempotent`) follow from
  `LoopInv`, which is about sync's loop: every file that has been in the folder
  throughout is before it or behind it, a file gone from before is on neither
  side and at the end doomed (`LoopCovers`); and while nobody interferes, what
  is behind the loop is as the folder has it (`LoopSettles`).

**The gate** (`RequestGateProofs`).

* `AcceptedCorrect` and `ExpiryCorrect`: `PublishedKeysAccepted` and
  `WithdrawnKeysExpire`, for any number of overlapping requests, any rotation,
  any longest way of a key set and any lifetime above zero. The cached keys
  alone do not show either: `KeysInv` adds what is still on its way. A request
  that is owed an answer finds its key at the provider or carries it
  (`OwedKeys`); keys on their way were published when they were read, no longer
  ago than the longest way (`TravellingKeys`); so an older answer that overtakes
  a newer one puts no key into the cache that was withdrawn longer ago than that
  (`CachedKeys`), and a cached set lives no longer than its lifetime.
* `WindowCorrect` and `RetryAfterCorrect`: `WindowBound` and
  `RetryAfterIsTrue`, for any limit, any window of whole seconds and any number
  of ticks in one. `LimiterInv` ties the bucket to history: what was admitted
  within the window is what the bucket keeps of it now, and what a rejected user
  was told lies past the moment at which the oldest hit of a full bucket leaves
  the window. That dropping old hits twice is dropping them once, and commutes
  with adding one, is proved from the least position that is still in the window
  (`LeastMember`, `InWindowKeeps`). `TypeCorrect` adds that no bucket outgrows
  the limit.

**What is shown** (`AnswerPipelineProofs`), for any documents, groups, users,
scores and questions, and any citations the model may invent.

* `ReadableCorrect`, `MarksCorrect`, `ChoiceCorrect`, `TurnCorrect` and
  `RatingCorrect`: `NamesOnlyReadable`, `MarksLeadToSources`, `ChoiceIsFinal`,
  `TurnIsOnRecord` and `OwnAnswersAreRated`. What a reader is shown may come
  from the cache, so the invariant says of every cached result what the
  properties say of a shown one (`CacheInv`), and where the two differ, by
  generation: under the current one its names are readable to its group now. A
  request's context is readable as long as the generation has not moved on, and
  always within its history `reach` (`RequestInv`). The log only grows, so a turn
  stays on record (`OnRecord`), and a rating is about a turn of the rater's own
  (`FeedbackInv`).
* `TypeCorrect`: `TypeOK`. Most of it is in `Typed`, and proved with
  `PipelineInv`. The rest is that a clarifying question offers two or three
  capabilities (`RouteOffersFew`, and `OfferInv` for wherever its choices are
  kept). Scores are sums, so of any two capabilities one is stronger: one leads
  (`StrongestIsOne`), and the strongest few are as many as there are, up to
  `MAX_CANDIDATES` (`FirstFewAreThree`). A close race has the leader and a rival
  in it, a spread at least `SPREAD_CANDIDATES`.

**The chunks** (`ChunkerProofs`), for documents of any length, lines of any kind
and size in any order, and any target, overlap and minimum as assumed above.

* `ParserReads`: the invariant `Reading`. No property of the chunks is inductive,
  since each line makes all of them anew; what is inductive is what the parser
  has read. `Reading` says that the finished blocks and the open one stand in the
  document (`Covers`: the block's lines are the document's from some line on, all
  under its heading path, and a table is a whole table), one after the other and
  with no line of text or row between them (`PlacedIn`), and that the stack is
  the heading path of the last line. The last is the lemma `PathPushed`: to cut
  the stack at a heading's level, pad it and push is to forget the headings of
  that level and below.
* `TypeCorrect`, `ChunksFollowTheDocument`, `CitationsNameTheirSection`,
  `RowsComeWithTheirHeader` and `SizesAreBounded` (`TypeOK`,
  `ChunksAreTheDocument`, `CitesItsSection`, `RowsKeepTheirHeader`,
  `OnlyUncuttableExceedsTarget`) follow from it along `chunk_markdown`. The pieces of
  a block are cut from it (`Cuts`, from `Packs` for `_split_table` and
  `_split_prose`): none is empty, all have the header if there is one, and each
  fits or cannot be cut. That a sentence has no place to cut comes from
  the lines (`Flows`: an atom that ends no sentence is the last of its line, and
  the sentence goes on with the first of the next) through `CutAfter` (`Parts`:
  only the last atom of a part is of the kind it is cut behind); for a table it
  is `HeaderAndOneFits`. Sums and joined
  texts are compared by `TogetherBetween`: a running sum lies between the atoms
  alone and the text they make, for any cost of the joins, because `CountTokens`
  is superadditive (`CountConcat`). The loop keeps `StateT`: its chunks are a `Chain`, in
  which each carries over from the one before only, and two neighbours of one
  section would not have fitted into one chunk. `_merge_tiny` keeps what is left
  of that (`Merges`): a chunk that has taken in a small one is not followed by
  another small one of its section, because the two would have fitted.
* Induction. `Induction` has it for sequences (`SeqInduction`), over the set of
  the sequences for which a statement holds, since an operator cannot be passed
  to the provers. A fold is unfolded once and for all in terms of the function
  on sets of positions by which the community modules define it (`IsFold`), of
  which `Append` to the sequence is one more value.

**Only model-checked.** The run `sync` has two commands, so that a sync which is
killed, run again and then run a third time is within `IdempotentCorrect` only.
`EveryRequestEnds` is liveness under fairness, which is
outside the prover, as is everything about `ENABLED`. `LifecycleInv` aside, the
strengthened invariants are proved and not checked by a run of their own.

## Not modelled

Ranking inside a search; the text of prompts and answers; text extraction from
files; the connection pool; the several workers a deployment might run;
`find_blocked` and what it adds to the audit log; the version history table;
tenants other than as constants; access requests; two role changes of one user
at once; HTTP shapes, health checks, configuration and migrations. `PROJECT.json`
gives the reason for each part.

## Plan

Done: `AccessControl`, `AnswerCache`, `DocumentLifecycle` with its abstract
specification, `Corpus`, `Chunker`, `RequestGate`, `Routing`, `AnswerPipeline`,
their runs, and theorems for every property of a passing run but the one that is
liveness. Left for whoever goes on, most useful first:

1. `UserRoles`: concurrent role changes of one user, deactivation
   (`admin.py:387-462`).
2. What `DocumentLifecycle` keeps of `DocumentPromise` when requests do overlap:
   an abstract document whose requests take effect on the state they loaded.

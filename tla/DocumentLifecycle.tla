------------------------- MODULE DocumentLifecycle -------------------------
(***************************************************************************)
(* One document lineage (one source_key of one tenant) under concurrent    *)
(* uploads, approvals, revocations and deletions: app/ingest/pipeline.py   *)
(* and the document routes of app/api/routes/admin.py.                     *)
(*                                                                         *)
(* Each request is one database transaction under READ COMMITTED.  It      *)
(* loads the row once and keeps that copy (the session's identity map); it *)
(* writes back the columns whose value differs from the copy; a DELETE     *)
(* removes the rows its snapshot saw, after waiting for whoever holds      *)
(* them; an UPDATE or DELETE of the document takes its row lock until the  *)
(* transaction ends.  The row of system_state is left out: every           *)
(* transaction that takes it takes it last.                                *)
(***************************************************************************)
EXTENDS Integers, FiniteSets

CONSTANTS
  Sessions,       \* requests that may be in flight together
  Roles,          \* rows of roles
  Clearance,      \* roles.clearance
  Contents,       \* files uploaded under this source_key
  Proposal,       \* what the classifier proposes for a file; 0: not asked
  Sensitivities,  \* sensitivities administrators approve with
  MaxVersion,     \* bound on documents.version
  MaxId           \* bound on the rows ever inserted for this key

ASSUME ClearanceAssumption   == Clearance \in [Roles -> 1..4]
ASSUME ProposalAssumption    == Proposal \in [Contents -> 0..4]
ASSUME ContentAssumption     == Contents # {} /\ 0 \notin Contents
ASSUME SensitivityAssumption == Sensitivities \subseteq 1..4
ASSUME BoundsAssumption      == MaxVersion \in Nat \ {0} /\ MaxId \in Nat \ {0}

VARIABLES
  doc,       \* the committed row of documents
  acl,       \* the roles with a committed row of document_acl
  chunks,    \* the files whose chunks are committed
  sess,      \* the requests
  lastId,    \* rows inserted so far
  reviewed,  \* history: the file the last approval had loaded
  last       \* history: the last transaction to commit

vars == <<doc, acl, chunks, sess, lastId, reviewed, last>>

-----------------------------------------------------------------------------
(***************************************************************************)
(* Rows and transactions.                                                  *)
(***************************************************************************)

RESTRICTED == 4

\* No row, no file.
NoContent == 0
NoDoc == [id |-> 0, version |-> 0, content |-> NoContent,
          status |-> "absent", sensitivity |-> RESTRICTED, suggested |-> 0]

NoRows == [acl |-> {}, chunks |-> {}]

\* loaded is the copy first read, row the copy the handler has edited; snap the
\* rows its DELETE waits to remove, gone and new what it has removed and added.
IdleSession ==
  [op |-> "none", pc |-> "idle", loaded |-> NoDoc, row |-> NoDoc,
   content |-> NoContent, roleKeys |-> {}, locked |-> FALSE,
   snap |-> NoRows, gone |-> NoRows, new |-> NoRows]

Init ==
  /\ doc = NoDoc
  /\ acl = {}
  /\ chunks = {}
  /\ sess = [s \in Sessions |-> IdleSession]
  /\ lastId = 0
  /\ reviewed = NoContent
  /\ last = "none"

tables == <<doc, acl, chunks, lastId, reviewed, last>>

At(s, op, pc) == sess[s].op \in op /\ sess[s].pc = pc

\* An UPDATE writes the columns the handler has changed in its copy.
Dirty(s) == {c \in DOMAIN NoDoc : sess[s].row[c] # sess[s].loaded[c]}

\* Somebody else holds the lock of the document's row, or has inserted it and
\* not committed.
RowTaken(s) == \E t \in Sessions \ {s} : sess[t].locked

\* Somebody else has removed rows of the table and not committed.
AclTaken(s, rows)    == \E t \in Sessions \ {s} : sess[t].gone.acl \cap rows # {}
ChunksTaken(s, rows) == \E t \in Sessions \ {s} :
                          sess[t].gone.chunks \cap rows # {}

\* A request begins by loading the row.
Load(s, op, row, content, roleKeys) ==
  /\ sess[s].pc = "idle"
  /\ sess' = [sess EXCEPT ![s] =
       [IdleSession EXCEPT !.op = op, !.pc = "loaded", !.loaded = doc,
                           !.row = row, !.content = content,
                           !.roleKeys = roleKeys]]
  /\ UNCHANGED tables

-----------------------------------------------------------------------------
(***************************************************************************)
(* Uploads.  Between loading the row and writing, the file is parsed,      *)
(* classified and enriched, without a lock.                                *)
(***************************************************************************)

\* Uploads in flight that found no row.
Creators == {s \in Sessions : sess[s].op = "upload" /\ sess[s].loaded = NoDoc}

\* ingest_bytes: identical bytes are a no-op.
Upload(s, c) ==
  /\ doc.content # c
  /\ doc.version < MaxVersion
  /\ doc = NoDoc => lastId + Cardinality(Creators) < MaxId
  /\ Load(s, "upload", doc, c, {})

\* Mutant: a new document is born with the lowest class, not the highest.
CreatedUnclassified(s) ==
  [id |-> lastId + 1, version |-> 1, content |-> sess[s].content,
   status |-> "PENDING_REVIEW", sensitivity |-> 0,
   suggested |-> Proposal[sess[s].content]]

\* The row _create inserts; PROCESSING is never committed.
Created(s) ==
  [id |-> lastId + 1, version |-> 1, content |-> sess[s].content,
   status |-> "PENDING_REVIEW", sensitivity |-> RESTRICTED,
   suggested |-> Proposal[sess[s].content]]

\* Mutant: no unique key keeps two rows of one source apart.
InsertDocumentTwice(s) ==
  /\ At(s, {"upload"}, "loaded")
  /\ sess[s].loaded = NoDoc
  /\ lastId < MaxId
  /\ lastId' = lastId + 1
  /\ sess' = [sess EXCEPT ![s].pc = "embedded", ![s].row = Created(s),
                          ![s].locked = TRUE]
  /\ UNCHANGED <<doc, acl, chunks, reviewed, last>>

\* _create flushes its INSERT; uq_document_tenant_source makes it wait for an
\* uncommitted row of the same key, and fail on a committed one.
InsertDocument(s) ==
  /\ At(s, {"upload"}, "loaded")
  /\ sess[s].loaded = NoDoc
  /\ ~RowTaken(s)
  /\ doc = NoDoc
  /\ lastId < MaxId
  /\ lastId' = lastId + 1
  /\ sess' = [sess EXCEPT ![s].pc = "embedded", ![s].row = Created(s),
                          ![s].locked = TRUE]
  /\ UNCHANGED <<doc, acl, chunks, reviewed, last>>

\* _replace executes DELETE FROM chunks: the rows it sees ...
DeleteChunks(s) ==
  /\ At(s, {"upload"}, "loaded")
  /\ sess[s].loaded # NoDoc
  /\ sess' = [sess EXCEPT ![s].pc = "chunks", ![s].snap.chunks = chunks]
  /\ UNCHANGED tables

\* ... are removed once nobody else holds them.
ChunksDeleted(s) ==
  /\ At(s, {"upload"}, "chunks")
  /\ ~ChunksTaken(s, sess[s].snap.chunks)
  /\ sess' = [sess EXCEPT ![s].pc = "flush", ![s].snap = NoRows,
                          ![s].gone.chunks = sess[s].snap.chunks]
  /\ UNCHANGED tables

\* The columns _replace assigns.
Replaced(s) ==
  [sess[s].loaded EXCEPT
     !.version = @ + 1, !.content = sess[s].content,
     !.suggested = IF Proposal[sess[s].content] = 0 THEN @
                   ELSE Proposal[sess[s].content]]

\* The flush before embedding: the UPDATE waits for the row lock, and fails if
\* the row is gone.
UpdateDocument(s) ==
  /\ At(s, {"upload"}, "flush")
  /\ ~RowTaken(s)
  /\ doc.id = sess[s].loaded.id
  /\ sess' = [sess EXCEPT ![s].pc = "embedded", ![s].row = Replaced(s),
                          ![s].locked = TRUE]
  /\ UNCHANGED tables

\* Mutant: the new file is compared with the last proposal, not with the
\* access the document has.
RequiresReapprovalBySuggestion(s) ==
  /\ sess[s].loaded.status = "APPROVED"
  /\ Proposal[sess[s].content] > sess[s].loaded.suggested

\* The safety rule for edits, on the copy loaded at the start; without a
\* proposal there is nothing to compare.
RequiresReapproval(s) ==
  /\ sess[s].loaded.status = "APPROVED"
  /\ Proposal[sess[s].content] > sess[s].loaded.sensitivity

\* Mutant: nothing keeps two sets of chunks of one document apart.
ChunkConflictUnchecked(s) == FALSE

\* uq_chunk_doc_ordinal: every file has a chunk 0, so chunks of another file
\* that the DELETE did not see are in the way.
ChunkConflict(s) == chunks \ sess[s].gone.chunks # {}

\* Mutant: whatever needs no new approval goes live, approved before or not.
WriteChunksLive(s) ==
  /\ At(s, {"upload"}, "embedded")
  /\ ~ChunkConflict(s)
  /\ sess' = [sess EXCEPT
       ![s].new.chunks = {sess[s].content},
       ![s].row.status =
         IF RequiresReapproval(s) THEN "PENDING_REVIEW" ELSE "APPROVED",
       ![s].pc = IF RequiresReapproval(s) THEN "revoke" ELSE "commit"]
  /\ UNCHANGED tables

\* _write_chunks, and the decision on the access the document keeps.
WriteChunks(s) ==
  /\ At(s, {"upload"}, "embedded")
  /\ ~ChunkConflict(s)
  /\ sess' = [sess EXCEPT
       ![s].new.chunks = {sess[s].content},
       ![s].row.status =
         IF sess[s].loaded.status = "APPROVED" /\ ~RequiresReapproval(s)
         THEN @ ELSE "PENDING_REVIEW",
       ![s].pc = IF RequiresReapproval(s) THEN "revoke" ELSE "commit"]
  /\ UNCHANGED tables

-----------------------------------------------------------------------------
(***************************************************************************)
(* Approvals, revocations, deletions.                                      *)
(***************************************************************************)

\* Mutant: a role may be granted a document above its clearance.
MayApproveUnchecked(roleKeys, sensitivity) == roleKeys # {}

\* approve_document refuses roles whose clearance the document exceeds.
MayApprove(roleKeys, sensitivity) ==
  /\ roleKeys # {}
  /\ \A r \in roleKeys : Clearance[r] >= sensitivity

ApproveDocument(s, roleKeys, sensitivity) ==
  /\ doc # NoDoc
  /\ MayApprove(roleKeys, sensitivity)
  /\ Load(s, "approve",
          [doc EXCEPT !.status = "APPROVED", !.sensitivity = sensitivity],
          NoContent, roleKeys)

RevokeDocument(s) ==
  /\ doc # NoDoc
  /\ Load(s, "revoke", [doc EXCEPT !.status = "PENDING_REVIEW"], NoContent, {})

DeleteDocument(s) ==
  /\ doc # NoDoc
  /\ Load(s, "delete", NoDoc, NoContent, {})

\* DELETE FROM document_acl: the rows it sees (those still there of the rows it
\* loaded, for a deletion: the cascade takes any added since) ...
DeleteAcl(s) ==
  /\ \/ At(s, {"approve", "revoke", "delete"}, "loaded")
     \/ At(s, {"upload"}, "revoke")
  /\ sess' = [sess EXCEPT ![s].pc = "acl", ![s].snap.acl = acl]
  /\ UNCHANGED tables

\* Mutant: the rows are kept.
AclKept(s) ==
  /\ sess[s].pc = "acl"
  /\ ~AclTaken(s, sess[s].snap.acl)
  /\ sess' = [sess EXCEPT
       ![s].pc = IF sess[s].op = "upload" THEN "commit" ELSE "flush",
       ![s].snap = NoRows]
  /\ UNCHANGED tables

\* ... are removed once nobody else holds them.
AclDeleted(s) ==
  /\ sess[s].pc = "acl"
  /\ ~AclTaken(s, sess[s].snap.acl)
  /\ sess' = [sess EXCEPT
       ![s].pc = IF sess[s].op = "upload" THEN "commit" ELSE "flush",
       ![s].snap = NoRows, ![s].gone.acl = sess[s].snap.acl]
  /\ UNCHANGED tables

\* The primary key of document_acl: rows the DELETE did not see are in the way
\* of the same roles.
AclConflict(s) == (acl \ sess[s].gone.acl) \cap sess[s].roleKeys # {}

\* The flush bump_acl_version causes: UPDATE, then INSERT of the new rows.
\* approved_at has always changed, so the row is always updated.
WriteApproval(s) ==
  /\ At(s, {"approve"}, "flush")
  /\ ~RowTaken(s)
  /\ doc.id = sess[s].loaded.id
  /\ ~AclConflict(s)
  /\ sess' = [sess EXCEPT ![s].pc = "commit", ![s].locked = TRUE,
                          ![s].new.acl = sess[s].roleKeys]
  /\ UNCHANGED tables

\* A document loaded in review has no column to write.
WriteRevocation(s) ==
  /\ At(s, {"revoke"}, "flush")
  /\ Dirty(s) # {} => ~RowTaken(s) /\ doc.id = sess[s].loaded.id
  /\ sess' = [sess EXCEPT ![s].pc = "commit", ![s].locked = Dirty(s) # {}]
  /\ UNCHANGED tables

\* DELETE FROM documents; a row that is gone already is only a warning.
DeleteRow(s) ==
  /\ At(s, {"delete"}, "flush")
  /\ ~RowTaken(s)
  /\ sess' = [sess EXCEPT
       ![s].pc = IF doc.id = sess[s].loaded.id THEN "cascade" ELSE "commit",
       ![s].locked = doc.id = sess[s].loaded.id]
  /\ UNCHANGED tables

\* ON DELETE CASCADE removes the chunks and the remaining ACL rows, once nobody
\* else holds them.
Cascade(s) ==
  /\ At(s, {"delete"}, "cascade")
  /\ ~AclTaken(s, acl)
  /\ ~ChunksTaken(s, chunks)
  /\ sess' = [sess EXCEPT ![s].pc = "commit",
                          ![s].gone = [acl |-> acl, chunks |-> chunks]]
  /\ UNCHANGED tables

-----------------------------------------------------------------------------
(***************************************************************************)
(* The end of a transaction.                                               *)
(***************************************************************************)

\* The row after the transaction: the changed columns over what is committed.
Written(s) ==
  IF ~sess[s].locked THEN doc
  ELSE IF sess[s].loaded = NoDoc \/ sess[s].op = "delete" THEN sess[s].row
  ELSE [c \in DOMAIN doc |->
          IF c \in Dirty(s) THEN sess[s].row[c] ELSE doc[c]]

Commit(s) ==
  LET gone == sess[s].gone
      new  == sess[s].new
  IN  /\ sess[s].pc = "commit"
      /\ doc' = Written(s)
      /\ acl' = (acl \ gone.acl) \cup new.acl
      /\ chunks' = (chunks \ gone.chunks) \cup new.chunks
      /\ reviewed' = IF sess[s].op = "approve"
                     THEN sess[s].loaded.content ELSE reviewed
      /\ last' = sess[s].op
      \* A DELETE that waited for these rows finds them gone.
      /\ sess' = [t \in Sessions |->
           IF t = s THEN IdleSession
           ELSE [sess[t] EXCEPT !.snap.acl = @ \ gone.acl,
                                !.snap.chunks = @ \ gone.chunks]]
      /\ UNCHANGED lastId

Abort(s) ==
  /\ sess' = [sess EXCEPT ![s] = IdleSession]
  /\ UNCHANGED tables

\* The statement the request is about to execute raises: IntegrityError on a
\* unique key, StaleDataError on an UPDATE that matches no row.
Raises(s) ==
  \/ /\ At(s, {"upload"}, "loaded")
     /\ sess[s].loaded = NoDoc
     /\ ~RowTaken(s)
     /\ doc # NoDoc
  \/ /\ \/ At(s, {"upload", "approve"}, "flush")
        \/ At(s, {"revoke"}, "flush") /\ Dirty(s) # {}
     /\ ~RowTaken(s)
     /\ doc.id # sess[s].loaded.id
  \/ At(s, {"upload"}, "embedded") /\ ChunkConflict(s)
  \/ At(s, {"approve"}, "flush") /\ ~RowTaken(s) /\ AclConflict(s)

Fail(s) == Raises(s) /\ Abort(s)

WaitsFor(s, t) ==
  /\ s # t
  /\ \/ sess[s].pc = "acl" /\ sess[t].gone.acl \cap sess[s].snap.acl # {}
     \/ /\ sess[s].pc = "chunks"
        /\ sess[t].gone.chunks \cap sess[s].snap.chunks # {}
     \/ /\ sess[s].pc = "flush"
        /\ sess[s].op = "revoke" => Dirty(s) # {}
        /\ sess[t].locked
     \/ /\ sess[s].pc = "loaded" /\ sess[s].op = "upload"
        /\ sess[s].loaded = NoDoc
        /\ sess[t].locked
     \/ /\ sess[s].pc = "cascade"
        /\ sess[t].gone.acl \cap acl # {} \/ sess[t].gone.chunks \cap chunks # {}

\* Mutant: the database does not look for cycles of waiting transactions.
DeadlockedUndetected(s) == FALSE

Deadlocked(s) ==
  \E cycle \in SUBSET Sessions :
    s \in cycle /\ (\A t \in cycle : \E u \in cycle : WaitsFor(t, u))

\* PostgreSQL ends a deadlock by aborting a transaction in it.
DeadlockVictim(s) == Deadlocked(s) /\ Abort(s)

\* A model call fails, the file does not parse, the client or the process goes
\* away: get_session rolls back.
Rollback(s) == sess[s].pc # "idle" /\ Abort(s)

Request(s) ==
  \/ \E c \in Contents : Upload(s, c)
  \/ \E roleKeys \in SUBSET Roles, sensitivity \in Sensitivities :
       ApproveDocument(s, roleKeys, sensitivity)
  \/ RevokeDocument(s)
  \/ DeleteDocument(s)

Progress(s) ==
  \/ InsertDocument(s)
  \/ DeleteChunks(s)
  \/ ChunksDeleted(s)
  \/ UpdateDocument(s)
  \/ WriteChunks(s)
  \/ DeleteAcl(s)
  \/ AclDeleted(s)
  \/ WriteApproval(s)
  \/ WriteRevocation(s)
  \/ DeleteRow(s)
  \/ Cascade(s)
  \/ Commit(s)
  \/ Fail(s)
  \/ DeadlockVictim(s)

Next == \E s \in Sessions : Request(s) \/ Progress(s) \/ Rollback(s)

Spec == Init /\ [][Next]_vars

\* PostgreSQL queues the waiters of a lock, so a transaction that is able to go
\* on again and again does go on.
FairSpec == Spec /\ \A s \in Sessions : SF_vars(Progress(s))

-----------------------------------------------------------------------------
(***************************************************************************)
(* Properties.                                                             *)
(***************************************************************************)

\* No two requests are in flight together.
OneAtATime == \A s, t \in Sessions : s = t

RowType ==
  [id : 0..MaxId, version : 0..MaxVersion,
   content : Contents \cup {NoContent},
   status : {"absent", "PENDING_REVIEW", "APPROVED"},
   sensitivity : 1..4, suggested : 0..4]

RowsType == [acl : SUBSET Roles, chunks : SUBSET Contents]

SessionType ==
  [op : {"none", "upload", "approve", "revoke", "delete"},
   pc : {"idle", "loaded", "chunks", "flush", "embedded", "revoke", "acl",
         "cascade", "commit"},
   loaded : RowType, row : RowType, content : Contents \cup {NoContent},
   roleKeys : SUBSET Roles, locked : BOOLEAN,
   snap : RowsType, gone : RowsType, new : RowsType]

(***************************************************************************)
(* Type invariant; an upload carries a file.                               *)
(***************************************************************************)
TypeOK ==
  /\ doc \in RowType
  /\ acl \subseteq Roles
  /\ chunks \subseteq Contents
  /\ sess \in [Sessions -> SessionType]
  /\ lastId \in 0..MaxId
  /\ reviewed \in Contents \cup {NoContent}
  /\ last \in {"none", "upload", "approve", "revoke", "delete"}
  /\ \A s \in Sessions :
       sess[s].op = "upload" => /\ sess[s].content \in Contents
                                /\ sess[s].loaded.version < MaxVersion

(***************************************************************************)
(* What is searchable is the live file, the whole of it and nothing else:  *)
(* whatever the interleaving, an upload never leaves the chunks of two     *)
(* files, or of another file than the hash says, under one document.       *)
(***************************************************************************)
ChunksAreContent == chunks = {doc.content} \ {NoContent}

(***************************************************************************)
(* approve_document is "the one path to APPROVED" (pipeline.py): no other  *)
(* transaction, however stale the copy it works on, opens a document that  *)
(* was closed.                                                             *)
(***************************************************************************)
OnlyApprovalOpens ==
  [][ doc.status # "APPROVED" /\ doc'.status = "APPROVED"
      => last' = "approve" ]_vars

(***************************************************************************)
(* Every request ends: locks are waited for in different orders, and a     *)
(* cycle of waiting transactions is broken.                                *)
(***************************************************************************)
EveryRequestEnds == \A s \in Sessions : sess[s].pc # "idle" ~> sess[s].pc = "idle"

\* The row lock is exclusive.
OneWriter ==
  \A s, t \in Sessions : sess[s].locked /\ sess[t].locked => s = t

\* What a request has written so far, S being its session: whoever holds the
\* row lock is past its first write, and has the chunks to itself.
TxShape(S) ==
  /\ S.pc \in {"idle", "loaded", "chunks", "flush"} => ~S.locked
  /\ S.pc # "idle" => S.op # "none"
  /\ S.op = "upload" =>
       /\ S.content # S.loaded.content
       /\ S.pc \in {"chunks", "flush"} => S.loaded # NoDoc
       /\ S.row.status \in {S.loaded.status, "PENDING_REVIEW"}
       /\ S.locked => /\ S.row.content = S.content
                      /\ S.loaded = NoDoc => S.row.status = "PENDING_REVIEW"
       /\ S.pc \in {"embedded", "revoke", "acl", "commit"} => S.locked
       /\ S.pc \in {"revoke", "acl", "commit"} =>
            chunks \subseteq S.gone.chunks /\ S.new.chunks = {S.content}
  /\ S.op # "upload" => /\ S.new.chunks = {}
                        /\ S.pc = "acl" => ~S.locked
  /\ S.op \in {"approve", "revoke"} => /\ S.loaded # NoDoc
                                       /\ S.row.content = S.loaded.content
                                       /\ S.gone.chunks = {}
  /\ S.op = "revoke" => S.row.status = "PENDING_REVIEW"
  /\ S.op = "delete" =>
       /\ S.row = NoDoc
       /\ S.pc = "cascade" => S.locked
       /\ IF S.pc = "commit" /\ S.locked
          THEN chunks \subseteq S.gone.chunks
          ELSE S.gone.chunks = {}

(***************************************************************************)
(* The strengthening of ChunksAreContent, and the ground of                *)
(* OnlyApprovalOpens, that every step of any number of sessions preserves. *)
(***************************************************************************)
LifecycleInv ==
  /\ ChunksAreContent
  /\ OneWriter
  /\ \A s \in Sessions : TxShape(sess[s])

(***************************************************************************)
(* The safety rule for edits (pipeline.py): content that classifies as     *)
(* more sensitive than the access the document has is never live unless an *)
(* administrator has approved that very file.                              *)
(***************************************************************************)
StricterContentReviewed ==
  /\ doc.status = "APPROVED"
  /\ doc.content # reviewed
  => Proposal[doc.content] <= doc.sensitivity

(***************************************************************************)
(* No role holds a document above its clearance: "the admin panel never    *)
(* shows a grant that silently does nothing" (pipeline.py).                *)
(***************************************************************************)
RolesClearDocument == \A r \in acl : Clearance[r] >= doc.sensitivity
=============================================================================

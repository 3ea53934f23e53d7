------------------------------- MODULE Corpus -------------------------------
(***************************************************************************)
(* The folder sync and the enrichment backfill of the command line         *)
(* (app/ingest/cli.py, backfill.py, enrich.py) at work on one tenant's     *)
(* documents, beside authors who change the folder and administrators who  *)
(* use the panel.                                                          *)
(*                                                                         *)
(* A file is a set of texts (a section's heading with its text).  Sync and *)
(* backfill each read a document, spend minutes on model calls, and write  *)
(* in one transaction; the two halves are separate steps, anything may     *)
(* happen between them.  The inside of a transaction is DocumentLifecycle. *)
(***************************************************************************)
EXTENDS DocumentRules

CONSTANTS
  Keys,         \* the possible paths of the folder
  Versions,     \* the files that may ever be found under each path
  Texts,        \* Texts[c] are the texts the chunker makes of file c
  Contexts,     \* passages the model writes
  SuggestAccess,\* suggest_access: level and audience for each path
  MaxEdits,     \* bound on changes to the folder
  MaxPanel,     \* bound on administrators' requests
  MaxCommands,  \* bound on the commands ever started
  Killable      \* whether processes are killed in this instance

NoContext == "none"
AnyKey == CHOOSE k \in Keys : TRUE

ASSUME KeysAssumption     == Keys # {}
ASSUME ContentsAssumption ==
  NoContent \notin Contents /\ Proposal \in [Contents -> 0..RESTRICTED]
ASSUME VersionsAssumption == Versions \in [Keys -> SUBSET Contents]
ASSUME TextsAssumption    == \A c \in Contents : Texts[c] # {}
ASSUME ContextsAssumption == NoContext \notin Contexts
ASSUME LevelsAssumption   == Sensitivities \subseteq 1..RESTRICTED
ASSUME SuggestAssumption  ==
  /\ SuggestAccess \in [Keys -> [level : 1..RESTRICTED, audience : SUBSET Roles]]
  /\ \A k \in Keys : MayRead(SuggestAccess[k].audience, SuggestAccess[k].level)
ASSUME BoundsAssumption   ==
  MaxEdits \in Nat /\ MaxPanel \in Nat /\ MaxCommands \in Nat

VARIABLES
  disk,     \* the folder: the file under each path
  docs,     \* documents, with their ACL
  chunks,   \* chunks of each document
  sync,     \* the process running cmd_sync
  enrich,   \* the process running cmd_enrich
  moved,    \* vectors were re-embedded since acl_version was last bumped
  edits, panel, commands,   \* how much of each bound is used
  since,    \* history: what became of each path since the last sync began
  settled   \* history: has anything changed since a sync that went well

tables == <<docs, chunks>>
history == <<since, settled>>
environment == <<disk, edits, panel, commands>>
vars == <<disk, docs, chunks, sync, enrich, moved, edits, panel, commands,
          since, settled>>

-----------------------------------------------------------------------------
(***************************************************************************)
(* Rows.                                                                   *)
(***************************************************************************)

\* A row of documents, with its ACL; enriched: enriched_at is set.
NoRow ==
  [content |-> NoContent, open |-> FALSE, level |-> RESTRICTED,
   audience |-> {}, proposed |-> 0, enriched |-> FALSE]

IdleSync ==
  [pc |-> "idle", todo |-> {}, seen |-> {}, key |-> AnyKey, content |-> NoContent,
   loaded |-> NoRow, prior |-> {}, alive |-> FALSE, doomed |-> {},
   autoApprove |-> FALSE, noDelete |-> FALSE, failed |-> FALSE]

IdleEnrich ==
  [pc |-> "idle", todo |-> {}, key |-> AnyKey, copies |-> <<>>,
   rows |-> {}, alive |-> FALSE, lost |-> {}, force |-> FALSE, done |-> FALSE]

\* What is embedded, and what its hash identifies: chunk_digest.
Digest(context, text) == <<context, text>>

Init ==
  /\ disk \in {f \in [Keys -> Contents \cup {NoContent}] :
                 \A k \in Keys : f[k] \in Versions[k] \cup {NoContent}}
  /\ docs = [k \in Keys |-> NoRow]
  /\ chunks = [k \in Keys |-> {}]
  /\ sync = IdleSync
  /\ enrich = IdleEnrich
  /\ moved = FALSE
  /\ edits = 0
  /\ panel = 0
  /\ commands = 0
  /\ since = [k \in Keys |-> "changed"]
  /\ settled = "no"

\* Columns the handler has changed in its copy go over what is committed.
Changed(loaded, value, committed) == IF value # loaded THEN value ELSE committed

Written(loaded, row, committed) ==
  [content  |-> Changed(loaded.content, row.content, committed.content),
   open     |-> Changed(loaded.open, row.open, committed.open),
   level    |-> Changed(loaded.level, row.level, committed.level),
   audience |-> Changed(loaded.audience, row.audience, committed.audience),
   proposed |-> Changed(loaded.proposed, row.proposed, committed.proposed),
   enriched |-> Changed(loaded.enriched, row.enriched, committed.enriched)]

\* apply_profile: a pass that failed does not unset enriched_at.
Profiled(row, succeeded) == [row EXCEPT !.enriched = @ \/ succeeded]

-----------------------------------------------------------------------------
(***************************************************************************)
(* Enrichment: a context for every text, then a vector for every digest.   *)
(***************************************************************************)

\* What prior chunks hold for this text: _prior_chunk_state's contexts.
Carried(prior, text) ==
  {r.context : r \in {r \in prior : r.text = text}} \ {NoContext}

\* enrich_document: texts that have a context keep it, the model is asked for
\* the others, and may fail for any batch of them.
Contextualised(texts, prior) ==
  {contexts \in [texts -> Contexts \cup {NoContext}] :
     \A t \in texts : Carried(prior, t) # {} => contexts[t] \in Carried(prior, t)}

\* Mutant: vectors are looked up by the text alone.
ReusableByText(prior, digest) == {r \in prior : r.text = digest[2]}

\* _prior_chunk_state's vectors: by the digest of the row as it is now.
Reusable(prior, digest) == {r \in prior : Digest(r.context, r.text) = digest}

\* _write_chunks: only digests not embedded before are embedded.
ChunkRow(context, text, prior) ==
  LET digest == Digest(context, text)
  IN  [text |-> text, context |-> context, digest |-> digest,
       vector |-> IF Reusable(prior, digest) = {} THEN digest
                  ELSE (CHOOSE r \in Reusable(prior, digest) : TRUE).vector]

ChunkRows(contexts, prior) ==
  {ChunkRow(contexts[t], t, prior) : t \in DOMAIN contexts}

\* enrich_stored_document's UPDATE: only what it embeds has changed.
Refreshed(row, context) ==
  IF Digest(context, row.text) = row.digest THEN row
  ELSE [text |-> row.text, context |-> context,
        digest |-> Digest(context, row.text),
        vector |-> Digest(context, row.text)]

-----------------------------------------------------------------------------
(***************************************************************************)
(* A transaction on key k replaces or removes rows that sync and backfill  *)
(* have in their hands.                                                    *)
(***************************************************************************)

\* The row sync has loaded, or waits to delete, is deleted.
SyncWithout(k) ==
  [sync EXCEPT !.alive = @ /\ sync.key # k, !.doomed = @ \ {k}]

\* The chunk rows backfill has read are replaced or deleted, ...
ChunksReplaced(keys) == [enrich EXCEPT !.alive = @ /\ enrich.key \notin keys]

\* ... or the documents themselves.
EnrichWithout(keys) ==
  [ChunksReplaced(keys) EXCEPT
     !.lost = @ \cup (keys \cap DOMAIN enrich.copies)]

Committed(k, row, rows) ==
  /\ docs' = [docs EXCEPT ![k] = row]
  /\ chunks' = [chunks EXCEPT ![k] = rows]

\* What _create, or _replace on the copy loaded, makes of the row.
IngestedRow(k, loaded, copy) ==
  [Written(loaded, copy, docs[k]) EXCEPT
     !.audience = IF Escalates(loaded, copy.content) THEN {}
                  ELSE docs[k].audience]

-----------------------------------------------------------------------------
(***************************************************************************)
(* cmd_sync.                                                               *)
(***************************************************************************)

Command == commands < MaxCommands /\ commands' = commands + 1

Discovered == {k \in Keys : disk[k] # NoContent}

\* An empty folder ends the command before anything is touched.
SyncStart(autoApprove, noDelete) ==
  /\ Command
  /\ sync.pc = "idle"
  /\ Discovered # {}
  /\ sync' = [IdleSync EXCEPT !.pc = "next", !.todo = Discovered,
                              !.autoApprove = autoApprove,
                              !.noDelete = noDelete]
  /\ since' = [k \in Keys |-> IF disk[k] = NoContent THEN "gone" ELSE "there"]
  /\ settled' = IF settled = "yes" THEN "yes" ELSE "so far"
  /\ UNCHANGED <<disk, edits, panel, tables, enrich, moved>>

\* The file is done with, whatever came of it.
NextFile(failed) ==
  [sync EXCEPT !.pc = "next", !.key = AnyKey, !.content = NoContent,
               !.loaded = NoRow, !.prior = {}, !.alive = FALSE,
               !.failed = @ \/ failed]

\* It is read, and goes to the model.
Reading(k) ==
  [sync EXCEPT !.pc = "ingest", !.key = k, !.content = disk[k],
               !.loaded = docs[k], !.prior = chunks[k], !.alive = TRUE]

\* Mutant: a file counts as seen once it has been ingested.
SyncReadSeenLate(k) ==
  /\ sync.pc = "next"
  /\ k \in sync.todo
  /\ sync' = [(IF disk[k] = NoContent THEN NextFile(TRUE)
               ELSE IF disk[k] = docs[k].content
               THEN [NextFile(FALSE) EXCEPT !.seen = @ \cup {k}]
               ELSE Reading(k)) EXCEPT !.todo = @ \ {k}]
  /\ UNCHANGED <<environment, tables, enrich, moved, history>>

\* Mutant: the hash is not compared.
SyncReadAlways(k) ==
  /\ sync.pc = "next"
  /\ k \in sync.todo
  /\ sync' = [(IF disk[k] = NoContent THEN NextFile(TRUE) ELSE Reading(k))
              EXCEPT !.todo = @ \ {k}, !.seen = @ \cup {k}]
  /\ UNCHANGED <<environment, tables, enrich, moved, history>>

\* The loop takes a file, which may be gone by now, and ingest_bytes compares
\* its hash and reads what is there.
SyncRead(k) ==
  /\ sync.pc = "next"
  /\ k \in sync.todo
  /\ sync' = [(IF disk[k] = NoContent THEN NextFile(TRUE)
               ELSE IF disk[k] = docs[k].content THEN NextFile(FALSE)
               ELSE Reading(k)) EXCEPT !.todo = @ \ {k}, !.seen = @ \cup {k}]
  /\ UNCHANGED <<environment, tables, enrich, moved, history>>

\* The row was not there and is now, or was and is not.
SyncConflict(k) ==
  IF sync.loaded = NoRow THEN docs[k] # NoRow ELSE ~sync.alive

\* _auto_approve, on the copy just flushed, in the same transaction.
AutoApproved(k, copy, row) ==
  IF sync.autoApprove
  THEN LET audience == SuggestAccess[k].audience
           approved == Approved(copy, audience, SuggestAccess[k].level)
       IN  [Written(copy, approved, row) EXCEPT !.audience = audience]
  ELSE row

\* The file is written, approved if asked, and committed.
SyncWrite ==
  LET k == sync.key
  IN  /\ sync.pc = "ingest"
      /\ ~SyncConflict(k)
      /\ \E contexts \in Contextualised(Texts[sync.content], sync.prior),
            succeeded \in BOOLEAN :
           LET copy == Profiled(Ingested(sync.loaded, sync.content), succeeded)
           IN  Committed(k,
                 AutoApproved(k, copy, IngestedRow(k, sync.loaded, copy)),
                 ChunkRows(contexts, sync.prior))
      /\ sync' = NextFile(FALSE)
      /\ enrich' = ChunksReplaced({k})
      /\ moved' = (moved /\ ~sync.autoApprove /\ ~Escalates(sync.loaded, sync.content))
      /\ UNCHANGED <<environment, history>>

\* One bad file does not stop the run.
SyncFail ==
  /\ sync.pc = "ingest"
  /\ sync' = NextFile(TRUE)
  /\ UNCHANGED <<environment, tables, enrich, moved, history>>

\* The sync is over; noDelete keeps documents whose file is gone.
SyncEnded(noDelete, failed) ==
  /\ sync' = IdleSync
  /\ settled' = IF settled = "so far"
                THEN (IF noDelete \/ failed THEN "no" ELSE "yes") ELSE settled

\* Mutant: only documents in circulation are looked at.
SyncSelectMissingOpen ==
  /\ sync.pc = "next"
  /\ sync.todo = {}
  /\ ~sync.noDelete
  /\ sync' = [sync EXCEPT
       !.pc = "remove",
       !.doomed = {k \in Keys \ sync.seen : docs[k].open}]
  /\ UNCHANGED <<environment, tables, enrich, moved, history>>

\* _remove_missing selects the tenant's documents ...
SyncSelectMissing ==
  /\ sync.pc = "next"
  /\ sync.todo = {}
  /\ ~sync.noDelete
  /\ sync' = [sync EXCEPT
       !.pc = "remove",
       !.doomed = {k \in Keys \ sync.seen : docs[k] # NoRow}]
  /\ UNCHANGED <<environment, tables, enrich, moved, history>>

\* ... and deletes those it has not seen, in one transaction.
SyncRemove ==
  /\ sync.pc = "remove"
  /\ docs' = [k \in Keys |-> IF k \in sync.doomed THEN NoRow ELSE docs[k]]
  /\ chunks' = [k \in Keys |-> IF k \in sync.doomed THEN {} ELSE chunks[k]]
  /\ enrich' = EnrichWithout(sync.doomed)
  /\ moved' = (moved /\ sync.doomed = {})
  /\ SyncEnded(FALSE, sync.failed)
  /\ UNCHANGED <<environment, since>>

SyncFinish ==
  /\ sync.pc = "next"
  /\ sync.todo = {}
  /\ sync.noDelete
  /\ SyncEnded(TRUE, sync.failed)
  /\ since' = [k \in Keys |-> "changed"]
  /\ UNCHANGED <<environment, tables, enrich, moved>>

\* The process dies, or an error outside the loop's try ends it.
SyncKilled ==
  /\ Killable
  /\ sync.pc # "idle"
  /\ SyncEnded(FALSE, TRUE)
  /\ since' = [k \in Keys |-> "changed"]
  /\ UNCHANGED <<environment, tables, enrich, moved>>

SyncStep ==
  \/ \E k \in Keys : SyncRead(k)
  \/ SyncWrite
  \/ SyncFail
  \/ SyncSelectMissing
  \/ SyncRemove
  \/ SyncFinish

-----------------------------------------------------------------------------
(***************************************************************************)
(* cmd_enrich.                                                             *)
(***************************************************************************)

\* select_documents loads every row the run will work on.
EnrichStart(all, force) ==
  LET chosen == {k \in Keys : docs[k] # NoRow /\ (all \/ ~docs[k].enriched)}
  IN  /\ Command
      /\ enrich.pc = "idle"
      /\ chosen # {}
      /\ enrich' = [IdleEnrich EXCEPT
           !.pc = "next", !.todo = chosen, !.force = force,
           !.copies = [k \in chosen |-> docs[k]]]
      /\ UNCHANGED <<disk, edits, panel, tables, sync, moved, history>>

\* The chunks are read, and go to the model.
EnrichRead(k) ==
  /\ enrich.pc = "next"
  /\ k \in enrich.todo
  /\ enrich' = [enrich EXCEPT !.pc = "write", !.todo = @ \ {k}, !.key = k,
                              !.rows = IF k \in enrich.lost THEN {} ELSE chunks[k],
                              !.alive = k \notin enrich.lost]
  /\ UNCHANGED <<environment, tables, sync, moved, history>>

\* Without --force the contexts there are stay.
EnrichContexts ==
  Contextualised({r.text : r \in enrich.rows},
                 IF enrich.force THEN {} ELSE enrich.rows)

\* Mutant: the whole copy is written back.
EnrichedCopy(k, succeeded) ==
  IF k \in enrich.lost THEN docs[k] ELSE Profiled(enrich.copies[k], succeeded)

\* apply_profile assigns to the copy loaded when the run began.
EnrichedRow(k, succeeded) ==
  IF k \in enrich.lost THEN docs[k]
  ELSE Written(enrich.copies[k], Profiled(enrich.copies[k], succeeded), docs[k])

NextDocument ==
  [enrich EXCEPT !.pc = "next", !.key = AnyKey, !.rows = {}, !.alive = FALSE,
                 !.done = TRUE]

\* Mutant: rows that are gone are put back.
EnrichedChunksRestored(k, rows) == rows

\* UPDATE ... WHERE id: rows that are gone are passed over.
EnrichedChunks(k, rows) == IF enrich.alive THEN rows ELSE chunks[k]

\* A profile is a change to the row of a document that must still be there.
EnrichWrite ==
  LET k == enrich.key
  IN  /\ enrich.pc = "write"
      /\ enrich.rows # {}
      /\ \E contexts \in EnrichContexts, succeeded \in BOOLEAN :
           LET rows == {Refreshed(r, contexts[r.text]) : r \in enrich.rows}
           IN  /\ succeeded => k \notin enrich.lost
               /\ Committed(k, EnrichedRow(k, succeeded), EnrichedChunks(k, rows))
               /\ moved' = (moved \/ (enrich.alive /\ rows # enrich.rows))
      /\ enrich' = NextDocument
      /\ UNCHANGED <<environment, sync, history>>

\* A document without chunks was deleted before it was read.
EnrichNothing ==
  /\ enrich.pc = "write"
  /\ enrich.rows = {}
  /\ enrich' = NextDocument
  /\ UNCHANGED <<environment, tables, sync, moved, history>>

\* Embedding fails, or the document is gone when its row is written.  The
\* rollback expires every row the run has loaded, so that reporting the
\* failure, which reads source_key from one of them, ends the run.
EnrichFail ==
  /\ enrich.pc = "write"
  /\ enrich.rows # {}
  /\ enrich' = IdleEnrich
  /\ UNCHANGED <<environment, tables, sync, moved, history>>

\* The bump that retires answers made from the old vectors.
EnrichFinish ==
  /\ enrich.pc = "next"
  /\ enrich.todo = {}
  /\ enrich' = IdleEnrich
  /\ moved' = (moved /\ ~enrich.done)
  /\ UNCHANGED <<environment, tables, sync, history>>

EnrichKilled ==
  /\ Killable
  /\ enrich.pc # "idle"
  /\ enrich' = IdleEnrich
  /\ UNCHANGED <<environment, tables, sync, moved, history>>

EnrichStep ==
  \/ \E k \in Keys : EnrichRead(k)
  \/ EnrichWrite
  \/ EnrichNothing
  \/ EnrichFail
  \/ EnrichFinish

-----------------------------------------------------------------------------
(***************************************************************************)
(* Authors and administrators.                                             *)
(***************************************************************************)

\* A file is saved, changed or taken away.
Edit(k, c) ==
  /\ edits < MaxEdits
  /\ disk[k] # c
  /\ disk' = [disk EXCEPT ![k] = c]
  /\ edits' = edits + 1
  /\ since' = [since EXCEPT ![k] = IF c # NoContent /\ @ = "there"
                                   THEN "there" ELSE "changed"]
  /\ settled' = "no"
  /\ UNCHANGED <<panel, commands, tables, sync, enrich, moved>>

Panel ==
  panel < MaxPanel /\ panel' = panel + 1 /\ UNCHANGED <<disk, edits, commands>>

\* upload_document, under the file's name.
PanelUpload(k, c) ==
  /\ Panel
  /\ docs[k].content # c
  /\ \E contexts \in Contextualised(Texts[c], chunks[k]), succeeded \in BOOLEAN :
       Committed(k, IngestedRow(k, docs[k], Profiled(Ingested(docs[k], c), succeeded)),
                 ChunkRows(contexts, chunks[k]))
  /\ enrich' = ChunksReplaced({k})
  /\ moved' = (moved /\ ~Escalates(docs[k], c))
  /\ since' = [since EXCEPT ![k] = IF @ = "gone" THEN "changed" ELSE @]
  /\ settled' = "no"
  /\ UNCHANGED sync

PanelDecides(k, row) ==
  /\ Panel
  /\ docs[k] # NoRow
  /\ docs' = [docs EXCEPT ![k] = row]
  /\ moved' = FALSE
  /\ UNCHANGED <<chunks, sync, enrich, history>>

PanelApprove(k, audience, level) ==
  MayRead(audience, level) /\ PanelDecides(k, Approved(docs[k], audience, level))

PanelRevoke(k) == PanelDecides(k, Withdrawn(docs[k]))

PanelDelete(k) ==
  /\ Panel
  /\ docs[k] # NoRow
  /\ Committed(k, NoRow, {})
  /\ sync' = SyncWithout(k)
  /\ enrich' = EnrichWithout({k})
  /\ moved' = FALSE
  /\ settled' = "no"
  /\ UNCHANGED since

Environment ==
  \E k \in Keys :
    \/ \E c \in Versions[k] \cup {NoContent} : Edit(k, c)
    \/ \E c \in Versions[k] : PanelUpload(k, c)
    \/ \E audience \in SUBSET Roles, level \in Sensitivities :
         PanelApprove(k, audience, level)
    \/ PanelRevoke(k)
    \/ PanelDelete(k)

Next ==
  \/ \E autoApprove, noDelete \in BOOLEAN : SyncStart(autoApprove, noDelete)
  \/ SyncStep
  \/ SyncKilled
  \/ \E all, force \in BOOLEAN : EnrichStart(all, force)
  \/ EnrichStep
  \/ EnrichKilled
  \/ Environment

Spec == Init /\ [][Next]_vars
-----------------------------------------------------------------------------
(***************************************************************************)
(* Properties.                                                             *)
(***************************************************************************)

RowType ==
  [content : Contents \cup {NoContent}, open : BOOLEAN, level : 1..4,
   audience : SUBSET Roles, proposed : 0..4, enriched : BOOLEAN]

AllTexts == UNION {Texts[c] : c \in Contents}
DigestType == (Contexts \cup {NoContext}) \X AllTexts
ChunkType == [text : AllTexts, context : Contexts \cup {NoContext},
              digest : DigestType, vector : DigestType]

(***************************************************************************)
(* Type invariant.                                                         *)
(***************************************************************************)
TypeOK ==
  /\ disk \in [Keys -> Contents \cup {NoContent}]
  /\ docs \in [Keys -> RowType]
  /\ \A k \in Keys : chunks[k] \subseteq ChunkType
  /\ DOMAIN sync = DOMAIN IdleSync
  /\ sync.pc \in {"idle", "next", "ingest", "remove"}
  /\ sync.todo \cup sync.seen \cup sync.doomed \cup {sync.key} \subseteq Keys
  /\ sync.pc = "ingest" => /\ sync.content \in Contents \ {sync.loaded.content}
                           /\ sync.prior \subseteq ChunkType
  /\ DOMAIN enrich = DOMAIN IdleEnrich
  /\ enrich.pc \in {"idle", "next", "write"}
  /\ enrich.todo \cup enrich.lost \subseteq DOMAIN enrich.copies
  /\ enrich.rows \subseteq ChunkType
  /\ moved \in BOOLEAN
  /\ edits \in 0..MaxEdits /\ panel \in 0..MaxPanel
  /\ commands \in 0..MaxCommands
  /\ since \in [Keys -> {"there", "gone", "changed"}]
  /\ settled \in {"no", "so far", "yes"}

(***************************************************************************)
(* Every chunk is found by what it is: its vector was computed from its    *)
(* own context and text, however often contexts were carried forward,      *)
(* rewritten or lost, and whichever of upload, sync and backfill wrote     *)
(* last ("rewriting a context invalidates the embedding").                 *)
(***************************************************************************)
VectorsMatch ==
  \A k \in Keys : \A r \in chunks[k] :
    r.digest = Digest(r.context, r.text) /\ r.vector = r.digest

(***************************************************************************)
(* The chunks of a document are the texts of its file, one each, even when *)
(* it was replaced or deleted while backfill held rows of an earlier file. *)
(***************************************************************************)
ChunksAreFile ==
  \A k \in Keys :
    /\ {r.text : r \in chunks[k]} =
         IF docs[k] = NoRow THEN {} ELSE Texts[docs[k].content]
    /\ \A r1, r2 \in chunks[k] : r1.text = r2.text => r1 = r2

(***************************************************************************)
(* "Nothing about access changes" (backfill.py), and a sync without        *)
(* --auto-approve opens nothing: however stale the rows the two work on,   *)
(* only an administrator gives anybody anything to read.                   *)
(***************************************************************************)
AccessIsDecided ==
  [][ panel' = panel /\ ~sync.autoApprove =>
        \A k \in Keys :
          /\ docs'[k].open => docs[k].open
          /\ docs'[k].audience \subseteq docs[k].audience
          /\ docs'[k].level = docs[k].level \/ docs'[k] = NoRow ]_vars

(***************************************************************************)
(* A sync never deletes the document of a file that was in the folder all  *)
(* the time it ran, least of all because the file could not be ingested.   *)
(***************************************************************************)
PresentFilesSurvive ==
  sync.pc = "remove" => \A k \in sync.doomed : since[k] # "there"

(***************************************************************************)
(* "Deleting a confidential file from the folder" takes it out of reach    *)
(* (cli.py): after a sync, a file gone since before it began has no        *)
(* document, in review or not, unless it was uploaded again.               *)
(***************************************************************************)
RemovedFilesLeave ==
  sync.pc = "idle" => \A k \in Keys : since[k] = "gone" => docs[k] = NoRow

(***************************************************************************)
(* "Idempotent": after a sync that went well, and until somebody changes   *)
(* the folder or a document, another one, with whatever options, changes   *)
(* nothing and embeds nothing (cli.py, INGESTION.md).                      *)
(***************************************************************************)
SyncIdempotent ==
  [][ settled = "yes" /\ sync' # sync /\ panel' = panel =>
        docs' = docs /\ chunks' = chunks ]_vars

(***************************************************************************)
(* "Every run bumps acl_version at the end, because cached answers were    *)
(* built from the old vectors" (INGESTION.md).                             *)
(***************************************************************************)
EveryRunRetiresAnswers == enrich.pc = "idle" => ~moved
=============================================================================

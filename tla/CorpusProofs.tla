---------------------------- MODULE CorpusProofs ----------------------------
(***************************************************************************)
(* Sync, backfill and panel on one corpus, for any folder, files, texts,   *)
(* contexts and roles, and any number of commands, edits and requests:     *)
(* vectors and chunks are those of the file, access is an administrator's, *)
(* files that stay keep their document, files that left lose it, and a     *)
(* second sync changes nothing.                                            *)
(***************************************************************************)
EXTENDS Corpus, TLAPS

SyncType ==
  [pc : {"idle", "next", "ingest", "remove"}, todo : SUBSET Keys, seen : SUBSET Keys,
   key : Keys, content : Contents \cup {NoContent}, loaded : RowType,
   prior : SUBSET ChunkType, alive : BOOLEAN, doomed : SUBSET Keys,
   autoApprove : BOOLEAN, noDelete : BOOLEAN, failed : BOOLEAN]

EnrichType ==
  [pc : {"idle", "next", "write"}, todo : SUBSET Keys, key : Keys,
   copies : UNION {[loaded -> RowType] : loaded \in SUBSET Keys},
   rows : SUBSET ChunkType, alive : BOOLEAN, lost : SUBSET Keys,
   force : BOOLEAN, done : BOOLEAN]

Typed ==
  /\ disk \in [Keys -> Contents \cup {NoContent}]
  /\ docs \in [Keys -> RowType]
  /\ chunks \in [Keys -> SUBSET ChunkType]
  /\ sync \in SyncType
  /\ enrich \in EnrichType
  /\ moved \in BOOLEAN
  /\ edits \in 0..MaxEdits /\ panel \in 0..MaxPanel /\ commands \in 0..MaxCommands
  /\ since \in [Keys -> {"there", "gone", "changed"}]
  /\ settled \in {"no", "so far", "yes"}

\* What sync has read is another file than the one it has loaded the row of.
SyncHolds == sync.pc = "ingest" => sync.content \in Contents \ {sync.loaded.content}

\* Backfill works on documents it has loaded, and knows those it has lost.
EnrichHolds ==
  /\ enrich.todo \cup enrich.lost \subseteq DOMAIN enrich.copies
  /\ enrich.pc = "write" => enrich.key \in DOMAIN enrich.copies
  /\ enrich.alive => enrich.pc = "write" /\ enrich.rows = chunks[enrich.key]

-----------------------------------------------------------------------------
(***************************************************************************)
(* The parts of the inductive invariant.                                   *)
(***************************************************************************)

\* Only an absent row has no file; a row backfill has not lost is there.
RowsAreThere ==
  /\ \A k \in Keys : docs[k].content = NoContent => docs[k] = NoRow
  /\ \A k \in DOMAIN enrich.copies \ enrich.lost : docs[k] # NoRow

Sound(rows) ==
  \A r \in rows : r.digest = Digest(r.context, r.text) /\ r.vector = r.digest

RowsAreSound ==
  /\ \A k \in Keys : Sound(chunks[k])
  /\ Sound(sync.prior)
  /\ Sound(enrich.rows)

\* The loop has every file of the folder before it or behind it.
LoopCovers ==
  /\ sync.pc # "idle" =>
       \A k \in Keys :
         /\ since[k] = "there" => k \in sync.seen \cup sync.todo
         /\ since[k] = "gone" => k \notin sync.seen \cup sync.todo
  /\ sync.pc = "ingest" => sync.key \in sync.seen
  /\ sync.pc = "remove" =>
       /\ sync.todo = {}
       /\ sync.doomed \cap sync.seen = {}
       /\ \A k \in Keys : since[k] = "gone" => k \in sync.doomed \/ docs[k] = NoRow

\* While nobody interferes, what is behind the loop is as the folder has it.
LoopSettles ==
  /\ settled # "no" /\ sync.pc # "idle" =>
       \A k \in Keys : k \notin sync.seen \cup sync.todo => disk[k] = NoContent
  /\ settled # "no" /\ sync.pc = "remove" =>
       \A k \in Keys \ sync.seen : k \in sync.doomed \/ docs[k] = NoRow
  /\ settled = "so far" =>
       /\ sync.pc # "idle"
       /\ sync.pc = "ingest" => sync.content = disk[sync.key]
       /\ ~sync.failed =>
            \A k \in sync.seen : \/ sync.pc = "ingest" /\ sync.key = k
                                 \/ docs[k].content = disk[k]
  /\ settled = "yes" =>
       /\ \A k \in Keys : docs[k].content = disk[k]
       /\ sync.pc # "ingest"
       /\ sync.pc = "remove" => sync.doomed = {}

-----------------------------------------------------------------------------
(***************************************************************************)
(* Rows of documents.                                                      *)
(***************************************************************************)

\* A corpus has at least one path, and the handlers begin with an empty row.
LEMMA InitialRecords ==
  AnyKey \in Keys /\ NoRow \in RowType /\ IdleSync \in SyncType /\ IdleEnrich \in EnrichType
<1>1. AnyKey \in Keys
  BY KeysAssumption, Zenon DEF AnyKey
<1>2. NoRow \in RowType
  BY DEF NoRow, RowType, RESTRICTED
<1>3. IdleSync \in SyncType
  BY <1>1, <1>2 DEF IdleSync, SyncType
<1>4. <<>> \in [{} -> RowType]
  OBVIOUS
<1>5. <<>> \in UNION {[loaded -> RowType] : loaded \in SUBSET Keys}
  BY <1>4
<1>6. IdleEnrich \in EnrichType
  BY <1>1, <1>5 DEF IdleEnrich, EnrichType
<1> QED
  BY <1>1, <1>2, <1>3, <1>6

\* Writing a copy over a row leaves a row.
LEMMA WrittenRow ==
  ASSUME NEW loaded \in RowType, NEW row \in RowType, NEW committed \in RowType
  PROVE  Written(loaded, row, committed) \in RowType
BY DEF Written, Changed, RowType

\* A replaced file changes the file, the proposal, and never opens a document.
LEMMA IngestedRows ==
  ASSUME NEW row \in RowType, NEW c \in Contents
  PROVE  /\ Ingested(row, c) \in RowType
         /\ Ingested(row, c).content = c
         /\ Ingested(row, c).open => row.open
         /\ Ingested(row, c).level = row.level
         /\ Ingested(row, c).audience \in {row.audience, {}}
<1>1. Proposal[c] \in 0..4 /\ row.proposed \in 0..4 /\ row.level \in 1..4
  BY ContentsAssumption DEF RowType, RESTRICTED
<1>2. ProposedFor(row, c) \in 0..4
  BY <1>1 DEF ProposedFor
<1>3. Escalates(row, c) \in BOOLEAN
  BY <1>1 DEF Escalates, RowType
<1> QED
  BY <1>1, <1>2, <1>3 DEF Ingested, RowType

LEMMA ProfiledRows ==
  ASSUME NEW row \in RowType, NEW succeeded \in BOOLEAN
  PROVE  /\ Profiled(row, succeeded) \in RowType
         /\ \E e \in BOOLEAN : Profiled(row, succeeded) = [row EXCEPT !.enriched = e]
BY DEF Profiled, RowType

LEMMA ApprovedRows ==
  ASSUME NEW row \in RowType, NEW audience \in SUBSET Roles, NEW level \in 1..4
  PROVE  /\ Approved(row, audience, level) \in RowType
         /\ Approved(row, audience, level).content = row.content
BY DEF Approved, RowType

LEMMA WithdrawnRows ==
  ASSUME NEW row \in RowType
  PROVE  Withdrawn(row) \in RowType /\ Withdrawn(row).content = row.content
BY DEF Withdrawn, RowType

\* What is written when a file is ingested is that file, open to nobody new.
LEMMA IngestedRowIs ==
  ASSUME NEW loaded \in RowType, NEW c \in Contents \ {loaded.content},
         NEW succeeded \in BOOLEAN, NEW k \in Keys, docs[k] \in RowType
  PROVE  LET row == IngestedRow(k, loaded, Profiled(Ingested(loaded, c), succeeded))
         IN  /\ row \in RowType
             /\ row.content = c
             /\ row.open => docs[k].open
             /\ row.audience \subseteq docs[k].audience
             /\ row.level = docs[k].level
<1> DEFINE ingested == Ingested(loaded, c)
           copy     == Profiled(ingested, succeeded)
           written  == Written(loaded, copy, docs[k])
           row      == IngestedRow(k, loaded, copy)
<1>1. /\ ingested \in RowType
      /\ ingested.content = c
      /\ ingested.open => loaded.open
      /\ ingested.level = loaded.level
  BY IngestedRows
<1> HIDE DEF ingested
<1>2. copy \in RowType
  BY <1>1, ProfiledRows
<1>3. /\ copy.content = c
      /\ copy.open => loaded.open
      /\ copy.level = loaded.level
  BY <1>1 DEF Profiled, RowType
<1> HIDE DEF copy
<1>4. written \in RowType
  BY <1>2, WrittenRow
<1>5. /\ written.content = c
      /\ written.level = docs[k].level
  BY <1>3 DEF Written, Changed
<1>6. written.open => docs[k].open
  <2>1. written.open = IF copy.open # loaded.open THEN copy.open ELSE docs[k].open
    BY DEF Written, Changed
  <2>2. copy.open \in BOOLEAN /\ loaded.open \in BOOLEAN /\ docs[k].open \in BOOLEAN
    BY <1>2 DEF RowType
  <2> QED
    BY <1>3, <2>1, <2>2
<1>7. \E audience \in {{}, docs[k].audience} : row = [written EXCEPT !.audience = audience]
  BY DEF IngestedRow
<1>8. docs[k].audience \in SUBSET Roles
  BY DEF RowType
<1> HIDE DEF written, row
<1>9. /\ row \in RowType
      /\ row.content = c
      /\ row.open => docs[k].open
      /\ row.audience \subseteq docs[k].audience
      /\ row.level = docs[k].level
  BY <1>4, <1>5, <1>6, <1>7, <1>8 DEF RowType
<1> QED
  BY <1>9 DEF row, copy, ingested

\* --auto-approve changes the access of what was just written, not its file.
LEMMA AutoApprovedRow ==
  ASSUME NEW k \in Keys, NEW copy \in RowType, NEW row \in RowType, Typed
  PROVE  /\ AutoApproved(k, copy, row) \in RowType
         /\ AutoApproved(k, copy, row).content = row.content
         /\ ~sync.autoApprove => AutoApproved(k, copy, row) = row
<1>1. CASE ~sync.autoApprove
  BY <1>1 DEF AutoApproved
<1>2. CASE sync.autoApprove
  <2> DEFINE audience == SuggestAccess[k].audience
             level    == SuggestAccess[k].level
             approved == Approved(copy, audience, level)
             written  == Written(copy, approved, row)
  <2>1. audience \in SUBSET Roles /\ level \in 1..4
    BY SuggestAssumption DEF RESTRICTED
  <2>2. AutoApproved(k, copy, row) = [written EXCEPT !.audience = audience]
    BY <1>2 DEF AutoApproved
  <2> HIDE DEF audience, level
  <2>3. approved \in RowType /\ approved.content = copy.content
    BY <2>1, ApprovedRows
  <2> HIDE DEF approved
  <2>4. written \in RowType
    BY <2>3, WrittenRow
  <2>5. written.content = row.content
    BY <2>3 DEF Written, Changed
  <2> HIDE DEF written
  <2> QED
    BY <1>2, <2>1, <2>2, <2>4, <2>5 DEF RowType
<1> QED
  BY <1>1, <1>2

\* Backfill changes whether a row is enriched, nothing else, and only of a
\* document that is there.
LEMMA EnrichedRowIs ==
  ASSUME NEW k \in Keys, NEW succeeded \in BOOLEAN, Typed, RowsAreThere,
         k \in DOMAIN enrich.copies
  PROVE  LET row == EnrichedRow(k, succeeded)
         IN  /\ row \in RowType
             /\ \E e \in BOOLEAN : row = [docs[k] EXCEPT !.enriched = e]
             /\ row # docs[k] => docs[k] # NoRow
<1>1. docs[k] \in RowType
  BY DEF Typed
<1>2. CASE k \in enrich.lost
  <2>1. EnrichedRow(k, succeeded) = docs[k]
    BY <1>2 DEF EnrichedRow
  <2>2. docs[k] = [docs[k] EXCEPT !.enriched = docs[k].enriched] /\ docs[k].enriched \in BOOLEAN
    BY <1>1 DEF RowType
  <2> QED
    BY <1>1, <2>1, <2>2
<1>3. CASE k \notin enrich.lost
  <2> DEFINE copy == enrich.copies[k]
             row  == Written(copy, Profiled(copy, succeeded), docs[k])
  <2>1. EnrichedRow(k, succeeded) = row
    BY <1>3 DEF EnrichedRow
  <2>2. copy \in RowType
    <3>1. PICK loaded \in SUBSET Keys : enrich.copies \in [loaded -> RowType]
      BY DEF Typed, EnrichType
    <3> QED
      BY <3>1
  <2>3. docs[k] # NoRow
    BY <1>3 DEF RowsAreThere
  <2> HIDE DEF copy
  <2>4. PICK e \in BOOLEAN : Profiled(copy, succeeded) = [copy EXCEPT !.enriched = e]
    BY <2>2, ProfiledRows
  <2>5. row = [docs[k] EXCEPT !.enriched = Changed(copy.enriched, e, docs[k].enriched)]
    BY <1>1, <2>2, <2>4 DEF Written, Changed, RowType
  <2>6. Changed(copy.enriched, e, docs[k].enriched) \in BOOLEAN
    BY <1>1 DEF Changed, RowType
  <2>7. row \in RowType
    BY <1>1, <2>5, <2>6 DEF RowType
  <2> HIDE DEF row
  <2> QED
    BY <2>1, <2>3, <2>5, <2>6, <2>7
<1> QED
  BY <1>2, <1>3

-----------------------------------------------------------------------------
(***************************************************************************)
(* Rows of chunks.                                                         *)
(***************************************************************************)

\* A row the pipeline writes: typed, for its text, and sound if what it
\* reuses is.
LEMMA ChunkRowIs ==
  ASSUME NEW prior \in SUBSET ChunkType, NEW text \in AllTexts,
         NEW context \in Contexts \cup {NoContext}
  PROVE  /\ ChunkRow(context, text, prior) \in ChunkType
         /\ ChunkRow(context, text, prior).text = text
         /\ Sound(prior) => Sound({ChunkRow(context, text, prior)})
<1> DEFINE digest == Digest(context, text)
           reused == CHOOSE r \in Reusable(prior, digest) : TRUE
           vector == IF Reusable(prior, digest) = {} THEN digest ELSE reused.vector
<1>1. digest \in DigestType
  BY DEF Digest, DigestType
<1>2. ChunkRow(context, text, prior) =
        [text |-> text, context |-> context, digest |-> digest, vector |-> vector]
  BY DEF ChunkRow
<1>3. Reusable(prior, digest) # {} =>
        reused \in prior /\ Digest(reused.context, reused.text) = digest
  BY DEF Reusable
<1> HIDE DEF reused, digest
<1>4. vector \in DigestType
  BY <1>1, <1>3 DEF ChunkType
<1>5. Sound(prior) => vector = digest
  BY <1>3 DEF Sound
<1> HIDE DEF vector
<1>6. ChunkRow(context, text, prior) \in ChunkType
  BY <1>1, <1>2, <1>4 DEF ChunkType
<1>7. Sound(prior) => Sound({ChunkRow(context, text, prior)})
  <2>1. digest = Digest(context, text)
    BY DEF digest
  <2> QED
    BY <1>2, <1>5, <2>1 DEF Sound
<1> QED
  BY <1>2, <1>6, <1>7

\* The rows of a document: one for each text of its file.
LEMMA ChunkRowsAre ==
  ASSUME NEW prior \in SUBSET ChunkType, NEW c \in Contents,
         NEW contexts \in Contextualised(Texts[c], prior)
  PROVE  LET rows == ChunkRows(contexts, prior)
         IN  /\ rows \in SUBSET ChunkType
             /\ {r.text : r \in rows} = Texts[c]
             /\ \A r1, r2 \in rows : r1.text = r2.text => r1 = r2
             /\ Sound(prior) => Sound(rows)
<1> DEFINE rows == ChunkRows(contexts, prior)
<1>1. contexts \in [Texts[c] -> Contexts \cup {NoContext}]
  BY DEF Contextualised
<1>2. Texts[c] \subseteq AllTexts
  BY DEF AllTexts
<1>3. rows = {ChunkRow(contexts[t], t, prior) : t \in Texts[c]}
  BY <1>1 DEF ChunkRows
<1>4. \A t \in Texts[c] :
        /\ ChunkRow(contexts[t], t, prior) \in ChunkType
        /\ ChunkRow(contexts[t], t, prior).text = t
        /\ Sound(prior) => Sound({ChunkRow(contexts[t], t, prior)})
  BY <1>1, <1>2, ChunkRowIs
<1> HIDE DEF rows
<1>5. rows \in SUBSET ChunkType
  BY <1>3, <1>4
<1>6. {r.text : r \in rows} = Texts[c]
  <2>1. ASSUME NEW r \in rows PROVE r.text \in Texts[c]
    BY <1>3, <1>4
  <2>2. ASSUME NEW t \in Texts[c] PROVE \E r \in rows : r.text = t
    BY <1>3, <1>4
  <2> QED
    BY <2>1, <2>2
<1>7. \A r1, r2 \in rows : r1.text = r2.text => r1 = r2
  <2> TAKE r1, r2 \in rows
  <2>1. PICK t1 \in Texts[c] : r1 = ChunkRow(contexts[t1], t1, prior)
    BY <1>3
  <2>2. PICK t2 \in Texts[c] : r2 = ChunkRow(contexts[t2], t2, prior)
    BY <1>3
  <2> QED
    BY <1>4, <2>1, <2>2
<1>8. Sound(prior) => Sound(rows)
  BY <1>3, <1>4 DEF Sound
<1> QED
  BY <1>5, <1>6, <1>7, <1>8 DEF rows

\* A row backfill writes: typed, for the same text, sound if it was.
LEMMA RefreshedIs ==
  ASSUME NEW row \in ChunkType, NEW context \in Contexts \cup {NoContext}
  PROVE  /\ Refreshed(row, context) \in ChunkType
         /\ Refreshed(row, context).text = row.text
         /\ Sound({row}) => Sound({Refreshed(row, context)})
<1>1. Digest(context, row.text) \in DigestType
  BY DEF Digest, DigestType, ChunkType
<1> QED
  BY <1>1 DEF Refreshed, ChunkType, Sound

\* The rows of a document after backfill: the same texts.
LEMMA RefreshedAre ==
  ASSUME NEW prior \in SUBSET ChunkType,
         NEW contexts \in [{r.text : r \in prior} -> Contexts \cup {NoContext}]
  PROVE  LET rows == {Refreshed(r, contexts[r.text]) : r \in prior}
         IN  /\ rows \in SUBSET ChunkType
             /\ {r.text : r \in rows} = {r.text : r \in prior}
             /\ (\A r1, r2 \in prior : r1.text = r2.text => r1 = r2) =>
                   \A r1, r2 \in rows : r1.text = r2.text => r1 = r2
             /\ Sound(prior) => Sound(rows)
<1> DEFINE rows == {Refreshed(r, contexts[r.text]) : r \in prior}
<1>1. \A r \in prior :
        /\ Refreshed(r, contexts[r.text]) \in ChunkType
        /\ Refreshed(r, contexts[r.text]).text = r.text
        /\ Sound({r}) => Sound({Refreshed(r, contexts[r.text])})
  BY RefreshedIs
<1>2. \A r \in prior : Sound(prior) => Sound({r})
  BY DEF Sound
<1>3. rows \in SUBSET ChunkType
  BY <1>1
<1>4. {r.text : r \in rows} = {r.text : r \in prior}
  <2>1. ASSUME NEW r \in rows PROVE \E q \in prior : q.text = r.text
    BY <1>1
  <2>2. ASSUME NEW q \in prior PROVE \E r \in rows : r.text = q.text
    BY <1>1
  <2> HIDE DEF rows
  <2> QED
    BY <2>1, <2>2
<1>5. (\A r1, r2 \in prior : r1.text = r2.text => r1 = r2) =>
        \A r1, r2 \in rows : r1.text = r2.text => r1 = r2
  <2> HAVE \A r1, r2 \in prior : r1.text = r2.text => r1 = r2
  <2> TAKE r1, r2 \in rows
  <2>1. PICK q1 \in prior : r1 = Refreshed(q1, contexts[q1.text])
    OBVIOUS
  <2>2. PICK q2 \in prior : r2 = Refreshed(q2, contexts[q2.text])
    OBVIOUS
  <2>3. r1.text = r2.text => q1 = q2
    BY <1>1, <2>1, <2>2, ZenonT(30)
  <2> HIDE DEF rows
  <2> QED
    BY <2>1, <2>2, <2>3
<1>6. Sound(prior) => Sound(rows)
  BY <1>1, <1>2 DEF Sound
<1> QED
  BY <1>3, <1>4, <1>5, <1>6

-----------------------------------------------------------------------------
(***************************************************************************)
(* What the writing steps do to the tables.                                *)
(***************************************************************************)

\* One row for each text of the file.
FileRows(c, rows) ==
  /\ rows \in SUBSET ChunkType
  /\ {r.text : r \in rows} = Texts[c]
  /\ \A r1, r2 \in rows : r1.text = r2.text => r1 = r2

\* No wider access than before.
NoWider(row, before) ==
  /\ row.open => before.open
  /\ row.audience \subseteq before.audience
  /\ row.level = before.level

LEMMA SyncWriteEffect ==
  ASSUME Typed, SyncHolds, SyncWrite
  PROVE  \E row \in RowType, rows \in SUBSET ChunkType :
           /\ Committed(sync.key, row, rows)
           /\ row.content = sync.content
           /\ FileRows(sync.content, rows)
           /\ Sound(sync.prior) => Sound(rows)
           /\ ~sync.autoApprove => NoWider(row, docs[sync.key])
<1> DEFINE k == sync.key
<1>1. /\ k \in Keys
      /\ sync.loaded \in RowType
      /\ sync.content \in Contents \ {sync.loaded.content}
      /\ sync.prior \in SUBSET ChunkType
      /\ docs[k] \in RowType
  BY DEF SyncWrite, Typed, SyncType, SyncHolds
<1>2. PICK contexts \in Contextualised(Texts[sync.content], sync.prior),
           succeeded \in BOOLEAN :
        LET copy == Profiled(Ingested(sync.loaded, sync.content), succeeded)
        IN  Committed(k, AutoApproved(k, copy, IngestedRow(k, sync.loaded, copy)),
                      ChunkRows(contexts, sync.prior))
  BY DEF SyncWrite
<1> DEFINE copy    == Profiled(Ingested(sync.loaded, sync.content), succeeded)
           written == IngestedRow(k, sync.loaded, copy)
           row     == AutoApproved(k, copy, written)
           rows    == ChunkRows(contexts, sync.prior)
<1> HIDE DEF k
<1>3. copy \in RowType
  BY <1>1, IngestedRows, ProfiledRows
<1>4. /\ written \in RowType
      /\ written.content = sync.content
      /\ NoWider(written, docs[k])
  BY <1>1, IngestedRowIs DEF NoWider
<1>5. Committed(k, row, rows)
  BY <1>2
<1> HIDE DEF copy, written
<1>6. /\ row \in RowType
      /\ row.content = written.content
      /\ ~sync.autoApprove => row = written
  BY <1>1, <1>3, <1>4, AutoApprovedRow
<1>7. FileRows(sync.content, rows) /\ (Sound(sync.prior) => Sound(rows))
  BY <1>1, ChunkRowsAre DEF FileRows
<1> HIDE DEF row, rows
<1>8. rows \in SUBSET ChunkType
  BY <1>7 DEF FileRows
<1> QED
  BY <1>4, <1>5, <1>6, <1>7, <1>8 DEF k

LEMMA PanelUploadEffect ==
  ASSUME Typed, NEW k \in Keys, NEW c \in Versions[k], PanelUpload(k, c)
  PROVE  \E row \in RowType, rows \in SUBSET ChunkType :
           /\ Committed(k, row, rows)
           /\ c \in Contents
           /\ row.content = c
           /\ FileRows(c, rows)
           /\ Sound(chunks[k]) => Sound(rows)
<1>1. /\ c \in Contents \ {docs[k].content}
      /\ docs[k] \in RowType
      /\ chunks[k] \in SUBSET ChunkType
  BY VersionsAssumption DEF Typed, PanelUpload
<1>2. PICK contexts \in Contextualised(Texts[c], chunks[k]), succeeded \in BOOLEAN :
        Committed(k, IngestedRow(k, docs[k], Profiled(Ingested(docs[k], c), succeeded)),
                  ChunkRows(contexts, chunks[k]))
  BY DEF PanelUpload
<1> DEFINE row  == IngestedRow(k, docs[k], Profiled(Ingested(docs[k], c), succeeded))
           rows == ChunkRows(contexts, chunks[k])
<1>3. row \in RowType /\ row.content = c
  BY <1>1, IngestedRowIs
<1>4. FileRows(c, rows) /\ (Sound(chunks[k]) => Sound(rows))
  BY <1>1, ChunkRowsAre DEF FileRows
<1>5. Committed(k, row, rows)
  BY <1>2
<1> HIDE DEF row, rows
<1>6. rows \in SUBSET ChunkType
  BY <1>4 DEF FileRows
<1> QED
  BY <1>1, <1>3, <1>4, <1>5, <1>6

LEMMA EnrichWriteEffect ==
  ASSUME Typed, EnrichHolds, RowsAreThere, EnrichWrite
  PROVE  \E row \in RowType, rows \in SUBSET ChunkType :
           /\ Committed(enrich.key, row, rows)
           /\ \E e \in BOOLEAN : row = [docs[enrich.key] EXCEPT !.enriched = e]
           /\ row # docs[enrich.key] => docs[enrich.key] # NoRow
           /\ ~enrich.alive => rows = chunks[enrich.key]
           /\ enrich.alive =>
                /\ {r.text : r \in rows} = {r.text : r \in enrich.rows}
                /\ (\A r1, r2 \in enrich.rows : r1.text = r2.text => r1 = r2) =>
                      \A r1, r2 \in rows : r1.text = r2.text => r1 = r2
                /\ Sound(enrich.rows) => Sound(rows)
<1> DEFINE k == enrich.key
<1>1. /\ k \in Keys
      /\ k \in DOMAIN enrich.copies
      /\ enrich.rows \in SUBSET ChunkType
      /\ chunks[k] \in SUBSET ChunkType
  BY DEF EnrichWrite, Typed, EnrichType, EnrichHolds
<1>2. PICK contexts \in EnrichContexts, succeeded \in BOOLEAN :
        Committed(k, EnrichedRow(k, succeeded),
          EnrichedChunks(k, {Refreshed(r, contexts[r.text]) : r \in enrich.rows}))
  BY DEF EnrichWrite
<1> DEFINE row       == EnrichedRow(k, succeeded)
           refreshed == {Refreshed(r, contexts[r.text]) : r \in enrich.rows}
           rows      == EnrichedChunks(k, refreshed)
<1> HIDE DEF k
<1>3. /\ row \in RowType
      /\ \E e \in BOOLEAN : row = [docs[k] EXCEPT !.enriched = e]
      /\ row # docs[k] => docs[k] # NoRow
  BY <1>1, EnrichedRowIs
<1>4. contexts \in [{r.text : r \in enrich.rows} -> Contexts \cup {NoContext}]
  BY DEF EnrichContexts, Contextualised
<1>5. /\ refreshed \in SUBSET ChunkType
      /\ {r.text : r \in refreshed} = {r.text : r \in enrich.rows}
      /\ (\A r1, r2 \in enrich.rows : r1.text = r2.text => r1 = r2) =>
            \A r1, r2 \in refreshed : r1.text = r2.text => r1 = r2
      /\ Sound(enrich.rows) => Sound(refreshed)
  BY <1>1, <1>4, RefreshedAre
<1>6. Committed(k, row, rows)
  BY <1>2
<1> HIDE DEF row, refreshed
<1>7. rows = IF enrich.alive THEN refreshed ELSE chunks[k]
  BY DEF EnrichedChunks
<1> HIDE DEF rows
<1>8. rows \in SUBSET ChunkType
  BY <1>1, <1>5, <1>7
<1> QED
  BY <1>3, <1>5, <1>6, <1>7, <1>8 DEF k

-----------------------------------------------------------------------------
(***************************************************************************)
(* Types.                                                                  *)
(***************************************************************************)

LEMMA InitTyped == Init => Typed /\ SyncHolds
<1> SUFFICES ASSUME Init PROVE Typed /\ SyncHolds
  OBVIOUS
<1>1. disk \in [Keys -> Contents \cup {NoContent}]
  BY DEF Init
<1>2. docs \in [Keys -> RowType] /\ chunks \in [Keys -> SUBSET ChunkType]
  BY InitialRecords DEF Init
<1>3. sync \in SyncType /\ enrich \in EnrichType
  BY InitialRecords DEF Init
<1>4. SyncHolds
  BY DEF Init, SyncHolds, IdleSync
<1>5. /\ moved \in BOOLEAN
      /\ edits \in 0..MaxEdits /\ panel \in 0..MaxPanel /\ commands \in 0..MaxCommands
  <2>1. moved = FALSE
    BY DEF Init
  <2>2. edits = 0 /\ panel = 0 /\ commands = 0
    BY DEF Init
  <2>3. 0 \in 0..MaxEdits /\ 0 \in 0..MaxPanel /\ 0 \in 0..MaxCommands
    BY BoundsAssumption
  <2> QED
    BY <2>1, <2>2, <2>3
<1>6. since \in [Keys -> {"there", "gone", "changed"}] /\ settled \in {"no", "so far", "yes"}
  BY DEF Init
<1> QED
  BY <1>1, <1>2, <1>3, <1>4, <1>5, <1>6 DEF Typed

\* One more of what has not reached its bound.
LEMMA CountsUp ==
  ASSUME NEW max \in Nat, NEW n \in 0..max, n < max
  PROVE  n + 1 \in 0..max
OBVIOUS

\* The handlers that end a file, or rows that are replaced, leave records.
LEMMA HandlersTyped ==
  ASSUME sync \in SyncType, enrich \in EnrichType
  PROVE  /\ \A failed \in BOOLEAN : NextFile(failed) \in SyncType
         /\ \A k \in Keys : SyncWithout(k) \in SyncType
         /\ \A keys \in SUBSET Keys :
              ChunksReplaced(keys) \in EnrichType /\ EnrichWithout(keys) \in EnrichType
         /\ NextDocument \in EnrichType
<1>1. \A failed \in BOOLEAN : NextFile(failed) \in SyncType
  BY InitialRecords DEF NextFile, SyncType
<1>2. \A k \in Keys : SyncWithout(k) \in SyncType
  BY DEF SyncWithout, SyncType
<1>3. \A keys \in SUBSET Keys : ChunksReplaced(keys) \in EnrichType
  BY DEF ChunksReplaced, EnrichType
<1>4. ASSUME NEW keys \in SUBSET Keys PROVE EnrichWithout(keys) \in EnrichType
  <2>1. ChunksReplaced(keys) \in EnrichType
    BY <1>3
  <2>2. keys \cap DOMAIN enrich.copies \in SUBSET Keys
    OBVIOUS
  <2> QED
    BY <2>1, <2>2 DEF EnrichWithout, EnrichType
<1>5. NextDocument \in EnrichType
  BY InitialRecords DEF NextDocument, EnrichType
<1> QED
  BY <1>1, <1>2, <1>3, <1>4, <1>5

\* A sync that starts, reads, writes, selects, removes or ends leaves types.
LEMMA SyncTyped ==
  ASSUME Typed, SyncHolds,
         \/ \E autoApprove, noDelete \in BOOLEAN : SyncStart(autoApprove, noDelete)
         \/ SyncStep
         \/ SyncKilled
  PROVE  Typed' /\ SyncHolds'
<1> USE DEF Typed
<1>1. sync \in SyncType /\ enrich \in EnrichType
  OBVIOUS
<1>2. ASSUME NEW autoApprove \in BOOLEAN, NEW noDelete \in BOOLEAN,
             SyncStart(autoApprove, noDelete)
      PROVE  Typed' /\ SyncHolds'
  <2>1. sync' \in SyncType /\ SyncHolds'
    BY <1>2, InitialRecords, ZenonT(30) DEF SyncStart, IdleSync, SyncType, SyncHolds, Discovered
  <2>2. commands' \in 0..MaxCommands
    <3>1. commands < MaxCommands /\ commands' = commands + 1
      BY <1>2 DEF SyncStart, Command
    <3> QED
      BY <3>1, BoundsAssumption, CountsUp
  <2>3. /\ since' \in [Keys -> {"there", "gone", "changed"}]
        /\ settled' \in {"no", "so far", "yes"}
    BY <1>2 DEF SyncStart
  <2> QED
    BY <1>2, <2>1, <2>2, <2>3 DEF SyncStart, tables
<1>3. ASSUME NEW k \in Keys, SyncRead(k)
      PROVE  Typed' /\ SyncHolds'
  <2>1. /\ NextFile(TRUE) \in SyncType /\ NextFile(FALSE) \in SyncType
        /\ NextFile(TRUE).pc = "next" /\ NextFile(FALSE).pc = "next"
    BY <1>1, HandlersTyped DEF NextFile, SyncType
  <2>2. Reading(k) \in SyncType
    BY <1>1 DEF Reading, SyncType
  <2>3. disk[k] # NoContent /\ disk[k] # docs[k].content =>
          /\ Reading(k).pc = "ingest"
          /\ Reading(k).content \in Contents \ {Reading(k).loaded.content}
    BY <1>1 DEF Reading, SyncType
  <2> DEFINE next == IF disk[k] = NoContent THEN NextFile(TRUE)
                     ELSE IF disk[k] = docs[k].content THEN NextFile(FALSE)
                     ELSE Reading(k)
  <2>4. sync' = [next EXCEPT !.todo = @ \ {k}, !.seen = @ \cup {k}]
    BY <1>3 DEF SyncRead
  <2>5. /\ next \in SyncType
        /\ next.pc = "ingest" => next.content \in Contents \ {next.loaded.content}
    BY <2>1, <2>2, <2>3
  <2> HIDE DEF next
  <2>6. sync' \in SyncType /\ SyncHolds'
    BY <2>4, <2>5 DEF SyncType, SyncHolds
  <2> QED
    BY <1>3, <2>6 DEF SyncRead, environment, tables, history
<1>4. ASSUME SyncWrite
      PROVE  Typed' /\ SyncHolds'
  <2>1. PICK row \in RowType, rows \in SUBSET ChunkType : Committed(sync.key, row, rows)
    BY <1>4, SyncWriteEffect
  <2>2. docs' \in [Keys -> RowType] /\ chunks' \in [Keys -> SUBSET ChunkType]
    BY <2>1 DEF Committed
  <2>3. sync' \in SyncType /\ SyncHolds'
    BY <1>1, <1>4, HandlersTyped DEF SyncWrite, NextFile, SyncHolds, SyncType
  <2>4. enrich' \in EnrichType
    <3>1. {sync.key} \in SUBSET Keys
      BY <1>1 DEF SyncType
    <3> QED
      BY <1>1, <1>4, <3>1, HandlersTyped DEF SyncWrite
  <2>5. moved' \in BOOLEAN
    BY <1>4 DEF SyncWrite
  <2> QED
    BY <1>4, <2>2, <2>3, <2>4, <2>5 DEF SyncWrite, environment, history
<1>5. ASSUME SyncFail
      PROVE  Typed' /\ SyncHolds'
  <2>1. sync' \in SyncType /\ SyncHolds'
    BY <1>1, <1>5, HandlersTyped DEF SyncFail, NextFile, SyncHolds, SyncType
  <2> QED
    BY <1>5, <2>1 DEF SyncFail, environment, tables, history
<1>6. ASSUME SyncSelectMissing
      PROVE  Typed' /\ SyncHolds'
  <2>1. sync' \in SyncType /\ SyncHolds'
    BY <1>1, <1>6 DEF SyncSelectMissing, SyncHolds, SyncType
  <2> QED
    BY <1>6, <2>1 DEF SyncSelectMissing, environment, tables, history
<1>7. ASSUME NEW noDelete, NEW failed, SyncEnded(noDelete, failed)
      PROVE  sync' \in SyncType /\ SyncHolds' /\ settled' \in {"no", "so far", "yes"}
  BY <1>7, InitialRecords DEF SyncEnded, SyncHolds, IdleSync
<1>8. ASSUME SyncRemove
      PROVE  Typed' /\ SyncHolds'
  <2>1. docs' \in [Keys -> RowType] /\ chunks' \in [Keys -> SUBSET ChunkType]
    BY <1>8, InitialRecords DEF SyncRemove
  <2>2. enrich' \in EnrichType
    <3>1. sync.doomed \in SUBSET Keys
      BY <1>1 DEF SyncType
    <3> QED
      BY <1>1, <1>8, <3>1, HandlersTyped DEF SyncRemove
  <2>3. moved' \in BOOLEAN
    BY <1>8 DEF SyncRemove
  <2>4. SyncEnded(FALSE, sync.failed)
    BY <1>8 DEF SyncRemove
  <2> QED
    BY <1>7, <1>8, <2>1, <2>2, <2>3, <2>4 DEF SyncRemove, environment
<1>9. ASSUME SyncFinish
      PROVE  Typed' /\ SyncHolds'
  <2>1. SyncEnded(TRUE, sync.failed)
    BY <1>9 DEF SyncFinish
  <2>2. since' \in [Keys -> {"there", "gone", "changed"}]
    BY <1>9 DEF SyncFinish
  <2> QED
    BY <1>7, <1>9, <2>1, <2>2 DEF SyncFinish, environment, tables
<1>10. ASSUME SyncKilled
       PROVE  Typed' /\ SyncHolds'
  <2>1. SyncEnded(FALSE, TRUE)
    BY <1>10 DEF SyncKilled
  <2>2. since' \in [Keys -> {"there", "gone", "changed"}]
    BY <1>10 DEF SyncKilled
  <2> QED
    BY <1>7, <1>10, <2>1, <2>2 DEF SyncKilled, environment, tables
<1> QED
  BY <1>2, <1>3, <1>4, <1>5, <1>6, <1>8, <1>9, <1>10 DEF SyncStep

\* A backfill that starts, reads, writes, passes over, fails or ends leaves types.
LEMMA EnrichTyped ==
  ASSUME Typed, SyncHolds, EnrichHolds, RowsAreThere,
         \/ \E all, force \in BOOLEAN : EnrichStart(all, force)
         \/ EnrichStep
         \/ EnrichKilled
  PROVE  Typed' /\ SyncHolds'
<1> USE DEF Typed
<1>1. sync \in SyncType /\ enrich \in EnrichType
  OBVIOUS
<1>2. UNCHANGED sync => SyncHolds'
  BY DEF SyncHolds
<1>3. ASSUME NEW all \in BOOLEAN, NEW force \in BOOLEAN, EnrichStart(all, force)
      PROVE  Typed' /\ SyncHolds'
  <2> DEFINE chosen == {k \in Keys : docs[k] # NoRow /\ (all \/ ~docs[k].enriched)}
  <2>1. enrich' = [IdleEnrich EXCEPT
           !.pc = "next", !.todo = chosen, !.force = force,
           !.copies = [k \in chosen |-> docs[k]]]
    BY <1>3 DEF EnrichStart
  <2>2. [k \in chosen |-> docs[k]] \in UNION {[loaded -> RowType] : loaded \in SUBSET Keys}
    <3>1. chosen \in SUBSET Keys
      OBVIOUS
    <3> HIDE DEF chosen
    <3>2. [k \in chosen |-> docs[k]] \in [chosen -> RowType]
      BY <3>1
    <3> QED
      BY <3>1, <3>2
  <2>3. chosen \in SUBSET Keys
    OBVIOUS
  <2> HIDE DEF chosen
  <2>4. enrich' \in EnrichType
    BY <2>1, <2>2, <2>3, InitialRecords DEF EnrichType
  <2>5. commands' \in 0..MaxCommands
    <3>1. commands < MaxCommands /\ commands' = commands + 1
      BY <1>3 DEF EnrichStart, Command
    <3> QED
      BY <3>1, BoundsAssumption, CountsUp
  <2> QED
    BY <1>2, <1>3, <2>4, <2>5 DEF EnrichStart, tables, history
<1>4. ASSUME NEW k \in Keys, EnrichRead(k)
      PROVE  Typed' /\ SyncHolds'
  <2>1. enrich' \in EnrichType
    BY <1>1, <1>4 DEF EnrichRead, EnrichType
  <2> QED
    BY <1>2, <1>4, <2>1 DEF EnrichRead, environment, tables, history
<1>5. ASSUME EnrichWrite
      PROVE  Typed' /\ SyncHolds'
  <2>1. PICK row \in RowType, rows \in SUBSET ChunkType : Committed(enrich.key, row, rows)
    BY <1>5, EnrichWriteEffect
  <2>2. docs' \in [Keys -> RowType] /\ chunks' \in [Keys -> SUBSET ChunkType]
    BY <2>1 DEF Committed
  <2>3. enrich' \in EnrichType
    BY <1>1, <1>5, HandlersTyped DEF EnrichWrite
  <2>4. moved' \in BOOLEAN
    BY <1>5 DEF EnrichWrite
  <2> QED
    BY <1>2, <1>5, <2>2, <2>3, <2>4 DEF EnrichWrite, environment, history
<1>6. ASSUME EnrichNothing
      PROVE  Typed' /\ SyncHolds'
  <2>1. enrich' \in EnrichType
    BY <1>1, <1>6, HandlersTyped DEF EnrichNothing
  <2> QED
    BY <1>2, <1>6, <2>1 DEF EnrichNothing, environment, tables, history
<1>7. ASSUME EnrichFail
      PROVE  Typed' /\ SyncHolds'
  BY <1>2, <1>7, InitialRecords DEF EnrichFail, environment, tables, history
<1>8. ASSUME EnrichFinish
      PROVE  Typed' /\ SyncHolds'
  <2>1. moved' \in BOOLEAN
    BY <1>8 DEF EnrichFinish
  <2> QED
    BY <1>2, <1>8, <2>1, InitialRecords DEF EnrichFinish, environment, tables, history
<1>9. ASSUME EnrichKilled
      PROVE  Typed' /\ SyncHolds'
  BY <1>2, <1>9, InitialRecords DEF EnrichKilled, environment, tables, history
<1> QED
  BY <1>3, <1>4, <1>5, <1>6, <1>7, <1>8, <1>9 DEF EnrichStep

\* Authors and administrators leave types.
LEMMA EnvironmentTyped ==
  ASSUME Typed, SyncHolds, Environment
  PROVE  Typed' /\ SyncHolds'
<1> USE DEF Typed
<1>1. sync \in SyncType /\ enrich \in EnrichType
  OBVIOUS
<1>2. UNCHANGED sync => SyncHolds'
  BY DEF SyncHolds
<1>3. Panel => panel' \in 0..MaxPanel
  <2>1. Panel => panel < MaxPanel /\ panel' = panel + 1
    BY DEF Panel
  <2> QED
    BY <2>1, BoundsAssumption, CountsUp
<1>4. ASSUME NEW k \in Keys, NEW c \in Versions[k] \cup {NoContent}, Edit(k, c)
      PROVE  Typed' /\ SyncHolds'
  <2>1. disk' \in [Keys -> Contents \cup {NoContent}]
    BY <1>4, VersionsAssumption DEF Edit
  <2>2. edits' \in 0..MaxEdits
    <3>1. edits < MaxEdits /\ edits' = edits + 1
      BY <1>4 DEF Edit
    <3> QED
      BY <3>1, BoundsAssumption, CountsUp
  <2>3. /\ since' \in [Keys -> {"there", "gone", "changed"}]
        /\ settled' \in {"no", "so far", "yes"}
    BY <1>4 DEF Edit
  <2> QED
    BY <1>2, <1>4, <2>1, <2>2, <2>3 DEF Edit, tables
<1>5. ASSUME NEW k \in Keys, NEW c \in Versions[k], PanelUpload(k, c)
      PROVE  Typed' /\ SyncHolds'
  <2>1. PICK row \in RowType, rows \in SUBSET ChunkType : Committed(k, row, rows)
    BY <1>5, PanelUploadEffect
  <2>2. docs' \in [Keys -> RowType] /\ chunks' \in [Keys -> SUBSET ChunkType]
    BY <2>1 DEF Committed
  <2>3. enrich' \in EnrichType
    BY <1>1, <1>5, HandlersTyped DEF PanelUpload
  <2>4. moved' \in BOOLEAN
    BY <1>5 DEF PanelUpload
  <2>5. /\ since' \in [Keys -> {"there", "gone", "changed"}]
        /\ settled' \in {"no", "so far", "yes"}
    BY <1>5 DEF PanelUpload
  <2>6. Panel /\ UNCHANGED sync
    BY <1>5 DEF PanelUpload
  <2> QED
    BY <1>2, <1>3, <2>2, <2>3, <2>4, <2>5, <2>6 DEF Panel
<1>6. ASSUME NEW k \in Keys, NEW row \in RowType, PanelDecides(k, row)
      PROVE  Typed' /\ SyncHolds'
  <2>1. docs' \in [Keys -> RowType]
    BY <1>6 DEF PanelDecides
  <2> QED
    BY <1>2, <1>3, <1>6, <2>1 DEF PanelDecides, Panel, history
<1>7. ASSUME NEW k \in Keys, NEW audience \in SUBSET Roles, NEW level \in Sensitivities,
             PanelApprove(k, audience, level)
      PROVE  Typed' /\ SyncHolds'
  <2>1. docs[k] \in RowType /\ level \in 1..4
    BY LevelsAssumption DEF RESTRICTED
  <2>2. Approved(docs[k], audience, level) \in RowType
    BY <2>1, ApprovedRows
  <2> QED
    BY <1>6, <1>7, <2>2 DEF PanelApprove
<1>8. ASSUME NEW k \in Keys, PanelRevoke(k)
      PROVE  Typed' /\ SyncHolds'
  <2>1. Withdrawn(docs[k]) \in RowType
    BY WithdrawnRows
  <2> QED
    BY <1>6, <1>8, <2>1 DEF PanelRevoke
<1>9. ASSUME NEW k \in Keys, PanelDelete(k)
      PROVE  Typed' /\ SyncHolds'
  <2>1. docs' \in [Keys -> RowType] /\ chunks' \in [Keys -> SUBSET ChunkType]
    BY <1>9, InitialRecords DEF PanelDelete, Committed
  <2>2. sync' \in SyncType
    BY <1>1, <1>9, HandlersTyped DEF PanelDelete
  <2>3. SyncHolds'
    BY <1>1, <1>9 DEF PanelDelete, SyncWithout, SyncHolds, SyncType
  <2>4. enrich' \in EnrichType
    <3>1. {k} \in SUBSET Keys
      OBVIOUS
    <3> QED
      BY <1>1, <1>9, <3>1, HandlersTyped DEF PanelDelete
  <2>5. Panel /\ moved' = FALSE /\ settled' = "no" /\ UNCHANGED since
    BY <1>9 DEF PanelDelete
  <2> QED
    BY <1>3, <2>1, <2>2, <2>3, <2>4, <2>5 DEF Panel
<1> QED
  BY <1>4, <1>5, <1>7, <1>8, <1>9 DEF Environment

LEMMA TypedStep ==
  ASSUME Typed, SyncHolds, EnrichHolds, RowsAreThere, [Next]_vars
  PROVE  Typed' /\ SyncHolds'
<1>1. CASE UNCHANGED vars
  BY <1>1 DEF vars, Typed, SyncHolds
<1>2. CASE Next
  BY <1>2, SyncTyped, EnrichTyped, EnvironmentTyped DEF Next
<1> QED
  BY <1>1, <1>2

-----------------------------------------------------------------------------
(***************************************************************************)
(* Whose rows sync and backfill hold.                                      *)
(***************************************************************************)

\* The inductive invariant of the tables and of what is held of them.
TablesInv == Typed /\ SyncHolds /\ EnrichHolds /\ RowsAreThere /\ ChunksAreFile /\ RowsAreSound

LEMMA InitTables == Init => TablesInv
<1> SUFFICES ASSUME Init PROVE TablesInv
  OBVIOUS
<1>1. Typed /\ SyncHolds
  BY InitTyped
<1>2. EnrichHolds
  BY DEF Init, EnrichHolds, IdleEnrich
<1>3. RowsAreThere
  BY DEF Init, RowsAreThere, IdleEnrich
<1>4. ChunksAreFile
  BY DEF Init, ChunksAreFile
<1>5. RowsAreSound
  BY DEF Init, RowsAreSound, Sound, IdleSync, IdleEnrich
<1> QED
  BY <1>1, <1>2, <1>3, <1>4, <1>5 DEF TablesInv

\* One document gets a new file and its rows: nobody's rows are confused.
LEMMA FileCommitted ==
  ASSUME TablesInv, NEW k \in Keys, NEW row \in RowType, NEW rows \in SUBSET ChunkType,
         Committed(k, row, rows), row.content \in Contents, FileRows(row.content, rows),
         enrich' = ChunksReplaced({k})
  PROVE  EnrichHolds' /\ RowsAreThere' /\ ChunksAreFile'
<1>1. docs \in [Keys -> RowType] /\ chunks \in [Keys -> SUBSET ChunkType]
      /\ enrich \in EnrichType
  BY DEF TablesInv, Typed
<1>2. docs' = [docs EXCEPT ![k] = row] /\ chunks' = [chunks EXCEPT ![k] = rows]
  BY DEF Committed
<1>3. row # NoRow /\ row.content # NoContent
  BY ContentsAssumption DEF NoRow
<1>4. /\ enrich'.alive => enrich.alive /\ enrich.key # k
      /\ enrich'.pc = enrich.pc /\ enrich'.todo = enrich.todo
      /\ enrich'.key = enrich.key /\ enrich'.rows = enrich.rows
      /\ enrich'.lost = enrich.lost /\ enrich'.copies = enrich.copies
  BY <1>1 DEF ChunksReplaced, EnrichType
<1>5. EnrichHolds'
  <2>1. enrich'.alive => enrich'.rows = chunks'[enrich'.key]
    <3>1. enrich.key \in Keys
      BY <1>1 DEF EnrichType
    <3> QED
      BY <1>1, <1>2, <1>4, <3>1 DEF TablesInv, EnrichHolds
  <2> QED
    BY <1>4, <2>1 DEF TablesInv, EnrichHolds
<1>6. RowsAreThere'
  <2>1. DOMAIN enrich.copies \subseteq Keys
    BY <1>1 DEF EnrichType
  <2> QED
    BY <1>1, <1>2, <1>3, <1>4, <2>1 DEF TablesInv, RowsAreThere
<1>7. ChunksAreFile'
  <2> SUFFICES ASSUME NEW j \in Keys
               PROVE  /\ {r.text : r \in chunks'[j]} =
                           IF docs'[j] = NoRow THEN {} ELSE Texts[docs'[j].content]
                      /\ \A r1, r2 \in chunks'[j] : r1.text = r2.text => r1 = r2
    BY Zenon DEF ChunksAreFile
  <2>1. CASE j = k
    BY <1>1, <1>2, <1>3, <2>1 DEF FileRows
  <2>2. CASE j # k
    BY <1>1, <1>2, <2>2 DEF TablesInv, ChunksAreFile
  <2> QED
    BY <2>1, <2>2
<1> QED
  BY <1>5, <1>6, <1>7

\* Sound rows for one document, and what sync and backfill hold of sound rows.
LEMMA SoundCommitted ==
  ASSUME RowsAreSound, Typed, NEW k \in Keys, NEW row, NEW rows,
         Committed(k, row, rows), Sound(rows),
         Sound(sync'.prior), Sound(enrich'.rows)
  PROVE  RowsAreSound'
<1>1. chunks' = [chunks EXCEPT ![k] = rows] /\ chunks \in [Keys -> SUBSET ChunkType]
  BY DEF Committed, Typed
<1> HIDE DEF Sound
<1>2. ASSUME NEW j \in Keys PROVE Sound(chunks'[j])
  BY <1>1 DEF RowsAreSound
<1>3. (\A j \in Keys : Sound(chunks[j]))'
  BY <1>2 DEF Sound
<1> QED
  BY <1>3 DEF RowsAreSound, Sound

\* Documents that are deleted, with their rows.
LEMMA Deleted ==
  ASSUME TablesInv, NEW keys \in SUBSET Keys,
         docs' = [k \in Keys |-> IF k \in keys THEN NoRow ELSE docs[k]],
         chunks' = [k \in Keys |-> IF k \in keys THEN {} ELSE chunks[k]],
         enrich' = EnrichWithout(keys),
         sync'.prior \in {sync.prior, {}}
  PROVE  EnrichHolds' /\ RowsAreThere' /\ ChunksAreFile' /\ RowsAreSound'
<1>1. docs \in [Keys -> RowType] /\ chunks \in [Keys -> SUBSET ChunkType]
      /\ enrich \in EnrichType
  BY DEF TablesInv, Typed
<1>2. /\ enrich'.alive => enrich.alive /\ enrich.key \notin keys
      /\ enrich'.pc = enrich.pc /\ enrich'.todo = enrich.todo
      /\ enrich'.key = enrich.key /\ enrich'.rows = enrich.rows
      /\ enrich'.copies = enrich.copies
      /\ enrich'.lost = enrich.lost \cup (keys \cap DOMAIN enrich.copies)
  BY <1>1 DEF EnrichWithout, ChunksReplaced, EnrichType
<1>3. EnrichHolds'
  <2>1. enrich'.alive => enrich'.rows = chunks'[enrich'.key]
    <3>1. enrich.key \in Keys
      BY <1>1 DEF EnrichType
    <3> QED
      BY <1>2, <3>1 DEF TablesInv, EnrichHolds
  <2> QED
    BY <1>2, <2>1 DEF TablesInv, EnrichHolds
<1>4. RowsAreThere'
  <2>1. DOMAIN enrich.copies \subseteq Keys
    BY <1>1 DEF EnrichType
  <2> QED
    BY <1>2, <2>1 DEF TablesInv, RowsAreThere
<1>5. ChunksAreFile'
  <2> SUFFICES ASSUME NEW j \in Keys
               PROVE  /\ {r.text : r \in chunks'[j]} =
                           IF docs'[j] = NoRow THEN {} ELSE Texts[docs'[j].content]
                      /\ \A r1, r2 \in chunks'[j] : r1.text = r2.text => r1 = r2
    BY Zenon DEF ChunksAreFile
  <2>1. CASE j \in keys
    BY <2>1
  <2>2. CASE j \notin keys
    BY <2>2 DEF TablesInv, ChunksAreFile
  <2> QED
    BY <2>1, <2>2
<1>6. RowsAreSound'
  BY <1>2 DEF TablesInv, RowsAreSound, Sound
<1> QED
  BY <1>3, <1>4, <1>5, <1>6

\* Steps of sync that leave the tables alone.
LEMMA SyncOnly ==
  ASSUME TablesInv, UNCHANGED <<tables, enrich>>, Sound(sync'.prior)
  PROVE  EnrichHolds' /\ RowsAreThere' /\ ChunksAreFile' /\ RowsAreSound'
<1>1. docs' = docs /\ chunks' = chunks /\ enrich' = enrich
  BY DEF tables
<1> QED
  BY <1>1 DEF TablesInv, EnrichHolds, RowsAreThere, ChunksAreFile, RowsAreSound, Sound

LEMMA SyncTables ==
  ASSUME TablesInv,
         \/ \E autoApprove, noDelete \in BOOLEAN : SyncStart(autoApprove, noDelete)
         \/ SyncStep
         \/ SyncKilled
  PROVE  EnrichHolds' /\ RowsAreThere' /\ ChunksAreFile' /\ RowsAreSound'
<1>1. Typed /\ SyncHolds /\ RowsAreSound /\ sync \in SyncType
  BY DEF TablesInv, Typed
<1>2. Sound({}) /\ Sound(sync.prior) /\ Sound(enrich.rows) /\ \A k \in Keys : Sound(chunks[k])
  BY <1>1 DEF RowsAreSound, Sound
<1>3. ASSUME NEW autoApprove \in BOOLEAN, NEW noDelete \in BOOLEAN,
             SyncStart(autoApprove, noDelete)
      PROVE  EnrichHolds' /\ RowsAreThere' /\ ChunksAreFile' /\ RowsAreSound'
  <2>1. sync'.prior = {} /\ UNCHANGED <<tables, enrich>>
    BY <1>3 DEF SyncStart, IdleSync
  <2> QED
    BY <1>2, <2>1, SyncOnly
<1>4. ASSUME NEW k \in Keys, SyncRead(k)
      PROVE  EnrichHolds' /\ RowsAreThere' /\ ChunksAreFile' /\ RowsAreSound'
  <2> DEFINE next == IF disk[k] = NoContent THEN NextFile(TRUE)
                     ELSE IF disk[k] = docs[k].content THEN NextFile(FALSE)
                     ELSE Reading(k)
  <2>1. sync' = [next EXCEPT !.todo = @ \ {k}, !.seen = @ \cup {k}]
    BY <1>4 DEF SyncRead
  <2>2. next.prior \in {{}, chunks[k]} /\ next \in SyncType
    <3>1. /\ NextFile(TRUE).prior = {} /\ NextFile(FALSE).prior = {}
          /\ Reading(k).prior = chunks[k] /\ Reading(k) \in SyncType
      BY <1>1 DEF NextFile, Reading, SyncType, Typed
    <3> QED
      BY <1>1, <3>1, HandlersTyped DEF Typed
  <2> HIDE DEF next
  <2>3. sync'.prior \in {{}, chunks[k]}
    BY <2>1, <2>2 DEF SyncType
  <2>4. UNCHANGED <<tables, enrich>>
    BY <1>4 DEF SyncRead
  <2> QED
    BY <1>2, <2>3, <2>4, SyncOnly
<1>5. ASSUME SyncWrite
      PROVE  EnrichHolds' /\ RowsAreThere' /\ ChunksAreFile' /\ RowsAreSound'
  <2>1. PICK row \in RowType, rows \in SUBSET ChunkType :
           /\ Committed(sync.key, row, rows)
           /\ row.content = sync.content
           /\ FileRows(sync.content, rows)
           /\ Sound(sync.prior) => Sound(rows)
    BY <1>1, <1>5, SyncWriteEffect
  <2>2. /\ sync.key \in Keys
        /\ sync.content \in Contents
        /\ enrich' = ChunksReplaced({sync.key})
        /\ sync'.prior = {}
    BY <1>1, <1>5 DEF SyncWrite, SyncHolds, SyncType, NextFile
  <2>3. EnrichHolds' /\ RowsAreThere' /\ ChunksAreFile'
    BY <2>1, <2>2, FileCommitted
  <2>4. enrich'.rows = enrich.rows
    BY <1>1, <2>2 DEF ChunksReplaced, Typed, EnrichType
  <2>5. RowsAreSound'
    BY <1>1, <1>2, <2>1, <2>2, <2>4, SoundCommitted
  <2> QED
    BY <2>3, <2>5
<1>6. ASSUME SyncFail
      PROVE  EnrichHolds' /\ RowsAreThere' /\ ChunksAreFile' /\ RowsAreSound'
  <2>1. sync'.prior = {} /\ UNCHANGED <<tables, enrich>>
    BY <1>1, <1>6 DEF SyncFail, NextFile, SyncType
  <2> QED
    BY <1>2, <2>1, SyncOnly
<1>7. ASSUME SyncSelectMissing
      PROVE  EnrichHolds' /\ RowsAreThere' /\ ChunksAreFile' /\ RowsAreSound'
  <2>1. sync'.prior = sync.prior /\ UNCHANGED <<tables, enrich>>
    BY <1>1, <1>7 DEF SyncSelectMissing, SyncType
  <2> QED
    BY <1>2, <2>1, SyncOnly
<1>8. ASSUME SyncRemove
      PROVE  EnrichHolds' /\ RowsAreThere' /\ ChunksAreFile' /\ RowsAreSound'
  <2>1. sync'.prior = {} /\ enrich' = EnrichWithout(sync.doomed)
        /\ sync.doomed \in SUBSET Keys
    BY <1>1, <1>8 DEF SyncRemove, SyncEnded, IdleSync, SyncType
  <2> QED
    BY <1>8, <2>1, Deleted DEF SyncRemove
<1>9. ASSUME SyncFinish \/ SyncKilled
      PROVE  EnrichHolds' /\ RowsAreThere' /\ ChunksAreFile' /\ RowsAreSound'
  <2>1. sync'.prior = {} /\ UNCHANGED <<tables, enrich>>
    <3>1. sync' = IdleSync
      BY <1>9 DEF SyncFinish, SyncKilled, SyncEnded
    <3> QED
      BY <1>9, <3>1 DEF SyncFinish, SyncKilled, IdleSync
  <2> QED
    BY <1>2, <2>1, SyncOnly
<1> QED
  BY <1>3, <1>4, <1>5, <1>6, <1>7, <1>8, <1>9 DEF SyncStep

\* Steps of backfill that leave the tables alone and end, or begin, a document.
LEMMA EnrichOnly ==
  ASSUME TablesInv, UNCHANGED <<tables, sync>>, EnrichHolds', Sound(enrich'.rows),
         \A k \in DOMAIN enrich'.copies \ enrich'.lost : docs[k] # NoRow
  PROVE  EnrichHolds' /\ RowsAreThere' /\ ChunksAreFile' /\ RowsAreSound'
<1>1. docs' = docs /\ chunks' = chunks /\ sync' = sync
  BY DEF tables
<1> QED
  BY <1>1 DEF TablesInv, RowsAreThere, ChunksAreFile, RowsAreSound, Sound

LEMMA EnrichTables ==
  ASSUME TablesInv,
         \/ \E all, force \in BOOLEAN : EnrichStart(all, force)
         \/ EnrichStep
         \/ EnrichKilled
  PROVE  EnrichHolds' /\ RowsAreThere' /\ ChunksAreFile' /\ RowsAreSound'
<1>1. /\ Typed /\ EnrichHolds /\ RowsAreThere /\ RowsAreSound
      /\ enrich \in EnrichType /\ docs \in [Keys -> RowType]
      /\ chunks \in [Keys -> SUBSET ChunkType]
  BY DEF TablesInv, Typed
<1>2. Sound({}) /\ Sound(enrich.rows) /\ \A k \in Keys : Sound(chunks[k])
  BY <1>1 DEF RowsAreSound, Sound
<1>3. ASSUME NEW all \in BOOLEAN, NEW force \in BOOLEAN, EnrichStart(all, force)
      PROVE  EnrichHolds' /\ RowsAreThere' /\ ChunksAreFile' /\ RowsAreSound'
  <2> DEFINE chosen == {k \in Keys : docs[k] # NoRow /\ (all \/ ~docs[k].enriched)}
             copies == [k \in chosen |-> docs[k]]
  <2>1. enrich' = [IdleEnrich EXCEPT
           !.pc = "next", !.todo = chosen, !.force = force, !.copies = copies]
    BY <1>3 DEF EnrichStart
  <2>2. DOMAIN copies = chosen /\ \A k \in chosen : docs[k] # NoRow
    OBVIOUS
  <2> HIDE DEF chosen, copies
  <2>3. /\ enrich'.todo = chosen /\ enrich'.copies = copies /\ enrich'.lost = {}
        /\ enrich'.rows = {} /\ enrich'.alive = FALSE /\ enrich'.pc = "next"
    BY <2>1 DEF IdleEnrich
  <2>4. EnrichHolds'
    BY <2>2, <2>3 DEF EnrichHolds
  <2>5. UNCHANGED <<tables, sync>>
    BY <1>3 DEF EnrichStart
  <2> QED
    BY <1>2, <2>2, <2>3, <2>4, <2>5, EnrichOnly
<1>4. ASSUME NEW k \in Keys, EnrichRead(k)
      PROVE  EnrichHolds' /\ RowsAreThere' /\ ChunksAreFile' /\ RowsAreSound'
  <2>1. /\ enrich'.pc = "write" /\ enrich'.todo = enrich.todo \ {k} /\ enrich'.key = k
        /\ enrich'.rows = (IF k \in enrich.lost THEN {} ELSE chunks[k])
        /\ enrich'.alive = (k \notin enrich.lost)
        /\ enrich'.lost = enrich.lost /\ enrich'.copies = enrich.copies
    BY <1>1, <1>4 DEF EnrichRead, EnrichType
  <2>2. k \in enrich.todo /\ UNCHANGED <<tables, sync>>
    BY <1>4 DEF EnrichRead
  <2>3. EnrichHolds'
    <3>1. chunks' = chunks
      BY <2>2 DEF tables
    <3> QED
      BY <1>1, <2>1, <2>2, <3>1 DEF EnrichHolds
  <2>4. Sound(enrich'.rows)
    BY <1>2, <2>1
  <2> QED
    BY <1>1, <2>1, <2>2, <2>3, <2>4, EnrichOnly DEF RowsAreThere
<1>5. ASSUME EnrichWrite
      PROVE  EnrichHolds' /\ RowsAreThere' /\ ChunksAreFile' /\ RowsAreSound'
  <2> DEFINE k == enrich.key
  <2>1. PICK row \in RowType, rows \in SUBSET ChunkType :
           /\ Committed(k, row, rows)
           /\ \E e \in BOOLEAN : row = [docs[k] EXCEPT !.enriched = e]
           /\ row # docs[k] => docs[k] # NoRow
           /\ ~enrich.alive => rows = chunks[k]
           /\ enrich.alive =>
                /\ {r.text : r \in rows} = {r.text : r \in enrich.rows}
                /\ (\A r1, r2 \in enrich.rows : r1.text = r2.text => r1 = r2) =>
                      \A r1, r2 \in rows : r1.text = r2.text => r1 = r2
                /\ Sound(enrich.rows) => Sound(rows)
    BY <1>1, <1>5, EnrichWriteEffect
  <2>2. /\ docs' = [docs EXCEPT ![k] = row] /\ chunks' = [chunks EXCEPT ![k] = rows]
        /\ k \in Keys
    BY <1>1, <2>1 DEF Committed, EnrichType
  <2>3. row.content = docs[k].content
    BY <2>1
  <2>4. row = NoRow <=> docs[k] = NoRow
    <3>1. ASSUME row = NoRow PROVE docs[k] = NoRow
      <4>1. docs[k].content = NoContent
        BY <2>3, <3>1 DEF NoRow
      <4> QED
        BY <1>1, <2>2, <4>1 DEF RowsAreThere
    <3> QED
      BY <2>1, <3>1
  <2>5. enrich.alive => enrich.rows = chunks[k]
    BY <1>1 DEF EnrichHolds
  <2>6. /\ enrich'.pc = "next" /\ enrich'.todo = enrich.todo /\ enrich'.rows = {}
        /\ enrich'.alive = FALSE /\ enrich'.lost = enrich.lost
        /\ enrich'.copies = enrich.copies
    BY <1>1, <1>5 DEF EnrichWrite, NextDocument, EnrichType
  <2>7. sync' = sync
    BY <1>5 DEF EnrichWrite
  <2>8. EnrichHolds'
    BY <1>1, <2>6 DEF EnrichHolds
  <2>9. /\ {r.text : r \in rows} = {r.text : r \in chunks[k]}
        /\ (\A r1, r2 \in chunks[k] : r1.text = r2.text => r1 = r2) =>
              \A r1, r2 \in rows : r1.text = r2.text => r1 = r2
        /\ Sound(rows)
    BY <1>2, <2>1, <2>2, <2>5
  <2> HIDE DEF k
  <2>10. RowsAreThere'
    <3>1. \A j \in Keys : docs'[j].content = NoContent => docs'[j] = NoRow
      BY <1>1, <2>2, <2>3, <2>4 DEF RowsAreThere
    <3>2. \A j \in DOMAIN enrich.copies \ enrich.lost : docs'[j] # NoRow
      <4>1. DOMAIN enrich.copies \subseteq Keys
        BY <1>1 DEF EnrichType
      <4> QED
        BY <1>1, <2>2, <2>4, <4>1 DEF RowsAreThere
    <3> QED
      BY <2>6, <3>1, <3>2 DEF RowsAreThere
  <2>11. ChunksAreFile'
    <3> SUFFICES ASSUME NEW j \in Keys
                 PROVE  /\ {r.text : r \in chunks'[j]} =
                             IF docs'[j] = NoRow THEN {} ELSE Texts[docs'[j].content]
                        /\ \A r1, r2 \in chunks'[j] : r1.text = r2.text => r1 = r2
      BY Zenon DEF ChunksAreFile
    <3>1. /\ {r.text : r \in chunks[j]} =
                 IF docs[j] = NoRow THEN {} ELSE Texts[docs[j].content]
          /\ \A r1, r2 \in chunks[j] : r1.text = r2.text => r1 = r2
      BY DEF TablesInv, ChunksAreFile
    <3>2. CASE j = k
      <4>1. chunks'[j] = rows /\ docs'[j] = row
        BY <1>1, <2>2, <3>2
      <4> QED
        BY <2>3, <2>4, <2>9, <3>1, <3>2, <4>1
    <3>3. CASE j # k
      BY <1>1, <2>2, <3>1, <3>3
    <3> QED
      BY <3>2, <3>3
  <2>12. RowsAreSound'
    <3>1. Sound(sync'.prior) /\ Sound(enrich'.rows)
      BY <1>1, <1>2, <2>6, <2>7 DEF RowsAreSound
    <3> QED
      BY <1>1, <2>1, <2>2, <2>9, <3>1, SoundCommitted DEF k
  <2> QED
    BY <2>8, <2>10, <2>11, <2>12
<1>6. ASSUME EnrichNothing
      PROVE  EnrichHolds' /\ RowsAreThere' /\ ChunksAreFile' /\ RowsAreSound'
  <2>1. /\ enrich'.pc = "next" /\ enrich'.todo = enrich.todo /\ enrich'.rows = {}
        /\ enrich'.alive = FALSE /\ enrich'.lost = enrich.lost
        /\ enrich'.copies = enrich.copies
    BY <1>1, <1>6 DEF EnrichNothing, NextDocument, EnrichType
  <2>2. EnrichHolds'
    BY <1>1, <2>1 DEF EnrichHolds
  <2>3. UNCHANGED <<tables, sync>>
    BY <1>6 DEF EnrichNothing
  <2> QED
    BY <1>1, <1>2, <2>1, <2>2, <2>3, EnrichOnly DEF RowsAreThere
<1>7. ASSUME EnrichFail \/ EnrichFinish \/ EnrichKilled
      PROVE  EnrichHolds' /\ RowsAreThere' /\ ChunksAreFile' /\ RowsAreSound'
  <2>1. enrich' = IdleEnrich /\ UNCHANGED <<tables, sync>>
    BY <1>7 DEF EnrichFail, EnrichFinish, EnrichKilled
  <2>2. /\ enrich'.pc = "idle" /\ enrich'.todo = {} /\ enrich'.rows = {}
        /\ enrich'.alive = FALSE /\ enrich'.lost = {} /\ DOMAIN enrich'.copies = {}
    BY <2>1 DEF IdleEnrich
  <2>3. EnrichHolds'
    BY <2>2 DEF EnrichHolds
  <2> QED
    BY <1>2, <2>1, <2>2, <2>3, EnrichOnly
<1> QED
  BY <1>3, <1>4, <1>5, <1>6, <1>7 DEF EnrichStep

LEMMA EnvironmentTables ==
  ASSUME TablesInv, Environment
  PROVE  EnrichHolds' /\ RowsAreThere' /\ ChunksAreFile' /\ RowsAreSound'
<1>1. /\ Typed /\ EnrichHolds /\ RowsAreThere /\ RowsAreSound /\ ChunksAreFile
      /\ sync \in SyncType /\ enrich \in EnrichType /\ docs \in [Keys -> RowType]
      /\ chunks \in [Keys -> SUBSET ChunkType]
  BY DEF TablesInv, Typed
<1>2. Sound(sync.prior) /\ Sound(enrich.rows) /\ \A k \in Keys : Sound(chunks[k])
  BY <1>1 DEF RowsAreSound, Sound
<1>3. ASSUME NEW k \in Keys, NEW c \in Versions[k] \cup {NoContent}, Edit(k, c)
      PROVE  EnrichHolds' /\ RowsAreThere' /\ ChunksAreFile' /\ RowsAreSound'
  <2>1. UNCHANGED <<tables, enrich>> /\ sync' = sync
    BY <1>3 DEF Edit
  <2> QED
    BY <1>2, <2>1, SyncOnly
<1>4. ASSUME NEW k \in Keys, NEW c \in Versions[k], PanelUpload(k, c)
      PROVE  EnrichHolds' /\ RowsAreThere' /\ ChunksAreFile' /\ RowsAreSound'
  <2>1. PICK row \in RowType, rows \in SUBSET ChunkType :
           /\ Committed(k, row, rows)
           /\ c \in Contents
           /\ row.content = c
           /\ FileRows(c, rows)
           /\ Sound(chunks[k]) => Sound(rows)
    BY <1>1, <1>4, PanelUploadEffect
  <2>2. enrich' = ChunksReplaced({k}) /\ sync' = sync
    BY <1>4 DEF PanelUpload
  <2>3. EnrichHolds' /\ RowsAreThere' /\ ChunksAreFile'
    BY <2>1, <2>2, FileCommitted
  <2>4. enrich'.rows = enrich.rows
    BY <1>1, <2>2 DEF ChunksReplaced, EnrichType
  <2>5. RowsAreSound'
    BY <1>1, <1>2, <2>1, <2>2, <2>4, SoundCommitted
  <2> QED
    BY <2>3, <2>5
<1>5. ASSUME NEW k \in Keys, NEW row \in RowType, PanelDecides(k, row),
             row.content = docs[k].content
      PROVE  EnrichHolds' /\ RowsAreThere' /\ ChunksAreFile' /\ RowsAreSound'
  <2>1. /\ docs' = [docs EXCEPT ![k] = row] /\ docs[k] # NoRow
        /\ chunks' = chunks /\ sync' = sync /\ enrich' = enrich
    BY <1>5 DEF PanelDecides
  <2>2. row # NoRow /\ row.content # NoContent
    BY <1>1, <1>5, <2>1 DEF RowsAreThere, NoRow
  <2>3. EnrichHolds' /\ RowsAreSound'
    BY <1>1, <2>1 DEF EnrichHolds, RowsAreSound, Sound
  <2>4. RowsAreThere'
    <3>1. DOMAIN enrich.copies \subseteq Keys
      BY <1>1 DEF EnrichType
    <3> QED
      BY <1>1, <2>1, <2>2, <3>1 DEF RowsAreThere
  <2>5. ChunksAreFile'
    BY <1>1, <1>5, <2>1, <2>2 DEF ChunksAreFile
  <2> QED
    BY <2>3, <2>4, <2>5
<1>6. ASSUME NEW k \in Keys, NEW audience \in SUBSET Roles, NEW level \in Sensitivities,
             PanelApprove(k, audience, level)
      PROVE  EnrichHolds' /\ RowsAreThere' /\ ChunksAreFile' /\ RowsAreSound'
  <2>1. docs[k] \in RowType /\ level \in 1..4
    BY <1>1, LevelsAssumption DEF RESTRICTED
  <2>2. /\ Approved(docs[k], audience, level) \in RowType
        /\ Approved(docs[k], audience, level).content = docs[k].content
    BY <2>1, ApprovedRows
  <2> QED
    BY <1>5, <1>6, <2>2 DEF PanelApprove
<1>7. ASSUME NEW k \in Keys, PanelRevoke(k)
      PROVE  EnrichHolds' /\ RowsAreThere' /\ ChunksAreFile' /\ RowsAreSound'
  <2>1. Withdrawn(docs[k]) \in RowType /\ Withdrawn(docs[k]).content = docs[k].content
    BY <1>1, WithdrawnRows
  <2> QED
    BY <1>5, <1>7, <2>1 DEF PanelRevoke
<1>8. ASSUME NEW k \in Keys, PanelDelete(k)
      PROVE  EnrichHolds' /\ RowsAreThere' /\ ChunksAreFile' /\ RowsAreSound'
  <2>1. /\ docs' = [docs EXCEPT ![k] = NoRow] /\ chunks' = [chunks EXCEPT ![k] = {}]
        /\ enrich' = EnrichWithout({k})
    BY <1>8 DEF PanelDelete, Committed
  <2>2. /\ docs' = [j \in Keys |-> IF j \in {k} THEN NoRow ELSE docs[j]]
        /\ chunks' = [j \in Keys |-> IF j \in {k} THEN {} ELSE chunks[j]]
    BY <1>1, <2>1
  <2>3. sync'.prior = sync.prior
    BY <1>1, <1>8 DEF PanelDelete, SyncWithout, SyncType
  <2> QED
    BY <2>1, <2>2, <2>3, Deleted
<1> QED
  BY <1>3, <1>4, <1>6, <1>7, <1>8 DEF Environment

LEMMA TablesStep == TablesInv /\ [Next]_vars => TablesInv'
<1> SUFFICES ASSUME TablesInv, [Next]_vars PROVE TablesInv'
  OBVIOUS
<1>1. Typed' /\ SyncHolds'
  BY TypedStep DEF TablesInv
<1>2. EnrichHolds' /\ RowsAreThere' /\ ChunksAreFile' /\ RowsAreSound'
  <2>1. CASE UNCHANGED vars
    BY <2>1 DEF vars, TablesInv, EnrichHolds, RowsAreThere, ChunksAreFile, RowsAreSound, Sound
  <2>2. CASE Next
    BY <2>2, SyncTables, EnrichTables, EnvironmentTables DEF Next
  <2> QED
    BY <2>1, <2>2
<1> QED
  BY <1>1, <1>2 DEF TablesInv

LEMMA TablesInvariant == Spec => []TablesInv
  BY InitTables, TablesStep, PTL DEF Spec

(***************************************************************************)
(* Every variable has its type: what sync and backfill hold are rows and   *)
(* chunks, and a file is only ingested over another one.                   *)
(***************************************************************************)
THEOREM TypeCorrect == Spec => []TypeOK
<1>1. TablesInv => TypeOK
  <2> SUFFICES ASSUME TablesInv PROVE TypeOK
    OBVIOUS
  <2>1. Typed /\ SyncHolds /\ EnrichHolds
    BY DEF TablesInv
  <2>2. sync \in SyncType /\ enrich \in EnrichType /\ chunks \in [Keys -> SUBSET ChunkType]
    BY <2>1 DEF Typed
  <2>3. DOMAIN sync = DOMAIN IdleSync /\ DOMAIN enrich = DOMAIN IdleEnrich
    BY <2>2 DEF IdleSync, IdleEnrich, SyncType, EnrichType
  <2>4. /\ sync.pc \in {"idle", "next", "ingest", "remove"}
        /\ sync.todo \cup sync.seen \cup sync.doomed \cup {sync.key} \subseteq Keys
        /\ sync.pc = "ingest" => /\ sync.content \in Contents \ {sync.loaded.content}
                                 /\ sync.prior \subseteq ChunkType
    BY <2>1, <2>2 DEF SyncType, SyncHolds
  <2>5. /\ enrich.pc \in {"idle", "next", "write"}
        /\ enrich.todo \cup enrich.lost \subseteq DOMAIN enrich.copies
        /\ enrich.rows \subseteq ChunkType
    BY <2>1, <2>2 DEF EnrichType, EnrichHolds
  <2> QED
    BY <2>1, <2>2, <2>3, <2>4, <2>5 DEF Typed, TypeOK
<1> QED
  BY <1>1, TablesInvariant, PTL

(***************************************************************************)
(* Every chunk is found by what it is, for any files, texts and contexts:  *)
(* what uploads, syncs and backfills carry forward from one another never  *)
(* pairs a vector with another text or context.                            *)
(***************************************************************************)
THEOREM VectorsCorrect == Spec => []VectorsMatch
<1>1. TablesInv => VectorsMatch
  BY DEF TablesInv, RowsAreSound, Sound, VectorsMatch
<1> QED
  BY <1>1, TablesInvariant, PTL

(***************************************************************************)
(* The chunks of a document are the texts of its file, one each, however   *)
(* its replacements, deletions and backfills fall between one another.     *)
(***************************************************************************)
THEOREM ChunksCorrect == Spec => []ChunksAreFile
<1>1. TablesInv => ChunksAreFile
  BY DEF TablesInv
<1> QED
  BY <1>1, TablesInvariant, PTL

-----------------------------------------------------------------------------
(***************************************************************************)
(* Access.                                                                 *)
(***************************************************************************)

\* A request through the panel counts.
LEMMA PanelCounts ==
  ASSUME Typed, Panel
  PROVE  panel' # panel
<1>1. panel \in 0..MaxPanel
  BY DEF Typed
<1>2. panel \in Nat
  BY <1>1, BoundsAssumption
<1>3. panel' = panel + 1
  BY DEF Panel
<1> QED
  BY <1>2, <1>3

LEMMA AccessStep ==
  ASSUME TablesInv, [Next]_vars, panel' = panel, ~sync.autoApprove, NEW k \in Keys
  PROVE  /\ docs'[k].open => docs[k].open
         /\ docs'[k].audience \subseteq docs[k].audience
         /\ docs'[k].level = docs[k].level \/ docs'[k] = NoRow
<1> DEFINE Decided == /\ docs'[k].open => docs[k].open
                      /\ docs'[k].audience \subseteq docs[k].audience
                      /\ docs'[k].level = docs[k].level \/ docs'[k] = NoRow
<1>1. /\ Typed /\ SyncHolds /\ EnrichHolds /\ RowsAreThere
      /\ docs \in [Keys -> RowType] /\ docs[k] \in RowType
  BY DEF TablesInv, Typed
<1>2. ASSUME docs' = docs PROVE Decided
  BY <1>2
<1>3. ASSUME UNCHANGED tables PROVE Decided
  BY <1>2, <1>3 DEF tables
<1>4. CASE UNCHANGED vars
  BY <1>2, <1>4 DEF vars
<1>5. CASE Next
  <2>1. ASSUME NEW autoApprove \in BOOLEAN, NEW noDelete \in BOOLEAN,
               SyncStart(autoApprove, noDelete)
        PROVE  Decided
    BY <1>3, <2>1 DEF SyncStart
  <2>2. CASE SyncStep
    <3>1. ASSUME NEW j \in Keys, SyncRead(j) PROVE Decided
      BY <1>3, <3>1 DEF SyncRead
    <3>2. ASSUME SyncWrite PROVE Decided
      <4>1. PICK row \in RowType, rows \in SUBSET ChunkType :
               /\ Committed(sync.key, row, rows)
               /\ ~sync.autoApprove => NoWider(row, docs[sync.key])
        BY <1>1, <3>2, SyncWriteEffect
      <4>2. docs' = [docs EXCEPT ![sync.key] = row] /\ NoWider(row, docs[sync.key])
        BY <4>1 DEF Committed
      <4> QED
        BY <1>1, <4>2 DEF NoWider
    <3>3. ASSUME SyncFail PROVE Decided
      BY <1>3, <3>3 DEF SyncFail
    <3>4. ASSUME SyncSelectMissing PROVE Decided
      BY <1>3, <3>4 DEF SyncSelectMissing
    <3>5. ASSUME SyncRemove PROVE Decided
      <4>1. docs'[k] = NoRow \/ docs'[k] = docs[k]
        BY <3>5 DEF SyncRemove
      <4>2. NoRow.open = FALSE /\ NoRow.audience = {}
        BY DEF NoRow
      <4>3. CASE docs'[k] = NoRow
        BY <4>2, <4>3
      <4>4. CASE docs'[k] = docs[k]
        BY <4>4
      <4> QED
        BY <4>1, <4>3, <4>4
    <3>6. ASSUME SyncFinish PROVE Decided
      BY <1>3, <3>6 DEF SyncFinish
    <3> QED
      BY <2>2, <3>1, <3>2, <3>3, <3>4, <3>5, <3>6 DEF SyncStep
  <2>3. CASE SyncKilled
    BY <1>3, <2>3 DEF SyncKilled
  <2>4. ASSUME NEW all \in BOOLEAN, NEW force \in BOOLEAN, EnrichStart(all, force)
        PROVE  Decided
    BY <1>3, <2>4 DEF EnrichStart
  <2>5. CASE EnrichStep
    <3>1. ASSUME NEW j \in Keys, EnrichRead(j) PROVE Decided
      BY <1>3, <3>1 DEF EnrichRead
    <3>2. ASSUME EnrichWrite PROVE Decided
      <4>1. PICK row \in RowType, rows \in SUBSET ChunkType :
               /\ Committed(enrich.key, row, rows)
               /\ \E e \in BOOLEAN : row = [docs[enrich.key] EXCEPT !.enriched = e]
        BY <1>1, <3>2, EnrichWriteEffect
      <4>2. PICK e \in BOOLEAN :
              docs' = [docs EXCEPT ![enrich.key] = [docs[enrich.key] EXCEPT !.enriched = e]]
        BY <4>1 DEF Committed
      <4>3. docs'[k] = docs[k] \/ docs'[k] = [docs[k] EXCEPT !.enriched = e]
        BY <1>1, <4>2
      <4> QED
        BY <1>1, <4>3 DEF RowType
    <3>3. ASSUME EnrichNothing \/ EnrichFail \/ EnrichFinish PROVE Decided
      <4>1. UNCHANGED tables
        BY <3>3 DEF EnrichNothing, EnrichFail, EnrichFinish
      <4> QED
        BY <1>3, <4>1
    <3> QED
      BY <2>5, <3>1, <3>2, <3>3 DEF EnrichStep
  <2>6. CASE EnrichKilled
    BY <1>3, <2>6 DEF EnrichKilled
  <2>7. CASE Environment
    <3>1. ~Panel
      BY <1>1, PanelCounts
    <3>2. PICK j \in Keys : \E c \in Versions[j] \cup {NoContent} : Edit(j, c)
      BY <2>7, <3>1 DEF Environment, PanelUpload, PanelApprove, PanelRevoke, PanelDelete,
                        PanelDecides
    <3> QED
      BY <1>3, <3>2 DEF Edit
  <2> QED
    BY <1>5, <2>1, <2>2, <2>3, <2>4, <2>5, <2>6, <2>7 DEF Next
<1> QED
  BY <1>4, <1>5

(***************************************************************************)
(* Only an administrator gives anybody anything to read: a sync without    *)
(* --auto-approve and a backfill open no document, however old the rows    *)
(* they work on have become in the meantime.                               *)
(***************************************************************************)
THEOREM AccessCorrect == Spec => AccessIsDecided
<1>1. TablesInv /\ [Next]_vars =>
        [ panel' = panel /\ ~sync.autoApprove =>
            \A k \in Keys :
              /\ docs'[k].open => docs[k].open
              /\ docs'[k].audience \subseteq docs[k].audience
              /\ docs'[k].level = docs[k].level \/ docs'[k] = NoRow ]_vars
  BY AccessStep
<1> QED
  BY <1>1, TablesInvariant, PTL DEF Spec, AccessIsDecided

-----------------------------------------------------------------------------
(***************************************************************************)
(* What a sync leaves of the folder.                                       *)
(***************************************************************************)

\* The inductive invariant of the loop.
LoopInv == TablesInv /\ LoopCovers /\ LoopSettles /\ RemovedFilesLeave

LEMMA InitLoop == Init => LoopInv
<1> SUFFICES ASSUME Init PROVE LoopInv
  OBVIOUS
<1>1. /\ sync.pc = "idle" /\ settled = "no"
      /\ since = [k \in Keys |-> "changed"]
  BY DEF Init, IdleSync
<1>2. LoopCovers /\ LoopSettles /\ RemovedFilesLeave
  BY <1>1 DEF LoopCovers, LoopSettles, RemovedFilesLeave
<1> QED
  BY <1>2, InitTables DEF LoopInv

\* No document changes its file, comes or goes, and no file, sync or history.
FilesKept ==
  /\ \A k \in Keys : /\ docs'[k].content = docs[k].content
                     /\ docs[k] = NoRow => docs'[k] = NoRow
  /\ UNCHANGED <<disk, sync, since, settled>>

LEMMA KeptLoop ==
  ASSUME LoopInv, FilesKept
  PROVE  LoopCovers' /\ LoopSettles' /\ RemovedFilesLeave'
<1>1. LoopCovers'
  BY DEF LoopInv, LoopCovers, FilesKept
<1>2. LoopSettles'
  <2>1. /\ disk' = disk /\ sync' = sync /\ settled' = settled
        /\ sync.seen \subseteq Keys
    BY DEF FilesKept, LoopInv, TablesInv, Typed, SyncType
  <2> QED
    BY <2>1 DEF LoopInv, LoopSettles, FilesKept
<1>3. RemovedFilesLeave'
  BY DEF LoopInv, RemovedFilesLeave, FilesKept
<1> QED
  BY <1>1, <1>2, <1>3

LEMMA EnrichKeepsFiles ==
  ASSUME TablesInv,
         \/ \E all, force \in BOOLEAN : EnrichStart(all, force)
         \/ EnrichStep
         \/ EnrichKilled
  PROVE  FilesKept
<1>1. /\ Typed /\ EnrichHolds /\ RowsAreThere /\ docs \in [Keys -> RowType]
      /\ enrich \in EnrichType
  BY DEF TablesInv, Typed
<1>2. UNCHANGED <<docs, disk, sync, since, settled>> => FilesKept
  BY DEF FilesKept
<1>3. ASSUME NEW all \in BOOLEAN, NEW force \in BOOLEAN, EnrichStart(all, force)
      PROVE  FilesKept
  BY <1>2, <1>3 DEF EnrichStart, tables, history
<1>4. ASSUME NEW k \in Keys, EnrichRead(k)
      PROVE  FilesKept
  BY <1>2, <1>4 DEF EnrichRead, environment, tables, history
<1>5. ASSUME EnrichWrite
      PROVE  FilesKept
  <2>1. PICK row \in RowType, rows \in SUBSET ChunkType :
           /\ Committed(enrich.key, row, rows)
           /\ \E e \in BOOLEAN : row = [docs[enrich.key] EXCEPT !.enriched = e]
           /\ row # docs[enrich.key] => docs[enrich.key] # NoRow
    BY <1>1, <1>5, EnrichWriteEffect
  <2>2. docs' = [docs EXCEPT ![enrich.key] = row] /\ enrich.key \in Keys
    BY <1>1, <2>1 DEF Committed, EnrichType
  <2>3. row.content = docs[enrich.key].content
    BY <2>1
  <2>4. UNCHANGED <<disk, sync, since, settled>>
    BY <1>5 DEF EnrichWrite, environment, history
  <2>5. ASSUME NEW k \in Keys
        PROVE  /\ docs'[k].content = docs[k].content
               /\ docs[k] = NoRow => docs'[k] = NoRow
    BY <1>1, <2>1, <2>2, <2>3
  <2> QED
    BY <2>4, <2>5 DEF FilesKept
<1>6. ASSUME EnrichNothing
      PROVE  FilesKept
  BY <1>2, <1>6 DEF EnrichNothing, environment, tables, history
<1>7. ASSUME EnrichFail
      PROVE  FilesKept
  BY <1>2, <1>7 DEF EnrichFail, environment, tables, history
<1>8. ASSUME EnrichFinish
      PROVE  FilesKept
  BY <1>2, <1>8 DEF EnrichFinish, environment, tables, history
<1>9. ASSUME EnrichKilled
      PROVE  FilesKept
  BY <1>2, <1>9 DEF EnrichKilled, environment, tables, history
<1> QED
  BY <1>3, <1>4, <1>5, <1>6, <1>7, <1>8, <1>9 DEF EnrichStep

LEMMA SyncLoop ==
  ASSUME LoopInv,
         \/ \E autoApprove, noDelete \in BOOLEAN : SyncStart(autoApprove, noDelete)
         \/ SyncStep
         \/ SyncKilled
  PROVE  LoopCovers' /\ LoopSettles' /\ RemovedFilesLeave'
<1>1. /\ Typed /\ SyncHolds /\ RowsAreThere
      /\ sync \in SyncType /\ docs \in [Keys -> RowType]
      /\ LoopCovers /\ LoopSettles /\ RemovedFilesLeave
  BY DEF LoopInv, TablesInv, Typed
<1>2. ASSUME NEW autoApprove \in BOOLEAN, NEW noDelete \in BOOLEAN,
             SyncStart(autoApprove, noDelete)
      PROVE  LoopCovers' /\ LoopSettles' /\ RemovedFilesLeave'
  <2>1. /\ sync.pc = "idle" /\ sync'.pc = "next" /\ sync'.todo = Discovered
        /\ sync'.seen = {} /\ sync'.failed = FALSE
        /\ docs' = docs /\ disk' = disk
    BY <1>2 DEF SyncStart, IdleSync, tables
  <2>2. /\ since' = [k \in Keys |-> IF disk[k] = NoContent THEN "gone" ELSE "there"]
        /\ settled' = IF settled = "yes" THEN "yes" ELSE "so far"
    BY <1>2 DEF SyncStart
  <2>3. LoopCovers'
    BY <2>1, <2>2 DEF LoopCovers, Discovered
  <2>4. LoopSettles'
    BY <1>1, <2>1, <2>2 DEF LoopSettles, Discovered
  <2>5. RemovedFilesLeave'
    BY <2>1 DEF RemovedFilesLeave
  <2> QED
    BY <2>3, <2>4, <2>5
<1>3. ASSUME NEW k \in Keys, SyncRead(k)
      PROVE  LoopCovers' /\ LoopSettles' /\ RemovedFilesLeave'
  <2>1. /\ sync.pc = "next" /\ k \in sync.todo
        /\ docs' = docs /\ disk' = disk /\ since' = since /\ settled' = settled
    BY <1>3 DEF SyncRead, tables, environment, history
  <2>2. /\ sync'.todo = sync.todo \ {k} /\ sync'.seen = sync.seen \cup {k}
        /\ sync'.pc \in {"next", "ingest"}
        /\ disk[k] = NoContent => sync'.failed
        /\ ~sync'.failed => ~sync.failed
        /\ sync'.pc = "ingest" =>
             /\ sync'.key = k /\ sync'.content = disk[k] /\ disk[k] # docs[k].content
             /\ disk[k] # NoContent
        /\ sync'.pc = "next" /\ disk[k] # NoContent => docs[k].content = disk[k]
    <3>1. CASE disk[k] = NoContent
      BY <1>1, <1>3, <2>1, <3>1 DEF SyncRead, NextFile, SyncType
    <3>2. CASE disk[k] # NoContent /\ disk[k] = docs[k].content
      BY <1>1, <1>3, <2>1, <3>2 DEF SyncRead, NextFile, SyncType
    <3>3. CASE disk[k] # NoContent /\ disk[k] # docs[k].content
      BY <1>1, <1>3, <2>1, <3>3 DEF SyncRead, Reading, SyncType
    <3> QED
      BY <3>1, <3>2, <3>3
  <2>3. LoopCovers'
    BY <1>1, <2>1, <2>2 DEF LoopCovers
  <2>4. LoopSettles'
    <3>1. settled = "yes" => sync'.pc # "ingest"
      BY <1>1, <2>2 DEF LoopSettles
    <3>2. settled = "so far" /\ ~sync'.failed =>
            \A j \in sync'.seen : \/ sync'.pc = "ingest" /\ sync'.key = j
                                  \/ docs[j].content = disk[j]
      BY <1>1, <2>1, <2>2 DEF LoopSettles
    <3> QED
      BY <1>1, <2>1, <2>2, <3>1, <3>2 DEF LoopSettles
  <2>5. RemovedFilesLeave'
    BY <2>2 DEF RemovedFilesLeave
  <2> QED
    BY <2>3, <2>4, <2>5
<1>4. ASSUME SyncWrite
      PROVE  LoopCovers' /\ LoopSettles' /\ RemovedFilesLeave'
  <2>1. PICK row \in RowType, rows \in SUBSET ChunkType :
           Committed(sync.key, row, rows) /\ row.content = sync.content
    BY <1>1, <1>4, SyncWriteEffect
  <2>2. /\ docs' = [docs EXCEPT ![sync.key] = row]
        /\ sync.pc = "ingest" /\ sync.key \in Keys
        /\ disk' = disk /\ since' = since /\ settled' = settled
    BY <1>1, <1>4, <2>1 DEF SyncWrite, Committed, environment, history, SyncType
  <2>3. /\ sync'.pc = "next" /\ sync'.todo = sync.todo /\ sync'.seen = sync.seen
        /\ sync'.failed = sync.failed
    BY <1>1, <1>4 DEF SyncWrite, NextFile, SyncType
  <2>4. LoopCovers'
    BY <1>1, <2>2, <2>3 DEF LoopCovers
  <2>5. LoopSettles'
    <3>1. settled # "yes"
      BY <1>1, <2>2 DEF LoopSettles
    <3>2. sync.seen \subseteq Keys
      BY <1>1 DEF SyncType
    <3>3. settled = "so far" /\ ~sync.failed =>
            \A j \in sync.seen : docs'[j].content = disk[j]
      BY <1>1, <2>1, <2>2, <3>2 DEF LoopSettles
    <3> QED
      BY <1>1, <2>2, <2>3, <3>1, <3>3, ZenonT(30) DEF LoopSettles
  <2>6. RemovedFilesLeave'
    BY <2>3 DEF RemovedFilesLeave
  <2> QED
    BY <2>4, <2>5, <2>6
<1>5. ASSUME SyncFail
      PROVE  LoopCovers' /\ LoopSettles' /\ RemovedFilesLeave'
  <2>1. /\ sync.pc = "ingest"
        /\ docs' = docs /\ disk' = disk /\ since' = since /\ settled' = settled
        /\ sync'.pc = "next" /\ sync'.todo = sync.todo /\ sync'.seen = sync.seen
        /\ sync'.failed
    BY <1>1, <1>5 DEF SyncFail, NextFile, SyncType, tables, environment, history
  <2>2. LoopCovers'
    BY <1>1, <2>1 DEF LoopCovers
  <2>3. LoopSettles'
    BY <1>1, <2>1 DEF LoopSettles
  <2>4. RemovedFilesLeave'
    BY <2>1 DEF RemovedFilesLeave
  <2> QED
    BY <2>2, <2>3, <2>4
<1>6. ASSUME SyncSelectMissing
      PROVE  LoopCovers' /\ LoopSettles' /\ RemovedFilesLeave'
  <2>1. /\ sync.pc = "next" /\ sync.todo = {}
        /\ docs' = docs /\ disk' = disk /\ since' = since /\ settled' = settled
        /\ sync'.pc = "remove" /\ sync'.todo = {} /\ sync'.seen = sync.seen
        /\ sync'.failed = sync.failed
        /\ sync'.doomed = {k \in Keys \ sync.seen : docs[k] # NoRow}
    BY <1>1, <1>6 DEF SyncSelectMissing, SyncType, tables, environment, history
  <2>2. LoopCovers'
    BY <1>1, <2>1 DEF LoopCovers
  <2>3. LoopSettles'
    <3>1. settled = "yes" => sync'.doomed = {}
      BY <1>1, <2>1 DEF LoopSettles, RowsAreThere
    <3> QED
      BY <1>1, <2>1, <3>1 DEF LoopSettles
  <2>4. RemovedFilesLeave'
    BY <2>1 DEF RemovedFilesLeave
  <2> QED
    BY <2>2, <2>3, <2>4
<1>7. ASSUME SyncRemove
      PROVE  LoopCovers' /\ LoopSettles' /\ RemovedFilesLeave'
  <2>1. /\ sync.pc = "remove" /\ sync'.pc = "idle"
        /\ docs' = [k \in Keys |-> IF k \in sync.doomed THEN NoRow ELSE docs[k]]
        /\ disk' = disk /\ since' = since
        /\ settled' = IF settled = "so far" THEN (IF sync.failed THEN "no" ELSE "yes")
                      ELSE settled
    BY <1>7 DEF SyncRemove, SyncEnded, IdleSync, environment
  <2>2. LoopCovers'
    BY <2>1 DEF LoopCovers
  <2>3. RemovedFilesLeave'
    BY <1>1, <2>1 DEF LoopCovers, RemovedFilesLeave
  <2>4. LoopSettles'
    <3>1. NoRow.content = NoContent
      BY DEF NoRow
    <3>2. ASSUME settled' = "yes", NEW k \in Keys
          PROVE  docs'[k].content = disk[k]
      <4>1. CASE settled = "yes"
        BY <1>1, <2>1, <4>1 DEF LoopSettles
      <4>2. CASE settled = "so far"
        <5>1. ~sync.failed
          BY <2>1, <3>2, <4>2
        <5>2. CASE k \in sync.seen
          <6>1. docs[k].content = disk[k] /\ k \notin sync.doomed
            BY <1>1, <2>1, <4>2, <5>1, <5>2 DEF LoopSettles, LoopCovers
          <6> QED
            BY <2>1, <6>1
        <5>3. CASE k \notin sync.seen
          <6>1. disk[k] = NoContent
            BY <1>1, <2>1, <4>2, <5>3 DEF LoopSettles, LoopCovers
          <6>2. k \in sync.doomed \/ docs[k] = NoRow
            BY <1>1, <2>1, <4>2, <5>3 DEF LoopSettles
          <6> QED
            BY <2>1, <3>1, <6>1, <6>2
        <5> QED
          BY <5>2, <5>3
      <4> QED
        BY <2>1, <3>2, <4>1, <4>2
    <3>3. settled' # "so far"
      BY <2>1
    <3> QED
      BY <2>1, <3>2, <3>3 DEF LoopSettles
  <2> QED
    BY <2>2, <2>3, <2>4
<1>8. ASSUME SyncFinish \/ SyncKilled
      PROVE  LoopCovers' /\ LoopSettles' /\ RemovedFilesLeave'
  <2>1. sync' = IdleSync /\ settled' = IF settled = "so far" THEN "no" ELSE settled
    BY <1>8 DEF SyncFinish, SyncKilled, SyncEnded
  <2>2. since' = [k \in Keys |-> "changed"]
    BY <1>8 DEF SyncFinish, SyncKilled
  <2>3. docs' = docs /\ disk' = disk
    BY <1>8 DEF SyncFinish, SyncKilled, tables, environment
  <2>4. sync'.pc = "idle"
    BY <2>1 DEF IdleSync
  <2>5. LoopCovers'
    BY <2>4 DEF LoopCovers
  <2>6. LoopSettles'
    BY <1>1, <2>1, <2>3, <2>4 DEF LoopSettles
  <2>7. RemovedFilesLeave'
    BY <2>2 DEF RemovedFilesLeave
  <2> QED
    BY <2>5, <2>6, <2>7
<1> QED
  BY <1>2, <1>3, <1>4, <1>5, <1>6, <1>7, <1>8 DEF SyncStep

\* After a change to the folder or a document nothing is settled.
LEMMA Unsettled ==
  ASSUME settled' = "no"
  PROVE  LoopSettles'
BY DEF LoopSettles

LEMMA EnvironmentLoop ==
  ASSUME LoopInv, Environment
  PROVE  LoopCovers' /\ LoopSettles' /\ RemovedFilesLeave'
<1>1. /\ Typed /\ RowsAreThere /\ sync \in SyncType /\ docs \in [Keys -> RowType]
      /\ LoopCovers /\ LoopSettles /\ RemovedFilesLeave
      /\ since \in [Keys -> {"there", "gone", "changed"}]
  BY DEF LoopInv, TablesInv, Typed
<1>2. ASSUME NEW k \in Keys, NEW c \in Versions[k] \cup {NoContent}, Edit(k, c)
      PROVE  LoopCovers' /\ LoopSettles' /\ RemovedFilesLeave'
  <2>1. docs' = docs /\ sync' = sync /\ settled' = "no"
    BY <1>2 DEF Edit, tables
  <2>2. ASSUME NEW j \in Keys PROVE since'[j] \in {since[j], "changed"}
    BY <1>1, <1>2 DEF Edit
  <2>3. LoopCovers'
    BY <1>1, <2>1, <2>2 DEF LoopCovers
  <2>4. RemovedFilesLeave'
    BY <1>1, <2>1, <2>2 DEF RemovedFilesLeave
  <2> QED
    BY <2>1, <2>3, <2>4, Unsettled
<1>3. ASSUME NEW k \in Keys, NEW c \in Versions[k], PanelUpload(k, c)
      PROVE  LoopCovers' /\ LoopSettles' /\ RemovedFilesLeave'
  <2>1. PICK row \in RowType, rows \in SUBSET ChunkType : Committed(k, row, rows)
    BY <1>1, <1>3, PanelUploadEffect
  <2>2. /\ docs' = [docs EXCEPT ![k] = row] /\ sync' = sync /\ settled' = "no"
        /\ since' = [since EXCEPT ![k] = IF @ = "gone" THEN "changed" ELSE @]
    BY <1>3, <2>1 DEF PanelUpload, Committed
  <2>3. ASSUME NEW j \in Keys
        PROVE  /\ since'[j] = "gone" => since[j] = "gone" /\ docs'[j] = docs[j]
               /\ since'[j] = "there" => since[j] = "there"
    BY <1>1, <2>2
  <2>4. LoopCovers'
    BY <1>1, <2>2, <2>3 DEF LoopCovers
  <2>5. RemovedFilesLeave'
    BY <1>1, <2>2, <2>3 DEF RemovedFilesLeave
  <2> QED
    BY <2>2, <2>4, <2>5, Unsettled
<1>4. ASSUME NEW k \in Keys, NEW row, PanelDecides(k, row), row.content = docs[k].content
      PROVE  LoopCovers' /\ LoopSettles' /\ RemovedFilesLeave'
  <2>1. /\ docs' = [docs EXCEPT ![k] = row] /\ docs[k] # NoRow
        /\ disk' = disk /\ sync' = sync /\ since' = since /\ settled' = settled
    BY <1>4 DEF PanelDecides, Panel, history
  <2>2. FilesKept
    BY <1>1, <1>4, <2>1 DEF FilesKept
  <2> QED
    BY <2>2, KeptLoop
<1>5. ASSUME NEW k \in Keys, NEW audience \in SUBSET Roles, NEW level \in Sensitivities,
             PanelApprove(k, audience, level)
      PROVE  LoopCovers' /\ LoopSettles' /\ RemovedFilesLeave'
  <2>1. docs[k] \in RowType /\ level \in 1..4
    BY <1>1, LevelsAssumption DEF RESTRICTED
  <2>2. Approved(docs[k], audience, level).content = docs[k].content
    BY <2>1, ApprovedRows
  <2> QED
    BY <1>4, <1>5, <2>2 DEF PanelApprove
<1>6. ASSUME NEW k \in Keys, PanelRevoke(k)
      PROVE  LoopCovers' /\ LoopSettles' /\ RemovedFilesLeave'
  <2>1. Withdrawn(docs[k]).content = docs[k].content
    BY <1>1, WithdrawnRows
  <2> QED
    BY <1>4, <1>6, <2>1 DEF PanelRevoke
<1>7. ASSUME NEW k \in Keys, PanelDelete(k)
      PROVE  LoopCovers' /\ LoopSettles' /\ RemovedFilesLeave'
  <2>1. /\ docs' = [docs EXCEPT ![k] = NoRow] /\ settled' = "no" /\ since' = since
        /\ sync' = SyncWithout(k)
    BY <1>7 DEF PanelDelete, Committed
  <2>2. /\ sync'.pc = sync.pc /\ sync'.todo = sync.todo /\ sync'.seen = sync.seen
        /\ sync'.key = sync.key /\ sync'.doomed = sync.doomed \ {k}
    BY <1>1, <2>1 DEF SyncWithout, SyncType
  <2>3. LoopCovers'
    BY <1>1, <2>1, <2>2 DEF LoopCovers
  <2>4. RemovedFilesLeave'
    BY <1>1, <2>1, <2>2 DEF RemovedFilesLeave
  <2> QED
    BY <2>1, <2>3, <2>4, Unsettled
<1> QED
  BY <1>2, <1>3, <1>5, <1>6, <1>7 DEF Environment

LEMMA LoopStep == LoopInv /\ [Next]_vars => LoopInv'
<1> SUFFICES ASSUME LoopInv, [Next]_vars PROVE LoopInv'
  OBVIOUS
<1>1. TablesInv /\ TablesInv'
  BY TablesStep DEF LoopInv
<1>2. LoopCovers' /\ LoopSettles' /\ RemovedFilesLeave'
  <2>1. CASE UNCHANGED vars
    <3>1. FilesKept
      BY <2>1 DEF vars, FilesKept
    <3> QED
      BY <3>1, KeptLoop
  <2>2. CASE Next
    BY <1>1, <2>2, SyncLoop, EnrichKeepsFiles, KeptLoop, EnvironmentLoop DEF Next
  <2> QED
    BY <2>1, <2>2
<1> QED
  BY <1>1, <1>2 DEF LoopInv

LEMMA LoopInvariant == Spec => []LoopInv
  BY InitLoop, LoopStep, PTL DEF Spec

(***************************************************************************)
(* A sync never deletes the document of a file that was in the folder all  *)
(* the time it ran, whether or not the file could be ingested.             *)
(***************************************************************************)
THEOREM PresentCorrect == Spec => []PresentFilesSurvive
<1>1. LoopInv => PresentFilesSurvive
  <2> SUFFICES ASSUME LoopInv, sync.pc = "remove", NEW k \in sync.doomed
               PROVE  since[k] # "there"
    BY DEF PresentFilesSurvive
  <2>1. k \in Keys /\ LoopCovers
    BY DEF LoopInv, TablesInv, Typed, SyncType
  <2> QED
    BY <2>1 DEF LoopCovers
<1> QED
  BY <1>1, LoopInvariant, PTL

(***************************************************************************)
(* After a sync, a file gone since before it began has no document, unless *)
(* it was uploaded again.                                                  *)
(***************************************************************************)
THEOREM RemovedCorrect == Spec => []RemovedFilesLeave
<1>1. LoopInv => RemovedFilesLeave
  BY DEF LoopInv
<1> QED
  BY <1>1, LoopInvariant, PTL

\* A sync of what is settled reads every file, writes none and removes none.
LEMMA IdempotentStep ==
  ASSUME LoopInv, [Next]_vars, settled = "yes", sync' # sync, panel' = panel
  PROVE  docs' = docs /\ chunks' = chunks
<1>1. /\ Typed /\ LoopSettles
      /\ docs \in [Keys -> RowType] /\ chunks \in [Keys -> SUBSET ChunkType]
  BY DEF LoopInv, TablesInv, Typed
<1>2. UNCHANGED tables => docs' = docs /\ chunks' = chunks
  BY DEF tables
<1>3. Next
  BY DEF vars
<1>4. ASSUME NEW autoApprove \in BOOLEAN, NEW noDelete \in BOOLEAN,
             SyncStart(autoApprove, noDelete)
      PROVE  UNCHANGED tables
  BY <1>4 DEF SyncStart
<1>5. ASSUME NEW k \in Keys, SyncRead(k) PROVE UNCHANGED tables
  BY <1>5 DEF SyncRead
<1>6. ~SyncWrite
  BY <1>1 DEF SyncWrite, LoopSettles
<1>7. SyncFail \/ SyncSelectMissing \/ SyncFinish \/ SyncKilled => UNCHANGED tables
  BY DEF SyncFail, SyncSelectMissing, SyncFinish, SyncKilled
<1>8. ASSUME SyncRemove PROVE docs' = docs /\ chunks' = chunks
  <2>1. sync.doomed = {}
    BY <1>1, <1>8 DEF SyncRemove, LoopSettles
  <2>2. docs' = [k \in Keys |-> docs[k]] /\ chunks' = [k \in Keys |-> chunks[k]]
    BY <1>8, <2>1 DEF SyncRemove
  <2> QED
    BY <1>1, <2>2
<1>9. ~\E all, force \in BOOLEAN : EnrichStart(all, force)
  BY DEF EnrichStart
<1>10. ~EnrichStep /\ ~EnrichKilled
  BY DEF EnrichStep, EnrichRead, EnrichWrite, EnrichNothing, EnrichFail, EnrichFinish,
         EnrichKilled
<1>11. ~Environment
  <2>1. ~Panel
    BY <1>1, PanelCounts
  <2> QED
    BY <2>1 DEF Environment, Edit, PanelUpload, PanelApprove, PanelRevoke, PanelDelete,
                PanelDecides
<1> QED
  BY <1>2, <1>3, <1>4, <1>5, <1>6, <1>7, <1>8, <1>9, <1>10, <1>11 DEF Next, SyncStep

(***************************************************************************)
(* After a sync that went well, another one changes nothing until somebody *)
(* changes the folder or a document, for any folder and with any options.  *)
(***************************************************************************)
THEOREM IdempotentCorrect == Spec => SyncIdempotent
<1>1. LoopInv /\ [Next]_vars =>
        [ settled = "yes" /\ sync' # sync /\ panel' = panel =>
            docs' = docs /\ chunks' = chunks ]_vars
  BY IdempotentStep
<1> QED
  BY <1>1, LoopInvariant, PTL DEF Spec, SyncIdempotent

=============================================================================

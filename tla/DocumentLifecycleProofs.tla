---------------------- MODULE DocumentLifecycleProofs ----------------------
(***************************************************************************)
(* What DocumentLifecycle promises, for every value of its constants.      *)
(* However many requests overlap: its types, that the chunks are those of  *)
(* the live file, and that only an approval opens a document.  When        *)
(* requests do not overlap: it implements DocumentPromise, a stricter file *)
(* is never live unreviewed, and no role is granted above its clearance.   *)
(***************************************************************************)
EXTENDS DocumentRefinement, TLAPS

-----------------------------------------------------------------------------
(***************************************************************************)
(* Type correctness.                                                       *)
(***************************************************************************)

LEMMA NoDocTyped == NoDoc \in RowType /\ NoRows \in RowsType
  BY BoundsAssumption DEF NoDoc, NoRows, RowType, RowsType, RESTRICTED

LEMMA IdleSessionTyped == IdleSession \in SessionType
  BY NoDocTyped DEF IdleSession, SessionType

LEMMA CreatedTyped ==
  ASSUME TypeOK, NEW s \in Sessions, sess[s].op = "upload", lastId < MaxId
  PROVE  Created(s) \in RowType
<1>1. lastId + 1 \in 0..MaxId /\ 1 \in 0..MaxVersion
  BY BoundsAssumption DEF TypeOK
<1>2. sess[s].content \in Contents /\ Proposal[sess[s].content] \in 0..4
  BY ProposalAssumption DEF TypeOK
<1> QED
  BY <1>1, <1>2 DEF Created, RowType, RESTRICTED

LEMMA ReplacedTyped ==
  ASSUME TypeOK, NEW s \in Sessions, sess[s].op = "upload"
  PROVE  Replaced(s) \in RowType
<1>1. sess[s].loaded \in RowType /\ sess[s].loaded.version < MaxVersion
  BY DEF TypeOK, SessionType
<1>2. sess[s].content \in Contents /\ Proposal[sess[s].content] \in 0..4
  BY ProposalAssumption DEF TypeOK
<1>3. sess[s].loaded.version + 1 \in 0..MaxVersion
  BY <1>1, BoundsAssumption DEF RowType
<1> QED
  BY <1>1, <1>2, <1>3 DEF Replaced, RowType

LEMMA WrittenTyped ==
  ASSUME TypeOK, NEW s \in Sessions
  PROVE  Written(s) \in RowType
<1>1. doc \in RowType /\ sess[s].row \in RowType /\ sess[s].loaded \in RowType
  BY DEF TypeOK, SessionType
<1> DEFINE merged == [c \in DOMAIN doc |->
                        IF c \in Dirty(s) THEN sess[s].row[c] ELSE doc[c]]
<1>2. merged \in RowType
  BY <1>1 DEF RowType
<1> QED
  BY <1>1, <1>2 DEF Written

\* A step that gives one request a new well-typed record and leaves the rest.
LEMMA SessionTyped ==
  ASSUME TypeOK, NEW s \in Sessions, NEW record \in SessionType,
         sess' = [sess EXCEPT ![s] = record],
         record.op = "upload" => /\ record.content \in Contents
                                 /\ record.loaded.version < MaxVersion
  PROVE  /\ sess' \in [Sessions -> SessionType]
         /\ \A t \in Sessions :
              sess'[t].op = "upload" => /\ sess'[t].content \in Contents
                                        /\ sess'[t].loaded.version < MaxVersion
  BY DEF TypeOK

LEMMA TablesUnchanged ==
  ASSUME TypeOK, UNCHANGED tables,
         sess' \in [Sessions -> SessionType],
         \A t \in Sessions :
           sess'[t].op = "upload" => /\ sess'[t].content \in Contents
                                     /\ sess'[t].loaded.version < MaxVersion
  PROVE  TypeOK'
  BY DEF TypeOK, tables

LEMMA LoadTyped ==
  ASSUME TypeOK, NEW s \in Sessions,
         NEW op \in {"upload", "approve", "revoke", "delete"},
         NEW row \in RowType, NEW content \in Contents \cup {NoContent},
         NEW roleKeys \in SUBSET Roles,
         op = "upload" => content \in Contents /\ doc.version < MaxVersion,
         Load(s, op, row, content, roleKeys)
  PROVE  TypeOK'
<1> DEFINE record == [IdleSession EXCEPT
                        !.op = op, !.pc = "loaded", !.loaded = doc,
                        !.row = row, !.content = content,
                        !.roleKeys = roleKeys]
<1>1. record \in SessionType /\ record.op = op /\ record.content = content
      /\ record.loaded = doc
  BY IdleSessionTyped DEF SessionType, TypeOK
<1>2. sess' = [sess EXCEPT ![s] = record] /\ UNCHANGED tables
  BY DEF Load
<1> HIDE DEF record
<1> QED
  BY <1>1, <1>2, SessionTyped, TablesUnchanged

LEMMA AbortTyped ==
  ASSUME TypeOK, NEW s \in Sessions, Abort(s)
  PROVE  TypeOK'
<1>1. IdleSession.op # "upload"
  BY DEF IdleSession
<1> QED
  BY <1>1, IdleSessionTyped, SessionTyped, TablesUnchanged DEF Abort

LEMMA RequestTyped ==
  ASSUME TypeOK, NEW s \in Sessions, Request(s)
  PROVE  TypeOK'
<1>1. ASSUME NEW c \in Contents, Upload(s, c)
      PROVE  TypeOK'
  BY <1>1, LoadTyped DEF Upload, TypeOK
<1>2. ASSUME NEW roleKeys \in SUBSET Roles, NEW sensitivity \in Sensitivities,
             ApproveDocument(s, roleKeys, sensitivity)
      PROVE  TypeOK'
  <2>1. [doc EXCEPT !.status = "APPROVED", !.sensitivity = sensitivity]
          \in RowType
    BY SensitivityAssumption DEF TypeOK, RowType
  <2> QED
    BY <1>2, <2>1, LoadTyped DEF ApproveDocument
<1>3. CASE RevokeDocument(s)
  <2>1. [doc EXCEPT !.status = "PENDING_REVIEW"] \in RowType
    BY DEF TypeOK, RowType
  <2> QED
    BY <1>3, <2>1, LoadTyped DEF RevokeDocument
<1>4. CASE DeleteDocument(s)
  BY <1>4, LoadTyped, NoDocTyped DEF DeleteDocument
<1> QED
  BY <1>1, <1>2, <1>3, <1>4 DEF Request

LEMMA CommitTyped ==
  ASSUME TypeOK, NEW s \in Sessions, Commit(s)
  PROVE  TypeOK'
<1>1. sess[s] \in SessionType
  BY DEF TypeOK
<1>2. doc' \in RowType
  BY WrittenTyped DEF Commit
<1>3. acl' \subseteq Roles /\ chunks' \subseteq Contents
  BY <1>1 DEF Commit, TypeOK, SessionType, RowsType
<1>4. reviewed' \in Contents \cup {NoContent}
  BY <1>1 DEF Commit, TypeOK, SessionType, RowType
<1>5. last' \in {"none", "upload", "approve", "revoke", "delete"}
  BY <1>1 DEF Commit, SessionType, RowType
<1>6. ASSUME NEW t \in Sessions
      PROVE  /\ sess'[t] \in SessionType
             /\ sess'[t].op = "upload" => /\ sess'[t].content \in Contents
                                          /\ sess'[t].loaded.version < MaxVersion
  <2>1. CASE t = s
    <3>1. sess'[t] = IdleSession
      BY <2>1 DEF Commit
    <3>2. IdleSession.op # "upload"
      BY DEF IdleSession
    <3> QED
      BY <3>1, <3>2, IdleSessionTyped
  <2>2. CASE t # s
    <3> DEFINE snap == [sess[t].snap EXCEPT
                          !.acl = @ \ sess[s].gone.acl,
                          !.chunks = @ \ sess[s].gone.chunks]
    <3>1. sess[t] \in SessionType
      BY DEF TypeOK
    <3>2. snap \in RowsType
      BY <3>1 DEF SessionType, RowsType
    <3>3. sess'[t] = [sess[t] EXCEPT !.snap = snap]
      BY <2>2, <3>1 DEF Commit, SessionType, RowsType
    <3> HIDE DEF snap
    <3>4. sess'[t] \in SessionType /\ sess'[t].op = sess[t].op
          /\ sess'[t].content = sess[t].content
          /\ sess'[t].loaded = sess[t].loaded
      BY <3>1, <3>2, <3>3 DEF SessionType
    <3> QED
      BY <3>4 DEF TypeOK
  <2> QED
    BY <2>1, <2>2
<1>7. sess' \in [Sessions -> SessionType]
  BY <1>6 DEF Commit
<1> QED
  BY <1>2, <1>3, <1>4, <1>5, <1>6, <1>7 DEF Commit, TypeOK

LEMMA ProgressTyped ==
  ASSUME TypeOK, NEW s \in Sessions, Progress(s)
  PROVE  TypeOK'
<1> DEFINE Typed(record) ==
             /\ record \in SessionType
             /\ record.op = sess[s].op
             /\ record.content = sess[s].content
             /\ record.loaded = sess[s].loaded
<1>1. sess[s] \in SessionType
  BY DEF TypeOK
<1>2. ASSUME NEW record, Typed(record), sess' = [sess EXCEPT ![s] = record]
      PROVE  /\ sess' \in [Sessions -> SessionType]
             /\ \A t \in Sessions :
                  sess'[t].op = "upload" =>
                    /\ sess'[t].content \in Contents
                    /\ sess'[t].loaded.version < MaxVersion
  BY <1>2, SessionTyped DEF TypeOK
<1>3. ASSUME NEW record, Typed(record), sess' = [sess EXCEPT ![s] = record],
             UNCHANGED tables
      PROVE  TypeOK'
  BY <1>2, <1>3, TablesUnchanged
<1>4. CASE InsertDocument(s)
  <2> DEFINE record == [sess[s] EXCEPT !.pc = "embedded", !.row = Created(s),
                                       !.locked = TRUE]
  <2>1. Created(s) \in RowType
    BY <1>4, CreatedTyped DEF InsertDocument, At
  <2>2. Typed(record)
    BY <1>1, <2>1 DEF SessionType
  <2>3. sess' = [sess EXCEPT ![s] = record]
    BY <1>1, <1>4 DEF InsertDocument, SessionType, TypeOK
  <2>4. lastId' \in 0..MaxId
    BY <1>4, BoundsAssumption DEF InsertDocument, TypeOK
  <2> HIDE DEF record, Typed
  <2> QED
    BY <1>2, <1>4, <2>2, <2>3, <2>4 DEF InsertDocument, TypeOK
<1>5. CASE DeleteChunks(s)
  <2> DEFINE record == [sess[s] EXCEPT !.pc = "chunks", !.snap.chunks = chunks]
  <2>1. Typed(record)
    BY <1>1 DEF SessionType, RowsType, TypeOK
  <2>2. sess' = [sess EXCEPT ![s] = record]
    BY <1>5 DEF DeleteChunks, TypeOK
  <2> QED
    BY <1>3, <1>5, <2>1, <2>2 DEF DeleteChunks
<1>6. CASE ChunksDeleted(s)
  <2> DEFINE record == [sess[s] EXCEPT !.pc = "flush", !.snap = NoRows,
                                   !.gone.chunks = sess[s].snap.chunks]
  <2>1. Typed(record)
    BY <1>1, NoDocTyped DEF SessionType, RowsType
  <2>2. sess' = [sess EXCEPT ![s] = record]
    BY <1>6 DEF ChunksDeleted, TypeOK
  <2> QED
    BY <1>3, <1>6, <2>1, <2>2 DEF ChunksDeleted
<1>7. CASE UpdateDocument(s)
  <2> DEFINE record == [sess[s] EXCEPT !.pc = "embedded", !.row = Replaced(s),
                                       !.locked = TRUE]
  <2>1. Typed(record)
    BY <1>1, <1>7, ReplacedTyped DEF SessionType, UpdateDocument, At
  <2>2. sess' = [sess EXCEPT ![s] = record]
    BY <1>7 DEF UpdateDocument, TypeOK
  <2> QED
    BY <1>3, <1>7, <2>1, <2>2 DEF UpdateDocument
<1>8. CASE WriteChunks(s)
  <2>1. PICK status \in {"PENDING_REVIEW", sess[s].row.status},
             pc \in {"revoke", "commit"} :
          sess' = [sess EXCEPT ![s].new.chunks = {sess[s].content},
                               ![s].row.status = status, ![s].pc = pc]
    BY <1>8 DEF WriteChunks
  <2> DEFINE record == [sess[s] EXCEPT !.new.chunks = {sess[s].content},
                                       !.row.status = status, !.pc = pc]
  <2>2. sess[s].content \in Contents
    BY <1>8 DEF WriteChunks, At, TypeOK
  <2>3. Typed(record)
    BY <1>1, <2>1, <2>2 DEF SessionType, RowsType, RowType
  <2>4. sess' = [sess EXCEPT ![s] = record]
    BY <2>1 DEF TypeOK
  <2> QED
    BY <1>3, <1>8, <2>3, <2>4 DEF WriteChunks
<1>9. CASE DeleteAcl(s)
  <2> DEFINE record == [sess[s] EXCEPT !.pc = "acl", !.snap.acl = acl]
  <2>1. Typed(record)
    BY <1>1 DEF SessionType, RowsType, TypeOK
  <2>2. sess' = [sess EXCEPT ![s] = record]
    BY <1>9 DEF DeleteAcl, TypeOK
  <2> QED
    BY <1>3, <1>9, <2>1, <2>2 DEF DeleteAcl
<1>10. CASE AclDeleted(s)
  <2>1. PICK pc \in {"commit", "flush"} :
          sess' = [sess EXCEPT ![s].pc = pc, ![s].snap = NoRows,
                               ![s].gone.acl = sess[s].snap.acl]
    BY <1>10 DEF AclDeleted
  <2> DEFINE record == [sess[s] EXCEPT !.pc = pc, !.snap = NoRows,
                                       !.gone.acl = sess[s].snap.acl]
  <2>2. Typed(record)
    BY <1>1, <2>1, NoDocTyped DEF SessionType, RowsType
  <2>3. sess' = [sess EXCEPT ![s] = record]
    BY <2>1 DEF TypeOK
  <2> QED
    BY <1>3, <1>10, <2>2, <2>3 DEF AclDeleted
<1>11. CASE WriteApproval(s)
  <2> DEFINE record == [sess[s] EXCEPT !.pc = "commit", !.locked = TRUE,
                                       !.new.acl = sess[s].roleKeys]
  <2>1. Typed(record)
    BY <1>1 DEF SessionType, RowsType
  <2>2. sess' = [sess EXCEPT ![s] = record]
    BY <1>11 DEF WriteApproval, TypeOK
  <2> QED
    BY <1>3, <1>11, <2>1, <2>2 DEF WriteApproval
<1>12. CASE WriteRevocation(s)
  <2> DEFINE record == [sess[s] EXCEPT !.pc = "commit",
                                       !.locked = (Dirty(s) # {})]
  <2>1. Typed(record)
    BY <1>1 DEF SessionType
  <2>2. sess' = [sess EXCEPT ![s] = record]
    BY <1>12 DEF WriteRevocation, TypeOK
  <2> QED
    BY <1>3, <1>12, <2>1, <2>2 DEF WriteRevocation
<1>13. CASE DeleteRow(s)
  <2>1. PICK pc \in {"commit", "cascade"}, locked \in BOOLEAN :
          sess' = [sess EXCEPT ![s].pc = pc, ![s].locked = locked]
    BY <1>13 DEF DeleteRow
  <2> DEFINE record == [sess[s] EXCEPT !.pc = pc, !.locked = locked]
  <2>2. Typed(record)
    BY <1>1, <2>1 DEF SessionType
  <2>3. sess' = [sess EXCEPT ![s] = record]
    BY <2>1 DEF TypeOK
  <2> QED
    BY <1>3, <1>13, <2>2, <2>3 DEF DeleteRow
<1>14. CASE Cascade(s)
  <2> DEFINE record == [sess[s] EXCEPT !.pc = "commit",
                            !.gone = [acl |-> acl, chunks |-> chunks]]
  <2>1. Typed(record)
    BY <1>1 DEF SessionType, RowsType, TypeOK
  <2>2. sess' = [sess EXCEPT ![s] = record]
    BY <1>14 DEF Cascade, TypeOK
  <2> QED
    BY <1>3, <1>14, <2>1, <2>2 DEF Cascade
<1> QED
  BY <1>4, <1>5, <1>6, <1>7, <1>8, <1>9, <1>10, <1>11, <1>12, <1>13, <1>14,
     CommitTyped, AbortTyped
  DEF Progress, Fail, DeadlockVictim

LEMMA InitTyped == Init => TypeOK
<1> SUFFICES ASSUME Init PROVE TypeOK
  OBVIOUS
<1>1. \A s \in Sessions : sess[s].op # "upload"
  BY DEF Init, IdleSession
<1>2. lastId \in 0..MaxId
  BY BoundsAssumption DEF Init
<1> QED
  BY <1>1, <1>2, NoDocTyped, IdleSessionTyped DEF Init, TypeOK, RESTRICTED

LEMMA NextTyped == TypeOK /\ [Next]_vars => TypeOK'
<1> SUFFICES ASSUME TypeOK, [Next]_vars PROVE TypeOK'
  OBVIOUS
<1>1. ASSUME NEW s \in Sessions, Request(s) \/ Progress(s) \/ Rollback(s)
      PROVE  TypeOK'
  BY <1>1, RequestTyped, ProgressTyped, AbortTyped DEF Rollback
<1>2. CASE UNCHANGED vars
  BY <1>2 DEF vars, TypeOK
<1> QED
  BY <1>1, <1>2 DEF Next

(***************************************************************************)
(* Every reachable state is well typed.                                    *)
(***************************************************************************)
THEOREM TypeCorrect == Spec => []TypeOK
  BY InitTyped, NextTyped, PTL DEF Spec

-----------------------------------------------------------------------------
(***************************************************************************)
(* Steps of one request that commit nothing.                               *)
(***************************************************************************)

\* A request may change its own session in any way that keeps its shape, and
\* may take the row lock when nobody else has it.
LEMMA OneSessionStep ==
  ASSUME TypeOK, LifecycleInv, NEW s \in Sessions, NEW record,
         sess' = [sess EXCEPT ![s] = record], UNCHANGED <<doc, chunks>>,
         TxShape(record),
         record.locked => sess[s].locked \/ ~RowTaken(s)
  PROVE  LifecycleInv'
<1>1. sess'[s] = record /\ \A t \in Sessions \ {s} : sess'[t] = sess[t]
  BY DEF TypeOK
<1>2. ChunksAreContent'
  BY DEF LifecycleInv, ChunksAreContent
<1>3. OneWriter'
  BY <1>1 DEF LifecycleInv, OneWriter, RowTaken
<1>4. ASSUME NEW t \in Sessions
      PROVE  TxShape(sess[t])'
  <2>1. CASE t = s
    BY <1>1, <2>1 DEF TxShape
  <2>2. CASE t # s
    <3>1. sess'[t] = sess[t] /\ TxShape(sess[t])
      BY <1>1, <2>2 DEF LifecycleInv
    <3> QED
      BY <3>1 DEF TxShape
  <2> QED
    BY <2>1, <2>2
<1> QED
  BY <1>2, <1>3, <1>4 DEF LifecycleInv

LEMMA IdleShape == TxShape(IdleSession) /\ ~IdleSession.locked
  BY DEF TxShape, IdleSession, NoRows

LEMMA AbortShape ==
  ASSUME TypeOK, LifecycleInv, NEW s \in Sessions, Abort(s)
  PROVE  LifecycleInv'
  BY IdleShape, OneSessionStep DEF Abort, tables

\* A request that has only loaded the row has written nothing.
LEMMA LoadShape ==
  ASSUME TypeOK, LifecycleInv, NEW s \in Sessions,
         NEW op \in {"upload", "approve", "revoke", "delete"},
         NEW row, NEW content, NEW roleKeys, Load(s, op, row, content, roleKeys),
         op = "upload" => content # doc.content /\ row = doc,
         op \in {"approve", "revoke"} => /\ doc # NoDoc
                                         /\ row.content = doc.content,
         op = "revoke" => row.status = "PENDING_REVIEW",
         op = "delete" => row = NoDoc
  PROVE  LifecycleInv'
<1> DEFINE record == [IdleSession EXCEPT
                        !.op = op, !.pc = "loaded", !.loaded = doc,
                        !.row = row, !.content = content,
                        !.roleKeys = roleKeys]
<1>1. /\ record.op = op
      /\ record.pc = "loaded"
      /\ record.loaded = doc
      /\ record.row = row
      /\ record.content = content
      /\ record.locked = FALSE
      /\ record.gone.chunks = {}
      /\ record.new.chunks = {}
  BY DEF IdleSession, NoRows
<1>2. sess' = [sess EXCEPT ![s] = record] /\ UNCHANGED <<doc, chunks>>
  BY DEF Load, tables
<1> HIDE DEF record
<1>3. TxShape(record)
  BY <1>1 DEF TxShape
<1> QED
  BY <1>1, <1>2, <1>3, OneSessionStep

LEMMA RequestShape ==
  ASSUME TypeOK, LifecycleInv, NEW s \in Sessions, Request(s)
  PROVE  LifecycleInv'
<1>1. ASSUME NEW c \in Contents, Upload(s, c)
      PROVE  LifecycleInv'
  BY <1>1, LoadShape DEF Upload
<1>2. ASSUME NEW roleKeys \in SUBSET Roles, NEW sensitivity \in Sensitivities,
             ApproveDocument(s, roleKeys, sensitivity)
      PROVE  LifecycleInv'
  <2> DEFINE row == [doc EXCEPT !.status = "APPROVED",
                                !.sensitivity = sensitivity]
  <2>1. row.content = doc.content
    BY DEF TypeOK, RowType
  <2> QED
    BY <1>2, <2>1, LoadShape DEF ApproveDocument
<1>3. CASE RevokeDocument(s)
  <2> DEFINE row == [doc EXCEPT !.status = "PENDING_REVIEW"]
  <2>1. row.content = doc.content /\ row.status = "PENDING_REVIEW"
    BY DEF TypeOK, RowType
  <2> QED
    BY <1>3, <2>1, LoadShape DEF RevokeDocument
<1>4. CASE DeleteDocument(s)
  BY <1>4, LoadShape DEF DeleteDocument
<1> QED
  BY <1>1, <1>2, <1>3, <1>4 DEF Request

LEMMA ProgressShape ==
  ASSUME TypeOK, LifecycleInv, NEW s \in Sessions, Progress(s), ~Commit(s)
  PROVE  LifecycleInv'
<1>1. sess[s] \in SessionType /\ TxShape(sess[s])
  BY DEF TypeOK, LifecycleInv
<1>2. CASE InsertDocument(s)
  <2> DEFINE record == [sess[s] EXCEPT !.pc = "embedded", !.row = Created(s),
                                       !.locked = TRUE]
  <2>1. sess' = [sess EXCEPT ![s] = record]
    BY <1>2 DEF InsertDocument, TypeOK
  <2>2. /\ record.op = "upload"
        /\ record.pc = "embedded"
        /\ record.loaded = sess[s].loaded
        /\ record.row = Created(s)
        /\ record.content = sess[s].content
        /\ record.locked = TRUE
    BY <1>1, <1>2 DEF InsertDocument, At, SessionType
  <2>3. Created(s).content = sess[s].content
        /\ Created(s).status = "PENDING_REVIEW"
    BY DEF Created
  <2>4. sess[s].content # sess[s].loaded.content
    BY <1>1, <1>2 DEF TxShape, InsertDocument, At
  <2> HIDE DEF record
  <2>5. TxShape(record)
    BY <2>2, <2>3, <2>4 DEF TxShape
  <2> QED
    BY <1>2, <2>1, <2>5, OneSessionStep DEF InsertDocument
<1>3. CASE DeleteChunks(s)
  <2> DEFINE record == [sess[s] EXCEPT !.pc = "chunks", !.snap.chunks = chunks]
  <2>1. sess' = [sess EXCEPT ![s] = record]
    BY <1>3 DEF DeleteChunks, TypeOK
  <2>2. /\ record.op = "upload"
        /\ record.pc = "chunks"
        /\ record.loaded = sess[s].loaded
        /\ record.row = sess[s].row
        /\ record.content = sess[s].content
        /\ record.locked = sess[s].locked
    BY <1>1, <1>3 DEF DeleteChunks, At, SessionType
  <2>3. /\ sess[s].op = "upload"
        /\ sess[s].pc = "loaded"
        /\ sess[s].loaded # NoDoc
    BY <1>3 DEF DeleteChunks, At
  <2> HIDE DEF record
  <2>4. TxShape(record)
    BY <1>1, <2>2, <2>3 DEF TxShape
  <2> QED
    BY <1>3, <2>1, <2>2, <2>4, OneSessionStep DEF DeleteChunks, tables
<1>4. CASE ChunksDeleted(s)
  <2> DEFINE record == [sess[s] EXCEPT !.pc = "flush", !.snap = NoRows,
                                   !.gone.chunks = sess[s].snap.chunks]
  <2>1. sess' = [sess EXCEPT ![s] = record]
    BY <1>4 DEF ChunksDeleted, TypeOK
  <2>2. /\ record.op = "upload"
        /\ record.pc = "flush"
        /\ record.loaded = sess[s].loaded
        /\ record.row = sess[s].row
        /\ record.content = sess[s].content
        /\ record.locked = sess[s].locked
    BY <1>1, <1>4 DEF ChunksDeleted, At, SessionType
  <2>3. sess[s].op = "upload" /\ sess[s].pc = "chunks"
    BY <1>4 DEF ChunksDeleted, At
  <2> HIDE DEF record
  <2>4. TxShape(record)
    BY <1>1, <2>2, <2>3 DEF TxShape
  <2> QED
    BY <1>4, <2>1, <2>2, <2>4, OneSessionStep DEF ChunksDeleted, tables
<1>5. CASE UpdateDocument(s)
  <2> DEFINE record == [sess[s] EXCEPT !.pc = "embedded", !.row = Replaced(s),
                                       !.locked = TRUE]
  <2>1. sess' = [sess EXCEPT ![s] = record]
    BY <1>5 DEF UpdateDocument, TypeOK
  <2>2. /\ record.op = "upload"
        /\ record.pc = "embedded"
        /\ record.loaded = sess[s].loaded
        /\ record.row = Replaced(s)
        /\ record.content = sess[s].content
        /\ record.locked = TRUE
    BY <1>1, <1>5 DEF UpdateDocument, At, SessionType
  <2>3. Replaced(s).content = sess[s].content
        /\ Replaced(s).status = sess[s].loaded.status
    BY <1>1 DEF Replaced, SessionType, RowType
  <2>4. sess[s].content # sess[s].loaded.content
    BY <1>1, <1>5 DEF TxShape, UpdateDocument, At
  <2>5. sess[s].loaded # NoDoc
    BY <1>1, <1>5 DEF TxShape, UpdateDocument, At
  <2> HIDE DEF record
  <2>6. TxShape(record)
    BY <2>2, <2>3, <2>4, <2>5 DEF TxShape
  <2> QED
    BY <1>5, <2>1, <2>6, OneSessionStep DEF UpdateDocument, tables
<1>6. CASE WriteChunks(s)
  <2> DEFINE status == IF /\ sess[s].loaded.status = "APPROVED"
                          /\ ~RequiresReapproval(s)
                       THEN sess[s].row.status ELSE "PENDING_REVIEW"
             pc == IF RequiresReapproval(s) THEN "revoke" ELSE "commit"
             record == [sess[s] EXCEPT !.new.chunks = {sess[s].content},
                                       !.row.status = status, !.pc = pc]
  <2>1. sess' = [sess EXCEPT ![s] = record]
    BY <1>6 DEF WriteChunks, TypeOK
  <2>2. sess[s].op = "upload" /\ sess[s].pc = "embedded"
    BY <1>6 DEF WriteChunks, At
  <2>3. pc \in {"revoke", "commit"}
    OBVIOUS
  <2>4. status \in {sess[s].row.status, "PENDING_REVIEW"}
    OBVIOUS
  <2> HIDE DEF status, pc
  <2>5. /\ record.op = "upload"
        /\ record.pc = pc
        /\ record.loaded = sess[s].loaded
        /\ record.row.status = status
        /\ record.row.content = sess[s].row.content
        /\ record.content = sess[s].content
        /\ record.locked = sess[s].locked
        /\ record.gone = sess[s].gone
        /\ record.new.chunks = {sess[s].content}
    BY <1>1, <2>2 DEF SessionType, RowType, RowsType
  <2>6. chunks \subseteq sess[s].gone.chunks
    BY <1>6 DEF WriteChunks, ChunkConflict
  <2> HIDE DEF record
  <2>7. TxShape(record)
    BY <1>1, <2>2, <2>3, <2>4, <2>5, <2>6 DEF TxShape
  <2> QED
    BY <1>6, <2>1, <2>5, <2>7, OneSessionStep DEF WriteChunks, tables
<1>7. CASE DeleteAcl(s)
  <2> DEFINE record == [sess[s] EXCEPT !.pc = "acl", !.snap.acl = acl]
  <2>1. sess' = [sess EXCEPT ![s] = record]
    BY <1>7 DEF DeleteAcl, TypeOK
  <2>2. /\ record.pc = "acl"
        /\ record.op = sess[s].op
        /\ record.loaded = sess[s].loaded
        /\ record.row = sess[s].row
        /\ record.content = sess[s].content
        /\ record.locked = sess[s].locked
        /\ record.gone = sess[s].gone
        /\ record.new = sess[s].new
    BY <1>1 DEF SessionType
  <2>3. \/ sess[s].pc = "loaded" /\ sess[s].op \in {"approve", "revoke", "delete"}
        \/ sess[s].pc = "revoke" /\ sess[s].op = "upload"
    BY <1>7 DEF DeleteAcl, At
  <2> HIDE DEF record
  <2>4. TxShape(record)
    BY <1>1, <2>2, <2>3 DEF TxShape
  <2> QED
    BY <1>7, <2>1, <2>2, <2>4, OneSessionStep DEF DeleteAcl, tables
<1>8. CASE AclDeleted(s)
  <2> DEFINE pc == IF sess[s].op = "upload" THEN "commit" ELSE "flush"
             record == [sess[s] EXCEPT !.pc = pc, !.snap = NoRows,
                                       !.gone.acl = sess[s].snap.acl]
  <2>1. sess' = [sess EXCEPT ![s] = record]
    BY <1>8 DEF AclDeleted, TypeOK
  <2>2. /\ record.pc = pc
        /\ record.op = sess[s].op
        /\ record.loaded = sess[s].loaded
        /\ record.row = sess[s].row
        /\ record.content = sess[s].content
        /\ record.locked = sess[s].locked
        /\ record.gone.chunks = sess[s].gone.chunks
        /\ record.new = sess[s].new
    BY <1>1 DEF SessionType, RowsType
  <2>3. sess[s].pc = "acl"
    BY <1>8 DEF AclDeleted
  <2> HIDE DEF record
  <2>4. TxShape(record)
    BY <1>1, <2>2, <2>3 DEF TxShape
  <2> QED
    BY <1>8, <2>1, <2>2, <2>4, OneSessionStep DEF AclDeleted, tables
<1>9. CASE WriteApproval(s)
  <2> DEFINE record == [sess[s] EXCEPT !.pc = "commit", !.locked = TRUE,
                                       !.new.acl = sess[s].roleKeys]
  <2>1. sess' = [sess EXCEPT ![s] = record]
    BY <1>9 DEF WriteApproval, TypeOK
  <2>2. /\ record.pc = "commit"
        /\ record.op = "approve"
        /\ record.loaded = sess[s].loaded
        /\ record.row = sess[s].row
        /\ record.gone = sess[s].gone
        /\ record.new.chunks = sess[s].new.chunks
    BY <1>1, <1>9 DEF WriteApproval, At, SessionType, RowsType
  <2>3. sess[s].op = "approve"
    BY <1>9 DEF WriteApproval, At
  <2> HIDE DEF record
  <2>4. TxShape(record)
    BY <1>1, <2>2, <2>3 DEF TxShape
  <2> QED
    BY <1>9, <2>1, <2>4, OneSessionStep DEF WriteApproval, tables
<1>10. CASE WriteRevocation(s)
  <2> DEFINE record == [sess[s] EXCEPT !.pc = "commit",
                                       !.locked = (Dirty(s) # {})]
  <2>1. sess' = [sess EXCEPT ![s] = record]
    BY <1>10 DEF WriteRevocation, TypeOK
  <2>2. /\ record.pc = "commit"
        /\ record.op = "revoke"
        /\ record.loaded = sess[s].loaded
        /\ record.row = sess[s].row
        /\ record.gone = sess[s].gone
        /\ record.new = sess[s].new
        /\ record.locked = (Dirty(s) # {})
    BY <1>1, <1>10 DEF WriteRevocation, At, SessionType
  <2>3. sess[s].op = "revoke"
    BY <1>10 DEF WriteRevocation, At
  <2> HIDE DEF record
  <2>4. TxShape(record)
    BY <1>1, <2>2, <2>3 DEF TxShape
  <2>5. record.locked => ~RowTaken(s)
    BY <1>10, <2>2 DEF WriteRevocation
  <2> QED
    BY <1>10, <2>1, <2>4, <2>5, OneSessionStep DEF WriteRevocation, tables
<1>11. CASE DeleteRow(s)
  <2> DEFINE found == doc.id = sess[s].loaded.id
             pc == IF found THEN "cascade" ELSE "commit"
             record == [sess[s] EXCEPT !.pc = pc, !.locked = found]
  <2>1. sess' = [sess EXCEPT ![s] = record]
    BY <1>11 DEF DeleteRow, TypeOK
  <2>2. /\ record.pc = pc
        /\ record.op = "delete"
        /\ record.row = sess[s].row
        /\ record.gone = sess[s].gone
        /\ record.new = sess[s].new
        /\ record.locked = found
    BY <1>1, <1>11 DEF DeleteRow, At, SessionType
  <2>3. sess[s].op = "delete" /\ sess[s].pc = "flush"
    BY <1>11 DEF DeleteRow, At
  <2> HIDE DEF record
  <2>4. TxShape(record)
    BY <1>1, <2>2, <2>3 DEF TxShape
  <2> QED
    BY <1>11, <2>1, <2>4, OneSessionStep DEF DeleteRow, tables
<1>12. CASE Cascade(s)
  <2> DEFINE record == [sess[s] EXCEPT !.pc = "commit",
                            !.gone = [acl |-> acl, chunks |-> chunks]]
  <2>1. sess' = [sess EXCEPT ![s] = record]
    BY <1>12 DEF Cascade, TypeOK
  <2>2. /\ record.pc = "commit"
        /\ record.op = "delete"
        /\ record.row = sess[s].row
        /\ record.gone.chunks = chunks
        /\ record.new = sess[s].new
        /\ record.locked = sess[s].locked
    BY <1>1, <1>12 DEF Cascade, At, SessionType
  <2>3. sess[s].op = "delete" /\ sess[s].pc = "cascade"
    BY <1>12 DEF Cascade, At
  <2> HIDE DEF record
  <2>4. TxShape(record)
    BY <1>1, <2>2, <2>3 DEF TxShape
  <2> QED
    BY <1>12, <2>1, <2>2, <2>4, OneSessionStep DEF Cascade, tables
<1> QED
  BY <1>2, <1>3, <1>4, <1>5, <1>6, <1>7, <1>8, <1>9, <1>10, <1>11, <1>12,
     AbortShape
  DEF Progress, Fail, DeadlockVictim

-----------------------------------------------------------------------------
(***************************************************************************)
(* Commits.                                                                *)
(***************************************************************************)

\* A transaction without the row lock changes neither the row nor the chunks;
\* one with it leaves a row and chunks that agree.
LEMMA CommitWrites ==
  ASSUME TypeOK, LifecycleInv, NEW s \in Sessions, Commit(s)
  PROVE  /\ ChunksAreContent'
         /\ ~sess[s].locked => doc' = doc /\ chunks' = chunks
<1>1. sess[s] \in SessionType /\ TxShape(sess[s]) /\ doc \in RowType
  BY DEF TypeOK, LifecycleInv
<1>2. /\ sess[s].pc = "commit"
      /\ doc' = Written(s)
      /\ chunks' = (chunks \ sess[s].gone.chunks) \cup sess[s].new.chunks
  BY DEF Commit
<1>3. sess[s].op \in {"upload", "approve", "revoke", "delete"}
  BY <1>1, <1>2 DEF TxShape, SessionType
<1>4. ~sess[s].locked => doc' = doc /\ chunks' = chunks
  BY <1>1, <1>2, <1>3 DEF TxShape, Written
<1>5. ChunksAreContent
  BY DEF LifecycleInv
<1>6. CASE ~sess[s].locked
  BY <1>4, <1>5, <1>6 DEF ChunksAreContent
<1>7. CASE sess[s].locked /\ sess[s].op = "upload"
  <2>1. chunks' = {sess[s].content}
    BY <1>1, <1>2, <1>7 DEF TxShape
  <2>2. doc'.content = sess[s].content
    <3>1. sess[s].row.content = sess[s].content
          /\ sess[s].row.content # sess[s].loaded.content
      BY <1>1, <1>7 DEF TxShape
    <3>2. "content" \in Dirty(s)
      BY <3>1 DEF Dirty, NoDoc
    <3> QED
      BY <1>1, <1>2, <1>7, <3>1, <3>2 DEF Written, RowType
  <2>3. sess[s].content # NoContent
    BY <1>7, ContentAssumption DEF TypeOK, NoContent
  <2> QED
    BY <1>4, <2>1, <2>2, <2>3 DEF ChunksAreContent
<1>8. CASE sess[s].locked /\ sess[s].op \in {"approve", "revoke"}
  <2>1. chunks' = chunks
    BY <1>1, <1>2, <1>8 DEF TxShape
  <2>2. "content" \notin Dirty(s) /\ sess[s].loaded # NoDoc
    BY <1>1, <1>8 DEF TxShape, Dirty
  <2>3. doc'.content = doc.content
    BY <1>1, <1>2, <1>8, <2>2 DEF Written, RowType
  <2> QED
    BY <1>4, <1>5, <2>1, <2>3 DEF ChunksAreContent
<1>9. CASE sess[s].locked /\ sess[s].op = "delete"
  <2>1. chunks' = {}
    BY <1>1, <1>2, <1>9 DEF TxShape
  <2>2. doc'.content = NoContent
    BY <1>1, <1>2, <1>9 DEF TxShape, Written, NoDoc
  <2> QED
    BY <1>4, <2>1, <2>2 DEF ChunksAreContent
<1> QED
  BY <1>3, <1>4, <1>6, <1>7, <1>8, <1>9

LEMMA CommitShape ==
  ASSUME TypeOK, LifecycleInv, NEW s \in Sessions, Commit(s)
  PROVE  LifecycleInv'
<1>1. sess'[s] = IdleSession
  BY DEF Commit
<1>2. ASSUME NEW t \in Sessions \ {s}
      PROVE  /\ sess'[t].op = sess[t].op
             /\ sess'[t].pc = sess[t].pc
             /\ sess'[t].loaded = sess[t].loaded
             /\ sess'[t].row = sess[t].row
             /\ sess'[t].content = sess[t].content
             /\ sess'[t].locked = sess[t].locked
             /\ sess'[t].gone = sess[t].gone
             /\ sess'[t].new = sess[t].new
  <2>1. sess[t] \in SessionType
    BY DEF TypeOK
  <2>2. sess'[t] = [sess[t] EXCEPT !.snap.acl = @ \ sess[s].gone.acl,
                                   !.snap.chunks = @ \ sess[s].gone.chunks]
    BY DEF Commit
  <2> QED
    BY <2>1, <2>2 DEF SessionType
<1>3. OneWriter'
  BY <1>1, <1>2, IdleShape DEF LifecycleInv, OneWriter
<1>4. ASSUME NEW t \in Sessions
      PROVE  TxShape(sess[t])'
  <2>1. CASE t = s
    BY <1>1, <2>1 DEF TxShape, IdleSession, NoRows
  <2>2. CASE t # s
    <3>1. sess[t].locked => chunks' = chunks
      BY <2>2, CommitWrites DEF LifecycleInv, OneWriter
    <3>2. TxShape(sess[t])
      BY DEF LifecycleInv
    <3> QED
      BY <1>2, <2>2, <3>1, <3>2 DEF TxShape
  <2> QED
    BY <2>1, <2>2
<1> QED
  BY <1>3, <1>4, CommitWrites DEF LifecycleInv

\* What a transaction other than an approval writes never opens a document.
LEMMA CommitOpens ==
  ASSUME TypeOK, LifecycleInv, NEW s \in Sessions, Commit(s),
         doc.status # "APPROVED", doc'.status = "APPROVED"
  PROVE  last' = "approve"
<1>1. sess[s] \in SessionType /\ TxShape(sess[s]) /\ doc \in RowType
  BY DEF TypeOK, LifecycleInv
<1>2. doc' = Written(s) /\ last' = sess[s].op /\ sess[s].pc = "commit"
  BY DEF Commit
<1>3. sess[s].locked
  BY CommitWrites
<1>4. sess[s].op \in {"upload", "approve", "revoke", "delete"}
  BY <1>1, <1>2 DEF TxShape, SessionType
<1>5. CASE sess[s].op = "upload"
  <2>1. CASE sess[s].loaded = NoDoc
    BY <1>1, <1>2, <1>3, <1>5, <2>1 DEF TxShape, Written
  <2>2. CASE sess[s].loaded # NoDoc
    <3>1. doc'.status = IF "status" \in Dirty(s) THEN sess[s].row.status
                                                 ELSE doc.status
      BY <1>1, <1>2, <1>3, <1>5, <2>2 DEF Written, RowType
    <3>2. "status" \in Dirty(s) => sess[s].row.status = "PENDING_REVIEW"
      BY <1>1, <1>5 DEF TxShape, Dirty
    <3> QED
      BY <3>1, <3>2
  <2> QED
    BY <2>1, <2>2
<1>6. CASE sess[s].op = "revoke"
  <2>1. doc'.status \in {sess[s].row.status, doc.status}
    BY <1>1, <1>2, <1>3, <1>6 DEF TxShape, Written, RowType
  <2> QED
    BY <1>1, <1>6, <2>1 DEF TxShape
<1>7. CASE sess[s].op = "delete"
  BY <1>1, <1>2, <1>3, <1>7 DEF TxShape, Written, NoDoc
<1> QED
  BY <1>2, <1>4, <1>5, <1>6, <1>7

-----------------------------------------------------------------------------
(***************************************************************************)
(* The invariant, and the theorems.                                        *)
(***************************************************************************)

LEMMA InitShape == Init => LifecycleInv
<1> SUFFICES ASSUME Init PROVE LifecycleInv
  OBVIOUS
<1>1. ChunksAreContent
  BY DEF Init, ChunksAreContent, NoDoc
<1> QED
  BY <1>1, IdleShape DEF Init, LifecycleInv, OneWriter

LEMMA NextShape == TypeOK /\ LifecycleInv /\ [Next]_vars => LifecycleInv'
<1> SUFFICES ASSUME TypeOK, LifecycleInv, [Next]_vars PROVE LifecycleInv'
  OBVIOUS
<1>1. ASSUME NEW s \in Sessions, Request(s) \/ Progress(s) \/ Rollback(s)
      PROVE  LifecycleInv'
  BY <1>1, RequestShape, ProgressShape, CommitShape, AbortShape DEF Rollback
<1>2. CASE UNCHANGED vars
  BY <1>2 DEF vars, LifecycleInv, ChunksAreContent, OneWriter, TxShape
<1> QED
  BY <1>1, <1>2 DEF Next

LEMMA Invariant == Spec => [](TypeOK /\ LifecycleInv)
  BY InitTyped, NextTyped, InitShape, NextShape, PTL DEF Spec

(***************************************************************************)
(* However many uploads, approvals, revocations and deletions of one       *)
(* document overlap, and wherever they fail, its chunks are those of the   *)
(* file its hash names, of that file alone, and there are none without it. *)
(***************************************************************************)
THEOREM ChunksCorrect == Spec => []ChunksAreContent
<1>1. LifecycleInv => ChunksAreContent
  BY DEF LifecycleInv
<1> QED
  BY <1>1, Invariant, PTL

(***************************************************************************)
(* The invariant the two rest on: one request at a time writes, and what   *)
(* it has written so far agrees with the copy it works on.                 *)
(***************************************************************************)
THEOREM LifecycleCorrect == Spec => []LifecycleInv
  BY Invariant, PTL

(***************************************************************************)
(* No transaction but an approval ever opens a closed document, however    *)
(* stale the copy of the row it works on.                                  *)
(***************************************************************************)
THEOREM OnlyApprovalOpensCorrect == Spec => OnlyApprovalOpens
<1> DEFINE Opens == doc.status # "APPROVED" /\ doc'.status = "APPROVED"
                      => last' = "approve"
<1>1. TypeOK /\ LifecycleInv /\ [Next]_vars => [Opens]_vars
  <2> SUFFICES ASSUME TypeOK, LifecycleInv, Next PROVE Opens
    OBVIOUS
  <2>1. ASSUME NEW s \in Sessions, Commit(s)
        PROVE  Opens
    BY <2>1, CommitOpens
  <2>2. ASSUME NEW s \in Sessions,
               Request(s) \/ Progress(s) \/ Rollback(s), ~Commit(s)
        PROVE  doc' = doc
    BY <2>2
    DEF Request, Upload, ApproveDocument, RevokeDocument, DeleteDocument, Load,
        Progress, InsertDocument, DeleteChunks, ChunksDeleted, UpdateDocument,
        WriteChunks, DeleteAcl, AclDeleted, WriteApproval, WriteRevocation,
        DeleteRow, Cascade, Fail, DeadlockVictim, Rollback, Abort, tables
  <2> QED
    BY <2>1, <2>2 DEF Next
<1> QED
  BY <1>1, Invariant, PTL DEF Spec, OnlyApprovalOpens

-----------------------------------------------------------------------------
(***************************************************************************)
(* Requests that do not overlap.                                           *)
(***************************************************************************)
Stricter(S) == doc.status = "APPROVED" /\ Proposal[S.content] > doc.sensitivity

\* What an upload makes of the row before it decides on access, and after.
UploadShape(S) ==
  /\ S.new.acl = {}
  /\ S.pc \in {"loaded", "chunks", "flush", "embedded", "revoke", "acl"} => S.gone.acl = {}
  /\ S.pc \in {"embedded", "revoke", "acl", "commit"} =>
       /\ S.row.content = S.content
       /\ S.row.sensitivity = doc.sensitivity
       /\ S.row.suggested = IF Proposal[S.content] = 0 THEN doc.suggested
                            ELSE Proposal[S.content]
  /\ S.pc = "embedded" =>
       S.row.status = IF doc = NoDoc THEN "PENDING_REVIEW" ELSE doc.status
  /\ S.pc \in {"revoke", "acl", "commit"} =>
       S.row.status = IF doc.status = "APPROVED" /\ ~Stricter(S)
                      THEN "APPROVED" ELSE "PENDING_REVIEW"
  /\ S.pc \in {"revoke", "acl"} => Stricter(S)
  /\ S.pc = "acl" => S.snap.acl = acl
  /\ S.pc = "commit" => S.gone.acl = IF Stricter(S) THEN acl ELSE {}

\* What the other requests make of row and ACL.
DecisionShape(S) ==
  /\ doc # NoDoc
  /\ S.pc = "acl" => S.snap.acl = acl
  /\ S.pc \in {"flush", "commit"} => S.gone.acl = acl
  /\ S.op = "approve" =>
       /\ \E level \in Sensitivities :
            /\ MayApprove(S.roleKeys, level)
            /\ S.row = [doc EXCEPT !.status = "APPROVED", !.sensitivity = level]
       /\ S.pc = "commit" => S.new.acl = S.roleKeys
  /\ S.op = "revoke" =>
       /\ S.row = [doc EXCEPT !.status = "PENDING_REVIEW"]
       /\ S.pc = "commit" /\ ~S.locked => S.row = doc
  /\ S.op \in {"revoke", "delete"} => S.new.acl = {}
  /\ S.op \in {"approve", "delete"} /\ S.pc = "commit" => S.locked

\* A request that is alone works on the row as it is.
SerialShape(S) ==
  S.pc # "idle" =>
    /\ S.op \in {"upload", "approve", "revoke", "delete"}
    /\ S.loaded = doc
    /\ S.op = "upload" => UploadShape(S)
    /\ S.op # "upload" => DecisionShape(S)

\* A document has a file; readers hold it up to their clearance, and only its
\* last approval keeps a stricter file live.
SerialInv ==
  /\ doc # NoDoc => doc.content \in Contents
  /\ \A s \in Sessions : SerialShape(sess[s])
  /\ StricterContentReviewed
  /\ RolesClearDocument

-----------------------------------------------------------------------------
(***************************************************************************)
(* Steps that commit nothing.                                              *)
(***************************************************************************)

\* The one request there is changes, in a way that keeps its shape.
LEMMA AloneStep ==
  ASSUME OneAtATime, TypeOK, SerialInv, NEW s \in Sessions, NEW record,
         sess' = [sess EXCEPT ![s] = record], UNCHANGED <<doc, acl, reviewed>>,
         SerialShape(record)
  PROVE  SerialInv'
<1>1. ASSUME NEW t \in Sessions
      PROVE  SerialShape(sess[t])'
  <2>1. t = s
    BY DEF OneAtATime
  <2>2. sess'[t] = record
    BY <2>1 DEF TypeOK
  <2> QED
    BY <2>2, ZenonT(30) DEF SerialShape, UploadShape, DecisionShape, Stricter
<1>2. StricterContentReviewed' /\ RolesClearDocument'
  BY DEF SerialInv, StricterContentReviewed, RolesClearDocument
<1> QED
  BY <1>1, <1>2 DEF SerialInv

LEMMA AloneAbort ==
  ASSUME OneAtATime, TypeOK, SerialInv, NEW s \in Sessions, Abort(s)
  PROVE  SerialInv'
<1>1. SerialShape(IdleSession)
  BY DEF SerialShape, IdleSession
<1> QED
  BY <1>1, AloneStep DEF Abort, tables

\* A request that loads the row works on it.
LEMMA AloneLoad ==
  ASSUME OneAtATime, TypeOK, SerialInv, NEW s \in Sessions,
         NEW op \in {"upload", "approve", "revoke", "delete"},
         NEW row, NEW content, NEW roleKeys, Load(s, op, row, content, roleKeys),
         op # "upload" => doc # NoDoc,
         op = "approve" =>
           \E level \in Sensitivities :
             /\ MayApprove(roleKeys, level)
             /\ row = [doc EXCEPT !.status = "APPROVED", !.sensitivity = level],
         op = "revoke" => row = [doc EXCEPT !.status = "PENDING_REVIEW"]
  PROVE  SerialInv'
<1> DEFINE record == [IdleSession EXCEPT
                        !.op = op, !.pc = "loaded", !.loaded = doc,
                        !.row = row, !.content = content,
                        !.roleKeys = roleKeys]
<1>1. /\ record.op = op
      /\ record.pc = "loaded"
      /\ record.loaded = doc
      /\ record.row = row
      /\ record.roleKeys = roleKeys
      /\ record.gone.acl = {}
      /\ record.new.acl = {}
  BY DEF IdleSession, NoRows
<1>2. sess' = [sess EXCEPT ![s] = record] /\ UNCHANGED <<doc, acl, reviewed>>
  BY DEF Load, tables
<1> HIDE DEF record
<1>3. UploadShape(record)
  BY <1>1 DEF UploadShape
<1>4. op # "upload" => DecisionShape(record)
  BY <1>1 DEF DecisionShape
<1>5. SerialShape(record)
  BY <1>1, <1>3, <1>4 DEF SerialShape
<1> QED
  BY <1>2, <1>5, AloneStep

LEMMA AloneRequest ==
  ASSUME OneAtATime, TypeOK, SerialInv, NEW s \in Sessions, Request(s)
  PROVE  SerialInv'
<1>1. ASSUME NEW c \in Contents, Upload(s, c)
      PROVE  SerialInv'
  BY <1>1, AloneLoad DEF Upload
<1>2. ASSUME NEW roleKeys \in SUBSET Roles, NEW sensitivity \in Sensitivities,
             ApproveDocument(s, roleKeys, sensitivity)
      PROVE  SerialInv'
  BY <1>2, AloneLoad DEF ApproveDocument
<1>3. CASE RevokeDocument(s)
  BY <1>3, AloneLoad DEF RevokeDocument
<1>4. CASE DeleteDocument(s)
  BY <1>4, AloneLoad DEF DeleteDocument
<1> QED
  BY <1>1, <1>2, <1>3, <1>4 DEF Request

\* The steps of an upload before it commits.
LEMMA AloneUploads ==
  ASSUME OneAtATime, TypeOK, LifecycleInv, SerialInv, NEW s \in Sessions,
         \/ InsertDocument(s) \/ DeleteChunks(s) \/ ChunksDeleted(s)
         \/ UpdateDocument(s) \/ WriteChunks(s)
  PROVE  SerialInv'
<1>1. sess[s] \in SessionType /\ SerialShape(sess[s]) /\ sess[s].op = "upload"
  BY DEF TypeOK, SerialInv, InsertDocument, DeleteChunks, ChunksDeleted, UpdateDocument,
         WriteChunks, At
<1>2. /\ sess[s].pc # "idle"
      /\ UNCHANGED <<doc, acl, reviewed>>
  BY DEF InsertDocument, DeleteChunks, ChunksDeleted, UpdateDocument, WriteChunks, At, tables
<1>3. sess[s].loaded = doc /\ UploadShape(sess[s])
  BY <1>1, <1>2 DEF SerialShape
<1>4. sess[s].content \in Contents
  BY <1>1 DEF TypeOK
<1>5. ASSUME NEW record, sess' = [sess EXCEPT ![s] = record],
             record.op = "upload", record.loaded = doc, UploadShape(record)
      PROVE  SerialInv'
  <2>1. SerialShape(record)
    BY <1>5 DEF SerialShape
  <2> QED
    BY <1>2, <1>5, <2>1, AloneStep
<1>6. CASE InsertDocument(s)
  <2> DEFINE record == [sess[s] EXCEPT !.pc = "embedded", !.row = Created(s),
                                       !.locked = TRUE]
  <2>1. sess' = [sess EXCEPT ![s] = record]
    BY <1>6 DEF InsertDocument, TypeOK
  <2>2. /\ record.op = "upload"
        /\ record.pc = "embedded"
        /\ record.loaded = doc
        /\ record.row = Created(s)
        /\ record.content = sess[s].content
        /\ record.gone.acl = {}
        /\ record.new.acl = {}
    BY <1>1, <1>3, <1>6 DEF InsertDocument, At, SessionType, UploadShape
  <2>3. /\ Created(s).content = sess[s].content
        /\ Created(s).status = "PENDING_REVIEW"
        /\ Created(s).sensitivity = RESTRICTED
        /\ Created(s).suggested = Proposal[sess[s].content]
    BY DEF Created
  <2>4. doc = NoDoc /\ NoDoc.sensitivity = RESTRICTED /\ NoDoc.suggested = 0
    BY <1>6 DEF InsertDocument, NoDoc
  <2> HIDE DEF record
  <2>5. UploadShape(record)
    BY <2>2, <2>3, <2>4 DEF UploadShape
  <2> QED
    BY <1>5, <2>1, <2>2, <2>5
<1>7. CASE DeleteChunks(s)
  <2> DEFINE record == [sess[s] EXCEPT !.pc = "chunks", !.snap.chunks = chunks]
  <2>1. sess' = [sess EXCEPT ![s] = record]
    BY <1>7 DEF DeleteChunks, TypeOK
  <2>2. /\ record.op = "upload"
        /\ record.pc = "chunks"
        /\ record.loaded = doc
        /\ record.gone.acl = {}
        /\ record.new.acl = {}
    BY <1>1, <1>3, <1>7 DEF DeleteChunks, At, SessionType, UploadShape
  <2> HIDE DEF record
  <2>3. UploadShape(record)
    BY <2>2 DEF UploadShape
  <2> QED
    BY <1>5, <2>1, <2>2, <2>3
<1>8. CASE ChunksDeleted(s)
  <2> DEFINE record == [sess[s] EXCEPT !.pc = "flush", !.snap = NoRows,
                                   !.gone.chunks = sess[s].snap.chunks]
  <2>1. sess' = [sess EXCEPT ![s] = record]
    BY <1>8 DEF ChunksDeleted, TypeOK
  <2>2. /\ record.op = "upload"
        /\ record.pc = "flush"
        /\ record.loaded = doc
        /\ record.gone.acl = {}
        /\ record.new.acl = {}
    BY <1>1, <1>3, <1>8 DEF ChunksDeleted, At, SessionType, RowsType, UploadShape
  <2> HIDE DEF record
  <2>3. UploadShape(record)
    BY <2>2 DEF UploadShape
  <2> QED
    BY <1>5, <2>1, <2>2, <2>3
<1>9. CASE UpdateDocument(s)
  <2> DEFINE record == [sess[s] EXCEPT !.pc = "embedded", !.row = Replaced(s),
                                       !.locked = TRUE]
  <2>1. sess' = [sess EXCEPT ![s] = record]
    BY <1>9 DEF UpdateDocument, TypeOK
  <2>2. /\ record.op = "upload"
        /\ record.pc = "embedded"
        /\ record.loaded = doc
        /\ record.row = Replaced(s)
        /\ record.content = sess[s].content
        /\ record.gone.acl = {}
        /\ record.new.acl = {}
    BY <1>1, <1>3, <1>9 DEF UpdateDocument, At, SessionType, UploadShape
  <2>3. /\ Replaced(s).content = sess[s].content
        /\ Replaced(s).status = doc.status
        /\ Replaced(s).sensitivity = doc.sensitivity
        /\ Replaced(s).suggested = IF Proposal[sess[s].content] = 0 THEN doc.suggested
                                   ELSE Proposal[sess[s].content]
    BY <1>1, <1>3 DEF Replaced, SessionType, RowType
  <2>4. doc # NoDoc
    BY <1>1, <1>3, <1>9 DEF UpdateDocument, At, LifecycleInv, TxShape
  <2> HIDE DEF record
  <2>5. UploadShape(record)
    BY <2>2, <2>3, <2>4 DEF UploadShape
  <2> QED
    BY <1>5, <2>1, <2>2, <2>5
<1>10. CASE WriteChunks(s)
  <2> DEFINE status == IF /\ sess[s].loaded.status = "APPROVED"
                          /\ ~RequiresReapproval(s)
                       THEN sess[s].row.status ELSE "PENDING_REVIEW"
             pc == IF RequiresReapproval(s) THEN "revoke" ELSE "commit"
             record == [sess[s] EXCEPT !.new.chunks = {sess[s].content},
                                       !.row.status = status, !.pc = pc]
  <2>1. sess' = [sess EXCEPT ![s] = record]
    BY <1>10 DEF WriteChunks, TypeOK
  <2>2. sess[s].pc = "embedded"
    BY <1>10 DEF WriteChunks, At
  <2>3. RequiresReapproval(s) <=> Stricter(sess[s])
    BY <1>3 DEF RequiresReapproval, Stricter
  <2>4. status = IF doc.status = "APPROVED" /\ ~Stricter(sess[s])
                 THEN "APPROVED" ELSE "PENDING_REVIEW"
    <3>1. NoDoc.status # "APPROVED"
      BY DEF NoDoc
    <3> QED
      BY <1>3, <2>2, <2>3, <3>1 DEF UploadShape
  <2>5. pc = IF Stricter(sess[s]) THEN "revoke" ELSE "commit"
    BY <2>3
  <2> HIDE DEF status, pc
  <2>6. /\ record.op = "upload"
        /\ record.pc = pc
        /\ record.loaded = doc
        /\ record.row.content = sess[s].row.content
        /\ record.row.sensitivity = sess[s].row.sensitivity
        /\ record.row.suggested = sess[s].row.suggested
        /\ record.row.status = status
        /\ record.content = sess[s].content
        /\ record.gone = sess[s].gone
        /\ record.new.acl = sess[s].new.acl
    BY <1>1, <1>3 DEF SessionType, RowType, RowsType
  <2>7. Stricter(record) <=> Stricter(sess[s])
    BY <2>6 DEF Stricter
  <2> HIDE DEF record
  <2>8. UploadShape(record)
    BY <1>3, <2>2, <2>4, <2>5, <2>6, <2>7 DEF UploadShape
  <2> QED
    BY <1>5, <2>1, <2>6, <2>8
<1> QED
  BY <1>6, <1>7, <1>8, <1>9, <1>10

\* A copy without a changed column is the row.
LEMMA CleanCopy ==
  ASSUME TypeOK, NEW s \in Sessions, sess[s].loaded = doc, Dirty(s) = {}
  PROVE  sess[s].row = doc
<1>1. sess[s].row \in RowType /\ doc \in RowType
  BY DEF TypeOK, SessionType
<1>2. ASSUME NEW c \in DOMAIN NoDoc PROVE sess[s].row[c] = doc[c]
  BY <1>2 DEF Dirty
<1> QED
  BY <1>1, <1>2 DEF RowType, NoDoc

\* The steps of the other requests before they commit, and of an upload that
\* withdraws the document.
LEMMA AloneDecides ==
  ASSUME OneAtATime, TypeOK, LifecycleInv, SerialInv, NEW s \in Sessions,
         \/ DeleteAcl(s) \/ AclDeleted(s) \/ WriteApproval(s)
         \/ WriteRevocation(s) \/ DeleteRow(s) \/ Cascade(s)
  PROVE  SerialInv'
<1>1. /\ sess[s] \in SessionType /\ SerialShape(sess[s]) /\ TxShape(sess[s])
      /\ acl \in SUBSET Roles
  BY DEF TypeOK, SerialInv, LifecycleInv
<1>2. /\ sess[s].pc # "idle"
      /\ UNCHANGED <<doc, acl, reviewed>>
  BY DEF DeleteAcl, AclDeleted, WriteApproval, WriteRevocation, DeleteRow, Cascade, At, tables
<1>3. /\ sess[s].op \in {"upload", "approve", "revoke", "delete"}
      /\ sess[s].loaded = doc
      /\ sess[s].op = "upload" => UploadShape(sess[s])
      /\ sess[s].op # "upload" => DecisionShape(sess[s])
  BY <1>1, <1>2 DEF SerialShape
<1>4. ASSUME NEW record, sess' = [sess EXCEPT ![s] = record],
             record.op = sess[s].op, record.loaded = doc,
             sess[s].op = "upload" => UploadShape(record),
             sess[s].op # "upload" => DecisionShape(record)
      PROVE  SerialInv'
  <2>1. SerialShape(record)
    BY <1>3, <1>4 DEF SerialShape
  <2> QED
    BY <1>2, <1>4, <2>1, AloneStep
<1>5. CASE DeleteAcl(s)
  <2> DEFINE record == [sess[s] EXCEPT !.pc = "acl", !.snap.acl = acl]
  <2>1. sess' = [sess EXCEPT ![s] = record]
    BY <1>5 DEF DeleteAcl, TypeOK
  <2>2. /\ record.pc = "acl"
        /\ record.op = sess[s].op
        /\ record.loaded = doc
        /\ record.row = sess[s].row
        /\ record.content = sess[s].content
        /\ record.roleKeys = sess[s].roleKeys
        /\ record.gone = sess[s].gone
        /\ record.new = sess[s].new
        /\ record.snap.acl = acl
    BY <1>1, <1>3 DEF SessionType, RowsType
  <2>3. sess[s].op = "upload" => sess[s].pc = "revoke"
    BY <1>5 DEF DeleteAcl, At
  <2>4. Stricter(record) <=> Stricter(sess[s])
    BY <2>2 DEF Stricter
  <2> HIDE DEF record
  <2>5. sess[s].op = "upload" => UploadShape(record)
    BY <1>3, <2>2, <2>3, <2>4 DEF UploadShape
  <2>6. sess[s].op # "upload" => DecisionShape(record)
    BY <1>3, <2>2 DEF DecisionShape
  <2> QED
    BY <1>4, <2>1, <2>2, <2>5, <2>6
<1>6. CASE AclDeleted(s)
  <2> DEFINE pc == IF sess[s].op = "upload" THEN "commit" ELSE "flush"
             record == [sess[s] EXCEPT !.pc = pc, !.snap = NoRows,
                                       !.gone.acl = sess[s].snap.acl]
  <2>1. sess' = [sess EXCEPT ![s] = record]
    BY <1>6 DEF AclDeleted, TypeOK
  <2>2. sess[s].pc = "acl"
    BY <1>6 DEF AclDeleted
  <2>3. sess[s].snap.acl = acl
    BY <1>3, <2>2 DEF UploadShape, DecisionShape
  <2>4. /\ record.pc = pc
        /\ record.op = sess[s].op
        /\ record.loaded = doc
        /\ record.row = sess[s].row
        /\ record.content = sess[s].content
        /\ record.roleKeys = sess[s].roleKeys
        /\ record.gone.acl = acl
        /\ record.new = sess[s].new
    BY <1>1, <1>3, <2>3 DEF SessionType, RowsType
  <2>5. Stricter(record) <=> Stricter(sess[s])
    BY <2>4 DEF Stricter
  <2> HIDE DEF record
  <2>6. sess[s].op = "upload" => UploadShape(record)
    BY <1>3, <2>2, <2>4, <2>5 DEF UploadShape
  <2>7. sess[s].op # "upload" => DecisionShape(record)
    BY <1>3, <2>2, <2>4 DEF DecisionShape
  <2> QED
    BY <1>4, <2>1, <2>4, <2>6, <2>7
<1>7. CASE WriteApproval(s)
  <2> DEFINE record == [sess[s] EXCEPT !.pc = "commit", !.locked = TRUE,
                                       !.new.acl = sess[s].roleKeys]
  <2>1. sess' = [sess EXCEPT ![s] = record]
    BY <1>7 DEF WriteApproval, TypeOK
  <2>2. sess[s].op = "approve" /\ sess[s].pc = "flush"
    BY <1>7 DEF WriteApproval, At
  <2>3. /\ record.pc = "commit"
        /\ record.op = "approve"
        /\ record.loaded = doc
        /\ record.row = sess[s].row
        /\ record.roleKeys = sess[s].roleKeys
        /\ record.gone = sess[s].gone
        /\ record.new.acl = sess[s].roleKeys
        /\ record.locked = TRUE
    BY <1>1, <1>3, <2>2 DEF SessionType, RowsType
  <2> HIDE DEF record
  <2>4. DecisionShape(record)
    BY <1>3, <2>2, <2>3 DEF DecisionShape
  <2> QED
    BY <1>4, <2>1, <2>2, <2>3, <2>4
<1>8. CASE WriteRevocation(s)
  <2> DEFINE record == [sess[s] EXCEPT !.pc = "commit",
                                       !.locked = (Dirty(s) # {})]
  <2>1. sess' = [sess EXCEPT ![s] = record]
    BY <1>8 DEF WriteRevocation, TypeOK
  <2>2. sess[s].op = "revoke" /\ sess[s].pc = "flush"
    BY <1>8 DEF WriteRevocation, At
  <2>3. /\ record.pc = "commit"
        /\ record.op = "revoke"
        /\ record.loaded = doc
        /\ record.row = sess[s].row
        /\ record.gone = sess[s].gone
        /\ record.new = sess[s].new
        /\ record.locked = (Dirty(s) # {})
    BY <1>1, <1>3, <2>2 DEF SessionType
  <2>4. ~record.locked => sess[s].row = doc
    BY <1>3, <2>3, CleanCopy
  <2> HIDE DEF record
  <2>5. DecisionShape(record)
    BY <1>3, <2>2, <2>3, <2>4 DEF DecisionShape
  <2> QED
    BY <1>4, <2>1, <2>2, <2>3, <2>5
<1>9. CASE DeleteRow(s)
  <2> DEFINE record == [sess[s] EXCEPT !.pc = "cascade", !.locked = TRUE]
  <2>1. doc.id = sess[s].loaded.id
    BY <1>3
  <2>2. sess' = [sess EXCEPT ![s] = record]
    BY <1>9, <2>1 DEF DeleteRow, TypeOK
  <2>3. sess[s].op = "delete" /\ sess[s].pc = "flush"
    BY <1>9 DEF DeleteRow, At
  <2>4. /\ record.pc = "cascade"
        /\ record.op = "delete"
        /\ record.loaded = doc
        /\ record.new = sess[s].new
    BY <1>1, <1>3, <2>3 DEF SessionType
  <2> HIDE DEF record
  <2>5. DecisionShape(record)
    BY <1>3, <2>3, <2>4 DEF DecisionShape
  <2> QED
    BY <1>4, <2>2, <2>3, <2>4, <2>5
<1>10. CASE Cascade(s)
  <2> DEFINE record == [sess[s] EXCEPT !.pc = "commit",
                            !.gone = [acl |-> acl, chunks |-> chunks]]
  <2>1. sess' = [sess EXCEPT ![s] = record]
    BY <1>10 DEF Cascade, TypeOK
  <2>2. sess[s].op = "delete" /\ sess[s].pc = "cascade" /\ sess[s].locked
    BY <1>1, <1>10 DEF Cascade, At, TxShape
  <2>3. /\ record.pc = "commit"
        /\ record.op = "delete"
        /\ record.loaded = doc
        /\ record.gone.acl = acl
        /\ record.new = sess[s].new
        /\ record.locked = sess[s].locked
    BY <1>1, <1>3, <2>2 DEF SessionType
  <2> HIDE DEF record
  <2>4. DecisionShape(record)
    BY <1>3, <2>2, <2>3 DEF DecisionShape
  <2> QED
    BY <1>4, <2>1, <2>2, <2>3, <2>4
<1> QED
  BY <1>5, <1>6, <1>7, <1>8, <1>9, <1>10

-----------------------------------------------------------------------------
(***************************************************************************)
(* Commits.                                                                *)
(***************************************************************************)

\* The changed columns over the row they were changed in are the copy.
LEMMA MergedRow ==
  ASSUME NEW row \in RowType, NEW old \in RowType
  PROVE  [c \in DOMAIN old |-> IF row[c] # old[c] THEN row[c] ELSE old[c]] = row
<1>1. /\ DOMAIN row = DOMAIN old
      /\ row = [c \in DOMAIN row |-> row[c]]
  BY DEF RowType
<1>2. [c \in DOMAIN old |-> IF row[c] # old[c] THEN row[c] ELSE old[c]] = [c \in DOMAIN row |-> row[c]]
  BY <1>1
<1> QED
  BY <1>1, <1>2

\* A request that is alone leaves the row it has made.
LEMMA AloneWrites ==
  ASSUME TypeOK, LifecycleInv, SerialInv, NEW s \in Sessions, Commit(s)
  PROVE  /\ sess[s].op \in {"upload", "approve", "revoke", "delete"}
         /\ sess[s].loaded = doc
         /\ doc' = sess[s].row
         /\ sess[s].op = "upload" => UploadShape(sess[s])
         /\ sess[s].op # "upload" => DecisionShape(sess[s])
<1>1. /\ sess[s].pc = "commit" /\ doc' = Written(s)
      /\ sess[s] \in SessionType /\ SerialShape(sess[s]) /\ TxShape(sess[s])
      /\ doc \in RowType
  BY DEF Commit, TypeOK, SerialInv, LifecycleInv
<1>2. /\ sess[s].op \in {"upload", "approve", "revoke", "delete"}
      /\ sess[s].loaded = doc
      /\ sess[s].op = "upload" => UploadShape(sess[s])
      /\ sess[s].op # "upload" => DecisionShape(sess[s])
  BY <1>1 DEF SerialShape
<1>3. sess[s].row \in RowType /\ DOMAIN doc = DOMAIN NoDoc /\ DOMAIN sess[s].row = DOMAIN NoDoc
  BY <1>1 DEF SessionType, RowType, NoDoc
<1>4. CASE ~sess[s].locked
  <2>1. sess[s].op = "revoke"
    BY <1>1, <1>2, <1>4 DEF TxShape, DecisionShape
  <2>2. Written(s) = doc
    BY <1>4 DEF Written
  <2>3. sess[s].row = doc
    BY <1>1, <1>2, <1>4, <2>1 DEF DecisionShape
  <2> QED
    BY <1>1, <1>2, <2>2, <2>3
<1>5. CASE sess[s].locked /\ (sess[s].loaded = NoDoc \/ sess[s].op = "delete")
  BY <1>1, <1>2, <1>5 DEF Written
<1>6. CASE sess[s].locked /\ ~(sess[s].loaded = NoDoc \/ sess[s].op = "delete")
  <2>1. Written(s) = [c \in DOMAIN doc |-> IF c \in Dirty(s) THEN sess[s].row[c] ELSE doc[c]]
    BY <1>6 DEF Written
  <2>2. \A c \in DOMAIN doc : c \in Dirty(s) <=> sess[s].row[c] # doc[c]
    BY <1>2, <1>3 DEF Dirty
  <2>3. Written(s) = [c \in DOMAIN doc |->
                        IF sess[s].row[c] # doc[c] THEN sess[s].row[c] ELSE doc[c]]
    BY <2>1, <2>2
  <2> QED
    BY <1>1, <1>2, <1>3, <2>3, MergedRow
<1> QED
  BY <1>2, <1>4, <1>5, <1>6

\* What the requests commit, from row and ACL to row and ACL.
Uploaded(c) ==
  /\ doc'.content = c
  /\ doc'.sensitivity = doc.sensitivity
  /\ doc'.suggested = IF Proposal[c] = 0 THEN doc.suggested ELSE Proposal[c]
  /\ (doc'.status = "APPROVED") <=>
       (doc.status = "APPROVED" /\ ~(Proposal[c] > doc.sensitivity))
  /\ acl' = IF doc.status = "APPROVED" /\ Proposal[c] > doc.sensitivity THEN {} ELSE acl
  /\ reviewed' = reviewed

ApprovedAs(roleKeys, level) ==
  /\ doc # NoDoc
  /\ MayApprove(roleKeys, level)
  /\ doc' = [doc EXCEPT !.status = "APPROVED", !.sensitivity = level]
  /\ acl' = roleKeys
  /\ reviewed' = doc.content

Revoked ==
  /\ doc # NoDoc
  /\ doc' = [doc EXCEPT !.status = "PENDING_REVIEW"]
  /\ acl' = {}

Deleted ==
  /\ doc # NoDoc
  /\ doc' = NoDoc
  /\ acl' = {}

LEMMA AloneCommits ==
  ASSUME TypeOK, LifecycleInv, SerialInv, NEW s \in Sessions, Commit(s)
  PROVE  \/ \E c \in Contents \ {doc.content} : Uploaded(c)
         \/ \E roleKeys \in SUBSET Roles, level \in Sensitivities :
              ApprovedAs(roleKeys, level)
         \/ Revoked
         \/ Deleted
<1>1. /\ sess[s].pc = "commit"
      /\ acl' = (acl \ sess[s].gone.acl) \cup sess[s].new.acl
      /\ reviewed' = IF sess[s].op = "approve" THEN sess[s].loaded.content ELSE reviewed
      /\ sess[s] \in SessionType /\ TxShape(sess[s])
  BY DEF Commit, TypeOK, LifecycleInv
<1>2. /\ sess[s].op \in {"upload", "approve", "revoke", "delete"}
      /\ sess[s].loaded = doc
      /\ doc' = sess[s].row
      /\ sess[s].op = "upload" => UploadShape(sess[s])
      /\ sess[s].op # "upload" => DecisionShape(sess[s])
  BY AloneWrites
<1>3. CASE sess[s].op = "upload"
  <2> DEFINE c == sess[s].content
  <2>1. c \in Contents \ {doc.content}
    BY <1>1, <1>2, <1>3 DEF TypeOK, TxShape
  <2>2. UploadShape(sess[s])
    BY <1>2, <1>3
  <2>3. /\ doc'.content = c
        /\ doc'.sensitivity = doc.sensitivity
        /\ doc'.suggested = IF Proposal[c] = 0 THEN doc.suggested ELSE Proposal[c]
    BY <1>1, <1>2, <2>2 DEF UploadShape
  <2>4. doc'.status = IF doc.status = "APPROVED" /\ ~(Proposal[c] > doc.sensitivity)
                      THEN "APPROVED" ELSE "PENDING_REVIEW"
    BY <1>1, <1>2, <2>2 DEF UploadShape, Stricter
  <2>5. acl' = IF doc.status = "APPROVED" /\ Proposal[c] > doc.sensitivity THEN {} ELSE acl
    BY <1>1, <1>2, <2>2 DEF UploadShape, Stricter
  <2>6. reviewed' = reviewed
    BY <1>1, <1>3
  <2>7. Uploaded(c)
    BY <2>3, <2>4, <2>5, <2>6 DEF Uploaded
  <2> QED
    BY <2>1, <2>7
<1>4. CASE sess[s].op = "approve"
  <2>1. DecisionShape(sess[s])
    BY <1>2, <1>4
  <2>2. PICK level \in Sensitivities :
          /\ MayApprove(sess[s].roleKeys, level)
          /\ sess[s].row = [doc EXCEPT !.status = "APPROVED", !.sensitivity = level]
    BY <1>4, <2>1 DEF DecisionShape
  <2>3. doc # NoDoc /\ sess[s].gone.acl = acl /\ sess[s].new.acl = sess[s].roleKeys
    BY <1>1, <1>4, <2>1 DEF DecisionShape
  <2>4. sess[s].roleKeys \in SUBSET Roles
    BY <1>1 DEF SessionType
  <2>5. ApprovedAs(sess[s].roleKeys, level)
    BY <1>1, <1>2, <1>4, <2>2, <2>3 DEF ApprovedAs
  <2> QED
    BY <2>4, <2>5
<1>5. CASE sess[s].op = "revoke"
  <2>1. DecisionShape(sess[s])
    BY <1>2, <1>5
  <2>2. Revoked
    BY <1>1, <1>2, <1>5, <2>1 DEF DecisionShape, Revoked
  <2> QED
    BY <2>2
<1>6. CASE sess[s].op = "delete"
  <2>1. DecisionShape(sess[s])
    BY <1>2, <1>6
  <2>2. sess[s].row = NoDoc
    BY <1>1, <1>6 DEF TxShape
  <2>3. Deleted
    BY <1>1, <1>2, <1>6, <2>1, <2>2 DEF DecisionShape, Deleted
  <2> QED
    BY <2>3
<1> QED
  BY <1>2, <1>3, <1>4, <1>5, <1>6

LEMMA AloneCommit ==
  ASSUME OneAtATime, TypeOK, LifecycleInv, SerialInv, NEW s \in Sessions, Commit(s)
  PROVE  SerialInv'
<1>1. /\ doc \in RowType /\ acl \in SUBSET Roles
      /\ doc # NoDoc => doc.content \in Contents
      /\ StricterContentReviewed /\ RolesClearDocument
  BY DEF TypeOK, SerialInv
<1>2. ASSUME NEW t \in Sessions PROVE SerialShape(sess[t])'
  <2>1. t = s
    BY DEF OneAtATime
  <2>2. sess'[t] = IdleSession
    BY <2>1 DEF Commit
  <2> QED
    BY <2>2 DEF SerialShape, IdleSession
<1>3. CASE \E c \in Contents \ {doc.content} : Uploaded(c)
  <2>1. PICK c \in Contents \ {doc.content} : Uploaded(c)
    BY <1>3
  <2>2. doc'.content \in Contents
    BY <2>1 DEF Uploaded
  <2>3. StricterContentReviewed'
    <3>1. SUFFICES ASSUME doc'.status = "APPROVED" PROVE Proposal[doc'.content] <= doc'.sensitivity
      BY DEF StricterContentReviewed
    <3>2. ~(Proposal[c] > doc.sensitivity)
      BY <2>1, <3>1 DEF Uploaded
    <3>3. Proposal[c] \in 0..4 /\ doc.sensitivity \in 1..4
      BY <1>1, ProposalAssumption DEF RowType
    <3> QED
      BY <2>1, <3>2, <3>3 DEF Uploaded
  <2>4. RolesClearDocument'
    BY <1>1, <2>1 DEF Uploaded, RolesClearDocument
  <2> QED
    BY <1>2, <2>2, <2>3, <2>4 DEF SerialInv
<1>4. CASE \E roleKeys \in SUBSET Roles, level \in Sensitivities : ApprovedAs(roleKeys, level)
  <2>1. PICK roleKeys \in SUBSET Roles, level \in Sensitivities : ApprovedAs(roleKeys, level)
    BY <1>4
  <2>2. doc'.content = doc.content /\ doc'.sensitivity = level /\ doc # NoDoc
    BY <1>1, <2>1 DEF ApprovedAs, RowType
  <2>3. StricterContentReviewed'
    BY <2>1, <2>2 DEF ApprovedAs, StricterContentReviewed
  <2>4. RolesClearDocument'
    BY <2>1, <2>2 DEF ApprovedAs, MayApprove, RolesClearDocument
  <2> QED
    BY <1>1, <1>2, <2>2, <2>3, <2>4 DEF SerialInv
<1>5. CASE Revoked
  <2>1. doc'.content = doc.content /\ doc'.status = "PENDING_REVIEW" /\ doc # NoDoc /\ acl' = {}
    BY <1>1, <1>5 DEF Revoked, RowType
  <2>2. StricterContentReviewed' /\ RolesClearDocument'
    BY <2>1 DEF StricterContentReviewed, RolesClearDocument
  <2> QED
    BY <1>1, <1>2, <2>1, <2>2 DEF SerialInv
<1>6. CASE Deleted
  <2>1. doc' = NoDoc /\ acl' = {} /\ NoDoc.status = "absent"
    BY <1>6 DEF Deleted, NoDoc
  <2>2. StricterContentReviewed' /\ RolesClearDocument'
    BY <2>1 DEF StricterContentReviewed, RolesClearDocument
  <2> QED
    BY <1>2, <2>1, <2>2 DEF SerialInv
<1> QED
  BY <1>3, <1>4, <1>5, <1>6, AloneCommits

-----------------------------------------------------------------------------
(***************************************************************************)
(* The invariant of requests that do not overlap.                          *)
(***************************************************************************)

Alone == TypeOK /\ LifecycleInv /\ SerialInv

LEMMA InitAlone == Init => Alone
<1> SUFFICES ASSUME Init PROVE Alone
  OBVIOUS
<1>1. doc = NoDoc /\ acl = {} /\ NoDoc.status = "absent"
  BY DEF Init, NoDoc
<1>2. \A s \in Sessions : SerialShape(sess[s])
  BY DEF Init, IdleSession, SerialShape
<1>3. StricterContentReviewed /\ RolesClearDocument
  BY <1>1 DEF StricterContentReviewed, RolesClearDocument
<1> QED
  BY <1>1, <1>2, <1>3, InitTyped, InitShape DEF SerialInv, Alone

LEMMA NextAlone == OneAtATime /\ Alone /\ [Next]_vars => Alone'
<1> SUFFICES ASSUME OneAtATime, Alone, [Next]_vars PROVE Alone'
  OBVIOUS
<1>1. TypeOK' /\ LifecycleInv'
  BY NextTyped, NextShape DEF Alone
<1>2. ASSUME NEW s \in Sessions, Request(s) \/ Progress(s) \/ Rollback(s)
      PROVE  SerialInv'
  BY <1>2, AloneRequest, AloneUploads, AloneDecides, AloneCommit, AloneAbort
  DEF Alone, Progress, Fail, DeadlockVictim, Rollback
<1>3. CASE UNCHANGED vars
  <2>1. doc' = doc /\ acl' = acl /\ sess' = sess /\ reviewed' = reviewed
    BY <1>3 DEF vars
  <2>2. ASSUME NEW s \in Sessions PROVE SerialShape(sess[s])'
    <3>1. SerialShape(sess[s])
      BY DEF Alone, SerialInv
    <3> QED
      BY <2>1, <3>1 DEF SerialShape, UploadShape, DecisionShape, Stricter
  <2>3. StricterContentReviewed' /\ RolesClearDocument'
    BY <2>1 DEF Alone, SerialInv, StricterContentReviewed, RolesClearDocument
  <2> QED
    BY <1>1, <2>1, <2>2, <2>3 DEF Alone, SerialInv
<1> QED
  BY <1>1, <1>2, <1>3 DEF Next, Alone

LEMMA AloneInvariant == ASSUME OneAtATime PROVE Spec => []Alone
<1>1. Alone /\ [Next]_vars => Alone'
  BY NextAlone
<1> QED
  BY <1>1, InitAlone, PTL DEF Spec

(***************************************************************************)
(* When requests do not overlap, a file that classifies as more sensitive  *)
(* than the access its document has is never live unless an administrator  *)
(* has approved that very file.                                            *)
(***************************************************************************)
THEOREM ReviewCorrect == ASSUME OneAtATime PROVE Spec => []StricterContentReviewed
<1>1. Alone => StricterContentReviewed
  BY DEF Alone, SerialInv
<1> QED
  BY <1>1, AloneInvariant, PTL

(***************************************************************************)
(* When requests do not overlap, no role holds a document above its        *)
(* clearance, whatever approvals, uploads and failures came before.        *)
(***************************************************************************)
THEOREM ClearanceCorrect == ASSUME OneAtATime PROVE Spec => []RolesClearDocument
<1>1. Alone => RolesClearDocument
  BY DEF Alone, SerialInv
<1> QED
  BY <1>1, AloneInvariant, PTL

-----------------------------------------------------------------------------
(***************************************************************************)
(* The refinement.                                                         *)
(***************************************************************************)

\* The document of DocumentPromise that row and ACL stand for.
Seen(content, open, level, audience, proposed) ==
  [content |-> content, open |-> open, level |-> level, audience |-> audience,
   proposed |-> proposed]

Document == Seen(doc.content, doc.status = "APPROVED", doc.sensitivity, acl, doc.suggested)

\* What is seen is its columns.
Columns == {"content", "open", "level", "audience", "proposed"}

LEMMA SeenColumns ==
  ASSUME NEW content, NEW open, NEW level, NEW audience, NEW proposed
  PROVE  LET seen == Seen(content, open, level, audience, proposed)
         IN  /\ seen.content = content /\ seen.open = open /\ seen.level = level
             /\ seen.audience = audience /\ seen.proposed = proposed
             /\ seen = [column \in Columns |-> seen[column]]
BY DEF Seen, Columns

\* The requests of DocumentPromise, column by column.
LEMMA SeenIngested ==
  ASSUME NEW content, NEW open \in BOOLEAN, NEW level, NEW audience, NEW proposed, NEW c
  PROVE  Promise!Ingested(Seen(content, open, level, audience, proposed), c) =
           Seen(c, open /\ ~(open /\ Proposal[c] > level), level,
                IF open /\ Proposal[c] > level THEN {} ELSE audience,
                IF Proposal[c] = 0 THEN proposed ELSE Proposal[c])
<1> DEFINE stricter  == open /\ Proposal[c] > level
           open2     == open /\ ~stricter
           audience2 == IF stricter THEN {} ELSE audience
           proposed2 == IF Proposal[c] = 0 THEN proposed ELSE Proposal[c]
           before    == Seen(content, open, level, audience, proposed)
           after     == Seen(c, open2, level, audience2, proposed2)
<1>1. /\ before.content = content /\ before.open = open /\ before.level = level
      /\ before.audience = audience /\ before.proposed = proposed
      /\ before = [column \in Columns |-> before[column]]
  BY SeenColumns
<1>2. /\ Promise!Escalates(before, c) <=> stricter
      /\ Promise!ProposedFor(before, c) = proposed2
  BY <1>1 DEF Promise!Escalates, Promise!ProposedFor
<1> HIDE DEF stricter, open2, audience2, proposed2
<1>3. /\ after.content = c /\ after.open = open2 /\ after.level = level
      /\ after.audience = audience2 /\ after.proposed = proposed2
      /\ after = [column \in Columns |-> after[column]]
  BY SeenColumns
<1> HIDE DEF before, after
<1>4. Promise!Ingested(before, c) =
        [before EXCEPT !.content = c, !.proposed = proposed2,
                       !.open = open /\ ~stricter,
                       !.audience = IF stricter THEN {} ELSE audience]
  BY <1>1, <1>2, Zenon DEF Promise!Ingested
<1>5. [before EXCEPT !.content = c, !.proposed = proposed2,
                     !.open = open2, !.audience = audience2] = after
  BY <1>1, <1>3 DEF Columns
<1> QED
  BY <1>4, <1>5, Zenon DEF before, after, stricter, open2, audience2, proposed2

LEMMA SeenWithdrawn ==
  ASSUME NEW content, NEW open, NEW level, NEW audience, NEW proposed,
         NEW no \in BOOLEAN
  PROVE  ~no => Promise!Withdrawn(Seen(content, open, level, audience, proposed)) =
                  Seen(content, no, level, {}, proposed)
<1> DEFINE before == Seen(content, open, level, audience, proposed)
           after  == Seen(content, no, level, {}, proposed)
<1>1. /\ before.content = content /\ before.open = open /\ before.level = level
      /\ before.audience = audience /\ before.proposed = proposed
      /\ before = [column \in Columns |-> before[column]]
  BY SeenColumns
<1>2. /\ after.content = content /\ after.open = no /\ after.level = level
      /\ after.audience = {} /\ after.proposed = proposed
      /\ after = [column \in Columns |-> after[column]]
  BY SeenColumns
<1> HIDE DEF before, after
<1>3. [before EXCEPT !.open = no, !.audience = {}] = after
  BY <1>1, <1>2 DEF Columns
<1>4. ~no => no = FALSE
  OBVIOUS
<1> QED
  BY <1>3, <1>4, Zenon DEF before, after, Promise!Withdrawn

\* A document that is there is there for DocumentPromise too.
LEMMA SeenThere ==
  ASSUME Alone, doc # NoDoc
  PROVE  Document # Promise!NoDocument
<1>1. doc.content \in Contents
  BY DEF Alone, SerialInv
<1>2. doc.content # 0
  BY <1>1, ContentAssumption
<1> QED
  BY <1>2 DEF Document, Seen, Promise!NoDocument, Promise!NoContent

LEMMA InitPromise == Init => Promise!Init
<1> SUFFICES ASSUME Init PROVE Promise!Init
  OBVIOUS
<1>1. /\ doc.content = 0 /\ (doc.status = "APPROVED") = FALSE
      /\ doc.sensitivity = 4 /\ doc.suggested = 0
      /\ acl = {} /\ chunks = {}
  BY DEF Init, NoDoc, NoContent, RESTRICTED
<1> QED
  BY <1>1 DEF Promise!Init, Promise!NoDocument, Promise!NoContent, Promise!RESTRICTED

\* Row and ACL become what DocumentPromise makes of them, chunks follow.
LEMMA CommitPromise ==
  ASSUME Alone, Alone', NEW s \in Sessions, Commit(s)
  PROVE  Promise!Next
<1> DEFINE open   == doc.status = "APPROVED"
           level  == doc.sensitivity
           before == Seen(doc.content, open, level, acl, doc.suggested)
           after  == Seen(doc'.content, doc'.status = "APPROVED", doc'.sensitivity, acl',
                          doc'.suggested)
<1>1. /\ TypeOK /\ LifecycleInv /\ SerialInv
      /\ doc \in RowType
  BY DEF Alone, TypeOK
<1>2. Promise!Becomes(after)
  <2>1. chunks' = {doc'.content} \ {Promise!NoContent}
    BY DEF Alone, LifecycleInv, ChunksAreContent, NoContent, Promise!NoContent
  <2>2. after.content = doc'.content
    BY SeenColumns
  <2>3. chunks' = {after.content} \ {Promise!NoContent}
    BY <2>1, <2>2
  <2> QED
    BY <2>3, Zenon DEF Promise!Becomes, Seen
<1>3. doc # NoDoc => before # Promise!NoDocument
  BY SeenThere DEF Document
<1>4. CASE \E c \in Contents \ {doc.content} : Uploaded(c)
  <2>1. PICK c \in Contents \ {doc.content} : Uploaded(c)
    BY <1>4
  <2>2. before.content = doc.content
    BY SeenColumns
  <2>3. (doc'.status = "APPROVED") = (open /\ ~(open /\ Proposal[c] > level))
    BY <2>1 DEF Uploaded
  <2>4. /\ doc'.content = c
        /\ doc'.sensitivity = level
        /\ acl' = IF open /\ Proposal[c] > level THEN {} ELSE acl
        /\ doc'.suggested = IF Proposal[c] = 0 THEN doc.suggested ELSE Proposal[c]
    BY <2>1 DEF Uploaded
  <2>5. open \in BOOLEAN
    OBVIOUS
  <2> DEFINE open2     == open /\ ~(open /\ Proposal[c] > level)
             audience2 == IF open /\ Proposal[c] > level THEN {} ELSE acl
             proposed2 == IF Proposal[c] = 0 THEN doc.suggested ELSE Proposal[c]
  <2> HIDE DEF open, level
  <2>6. Promise!Ingested(before, c) = Seen(c, open2, level, audience2, proposed2)
    BY <2>5, SeenIngested
  <2>7. after = Seen(c, open2, level, audience2, proposed2)
    BY <2>3, <2>4, Zenon
  <2> HIDE DEF before, after, open2, audience2, proposed2
  <2>8. \E d \in Contents \ {before.content} : Promise!Becomes(Promise!Ingested(before, d))
    BY <1>2, <2>1, <2>2, <2>6, <2>7
  <2>9. Promise!Ingest
    BY <2>8 DEF before, open, level, Seen, Promise!Ingest
  <2> QED
    BY <2>9 DEF Promise!Next
<1>5. CASE \E roleKeys \in SUBSET Roles, level2 \in Sensitivities :
             ApprovedAs(roleKeys, level2)
  <2>1. PICK roleKeys \in SUBSET Roles, level2 \in Sensitivities :
               ApprovedAs(roleKeys, level2)
    BY <1>5
  <2>2. /\ doc'.content = doc.content
        /\ (doc'.status = "APPROVED") = TRUE
        /\ doc'.sensitivity = level2
        /\ doc'.suggested = doc.suggested
        /\ acl' = roleKeys
    BY <1>1, <2>1 DEF ApprovedAs, RowType
  <2>3. doc # NoDoc /\ Promise!MayRead(roleKeys, level2)
    BY <2>1 DEF ApprovedAs, MayApprove, Promise!MayRead
  <2>4. Promise!Approved(before, roleKeys, level2) = after
    <3> DEFINE yes == doc'.status = "APPROVED"
    <3>1. /\ before.content = doc.content /\ before.proposed = doc.suggested
          /\ before = [column \in Columns |-> before[column]]
      BY SeenColumns
    <3>2. /\ after.content = doc'.content /\ after.open = yes
          /\ after.level = doc'.sensitivity /\ after.audience = acl'
          /\ after.proposed = doc'.suggested
          /\ after = [column \in Columns |-> after[column]]
      BY SeenColumns
    <3>3. yes = TRUE
      BY <2>2
    <3> HIDE DEF before, after, yes
    <3>4. [before EXCEPT !.open = yes, !.level = level2, !.audience = roleKeys] = after
      BY <2>2, <3>1, <3>2 DEF Columns
    <3> QED
      BY <3>3, <3>4, Zenon DEF Promise!Approved
  <2> HIDE DEF before, after
  <2>5. /\ before # Promise!NoDocument
        /\ \E audience \in SUBSET Roles, level3 \in Sensitivities :
             /\ Promise!MayRead(audience, level3)
             /\ Promise!Becomes(Promise!Approved(before, audience, level3))
    BY <1>2, <1>3, <2>1, <2>3, <2>4
  <2>6. Promise!Approve
    BY <2>5 DEF before, open, level, Seen, Promise!Approve
  <2> QED
    BY <2>6 DEF Promise!Next
<1>6. CASE Revoked
  <2>1. /\ doc'.content = doc.content
        /\ (doc'.status = "APPROVED") = FALSE
        /\ doc'.sensitivity = level
        /\ doc'.suggested = doc.suggested
        /\ acl' = {}
        /\ doc # NoDoc
    BY <1>1, <1>6 DEF Revoked, RowType
  <2> DEFINE no == doc'.status = "APPROVED"
  <2>2. Promise!Withdrawn(before) = Seen(doc.content, no, level, {}, doc.suggested)
    <3>1. no \in BOOLEAN /\ ~no
      BY <2>1
    <3> HIDE DEF open, level, no
    <3> QED
      BY <3>1, SeenWithdrawn
  <2>3. after = Seen(doc.content, no, level, {}, doc.suggested)
    BY <2>1, Zenon
  <2> HIDE DEF before, after
  <2>4. before # Promise!NoDocument /\ Promise!Becomes(Promise!Withdrawn(before))
    BY <1>2, <1>3, <2>1, <2>2, <2>3
  <2>5. Promise!Withdraw
    BY <2>4 DEF before, open, level, Seen, Promise!Withdraw
  <2> QED
    BY <2>5 DEF Promise!Next
<1>7. CASE Deleted
  <2>1. /\ doc'.content = 0
        /\ (doc'.status = "APPROVED") = FALSE
        /\ doc'.sensitivity = 4
        /\ doc'.suggested = 0
        /\ acl' = {}
        /\ doc # NoDoc
    BY <1>7 DEF Deleted, NoDoc, NoContent, RESTRICTED
  <2>2. after = Seen(0, FALSE, 4, {}, 0)
    BY <2>1, Zenon
  <2>3. Promise!NoDocument = Seen(0, FALSE, 4, {}, 0)
    BY DEF Seen, Promise!NoDocument, Promise!NoContent, Promise!RESTRICTED
  <2> HIDE DEF before, after
  <2>4. before # Promise!NoDocument /\ Promise!Becomes(Promise!NoDocument)
    BY <1>2, <1>3, <2>1, <2>2, <2>3
  <2>5. Promise!Delete
    BY <2>4 DEF before, open, level, Seen, Promise!Delete
  <2> QED
    BY <2>5 DEF Promise!Next
<1> QED
  BY <1>1, <1>4, <1>5, <1>6, <1>7, AloneCommits

\* Every step is a request of DocumentPromise or nothing.
LEMMA NextPromise ==
  ASSUME Alone, Alone', [Next]_vars
  PROVE  [Promise!Next]_(Promise!promise)
<1>1. ASSUME NEW s \in Sessions, Commit(s)
      PROVE  [Promise!Next]_(Promise!promise)
  BY <1>1, CommitPromise
<1>2. ASSUME UNCHANGED <<doc, acl, chunks>>
      PROVE  [Promise!Next]_(Promise!promise)
  BY <1>2 DEF Promise!promise
<1>3. ASSUME NEW s \in Sessions, Request(s) \/ Progress(s) \/ Rollback(s), ~Commit(s)
      PROVE  UNCHANGED <<doc, acl, chunks>>
  BY <1>3 DEF Request, Upload, ApproveDocument, RevokeDocument, DeleteDocument, Load, Progress,
       InsertDocument, DeleteChunks, ChunksDeleted, UpdateDocument, WriteChunks, DeleteAcl,
       AclDeleted, WriteApproval, WriteRevocation, DeleteRow, Cascade, Fail, DeadlockVictim,
       Rollback, Abort, tables
<1>4. CASE UNCHANGED vars
  BY <1>2, <1>4 DEF vars
<1> QED
  BY <1>1, <1>2, <1>3, <1>4 DEF Next

(***************************************************************************)
(* Requests that do not overlap are atomic: whatever the statements they   *)
(* are made of, the columns they leave unwritten and the point at which    *)
(* they fail, row, ACL and chunks go through the states of DocumentPromise *)
(* and no other.                                                           *)
(***************************************************************************)
THEOREM RefinementCorrect == ASSUME OneAtATime PROVE Spec => ImplementsPromise
<1>1. Alone /\ Alone' /\ [Next]_vars => [Promise!Next]_(Promise!promise)
  BY NextPromise
<1>2. Spec => []Alone
  BY AloneInvariant
<1> QED
  BY <1>1, <1>2, InitPromise, PTL DEF Spec, ImplementsPromise, Promise!Spec
=============================================================================

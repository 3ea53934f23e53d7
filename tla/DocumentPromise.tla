-------------------------- MODULE DocumentPromise --------------------------
(***************************************************************************)
(* The abstract specification of one document: every request takes effect  *)
(* at once or not at all, and what can be searched is the document's file. *)
(***************************************************************************)
EXTENDS DocumentRules

VARIABLES
  document,    \* see DocumentRules
  searchable   \* the files whose text questions can be answered from

promise == <<document, searchable>>

Becomes(after) ==
  /\ document' = after
  /\ searchable' = {after.content} \ {NoContent}

Init ==
  /\ document = NoDocument
  /\ searchable = {}

Ingest ==
  \E c \in Contents \ {document.content} : Becomes(Ingested(document, c))

Approve ==
  /\ document # NoDocument
  /\ \E audience \in SUBSET Roles, level \in Sensitivities :
       /\ MayRead(audience, level)
       /\ Becomes(Approved(document, audience, level))

Withdraw == document # NoDocument /\ Becomes(Withdrawn(document))

Delete == document # NoDocument /\ Becomes(NoDocument)

Next == Ingest \/ Approve \/ Withdraw \/ Delete

Spec == Init /\ [][Next]_promise
=============================================================================

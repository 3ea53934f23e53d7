--------------------------- MODULE DocumentRules ---------------------------
(***************************************************************************)
(* What one request does to one document, as the comments and docs of      *)
(* app/ingest/pipeline.py and app/api/routes/admin.py tell it: a whole     *)
(* request as one function from the document before it to the document     *)
(* after it.  No sessions, locks, copies or failures.                      *)
(***************************************************************************)
EXTENDS Integers

CONSTANTS
  Roles,          \* rows of roles
  Clearance,      \* roles.clearance
  Contents,       \* files
  Proposal,       \* what the classifier proposes for a file; 0: not asked
  Sensitivities   \* sensitivities administrators approve with

NoContent  == 0
RESTRICTED == 4

\* content is the file, open whether it is in circulation, to audience.
NoDocument ==
  [content |-> NoContent, open |-> FALSE, level |-> RESTRICTED,
   audience |-> {}, proposed |-> 0]

ProposedFor(document, c) ==
  IF Proposal[c] = 0 THEN document.proposed ELSE Proposal[c]

\* The safety rule for edits: stricter than the access it has.
Escalates(document, c) == document.open /\ Proposal[c] > document.level

Ingested(document, c) ==
  [document EXCEPT
     !.content  = c,
     !.proposed = ProposedFor(document, c),
     !.open     = @ /\ ~Escalates(document, c),
     !.audience = IF Escalates(document, c) THEN {} ELSE @]

\* Roles may be named only up to their clearance.
MayRead(audience, level) ==
  audience # {} /\ (\A r \in audience : Clearance[r] >= level)

Approved(document, audience, level) ==
  [document EXCEPT !.open = TRUE, !.level = level, !.audience = audience]

Withdrawn(document) == [document EXCEPT !.open = FALSE, !.audience = {}]
=============================================================================

------------------------- MODULE DocumentRefinement -------------------------
(***************************************************************************)
(* DocumentLifecycle, seen from outside its transactions.                  *)
(***************************************************************************)
EXTENDS DocumentLifecycle

Promise == INSTANCE DocumentPromise WITH
  document   <- [content  |-> doc.content,
                 open     |-> doc.status = "APPROVED",
                 level    |-> doc.sensitivity,
                 audience |-> acl,
                 proposed |-> doc.suggested],
  searchable <- chunks

(***************************************************************************)
(* Requests that do not overlap are atomic: whatever the statements they   *)
(* are made of, the columns they leave unwritten and the point at which    *)
(* they fail, the committed rows go through the states of DocumentPromise  *)
(* and no other.                                                           *)
(***************************************************************************)
ImplementsPromise == Promise!Spec
=============================================================================

--------------------------- MODULE MCAnswerCache ---------------------------
(* Small instances of AnswerCache: one tenant, roles that clear level 2,  *)
(* one document approved for it and one still waiting for review.       *)
EXTENDS AnswerCache

CONSTANTS d1, d2, u1, u2, t1, reader, ask1, ask2, adm1, adm2

const_Docs        == {d1, d2}
const_OneDoc      == {d1}
const_Users       == {u1, u2}
const_OneUser     == {u1}
const_Roles       == {reader}
const_Clearance   == [x \in Roles |-> 2]
const_UserTenant  == [u \in Users |-> t1]
const_DocTenant   == [d \in Docs |-> t1]
const_DocShared   == [d \in Docs |-> FALSE]
const_Capability  == [d \in Docs |-> IF d = d1 THEN "imports" ELSE "audit"]
const_InitDocs    == [d \in Docs |->
  IF d = d1
  THEN [status |-> "APPROVED", sensitivity |-> 2, acl |-> {reader}]
  ELSE [status |-> "PENDING_REVIEW", sensitivity |-> 2, acl |-> {}]]
const_InitRoles   == [u \in Users |-> {reader}]
const_Asker       == [r \in Requests |-> IF r = ask1 THEN u1 ELSE u2]
const_AdminTenant == [a \in Admins |-> t1]

\* Swapping the two callers together with their slots changes nothing.
Swap == {[x \in {ask1, ask2, u1, u2} |->
            CASE x = ask1 -> ask2 [] x = ask2 -> ask1
              [] x = u1 -> u2 [] x = u2 -> u1]}
const_Unscoped    == {UNSCOPED}
=============================================================================

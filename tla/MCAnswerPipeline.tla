-------------------------- MODULE MCAnswerPipeline --------------------------
(* Three documents of three capabilities, one of them by its folder only; one     *)
(* question that names nothing and one that names a capability.                   *)
EXTENDS AnswerPipeline

CONSTANTS ann, root, sales, everyone, workflow, screens, reports, vague, pointed

const_Capability == [d \in Docs |-> CASE d = workflow -> 1
                                      [] d = screens  -> 2
                                      [] d = reports  -> 0]
const_Module     == [d \in Docs |-> 3]
const_Exact      == [q \in Questions |-> IF q = pointed THEN {1} ELSE {}]
const_Alike      == [q \in Questions |-> {}]
const_Within     == {}
const_Changing   == {<<sales, workflow>>}
const_Seeded     == [g \in Groups |-> IF g = sales THEN Docs ELSE {workflow}]
const_Asked      == {NoCapability, ALL_CAPABILITIES, 1}
const_Group      == [u \in Users |-> IF u = root THEN everyone ELSE sales]
=============================================================================

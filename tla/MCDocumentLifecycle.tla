------------------------ MODULE MCDocumentLifecycle ------------------------
(* Small instances of DocumentLifecycle: files of different classes and    *)
(* one the classifier was not asked about.                                 *)
EXTENDS DocumentRefinement

CONSTANTS s1, s2, reader, author, guide, spec, memo, note

const_Clearance  == [r \in Roles |-> IF r = reader THEN 2 ELSE 3]
const_Proposal   == [c \in Contents |->
                       CASE c = guide -> 2 [] c = spec -> 3
                         [] c = memo -> 1 [] c = note -> 0]
=============================================================================

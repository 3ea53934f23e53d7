------------------------------ MODULE MCCorpus ------------------------------
(* A folder of two paths; the two files of one share a section.                       *)
EXTENDS Corpus

CONSTANTS manual, rules, draft, intro, body, clause, reader, context

const_Versions  == [k \in Keys |-> IF k = manual THEN {1, 2} ELSE {3}]
const_Texts     == [c \in Contents |-> CASE c = 1 -> {intro}
                                         [] c = 2 -> {intro, body}
                                         [] c = 3 -> {clause}]
const_Proposal  == [c \in Contents |-> IF c = 2 THEN 3 ELSE 2]
const_Clearance == [r \in Roles |-> 2]
const_Suggest   == [k \in Keys |-> [level |-> 2, audience |-> {reader}]]
=============================================================================

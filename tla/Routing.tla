------------------------------ MODULE Routing ------------------------------
(***************************************************************************)
(* Which part of the product a question is about: app/rag/routing.py.      *)
(* Capabilities are numbered in the order of their names; a chunk is the   *)
(* document it comes from; scores are integers, shares percentages.        *)
(***************************************************************************)
EXTENDS Integers, FiniteSets, FiniteSetsExt

CONSTANTS
  Docs,
  Capability,  \* documents.capability
  Module,      \* documents.module, the folder
  Exact,       \* capabilities a question contains the name of
  Alike,       \* capabilities it has the distinctive words of
  Within       \* pairs of capabilities, the first's name inside the second's

ASSUME CapabilityAssumption == Capability \in [Docs -> Nat] /\ Module \in [Docs -> Nat]

NoCapability == 0
ALL_CAPABILITIES == -1

DOMINANT_SHARE      == 62
RIVAL_RATIO         == 55
MIN_CANDIDATE_SHARE == 15
SPREAD_CANDIDATES   == 3
MAX_CANDIDATES      == 3

\* "*" is a wish to search everywhere, not the name of a capability.
SearchScope(c) == IF c = ALL_CAPABILITIES THEN NoCapability ELSE c

\* What a chunk counts for.
Key(d) == IF Capability[d] # NoCapability THEN Capability[d] ELSE Module[d]

Capabilities(docs) == {Key(d) : d \in docs} \ {NoCapability}

\* chunks: the score of each document found.
Total(chunks, c) ==
  MapThenSumSet(LAMBDA d : chunks[d], {d \in DOMAIN chunks : Key(d) = c})

Grand(chunks) ==
  MapThenSumSet(LAMBDA c : Total(chunks, c), Capabilities(DOMAIN chunks))

Stronger(chunks, a, b) ==
  \/ Total(chunks, a) > Total(chunks, b)
  \/ Total(chunks, a) = Total(chunks, b) /\ a < b

\* scored[0].
Strongest(chunks) ==
  LET capabilities == Capabilities(DOMAIN chunks)
  IN  CHOOSE c \in capabilities :
        \A e \in capabilities \ {c} : Stronger(chunks, c, e)

\* One capability, or the one whose name contains the others'; two are none.
NamedIn(question, capabilities) ==
  LET exact   == capabilities \cap Exact[question]
      longest == {c \in exact : \A e \in exact \ {c} : <<e, c>> \in Within}
      matched == capabilities \cap Alike[question]
      named   == IF exact # {} THEN longest ELSE matched
  IN  IF Cardinality(named) = 1 THEN CHOOSE c \in named : TRUE
      ELSE NoCapability

AtLeast(part, percent, whole) == 100 * part >= percent * whole

\* The strongest of them, in whatever order they are listed.
FirstFew(chunks, contenders) ==
  {c \in contenders :
     Cardinality({e \in contenders : Stronger(chunks, e, c)}) < MAX_CANDIDATES}

AnswerFrom(c)    == [capability |-> c, named |-> FALSE, choices |-> {}]
Naming(c)        == [capability |-> c, named |-> TRUE,  choices |-> {}]
Clarify(choices) == [capability |-> NoCapability, named |-> FALSE,
                     choices |-> choices]

Route(question, chunks) ==
  LET scored == Capabilities(DOMAIN chunks)
      leader == Strongest(chunks)
      grand  == Grand(chunks)
      named  == NamedIn(question, scored)
      spread == {c \in scored :
                   AtLeast(Total(chunks, c), MIN_CANDIDATE_SHARE, grand)}
      rivals == {c \in spread \ {leader} :
                   AtLeast(Total(chunks, c), RIVAL_RATIO, Total(chunks, leader))}
      close  == {c \in scored : c = leader \/ c \in rivals}
  IN  IF scored = {} THEN AnswerFrom(NoCapability)
      ELSE IF named # NoCapability THEN Naming(named)
      ELSE IF AtLeast(Total(chunks, leader), DOMINANT_SHARE, grand)
      THEN AnswerFrom(leader)
      ELSE IF rivals # {} THEN Clarify(FirstFew(chunks, close))
      ELSE IF Cardinality(spread) >= SPREAD_CANDIDATES
      THEN Clarify(FirstFew(chunks, spread))
      ELSE AnswerFrom(leader)
=============================================================================

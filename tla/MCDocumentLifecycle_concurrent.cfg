SPECIFICATION FairSpec
CONSTANTS
  s1 = s1
  s2 = s2
  reader = reader
  author = author
  guide = guide
  spec = spec
  memo = memo
  note = note
  Sessions = {s1, s2}
  Roles = {reader}
  Clearance <- const_Clearance
  Contents = {guide, spec}
  Proposal <- const_Proposal
  Sensitivities = {2}
  MaxVersion = 2
  MaxId = 2
INVARIANTS
  ChunksAreContent
  LifecycleInv
PROPERTIES
  OnlyApprovalOpens
  EveryRequestEnds
CHECK_DEADLOCK FALSE

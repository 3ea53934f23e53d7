SPECIFICATION Spec
CONSTANTS
  s1 = s1
  s2 = s2
  reader = reader
  author = author
  guide = guide
  spec = spec
  memo = memo
  note = note
  Sessions = {s1, s2}
  Roles = {reader}
  Clearance <- const_Clearance
  Contents = {guide, spec}
  Proposal <- const_Proposal
  Sensitivities = {2}
  MaxVersion = 3
  MaxId = 2
INVARIANT StricterContentReviewed
CHECK_DEADLOCK FALSE

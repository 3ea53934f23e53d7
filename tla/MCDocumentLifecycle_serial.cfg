SPECIFICATION Spec
CONSTANTS
  s1 = s1
  s2 = s2
  reader = reader
  author = author
  guide = guide
  spec = spec
  memo = memo
  note = note
  Sessions = {s1}
  Roles = {reader, author}
  Clearance <- const_Clearance
  Contents = {guide, spec, memo, note}
  Proposal <- const_Proposal
  Sensitivities = {1, 2, 3}
  MaxVersion = 3
  MaxId = 2
INVARIANTS
  TypeOK
  StricterContentReviewed
  RolesClearDocument
PROPERTY ImplementsPromise
CHECK_DEADLOCK FALSE

SPECIFICATION Spec
CONSTANTS
  first = first
  second = second
  old = old
  new = new
  Requests = {first, second}
  Kids = {old, new}
  Second = 2
  Window = 2
  Limit = 2
  TTL = 2
  MaxDelay = 1
  MaxTime = 4
INVARIANTS
  TypeOK
  PublishedKeysAccepted
  WindowBound
PROPERTIES
  WithdrawnKeysExpire
  RetryAfterIsTrue
SYMMETRY const_Symmetry
CHECK_DEADLOCK FALSE

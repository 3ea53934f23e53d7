SPECIFICATION Spec
CONSTANTS
  manual = manual
  rules = rules
  draft = draft
  intro = intro
  body = body
  clause = clause
  reader = reader
  context = context
  Keys = {manual, rules}
  Versions <- const_Versions
  Texts <- const_Texts
  Contents = {1, 2, 3}
  Contexts = {context}
  Roles = {reader}
  Clearance <- const_Clearance
  Proposal <- const_Proposal
  Sensitivities = {2}
  SuggestAccess <- const_Suggest
  MaxEdits = 1
  MaxPanel = 1
  MaxCommands = 2
  Killable = TRUE
INVARIANTS
  TypeOK
  VectorsMatch
  ChunksAreFile
  PresentFilesSurvive
  RemovedFilesLeave
PROPERTIES
  AccessIsDecided
  SyncIdempotent
CHECK_DEADLOCK FALSE

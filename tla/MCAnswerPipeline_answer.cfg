SPECIFICATION Spec
CONSTANTS
  ann = ann
  root = root
  sales = sales
  everyone = everyone
  workflow = workflow
  screens = screens
  reports = reports
  vague = vague
  pointed = pointed
  Docs = {workflow, screens, reports}
  Capability <- const_Capability
  Module <- const_Module
  Exact <- const_Exact
  Alike <- const_Alike
  Within <- const_Within
  Groups = {sales, everyone}
  Users = {ann, root}
  Admin = root
  Group <- const_Group
  Questions = {vague, pointed}
  Seeded <- const_Seeded
  Asked <- const_Asked
  Changing <- const_Changing
  Suspicious = {reports}
  Scores = {1, 3, 6}
  MaxAsks = 2
  MaxMarks = 2
  MaxRatings = 1
  MaxChanges = 1
INVARIANTS
  TypeOK
  NamesOnlyReadable
  MarksLeadToSources
  ChoiceIsFinal
  TurnIsOnRecord
  OwnAnswersAreRated
CHECK_DEADLOCK FALSE

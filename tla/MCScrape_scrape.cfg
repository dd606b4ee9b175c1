SPECIFICATION FairSpec
CONSTANTS
  Requests = {r1, r2}
  Processes = {p1, p2}
  FDs = {f1}
  Sockets = {s1}
  NoSocket = NoSocket
  GeneralSize = 1
  MaxChanges = 2
INVARIANTS
  TypeOK
  GathersAlone
  AnswersAreComplete
PROPERTIES
  ScrapesEnd
CHECK_DEADLOCK FALSE

CONSTANTS
  NumNodes = 2
  Call <- LackCall
  Desc <- LackDesc
  md = md
  io = io
  get = get
  mk = mk
  act = act
SPECIFICATION FairSpec
INVARIANTS OutputsOfAll
PROPERTIES KeepsPromise NoCallHangs
CHECK_DEADLOCK FALSE

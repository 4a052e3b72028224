CONSTANTS
  NumNodes = 2
  Call <- MixCall
  Desc <- MixDesc
  md = md
  io = io
  get = get
  mk = mk
  act = act
SPECIFICATION FairSpec
INVARIANTS TypeOK OutputsOfAll ReplicaAlive ReplicaFresh ReplicasDeleted
PROPERTIES EveryCallEnds
CHECK_DEADLOCK FALSE

CONSTANTS
  na = na nb = nb sm = sm c1 = c1 c2 = c2 c3 = c3 c4 = c4 d1 = d1 d2 = d2 l1 = l1 l2 = l2 Null = Null
  NumNodes = 1
  Name = {na, nb}
  Lib = {sm}
  LibDir <- Everywhere
  TaskLibs = {sm}
  MaxQueues = 12
  MaxUnique = 12
  Call <- SmallCalls
  Desc <- SmallDesc
SPECIFICATION Spec
INVARIANTS QueueIfRoom
CHECK_DEADLOCK FALSE

CONSTANTS
  adm = adm pq = pq mod = mod rem = rem w0 = w0 w1 = w1 p1 = p1 s1 = s1
  c1 = c1 g1 = g1 c2 = c2 g2 = g2 f1 = f1 x1 = x1 x2 = x2
  o1 = o1 m1 = m1 r1 = r1 q1 = q1 q2 = q2 q3 = q3
  NoTask = NoTask
  Task <- PinnedTasks
  Desc <- PinnedDesc
  Lane = {adm}
  WorkerId = {w0}
  WorkQueue <- AdminQueue
  LaneId <- Ids
  LowLatency = {}
  Depth = 2
  PollEvery = 2
  MaxIter = 3
  MaxU32 = 99
  MayStop = FALSE
SPECIFICATION FairSpec
PROPERTIES EveryTaskEnds
CHECK_DEADLOCK FALSE

SPECIFICATION FairSpec
CONSTANTS
  Ids = {i1, i2}
  Messages = {m1, m2, m3}
  Objs = {o1, o2, o3}
  None = None
  TTL = 3
  Timeout = 1
INVARIANT TypeOK
INVARIANT OneRunPerSession
INVARIANT HistoryFaithful
INVARIANT NotForgotten
PROPERTY HistoryOnlyGrows
PROPERTY EveryMessageEnds

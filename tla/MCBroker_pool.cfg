\* two workers share the channel; failed writes and a crash
CONSTANTS
  w1 = w1  w2 = w2  a = a  b = b
  Ids = {a, b}
  Workers = {w1, w2}
  QueueCap = 1
  BatchSize = 2
  Events = {"error", "crash"}
  MaxPosts = 4
SPECIFICATION FairSpec
INVARIANTS TypeOK PointsAccounted NewestKept
PROPERTIES AcceptedLeaves

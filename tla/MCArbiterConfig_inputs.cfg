\* every small set of definitions; two files that are edited, read and pushed
CONSTANTS
  Ids = {"", "a", "b", "c", "p", "q", "s", "t", "u", "w", "x", "z"}
  Values = {"", "v"}
  MaxDepth = 2
  Chain <- SixLinks
  HostIds = {"", "a", "b", "c"}
  ServiceIds = {"", "p"}
  MaxN = 3
  Contents <- Changing
  Words = {""}
  Refreshers = {r1, r2}
  MaxEdits = 2
SPECIFICATION MCSpec
INVARIANTS Inheritance Sharding SameShard Monitored 
CONSTRAINT Explored
SYMMETRY Alike

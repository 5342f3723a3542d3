\* overlapping pushes, outages of both Schedulers and the cool-off
CONSTANTS
  Ids = {"", "a", "b", "ping"}
  Values = {"", "v"}
  MaxDepth = 1
  Files <- OneFile
  Contents <- OneContents
  Initial <- OneInitial
  Broken = Broken  Unreadable = Unreadable
  N = 2
  MaxAttempts = 2
  Refreshers = {"ticker"}
  Pushers = {1, 2}
  HAEnabled = FALSE
  Outages = {{1, 2}}
  MaxEdits = 1  MaxRestarts = 0
SPECIFICATION FairSpec
INVARIANTS TypeOK
PROPERTIES Converges

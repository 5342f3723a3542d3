\* overlapping refreshes and pushes with files being written, changes of leader and
\* a restart
CONSTANTS
  Ids = {"", "a", "b", "ping"}
  Values = {"", "v"}
  MaxDepth = 1
  Files <- TwoFiles
  Contents <- TwoContents
  Initial <- TwoInitial
  Broken = Broken  Unreadable = Unreadable
  N = 2
  MaxAttempts = 2
  Refreshers = {"ticker", "hotreload"}
  Pushers = {1, 2}
  HAEnabled = TRUE
  Outages = {}
  MaxEdits = 1  MaxRestarts = 1
SPECIFICATION FairSpec
INVARIANTS ServicesWithHosts
PROPERTIES Converges

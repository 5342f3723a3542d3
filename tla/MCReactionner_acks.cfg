\* with and without Raft: notifications against acknowledgments, snapshots, crashes
CONSTANTS
  a = a  b = b
  Ids = {a, b}
  Types = {"DOWN", "RECOVERY"}
  HAModes = {TRUE, FALSE}
  Bootstrap = TRUE
  Faults = {"crash", "snapshot", "smtp"}
  MaxCalls = 3
  MaxCrashes = 2
SPECIFICATION FairSpec
INVARIANTS TypeOK AcksAreApplied
PROPERTIES AckMutes LogGetsApplied

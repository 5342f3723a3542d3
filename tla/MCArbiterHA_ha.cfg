\* two nodes that join, elect, crash; downtimes, snapshots, files edited and sent
CONSTANTS
  n1 = n1  n2 = n2  v1 = v1  v2 = v2  bad = bad
  None = None  Gone = Gone  Torn = Torn
  Nodes = {n1, n2}
  Bootstrap = n1
  ClusterNodes <- ListFirst
  HAModes = {TRUE, FALSE}
  FileNames <- OneFile
  Contents = {v1, v2, bad}
  Refused = {bad}
  Initial <- AtFirst
  MaxTransfers = 2
  MaxEvents = 3
SPECIFICATION FairSpec
INVARIANTS TypeOK DowntimesFollowLog EditsStay
PROPERTIES DowntimesSettle FilesReachFollowers
CHECK_DEADLOCK FALSE

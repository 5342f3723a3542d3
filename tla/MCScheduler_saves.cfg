\* saves, status clients, a broker, graceful stops, crashes, failing writes, restarts
CONSTANTS
  h1 = h1  h2 = h2  s1 = s1  w1 = w1  w2 = w2  c1 = c1
  Absent = Absent  Idle = Idle  Torn = Torn
  HostIds = {h1}  ServiceIds = {}  HostNames = {h1}
  Status = {0, 2}
  Configs <- ComingHost
  Workers = {w1}
  StatusClients = {c1}
  QueueCap = 1
  HostInterval = 1  ServiceInterval = 1
  BrokerEnabled = TRUE
  Events = {"save", "stop", "crash", "disk"}
  MaxTime = 0  MaxResults = 2  MaxOutstanding = 1
SPECIFICATION FairSpec
INVARIANTS TypeOK HostsCoherent SaveIsCurrent Announced
PROPERTIES ImplementsLedger ImplementsStore AcceptedGetsApplied DirtyGetsSaved StopEnds

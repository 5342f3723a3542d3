\* refutes CleanMeansSaved
CONSTANTS
  h1 = h1  h2 = h2  s1 = s1  w1 = w1  w2 = w2  c1 = c1
  Absent = Absent  Idle = Idle  Torn = Torn
  HostIds = {h1}  ServiceIds = {}  HostNames = {h1}
  Status = {0, 2}
  Configs <- SteadyHost
  Workers = {w1}
  StatusClients = {}
  QueueCap = 1
  HostInterval = 2  ServiceInterval = 1
  BrokerEnabled = FALSE
  Events = {"save"}
  MaxTime = 1  MaxResults = 2  MaxOutstanding = 1
SPECIFICATION Spec
INVARIANT CleanMeansSaved

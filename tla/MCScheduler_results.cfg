\* results against reloads: a host and its service, two workers, a channel of two
CONSTANTS
  h1 = h1  h2 = h2  s1 = s1  w1 = w1  w2 = w2  c1 = c1
  Absent = Absent  Idle = Idle  Torn = Torn
  HostIds = {h1}  ServiceIds = {s1}  HostNames = {h1, h2}
  Status = {0, 2}
  Configs <- ServiceConfigs
  Workers = {w1, w2}
  StatusClients = {}
  QueueCap = 2
  HostInterval = 2  ServiceInterval = 1
  BrokerEnabled = FALSE
  Events = {}
  MaxTime = 1  MaxResults = 3  MaxOutstanding = 1
SPECIFICATION Spec
SYMMETRY WorkerSymmetry
INVARIANTS ResultsAccounted Announced
PROPERTIES NextCheckGrows

SPECIFICATION Spec
CONSTANTS
  Workloads = {"traffic", "listens", "processes", "startup", "clients", "journal"}
  Scrapers = {"s1"}
  Pids = {1, 2}
  NewPids = {1}
  MaxConns = 2
  MaxSent = 2
  MaxSteps = 3
  MaxLost = 1
  EventsCap = 1
  UpdatesCap = 1
  MaxScrapes = 2
  MaxRounds = 2
  MaxReads = 1
  Progs = {"p1", "p2", "p3"}
  TailProgs = {"p3"}
  Optional = {"p2"}
  PerfMaps = {"m1", "m2"}
  MaxLoads = 2
  Ips = {1, 2, 3}
  HostIps = {3}
  MapSize = 2
  MaxAnswers = 2
  MaxLocal = 1
  MaxFailures = 1
  Services = {1, 2, 3}
  UnitOf <- MCUnitOf
  MaxEntries = 2
INVARIANTS TrafficCounted StartedOrNothing
PROPERTIES NoneWaitsForEver ListensSettle ClientsSettle
CHECK_DEADLOCK FALSE

CONSTANTS
  r1 = r1
  r2 = r2
  r3 = r3
  g1 = g1
  g2 = g2
  g3 = g3
  c1 = c1
  c2 = c2
  c3 = c3
  c4 = c4
  Requests <- MCRequests
  MaxFailures = 2
  ResetTimeout = 2
  HalfOpenTimeout = 1
  Goroutines <- MCGoroutines
  Channels <- MCChannels
  NoChannel = NoChannel
  Users = {u1}
  Configurations <- MCConfigurations
  Horizon = 5
  t1 = t1
  t2 = t2
  MapThreads <- MCThreads
  Keys = {k1, k2}
  MapValues = {1, 2}
  Absent = Absent
  Callers = {"a", "b"}
  Tasks = {"a1", "a2", "a3", "b1", "b2"}
  TasksOf <- MCTasksOf
  Workers = 2
  HttpRequests = {q1}
  Statuses = {200, 404}
  ServerConfigs <- MCServerConfigs
  StoreThreads = {s1, s2}
  Files = {f1, f2}
  OldFiles = {f1}
  NoFile = NoFile
  Torn = Torn
  Savers = {v1, v2}
  CacheKeys = {k1, k2}
  CacheValues = {1}
  NoItem = NoItem
  MaxItems = 1
SPECIFICATION MCSpec
INVARIANTS
  ComponentsTypeOK
  ClosedBelowThreshold
  WaitersAreNotStranded
  AtMostTwoWindowsPerInterval
  NoNeedlessWait
  CallbacksSeeTheMap
  FailureIsNotSuccess
  CountedAsAnswered
  SavedIsListed
  MetadataIsWhole
  SavedIsLoaded
PROPERTIES
  RecoversWhenHealthy
  NeverRefusesForever
  WaitReturns
  PersistentUserIsAdmitted
  MapCallsReturn
  RunTasksReturns
  ForksAndJoins
CHECK_DEADLOCK FALSE

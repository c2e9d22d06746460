SPECIFICATION Spec
CONSTANTS
  RbProducer = {"p"}
  RbConsumer = {"c1", "c2"}
  RbMessages = 3
  RbCapacity = 2
  BqProducer = {"p1", "p2"}
  BqConsumer = {"c1", "c2", "c3"}
  BqDrain = "d"
  BqPushes = 2
  BqPops = 1
  BqCapacity = 2
  DiProducer = {0, 1}
  DiWorker = {"w1", "w2"}
  DiPerProducer = 2
  DiCapacities = {0, 1}
  WsWorkers = 3
  WsTasks = 3
  StThread = {"a", "b", "c"}
  StRecords <- MCRecords
  StMaxU64 = 99
  StMaxSpurious = 1
  PuValues <- MCValues
  PnNode = {"a", "b", "c"}
  PnMaxUpdates = 3
  OrNode = {"a", "b", "c"}
  OrItem = {"x"}
  OrMaxUpdates = 3
  RfNodes = 3
  RfMaxTerm = 2
  RfMaxLog = 2
  CbCaller = {"a", "b", "c"}
  CbFailureThreshold = 2
  CbSuccessThreshold = 2
  CbResetTimeout = 2
  CbMaxOutages = 2
  CbMaxDrops = 1
  RtPolicies <- MCPolicies
  WaWriter = {"a", "b"}
  WaWatcher = {"w"}
  WaKey = {"k"}
  WaMaxWrites = 4
  WaBuffer = 1
  WaWindow = 1
  RiNode = {"a", "b", "c"}
  RiPositions = 8
  RiLayouts <- MCLayouts
  NoNodes = 3
  NoLists <- MCLists
  NoMaxCrashes = 1
  MeConn = {"a", "b"}
  MeRequests = 2
  MeLatencies = {10, 20}
  MeKinds = {"put", "other"}
  RpNode = {"a", "b", "c"}
  RpReplicas <- MCReplicas
  RpWriteQuorum = 2
  RpWrite = {"w1"}
  RpEntryOf <- Anywhere
  RpMaxCrashes = 1
  RpMaxTimeouts = 1
  RpNone = NoEntry
CHECK_DEADLOCK FALSE
INVARIANTS
  TypeOK
  WorkIsDone
  LeftBehindUnseen
  CountersAgree
  UpdatesAreKept
  ChangesAreHeard
  NamesAgree
PROPERTIES
  QueuesAreFifo
  ThreadsEnd
  ReplicasConverge
  OneLeaderPerTerm
  CallsAreHeldBack
  PlacementHolds
  Recovers
  PutsAnswered

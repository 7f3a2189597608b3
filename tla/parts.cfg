SPECIFICATION PartsSpec
CONSTANTS
  Convs = {c1, c2}
  PageSize = 1
  MaxStored = 2
  MaxOpens = 2
  MaxDrops = 1
  Calls = {u1, u2, u3}
  Keys = {k1, k2}
  MaxSize = 1
  Mail = {m1, m2}
  OwnMail = {m2}
  Asks = {m1}
  MaxDeliveries = 2
  MaxProxies = 2
  Limit = 2
  MaxStarts = 2
  Agents = {"A", "B"}
  Tasks = {t1, t2}
  Files = {f1}
  Durations = {1, 2}
  MaxClock = 3
  Chosen = {"backend", "database", "test"}
  MaxItems = 2
  MaxDeps = 2
  Paths = {"p1", "p2"}
  PathDomains <- MCPathDomains
  MaxAnswers = 1
  Everyone = {"a1", "a2"}
  Flow <- MCFlow
  StartStage = "design"
  MaxNesting = 3
  MaxSteps = 2
  MaxCalls = 2
  MaxChunks = 2
  Speakers = {"x", "y"}
  MaxTokens <- MCTokens
  MaxRows = 3
  RowLimit = 3
  Sizes = {1, 2}
  FewTurns = 2
  LongChars = 6
  SlidingSize = 2
  HybridSize = 3
  HeadSize = 1
  ShortSize = 1
  MaxEvents = 4
  Requesters = {q1}
  MaxArtifacts = 3
  MaxViews = 2
  Records = {"s1", "s2"}
  WorkItems = {"t1"}
  MaxLog = 3
  MaxKills = 2
  Tabs = {w1, w2}
  Members = {"o", "a"}
  Strangers = {"z"}
  Orchestrator = "o"
  MaxDrafts = 2
  MaxCreated = 3
  MaxPages = 3
CONSTRAINTS MCShortWire MCFirstTab
INVARIANTS
  TabsSound
  VersionsSound
  PoolSound
  ReactSound
  SubtaskShown
  ContextSound
  AdapterSound
  HubSound
  RunTruthful
  StagesConfirmed
  TypedOnce
  AcceptedHandled
  LayersSound
  PlanFiled
  PreviewSound
  
  IntakeSound
  DeploySound
CHECK_DEADLOCK FALSE

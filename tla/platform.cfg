\* Small instances of eight parts, each explored on its own.
CONSTANTS
  Callers = {c1, c2, c3}
  Slots = 2
  Threshold = 2
  Cooldown = 2
  Attempts = 2
  MaxFailed = 4
  NotOpened = NotOpened
  Requests = {"r1", "r2", "r3"}
  Scopes = {"a", "b"}
  TTL = 1
  MaxClock = 2
  MaxAborts = 1
  NoRow = NoRow
  NoTime = NoTime
  NoRequest = NoRequest
  RowScopes = {"a", "b"}
  RawRows = {"r1", "r2"}
  EmbRows = {"e1"}
  DocRows = {"d1"}
  RowScope <- MCRowScope
  RawTTL <- MCRawTTL
  SumTTL <- MCSumTTL
  Off = Off
  Broken = Broken
  ChunkSize = 1
  Purgers = {"worker"}
  MaxTime = 2
  Never = Never
  ApiKeys = {"k1", "k2"}
  KeyRole <- MCKeyRole
  KeyScope <- MCKeyScope
  KeyOverride <- MCKeyOverride
  ReqScopes = {NoScope, "a", "default"}
  NoScope = NoScope
  Nobody = Nobody
  Subjects = {"u"}
  UnitsPerTick = 1
  UnitsPerToken = 2
  BurstUnits = 3
  Configs <- MCConfigs
  MaxTicks = 1
  MaxRotations = 1
  MaxRequests = 2
  Omitted = Omitted
  BadDuration = BadDuration
  Servers <- MCServers
  Bodies <- MCBodies
  Updates <- MCUpdates
  LogScopes = {"a", "b"}
  Askers = {"q1", "q2"}
  MaxLines = 1
  MaxExplains = 2
  Feeds <- MCFeeds
  EndNs = 3
  PageLimit = 2
  MaxRows = 3
  MaxResumes = 2
  MaxHops = 1
  NoCursor = NoCursor
  Blank = Blank
  Batches <- MCBatches
  ApiBatch = 2
  ApiAttempts = 2
  EmbConfigs <- MCEmbConfigs
  MaxJobs = 2
SPECIFICATION PlatformSpec
INVARIANTS
  PlatformTypeOK SlotsConserved ProbeHasOwner OpenedByFailures
  OneJobUnlessExpired JobsMatchAnswers AccessIsJustified OverridesKeepTheirWord
  RepliesAreRight PagesMakeTheWindow EmbeddingIsHarmless
PROPERTIES
  BreakerRecovers EveryRequestAnswered PagingEnds PurgeIsExact
CHECK_DEADLOCK FALSE

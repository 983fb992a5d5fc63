\* Small instances of the analysis, each explored on its own.
CONSTANTS
  RowKinds <- MCRowKinds
  Tables <- MCTables
  FpMessage <- MCFpMessage
  Similar <- MCSimilar
  Asks <- MCAsks
  WinStart = 2
  WinEnd = 4
  BaselineLen = 1
  MaxClusters = 1
  MemberCap = 2
  MergeMinCount = 1
  MaxInserts = 1
  NoTime = NoTime
  Lookback = 1
  Grace = 1
  RareRatio = 2
  MetricOnsets <- MCMetricOnsets
  Linked <- MCLinked
  WVolume = 1
  WAnomaly = 0
  WOnset = 0
  CountHigh = 3
  CountLow = 2
  RatioHigh = 2
  RatioLow = 1
  MaxItems = 4
  Modes = {"regex", "rare_event"}
  Probabilities = {85}
  NoAnswer = NoAnswer
  ViewFps = {1, 2, 3, 4}
  MessageClass <- MCMessageClass
  Contents <- MCContents
  ClusterCap = 2
  TriggerSets <- MCTriggerSets
  Packets <- MCPackets
  Untimed = Untimed
  CriStreams = {"stdout", "stderr"}
  MaxRecords = 5
  Bodies <- MCBodies
  StampValues <- MCStampValues
  CalendarDigits = {20260, 1770123}
  MaxIdLen = 34
  AskRows <- MCAskRows
  AskTables <- MCAskTables
  Questions <- MCQuestions
  AskLimit = 4
  AskCap = 2
  AskFrom = 1
  AskTo = 2
  VectorRows <- MCVectorRows
  ClusterSim <- MCClusterSim
  MinSim = 2
  Callers <- MCCallers
  Queried <- MCQueried
  SimilarTop = 2
  Hyps = {"h1", "h2", "h3"}
  Observables = {"a", "b", "c"}
  Collectable = {"a", "b"}
  MeasuredStates = {"p", "n"}
  Tau = 1
  Confidences = {0, 1, 2}
  Models <- MCModels
  Rankings <- MCRankings
  TeleServices = {"web", "api", "db"}
  SpanPool <- MCSpans
  SamplePool <- MCSamples
  ErrorPool <- MCErrors
  IncidentAt = 5
  MaxTelemetry = 4
  BaseLen = 5
  IncLen = 5
  MinBaseline = 1
  MinExpected = 1
  OnsetGap = 1
  MaxHops = 2
  HopWeight <- MCHopWeight
  BlameUnit = 6
  Excluded = {}
  NameOrder <- MCNameOrder
  RankConfigs <- MCRankConfigs
  CaseIds = {1, 2}
  CaseDocs <- MCCaseDocs
  FileLines <- MCFileLines
  CaseServices = {"web", "db"}
  Clusterings <- MCClusterings
  Rankers <- MCRankers
  HoldOuts <- MCHoldOuts
  TopK = 1
  MaxEvals = 2
  Nothing = Nothing
SPECIFICATION AnalysisSpec
INVARIANTS
  ClustersPartitionLines ExplanationFitsWindow ViewsTellAll MessagesComeThrough
  RetrievalKeepsToTheQuestion SignalsProveWhatTheySay EvaluationIsHonest
PROPERTIES
  ViewsRefineWithEvidence RankingRestsOnEvidence
CHECK_DEADLOCK FALSE

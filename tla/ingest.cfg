SPECIFICATION Spec
CONSTANTS
  NoRun = "none"
  Runs <- MCRuns
  Streams <- MCStreams
  Sourced = {"Load1", "Again", "Other"}
  Pushed = {"Push"}
  PushMaxLines = 1
  ByWorker = {"Load1", "Again", "Other"}
  StreamsOf <- MCStreamsOf
  Content <- MCContent
  ScopeOf <- MCScopeOf
  Prior <- MCPrior
  Keys = {0, 1, 2}
  Outages = {"a"}
  Capped = {"b"}
  Unreadable = {"b"}
  BatchSize = 2
  PageSize = 1
INVARIANTS
  TypeOK CompletedUnlessDropped JobReportIsTrue
PROPERTIES
  ImplementsLineStore RunsEndOnceQuiet

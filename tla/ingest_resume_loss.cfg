SPECIFICATION Spec
CONSTANTS
  NoRun = "none"
  Runs <- MCRuns
  Streams <- MCStreams
  Sourced = {"Load1", "Again", "Other"}
  Pushed = {"Push"}
  PushMaxLines = 1
  ByWorker = {"Load1", "Again", "Other"}
  StreamsOf <- MCStreamsOf
  Content <- MCContent
  ScopeOf <- MCScopeOf
  Prior <- MCPrior
  Keys = {0, 1, 2}
  Outages = {"a", "b"}
  Capped = {}
  Unreadable = {"b"}
  BatchSize = 3
  PageSize = 2
INVARIANT CompletedStreamsStored

\* A job of any adapter, outages and a crash, one lifecycle request at a time.
CONSTANTS
  Streams = {s1, s2}
  Workers = {w1, w2}
  Clients = {c1}
  Adapters = {"datadog", "cloudwatch", "loki"}
  PollInterval = 1
  ErrorThreshold = 2
  FirstSpan = 1
  FromTimes = {0, 2}
  ToTimes = {1, 3}
  MaxTime = 3
  MaxOutages = 2
  MaxCrashes = 1
  NoCursor = NoCursor
  NoTime = NoTime
  NoWindow = NoWindow
  Nobody = Nobody
SPECIFICATION Spec
INVARIANTS
  CursorBoundToWindow TickedJobIsRunning CaughtUpLosesNothing
PROPERTIES
  OnlyOperatorsRevive
CHECK_DEADLOCK FALSE

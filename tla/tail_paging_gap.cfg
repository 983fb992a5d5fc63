\* Datadog stops at max_rows; nothing fails.
CONSTANTS
  Streams = {s1}
  Workers = {w1, w2}
  Clients = {c1}
  Adapters = {"datadog"}
  PollInterval = 1
  ErrorThreshold = 2
  FirstSpan = 1
  FromTimes = {}
  ToTimes = {}
  MaxTime = 3
  MaxOutages = 0
  MaxCrashes = 0
  NoCursor = NoCursor
  NoTime = NoTime
  NoWindow = NoWindow
  Nobody = Nobody
SPECIFICATION Spec
INVARIANT NoInstantSkipped
CHECK_DEADLOCK FALSE

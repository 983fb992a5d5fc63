\* Two lifecycle requests at the same time.
CONSTANTS
  Streams = {s1, s2}
  Workers = {w1, w2}
  Clients = {c1, c2}
  Adapters = {"datadog"}
  PollInterval = 1
  ErrorThreshold = 2
  FirstSpan = 1
  FromTimes = {}
  ToTimes = {}
  MaxTime = 1
  MaxOutages = 0
  MaxCrashes = 0
  NoCursor = NoCursor
  NoTime = NoTime
  NoWindow = NoWindow
  Nobody = Nobody
SPECIFICATION Spec
PROPERTY StopIsTerminal
CHECK_DEADLOCK FALSE

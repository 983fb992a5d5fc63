\* Two API threads, two workers, a crash.
CONSTANTS
  Threads = {t1, t2}
  Workers = {w1, w2}
  IngestIds = {i1, i2, i3}
  PurgeIds = {p1, p2}
  Poison = {i1}
  QueueMax = 1
  MaxRetries = 0
  MaxExpired = 0
  MaxAborts = 1
  NoJob = NoJob
SPECIFICATION Spec
INVARIANTS
  TypeOK ClaimExclusive QueueBound CallbackTruthful
PROPERTIES
  TerminalIsFinal
CHECK_DEADLOCK FALSE

\* One crash or failed purge, a poison job and expiring rows, in a fair system.
CONSTANTS
  Threads = {t1}
  Workers = {w1, w2}
  IngestIds = {i1, i2}
  PurgeIds = {p1, p2, p3, p4}
  Poison = {i1}
  QueueMax = 1
  MaxRetries = 1
  MaxExpired = 1
  MaxAborts = 1
  NoJob = NoJob
SPECIFICATION FairSpec
PROPERTIES FinishUnlessPoisoned PurgedUnlessStranded
CHECK_DEADLOCK FALSE

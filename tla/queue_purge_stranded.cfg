\* A worker dies once inside a purge job.
CONSTANTS
  Threads = {t1}
  Workers = {w1}
  IngestIds = {i1}
  PurgeIds = {p1, p2}
  Poison = {}
  QueueMax = 1
  MaxRetries = 0
  MaxExpired = 2
  MaxAborts = 1
  NoJob = NoJob
SPECIFICATION FairSpec
PROPERTY ExpiredRowsPurged
CHECK_DEADLOCK FALSE

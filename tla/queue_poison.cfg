\* One job always ends in a database error.
CONSTANTS
  Threads = {t1}
  Workers = {w1}
  IngestIds = {i1, i2}
  PurgeIds = {p1, p2}
  Poison = {i1}
  QueueMax = 1
  MaxRetries = 0
  MaxExpired = 0
  MaxAborts = 0
  NoJob = NoJob
SPECIFICATION FairSpec
PROPERTY AcceptedJobsFinish
CHECK_DEADLOCK FALSE

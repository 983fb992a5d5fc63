\* Two requests replace an expired row.
CONSTANTS
  Requests = {r1, r2, r3}
  Scopes = {a}
  TTL = 1
  MaxClock = 3
  MaxAborts = 1
  NoRow = NoRow
  NoTime = NoTime
  NoRequest = NoRequest
SPECIFICATION KeySpec
INVARIANT OneJobPerTTL
CHECK_DEADLOCK FALSE

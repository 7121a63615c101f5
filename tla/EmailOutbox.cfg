\* Two messages, a worker, and one request or resend at a time; calls may hold a message past its lease.
SPECIFICATION FairSpec
CONSTANTS
  Messages = {e1, e2}
  Workers = {w1}
  Requests = {r1}
  Limit = 2
  MaxAttempts = 2
  Lease = 1
  AttemptTime = 1
  Ttl = 2
  Retention = 3
  Backoff <- MCBackoff
  MaxCrashes = 1
INVARIANTS
  TypeOK
  TwiceOnlyIfLate
  NothingLost
PROPERTIES
  ImplementsLedger
  Settled

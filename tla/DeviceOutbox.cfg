\* Two people share a browser: a page and Background Sync, two scans.
SPECIFICATION Spec
CONSTANTS
  e1 = e1
  e2 = e2
  u1 = u1
  u2 = u2
  Events = {e1, e2}
  Users = {u1, u2}
  Owner <- MCOwner
  Pages = {p1}
  Syncs = {bg}
  MaxBatch = 2
  MaxFaults = 2
  Enrolled = {u1}
  Nobody = Nobody
INVARIANTS
  TypeOK
  
  ResultAsDecided
PROPERTIES
  Delivered
CHECK_DEADLOCK FALSE

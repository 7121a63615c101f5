\* Three calls at once on one booking: its booker and an administrator.
SPECIFICATION Spec
CONSTANTS
  MinuteLength = 1
  DayLength = 2
  WeekDays = 1
  Horizon = 2
  adm = adm
  m1 = m1
  m2 = m2
  h = h
  Persons = {adm, m1}
  Admins = {adm}
  Members = {m1}
  Staffable = {}
  FirstStaff <- MCNoStaff
  BookingIds = {b1}
  Calls = {c1, c2, c3}
  Handlers <- MCAllHandlers
  Policies <- MCPolicies
  Timetables <- MCTimetables
  Closures = {}
  Nobody = Nobody
  NoId = NoId
SYMMETRY Symmetry
INVARIANTS
  TypeOK
  AuditTrail
PROPERTIES
  AcceptedTimeIsProposed
  CutoffKept
  ImplementsLedger

\* One member with two tabs open, and an administrator.
SPECIFICATION Spec
CONSTANTS
  MinuteLength = 1
  DayLength = 3
  WeekDays = 1
  Horizon = 3
  adm = adm
  m1 = m1
  m2 = m2
  h = h
  Persons = {adm, m1}
  Admins = {adm}
  Members = {m1}
  Staffable = {}
  FirstStaff <- MCNoStaff
  BookingIds = {b1, b2}
  Calls = {c1, c2}
  Handlers = {"request", "approve", "propose", "accept", "attended"}
  Policies <- MCPolicies
  Timetables <- MCTimetables
  Closures = {}
  Nobody = Nobody
  NoId = NoId
SYMMETRY Symmetry
INVARIANTS
  OpenRequestLimit
  WeeklyCap

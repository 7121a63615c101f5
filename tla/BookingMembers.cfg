\* Two members and an administrator race for the slots of one day.
SPECIFICATION FairSpec
CONSTANTS
  MinuteLength = 1
  DayLength = 2
  WeekDays = 1
  Horizon = 2
  adm = adm
  m1 = m1
  m2 = m2
  h = h
  Persons = {adm, m1, m2}
  Admins = {adm}
  Members = {m1, m2}
  Staffable = {}
  FirstStaff <- MCNoStaff
  BookingIds = {b1, b2}
  Calls = {c1, c2}
  Handlers = {"request", "propose", "accept"}
  Policies <- MCPolicies
  Timetables <- MCTimetables
  Closures = {}
  Nobody = Nobody
  NoId = NoId
INVARIANTS
  NoDoubleBooking
PROPERTIES
  CallsEnd

\* A minute of two instants: requests with and without seconds, and the calendar, while settings change.
SPECIFICATION Spec
CONSTANTS
  MinuteLength = 2
  DayLength = 2
  WeekDays = 2
  Horizon = 8
  adm = adm
  m1 = m1
  m2 = m2
  h = h
  Persons = {adm, m1}
  Admins = {adm}
  Members = {m1}
  Staffable = {}
  FirstStaff <- MCNoStaff
  BookingIds = {b1}
  Calls = {c1}
  Handlers = {"request", "approve", "propose", "accept"}
  Policies <- MCChanging
  Timetables <- MCNewHours
  Closures <- MCClosures
  Nobody = Nobody
  NoId = NoId
INVARIANTS
  CalendarHonest

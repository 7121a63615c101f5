\* One request, while an administrator and a head change the lab's settings and staff.
SPECIFICATION Spec
CONSTANTS
  MinuteLength = 1
  DayLength = 2
  WeekDays = 2
  Horizon = 4
  adm = adm
  m1 = m1
  m2 = m2
  h = h
  Persons = {adm, h, m1}
  Admins = {adm}
  Members = {m1}
  Staffable = {h}
  FirstStaff <- MCOneHead
  BookingIds = {b1}
  Calls = {c1}
  Handlers = {"request", "approve", "propose", "accept"}
  Policies <- MCChanging
  Timetables <- MCNewHours
  Closures <- MCClosures
  Nobody = Nobody
  NoId = NoId
PROPERTIES
  AssistantNamed

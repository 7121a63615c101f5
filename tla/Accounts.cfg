\* Two super admins, and an address for which there may be a second row.
CONSTANTS
  Users = {a1, a2, u1, u2}
  FirstAdmins = {a1, a2}
  Mail <- MCMail
  Addresses <- MCAddresses
  Tokens = {t1, t2}
  Calls = {c1, c2}
  MaxCalls = 5
  None = None
SPECIFICATION Spec
SYMMETRY Symmetry
CHECK_DEADLOCK FALSE
INVARIANTS
  TypeOK
  AdminRemains
  PasswordIsOwners
  ErasedStays

\* One application and its reviewers; the program changes, uploads race and the store is reconciled.
CONSTANTS
  v1 = v1
  v2 = v2
  Applicants = {a1}
  Keys = {k1, k2}
  Values = {v1, v2}
  Forms <- MCForms
  Programs <- MCPrograms
  FirstProgram <- MCFirst
  Calls = {c1, c2}
  MaxRemovals = 1
  EmptyGuard = 1
  MajorityGuard = 3
  MaxCalls = 6
  None = None
SPECIFICATION Spec
SYMMETRY Symmetry
INVARIANTS
  TypeOK
  DocumentsStored
  FrozenIsFit
  TrailIsPath

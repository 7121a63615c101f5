\* Three people, two teams of at most two, two calls at work at a time.
CONSTANTS
  Persons = {p1, p2, p3}
  Teams = {t1, t2}
  Calls = {c1, c2}
  Sizes = {1, 2}
  Saves <- MCSaves
  MaxMoves = 3
  MaxCalls = 5
  None = None
SPECIFICATION Spec
SYMMETRY Symmetry
CHECK_DEADLOCK FALSE
INVARIANTS
  TypeOK
  OneLiveTeam
  LeaderOfTeam
  TeamSize
  VotesAreForSubmitted
PROPERTIES
  SubmittedKept

SPECIFICATION SessionSpec
CONSTANTS
  Process = {p1, p2}
  NumHuge = 2
  PerHuge = 2
  Bases = {4, 7}
  TlbEntries = 4
  Pins = {1, 4}
  MaxSessions = 2
  Word = 8
SYMMETRY Symmetry
INVARIANTS MappingIsBuffer TlbServesSession
PROPERTIES ReleaseGivesBackOwn
CHECK_DEADLOCK FALSE

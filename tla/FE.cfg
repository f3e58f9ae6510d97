SPECIFICATION PatientSpec
CONSTANTS
  w1 = w1
  w2 = w2
  s2 = s2
  Workers = {w1, w2}
  Sessions = {s1, s2}
  Prompts = {p1, p2}
  MaxQueue = 1
  Host <- MCHost
  None = None
INVARIANTS ShownResolves TakenOnce
SYMMETRY Symmetry
VIEW View
CHECK_DEADLOCK FALSE

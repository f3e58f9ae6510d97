SPECIFICATION Spec
CONSTANTS
  Permissions = {p1}
  Questions = {q1}
  Tasks = {k1}
  Knowledge = FALSE
INVARIANT ParkedWaitsForNobody
CHECK_DEADLOCK FALSE

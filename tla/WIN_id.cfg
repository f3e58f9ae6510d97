SPECIFICATION Spec
CONSTANTS
  Permissions = {p1}
  Questions = {q1}
  Tasks = {k1}
PROPERTY ResultReachesViewer
CHECK_DEADLOCK FALSE

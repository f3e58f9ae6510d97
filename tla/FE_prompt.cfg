SPECIFICATION Spec
CONSTANTS
  w1 = w1
  w2 = w2
  s2 = s2
  Workers = {w1}
  Sessions = {s1, s3}
  Prompts = {p1}
  MaxQueue = 2
  Host <- MCHost
  None = None
INVARIANTS PromptInItsSession
CHECK_DEADLOCK FALSE

SPECIFICATION MCSpec
CONSTANTS
  Permissions = {p1}
  Questions = {q1}
  Tasks = {k1}
  Knowledge = TRUE
  Consumers = {c1, c2, c3}
  MaxResults = 2
  None = None
INVARIANTS AgentsOneTurn ClaudeHidden ClaudeOneShot AgentsQuestions
PROPERTIES ClaudeTurnsEnd CodexBecomesIdle
CHECK_DEADLOCK FALSE

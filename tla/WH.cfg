SPECIFICATION MCSpec
CONSTANTS
  r1 = r1
  r2 = r2
  r3 = r3
  Reqs = {r1, r2, r3}
  Types = {projects, models}
  Background = {models}
  MaxPushes = 1
  MaxIds = 2
  MaxInbox = 1
  Items = {i1, i2, i3}
  Tools = {t1, t2}
  Texts = {x1, x2}
  MaxDocs = 2
  Calls = {c1, c2}
  Addins = {a1, a2, a3}
  Channels = {d1, d2}
  MaxWait = 3
  None = None
INVARIANTS OnlyStraysLackPanel OnlyCancelledLinger NoCrossTalk FoundIsSaid WaitsForListed NothingLeft
PROPERTIES ExactOnceEchoed RequestsSettle CredentialsAreRead SummaryIsExact
CHECK_DEADLOCK FALSE

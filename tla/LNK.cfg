SPECIFICATION MCSpec
CONSTANTS
  i3 = i3
  s1 = s1
  s2 = s2
  Sids = {s1, s2}
  Instances = {i1, i2, i3}
  SidOf <- MCSidOf
  Tasks = {t1, t2, t3}
  TTL = 2
  Workers = {w1, w2}
  Links = {l1, l2, l3}
  MaxLeaks = 1
  Ctrls = {k1, k2}
  Opens = {o1, o2}
  None = None
INVARIANTS TimersMatch RoutesMatchReaders RetriesAreKnown NoOrphanWaiter
PROPERTIES NeverEarly ParkedEnds AbandonedOnlyAfterFetch Reconnects TeardownCompletes StaleRejected OpensSettle
CHECK_DEADLOCK FALSE

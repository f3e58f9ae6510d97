SPECIFICATION FairSpec
CONSTANTS
  c1 = c1
  c2 = c2
  c3 = c3
  phone = phone
  laptop = laptop
  Conns = {c1, c3}
  Labels = {phone, laptop}
  Label <- MCLabel
  Sids = {s1, s2}
  OldSids = {}
  Instances = {i1, i2}
  Adopts = {"starting", "live"}
  NoSid = NoSid
  NoConn = NoConn
  NoInst = NoInst
INVARIANTS TypeOK RevokeDropsStopped LockOwnerOpen ViewerGetsStream
PROPERTIES LockLostProperly ImplementsLocks RequestsComplete

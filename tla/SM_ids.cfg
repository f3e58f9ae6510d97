SPECIFICATION OrderlySpec
CONSTANTS
  c1 = c1
  c2 = c2
  c3 = c3
  phone = phone
  laptop = laptop
  Conns = {c1, c3}
  Labels = {phone, laptop}
  Label <- MCLabel
  Sids = {s1, s2}
  OldSids = {}
  Instances = {i1, i2, i3}
  Adopts = {"live"}
  NoSid = NoSid
  NoConn = NoConn
  NoInst = NoInst
INVARIANT OneSessionPerId

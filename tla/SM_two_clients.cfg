SPECIFICATION AttentiveSpec
CONSTANTS
  c1 = c1
  c2 = c2
  c3 = c3
  phone = phone
  laptop = laptop
  Conns = {c1, c3}
  Labels = {phone, laptop}
  Label <- MCLabel
  Sids = {s1}
  OldSids = {s1}
  Instances = {i1, i2, i3}
  Adopts = {}
  NoSid = NoSid
  NoConn = NoConn
  NoInst = NoInst
INVARIANT OneSessionPerId

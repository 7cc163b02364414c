CONSTANTS
  c1 = c1
  c2 = c2
  c3 = c3
  p1 = p1
  own1 = own1
  in1 = in1
  in2 = in2
  me = me
  i1 = i1
  i2 = i2
  k1 = k1
  k2 = k2
  g1 = g1
  g2 = g2
  y1 = y1
  y2 = y2
  Resolved = Resolved
  None = None
  Calls <- MCCalls
  Sids = {own1, in1, in2}
  Identities = {me, i1, i2}
  PreKeys = {k1, k2}
  SignedKeys = {g1, g2}
  Kybers = {y1, y2}
  Id <- MCId
  Peers = {p1}
  LocalIdentity = me
  Bundles <- MCBundles
  Incoming <- MCIncoming
  SealedIncoming <- MCSealed
  OwnIds <- MCPublished
  Published <- MCPublished
  ReportsPreKey = FALSE
  Base = 4
  Prefix = 2
SPECIFICATION SealedSpec
SYMMETRY Symmetry
CHECK_DEADLOCK FALSE
INVARIANTS
  SealedOpensInSession

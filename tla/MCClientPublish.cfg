CONSTANTS
  c1 = c1
  c2 = c2
  c3 = c3
  c4 = c4
  p1 = p1
  own1 = own1
  own2 = own2
  in1 = in1
  in2 = in2
  in3 = in3
  me = me
  i1 = i1
  i2 = i2
  k1 = k1
  k2 = k2
  k3 = k3
  g1 = g1
  g2 = g2
  g3 = g3
  y1 = y1
  y2 = y2
  y3 = y3
  Resolved = Resolved
  None = None
  Calls <- Calls3
  Sids <- MCSids
  Identities <- MCIdentities
  PreKeys = {k1, k2, k3}
  SignedKeys = {g1, g2, g3}
  Kybers = {y1, y2, y3}
  Id <- MCId
  Peers = {p1}
  LocalIdentity = me
  Bundles <- OneBundle
  Incoming <- MCIncoming
  OwnIds <- BothBundles
  Published <- NoneYet
SPECIFICATION FairSpec
INVARIANTS
  ChainInv
  MutualExclusion
PROPERTIES
  OfferIsBacked
  ImplementsSerialQueue
  EveryOperationSettles
CHECK_DEADLOCK FALSE

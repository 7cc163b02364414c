CONSTANTS
  d1 = d1
  d2 = d2
  a1 = a1
  k1 = k1
  k2 = k2
  p1 = p1
  p2 = p2
  h1 = h1
  h2 = h2
  h3 = h3
  i1 = i1
  i2 = i2
  None = None
  Dbs = {d1, d2}
  Aliases = {a1}
  Alias <- MCAlias
  Keys = {k1, k2, p1, p2}
  ProviderKeys <- MCProviderKeys
  SchemaVersion = 2
  Statements <- MCStatements
  Handles = {h1, h2, h3}
  Inits = {i1, i2}
SPECIFICATION Spec
SYMMETRY Symmetry
INVARIANTS
  LifecycleInv
  KeyOpensFile
  OpenedIsMigrated
PROPERTIES
  ImplementsDatabaseFiles
  DowngradeIsHarmless
  IdentityIsForGood

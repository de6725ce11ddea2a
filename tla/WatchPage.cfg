SPECIFICATION PageSpec
CONSTANTS
  Ids = {i1, i2}
  Stamps = {t1}
  u1 = u1
  u1slash = u1slash
  u2 = u2
  Urls = {u1, u1slash, u2}
  Norm <- MCNorm
  None = None
  MaxRuns = 2
  Endpoint <- MCEndpoint
  MaxCalls = 2
INVARIANTS TypeOK UniqueEndpoint FormFitsRun
PROPERTY PageSettles

SPECIFICATION Spec
CONSTANTS
  Ids = {i1, i2}
  u1 = u1
  u1slash = u1slash
  u2 = u2
  Urls = {u1, u1slash, u2}
  Norm <- MCNorm
  Stored <- MCNorm
  Web = web
  Checkers = {cron}
  Overlap = "sections"
  Inodes = {n1, n2}
  NoFile = NoFile
  NoId = NoId
  NoDetail = NoDetail
  Mismatch = Mismatch
  Unlisted = Unlisted
  MaxClock = 1
INVARIANTS TypeOK IntactFile SafeWrites
PROPERTIES ImplementsCatalogue CheckKeepsListing
SYMMETRY Interchangeable

SPECIFICATION Spec
CONSTANTS
  Ids = {i1, i2}
  u1 = u1
  u1slash = u1slash
  u2 = u2
  Urls = {u1, u1slash, u2}
  Norm <- MCNorm
  Stored <- MCNorm
  Web = web
  Checkers = {cron}
  Overlap = "any"
  Inodes = {n1, n2, n3, n4}
  NoFile = NoFile
  NoId = NoId
  NoDetail = NoDetail
  Mismatch = Mismatch
  Unlisted = Unlisted
  MaxClock = 0
INVARIANT IntactFile

SPECIFICATION FairSpec
CONSTANTS
  id = id
  Ids = {id}
  MaxList = 3
  MinPage = 1
  Caps = {0, 2}
  None = None
  Blank = Blank
  Query = Query
  Probes = 2
  Shows <- MCShows
  Comply = TRUE
  MaxReported = 1
  RequireSchemas = TRUE
  MaxFailures = 0
  MaxWarnings = 0
INVARIANTS TypeOK PagingTransparent NothingLost CleanMeansWhole EligibleMeansConforming EveryQueryCounted
PROPERTY ValidationEnds

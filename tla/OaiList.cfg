SPECIFICATION FairSpec
CONSTANTS
  Size = 4
  Synthetic = 1
  PageSize = 2
  DayLength = 2
  MaxTime = 2
  Instants <- MCInstants
  Epoch <- MCEpoch
  None = None
  Absent = None
  Identifier <- MCIdentifier
  NoDate = NoDate
INVARIANTS TypeOK Complete Once OwnServerPasses
PROPERTIES TokenAccepted ListEnds

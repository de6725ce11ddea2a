SPECIFICATION FairSpec
CONSTANTS
  MaxExecs = 3
  None = None
  Blank = Blank
  Boom = Boom
  Messages = {Boom}
INVARIANTS TypeOK OneWorker EndsOnce IdentityFits CompleteHasReport FailedStepShown
PROPERTIES WorkerEnds DoneIsFinal ProgressNeverBack ImplementsJob

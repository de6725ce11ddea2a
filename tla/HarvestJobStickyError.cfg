SPECIFICATION Spec
CONSTANTS
  MaxExecs = 2
  None = None
  Blank = Blank
  Boom = Boom
  Messages = {Boom}
INVARIANT SuccessOffersRegistration

SPECIFICATION Spec
CONSTANTS
  h1 = h1
  h2 = h2
  s1 = s1
  Homes = {h1, h2}
  Syncs = {s1}
  MaxAge = 1
  Flight = 1
  MaxLists = 2
  None = None
INVARIANTS CacheWhole NeverTooOld
PROPERTIES CacheServes
SYMMETRY Alike

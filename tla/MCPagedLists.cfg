\* Three rows that come and go under a user who turns pages of one, two or ten.
SPECIFICATION Spec
CONSTANTS
  r1 = r1
  r2 = r2
  r3 = r3
  Rows <- ThreeRows
  Dates <- ThreeDates
  AskedPages <- FirstPage
  AskedSizes <- SmallSizes
  MaxPage = 4
SYMMETRY Alike
INVARIANTS
  TypeOK
  WalkMissesNothing
  QuietWalkIsExact

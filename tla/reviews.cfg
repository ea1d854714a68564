\* The stream of one platform and one audience, over three passes: more pages than
\* it takes to stop, and a ceiling of pages below them.
CONSTANTS
  r1 = r1
  r2 = r2
  r3 = r3
  r4 = r4
  r5 = r5
  r6 = r6
  None = None
  Review = {r1, r2, r3, r4, r5, r6}
  First <- MCFirst
  PageSize = 2
  Cap = 6
  MaxPages = 2
  Tolerance = 2
  MaxPass = 3
  MaxEdit = 1
  MaxRemove = 1

SPECIFICATION Spec
CHECK_DEADLOCK FALSE

INVARIANTS
  TypeOK
  NothingNewMissed

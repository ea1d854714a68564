\* Two workers may both be running a tick.  Three games over two pages, so that a
\* budget of two is spent over pages and phases and leaves a game out.
\* The date runs out, so a behaviour may stop: no deadlock check.
CHECK_DEADLOCK FALSE
SPECIFICATION Spec
CONSTANTS
  g1 = g1
  g2 = g2
  g3 = g3
  t1 = t1
  t2 = t2
  Game = {g1, g2, g3}
  LastDate = 1
  LastPage = 2
  Budget = 2
  MaxAttempts = 2
  Tick = {t1, t2}
CONSTRAINT OneItemMoves
SYMMETRY Symmetry
INVARIANTS
  TypeOK
  RunWithinBudget
  ClaimsDisjoint
  LeaseIffProcessing
  TriedBeforeFailed
  CountedClaimsExist

\* Pages and items over time: two ticks, two pages, and a budget that one game
\* does not use up, so that the source may fail after a page of claims.  The date
\* runs out, so a behaviour may stop: no deadlock check.
CHECK_DEADLOCK FALSE
SPECIFICATION FairSpec
CONSTANTS
  g1 = g1
  g2 = g2
  g3 = g3
  t1 = t1
  t2 = t2
  Game = {g1}
  LastDate = 1
  LastPage = 2
  Budget = 2
  MaxAttempts = 2
  Tick = {t1, t2}
INVARIANT NoPageSkipped
PROPERTY ItemsSettle

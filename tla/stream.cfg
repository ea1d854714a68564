\* One client that follows one run; a poll returns one row, and a client may be
\* two behind.  The sequence runs out, so a behaviour may stop: no deadlock check.
CHECK_DEADLOCK FALSE
SPECIFICATION FairSpec
CONSTANTS
  w1 = w1
  w2 = w2
  c1 = c1
  Writer = {w1, w2}
  Name = {"run", "other"}
  MaxId = 4
  Client = {c1}
  Follows <- MCFollows
  MaxClients = 1
  MaxBacklog = 2
  Limit = 1
INVARIANTS
  TypeOK
  OrderedOnce
  SlotsCounted
  OnlyLateMissed
PROPERTY Delivered

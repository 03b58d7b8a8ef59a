CONSTANTS
  t1 = t1
  t2 = t2
  k1 = k1
  k2 = k2
  w1 = w1
  w2 = w2
  Keys = {k1, k2}
  Txns = {t1}
  Readers = {r1}
  Workers = {w1}
  Mutations <- Alone
  BatchClients = {}
  ClientPolicy = {}
  LockTtl = 1
  HeartbeatTtl = 1
  ReadTtl = 0
  MayCrash = FALSE
  MaxBegin = 0
  MaxTime = 1
SPECIFICATION Spec
INVARIANTS
  AllOrNothing
CHECK_DEADLOCK FALSE

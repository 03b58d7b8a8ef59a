CONSTANTS
  t1 = t1
  t2 = t2
  k1 = k1
  k2 = k2
  w1 = w1
  w2 = w2
  Keys = {k1, k2}
  Txns = {t1, t2}
  Readers = {}
  Workers = {w1, w2}
  Mutations <- SpanAndSingle
  BatchClients = {}
  ClientPolicy = {}
  LockTtl = 0
  HeartbeatTtl = 1
  ReadTtl = 0
  MayCrash = FALSE
  MaxBegin = 0
  MaxTime = 0
SYMMETRY WorkerSymmetry
SPECIFICATION Spec
INVARIANTS
  NoLostUpdate
CHECK_DEADLOCK FALSE

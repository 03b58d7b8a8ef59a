CONSTANTS
  t1 = t1
  t2 = t2
  k1 = k1
  k2 = k2
  w1 = w1
  w2 = w2
  Keys = {k1, k2}
  Txns = {t1, t2}
  Readers = {r1}
  Workers = {w1}
  Mutations <- Deletes
  BatchClients = {t2}
  ClientPolicy = {"give_up", "late_rollback", "retry", "heartbeat", "status"}
  LockTtl = 1
  HeartbeatTtl = 2
  ReadTtl = 0
  MayCrash = FALSE
  MaxBegin = 0
  MaxTime = 2
SPECIFICATION LiveSpec
INVARIANTS
  NoLostUpdate
  SnapshotStable
  AbsentIsNotPrewritten
  PromptCommitsWhole
  SkippedWereRolledBack
PROPERTIES
  ReadsAreAnswered
CHECK_DEADLOCK FALSE

\* Three leaders, logs of three entries, two restarts.
CONSTANTS
  MaxTerm = 3
  MaxIndex = 3
  MaxAppends = 2
  MaxRestarts = 2
SPECIFICATION Spec
INVARIANTS LogIsContiguous HandedAreCommitted CommitIsCovered StoredFirstIsHanded FailsOnlyBeforeFirstCommit
CHECK_DEADLOCK FALSE

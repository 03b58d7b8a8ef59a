\* Two keys, of which one extends the other, and transactions on one key.
CONSTANTS
  Keys <- TwoKeys
  Workloads <- OneKeyPuts
  Scans <- NoScans
  MaxByte = 9
  MaxTs = 5
  MaxTxns = 3
  SplitKeys = 3
  SplitBytes = 12
SPECIFICATION Spec
INVARIANT NoLostVersionOfAnyKey
CHECK_DEADLOCK FALSE

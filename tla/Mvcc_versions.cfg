\* Three keys, of which two extend the first; transactions on one key and on two;
\* four timestamps, of which at most three are start timestamps.
CONSTANTS
  Keys <- ThreeKeys
  Workloads <- OneOrTwoKeys
  Scans <- FourScans
  MaxByte = 9
  MaxTs = 4
  MaxTxns = 3
  SplitKeys = 3
  SplitBytes = 12
SPECIFICATION Spec
INVARIANTS ReadsNewest SearchesAreExact NoLostVersion ScanIsExact SuggestionSplits
PROPERTIES RolledBackStaysOut GcKeepsReads GcKeepsVerdicts
CHECK_DEADLOCK FALSE

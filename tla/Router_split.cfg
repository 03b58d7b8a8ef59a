\* Two concurrent AskSplit handlers, four keys, up to four region ids.
CONSTANTS
  w1 = w1
  w2 = w2
  Workers = {w1, w2}
  MaxKey = 3
  MaxId = 4
SYMMETRY WorkerSymmetry
SPECIFICATION Spec
INVARIANTS TypeOK RoutedToOwner MapsAgree SplitHasRaftNode MedianSplits
PROPERTY EpochGrows

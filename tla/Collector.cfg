\* Two clients, a channel of one place, batches of two, up to three
\* submissions each.
CONSTANTS
  c1 = c1
  c2 = c2
  Clients = {c1, c2}
  Capacity = 1
  BatchSize = 2
  MaxTries = 3
SPECIFICATION LiveSpec
INVARIANTS NothingLost NoLatePrewrite
PROPERTIES SubmissionsEnd TasksEnd
CHECK_DEADLOCK FALSE

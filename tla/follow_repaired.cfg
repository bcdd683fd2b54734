SPECIFICATION FairSpec
CONSTANTS
  p1 = p1
  p2 = p2
  k1 = k1
  k2 = k2
  Pods = {p1}
  Writers = {p1}
  Readers = {p1}
  Keys = {k1}
  ReadKeys = {k1}
  RowSets = {{k1}}
  LostRowSets = {{k1}}
  Reconcilers = {"r"}
  ClearsMarks = FALSE
  PageSize = 1
  MaxHeard = 1
  MaxCommits = 2
  MaxFaults = 1
  MaxPending = 1
PROPERTIES
  StaleGoes

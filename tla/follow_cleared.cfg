SPECIFICATION Spec
CONSTANTS
  p1 = p1
  p2 = p2
  k1 = k1
  k2 = k2
  Pods = {p1, p2}
  Writers = {p1}
  Readers = {p2}
  Keys = {k1, k2}
  ReadKeys = {k1}
  RowSets = {{k1}, {k2}}
  LostRowSets = {}
  Reconcilers = {"r"}
  ClearsMarks = TRUE
  PageSize = 1
  MaxHeard = 1
  MaxCommits = 2
  MaxFaults = 1
  MaxPending = 1
INVARIANTS
  NoSilentMiss

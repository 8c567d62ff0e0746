\* Two loads and a retry that cleans the cache, one after another.
CONSTANTS
  First = c1
  Second = c2
  Third = c3
  A = A
  B = B
  None = None
  Calls = {c1, c2, c3}
  Models = {A, B}
  Asks <- CleanAsks
  Abortable = {}
SPECIFICATION SequentialSpec
INVARIANTS DeletesUnloaded
CHECK_DEADLOCK FALSE

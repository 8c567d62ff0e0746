\* A load, the deletion of all artifacts, and a switch to another model, one after another.
CONSTANTS
  First = c1
  Second = c2
  Third = c3
  A = A
  B = B
  None = None
  Calls = {c1, c2, c3}
  Models = {A, B}
  Asks <- ReloadAsks
  Abortable = {}
SPECIFICATION SequentialSpec
PROPERTIES LoadsOntoLiveWorker
CHECK_DEADLOCK FALSE

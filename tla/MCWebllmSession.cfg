\* Three calls, two models; the signals of the first and the third may be aborted.
CONSTANTS
  First = c1
  Second = c2
  Third = c3
  A = A
  B = B
  None = None
  Calls = {c1, c2, c3}
  Models = {A, B}
  Asks <- MCAsks
  Abortable = {c1, c3}
SPECIFICATION Spec
INVARIANTS SessionTypeOK NoLeakedWorker LoadedIsReal LoadPromiseLive
PROPERTIES ResolvedIsLoaded CallsSettle
\* Nothing happens once the calls have settled.
CHECK_DEADLOCK FALSE

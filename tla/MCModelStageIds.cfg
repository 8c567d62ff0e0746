\* One attempt that fails before it completes, then one that completes.
CONSTANTS
  MaxModelRetries = 1
  MaxToolRounds = 1
  DefaultToolRounds = 3
  Unlimited = Unlimited
  Protocols <- MCProtocols
SPECIFICATION Spec
INVARIANTS CompletionNamesItsAttempt
CHECK_DEADLOCK FALSE

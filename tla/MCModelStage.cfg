\* Three retries and two tool rounds: both budgets run out, alone and together,
\* and three failed attempts can leave their ids pending.
CONSTANTS
  MaxModelRetries = 3
  MaxToolRounds = 2
  DefaultToolRounds = 3
  Unlimited = Unlimited
  Protocols <- MCProtocols
SPECIFICATION Spec
INVARIANTS AttemptsPaidFor ConversationWellFormed EventsNameTheirAttempt LedgerHasEvidence
PROPERTIES StageSettles
\* A settled stage does nothing more.
CHECK_DEADLOCK FALSE

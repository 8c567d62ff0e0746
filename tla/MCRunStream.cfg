\* The two-stage workflow with up to three stages and two executor events: the
\* queue holds up to a whole run, and the consumer may leave at any event.
CONSTANTS
  Stages <- MCStages
  Fields <- MCFields
  Entry = "work"
  Exits = {"done"}
  Writes <- MCWrites
  Optional <- MCOptional
  Reads <- MCReads
  Transitions <- MCTransitions
  OutputsOf <- MCOutputs
  InputsOf <- MCInputs
  MaxSteps = 3
  NoStage = NoStage
  MaxDeltas = 2
SPECIFICATION StreamSpec
INVARIANTS NoLostWakeup QueueIsRest EndTellsOutcome
PROPERTIES LeavingCancels FeedSpec StreamEnds
\* A stream that has ended does nothing more.
CHECK_DEADLOCK FALSE

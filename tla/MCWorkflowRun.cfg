\* The writer/reviewer workflow, five stages at most: the review loop is taken
\* twice and the step limit is reached inside it.
CONSTANTS
  Stages <- MCStages
  Fields <- MCFields
  Entry = "draft"
  Exits = {"done"}
  Writes <- MCWrites
  Optional <- MCOptional
  Reads <- MCReads
  Transitions <- MCTransitions
  OutputsOf <- MCOutputs
  InputsOf <- MCInputs
  MaxSteps = 5
  NoStage = NoStage
SPECIFICATION Spec
INVARIANTS TypeOK OutcomeAgrees RecorderFinalized StepBudget ExecutesReady NoEmptyOptionalList
PROPERTIES EventOrder AbortStops Settles
\* A settled run does nothing more.
CHECK_DEADLOCK FALSE

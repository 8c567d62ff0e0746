\* Two calls of the stage: every policy outcome, refusal, tool failure and sink
\* failure in the first, and a second call that follows it.
CONSTANTS
  Capabilities = {"write", "lint", "confirm", "audit"}
  Confirm = "confirm"
  Visible = {"write", "lint", "confirm"}
  Checked = {"write", "lint"}
  Policies <- MCPolicies
  Tapes <- MCTapes
  MaxCalls = 2
SPECIFICATION Spec
INVARIANTS GateTypeOK HandlerAuthorized DenialOnRecord OutcomeOnRecord
PROPERTIES CallSettles
\* A stage that has made its calls does nothing more here.
CHECK_DEADLOCK FALSE

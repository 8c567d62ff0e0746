\* One call of each tool, with a signal that may have fired before.
SPECIFICATION Spec
INVARIANTS NothingOutlivesAbort
PROPERTIES SandboxIsOneShot OneAnswerDecides JsRunIsOneShot
\* Both calls settle and nothing follows.
CHECK_DEADLOCK FALSE

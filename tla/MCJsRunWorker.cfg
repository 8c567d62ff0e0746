\* One call of each tool: is the worker of browser.js.run gone once its call has settled?
SPECIFICATION Spec
INVARIANTS WorkerEndsWithCall
CHECK_DEADLOCK FALSE

----------------------------- MODULE RunScript ------------------------------
(***************************************************************************)
(* What one run says to its recorder.  WorkflowRuntime.run, callTool and   *)
(* ModelStageExecutor call the hooks of the recorder at their boundaries   *)
(* and emit events the recorder observes; each step below is the stretch   *)
(* between two answers of the outside world (a model, a tool, a policy's   *)
(* condition, the caller's signal) and gives the calls it makes, in order. *)
(* A live run and a taped replay take the same steps: they differ in who   *)
(* answers.                                                                *)
(***************************************************************************)
EXTENDS Naturals, Sequences

CONSTANTS
  ModelStages,   \* stages a model executes
  ToolStages,    \* stages that call their capability
  Entry, Exits,  \* the entry stage and the exit stages
  Edges,         \* [ModelStages \cup ToolStages -> SUBSET stages]: transitions
  MaxRetries     \* the executor's retries per stage visit

Stages == ModelStages \cup ToolStages
None == "none"

ASSUME ScriptAssumption ==
  /\ Entry \in Stages /\ Exits \subseteq Stages /\ None \notin Stages
  /\ ModelStages \cap ToolStages = {}
  /\ Edges \in [Stages -> SUBSET Stages]
  /\ MaxRetries \in Nat

Blank == [call |-> None, kind |-> None, stage |-> None, to |-> None,
          denied |-> FALSE, content |-> "plain", body |-> None]
Hook(call, body) == [Blank EXCEPT !.call = call, !.body = body]
Event(kind, stage) == [Blank EXCEPT !.call = "event", !.kind = kind, !.stage = stage]

\* A step: where the run is then, and the calls on the recorder.
Step(run, calls) == [run |-> run, calls |-> calls]

\* run: beginRun, recordRunInputs, run_started.
BeginRun ==
  Step([at |-> "next", stage |-> Entry, retries |-> 0, out |-> None],
       <<Hook("begin_run", None), Hook("run_inputs", None), Event("run_started", None)>>)

\* The top of the loop: the next visit begins.
StartStage(run) ==
  Step([run EXCEPT !.at = IF run.stage \in ModelStages THEN "ask" ELSE "gate", !.retries = 0],
       <<[Hook("stage_visit", None) EXCEPT !.stage = run.stage], Event("stage_started", run.stage)>>)

Failing(run, calls) == Step([run EXCEPT !.at = "failing"], calls)

\* A correctable failure of the model's output: another attempt, or the end.
Retry(run, calls) ==
  IF run.retries < MaxRetries
    THEN Step([run EXCEPT !.at = "ask", !.retries = @ + 1],
              Append(calls, Event("model_retry", run.stage)))
    ELSE Failing(run, calls)

\* One attempt.  The model gives a final output, one that is not valid, a tool
\* call, or no response at all: a stream that ends before its completed chunk, an
\* adapter that cannot parse what the model wrote.  A provider's error ends the run.
Ask(run, answer) ==
  LET asked == <<Hook("model_call", None), Hook("model_request", None)>>
      told  == asked \o <<[Hook("model_response", answer.class) EXCEPT !.to = answer.to],
                          Event("model_completed", run.stage)>>
  IN  CASE answer.class = "final"   -> Step([run EXCEPT !.at = "done", !.out = answer.to], told)
        [] answer.class = "invalid" -> Retry(run, told)
        [] answer.class = "tool"    -> Step([run EXCEPT !.at = "gate"], told)
        [] answer.class = "silent"  -> Retry(run, Append(asked, Event("model_delta", run.stage)))
        [] answer.class = "error"   -> Failing(run, asked)

\* A tool call that fails or is denied: the model hears of it and is asked again;
\* a stage that is its tool call fails.
ToolFails(run, calls) ==
  IF run.stage \in ModelStages
    THEN Step([run EXCEPT !.at = "ask"], Append(calls, Event("model_retry", run.stage)))
    ELSE Failing(run, calls)

\* The deny policy of the called capability.  A condition whose data is not
\* available is recorded as denied, and fails the run with no policy_denied event.
Gate(run, verdict) ==
  LET denied == verdict # "allowed"
      checked == <<[Event("policy_checked", run.stage) EXCEPT !.denied = denied],
                   Hook("policy_evaluation", IF denied THEN "denied" ELSE "allowed")>>
  IN  CASE verdict = "allowed" -> Step([run EXCEPT !.at = "call"], checked)
        [] verdict = "denied"  -> ToolFails(run, Append(checked, Event("policy_denied", run.stage)))
        [] verdict = "unavailable" -> Failing(run, checked)

\* The tool call.  `content` says where its arguments hold a secret: nowhere, in
\* a value, or in a name.
CallTool(run, result, content) ==
  LET started == <<Hook("tool_call", None),
                   [Event("tool_call_started", run.stage) EXCEPT !.content = content]>>
  IN  IF result.class = "ok"
        THEN Step([run EXCEPT !.at = IF run.stage \in ModelStages THEN "ask" ELSE "done",
                              !.out = result.to],
                  started \o <<[Hook("tool_result", "ok") EXCEPT !.to = result.to],
                               Event("tool_call_completed", run.stage)>>)
        ELSE ToolFails(run, started \o <<Hook("tool_error", "error"),
                                         Event("tool_call_failed", run.stage)>>)

\* The visit ends: the run completes, or the output selects the next stage.
CompleteStage(run) ==
  LET completed == [Event("stage_completed", run.stage) EXCEPT !.to = run.out]
  IN  IF run.stage \in Exits
        THEN Step([run EXCEPT !.at = "complete"], <<completed, Event("run_completed", None)>>)
        ELSE Step([run EXCEPT !.at = "next", !.stage = run.out],
                  <<completed, Hook("transition_evaluation", None),
                    [Event("transition_selected", run.stage) EXCEPT !.to = run.out]>>)

\* run's catch: an aborted run ends with no event.
Fail(run, aborted) ==
  IF aborted THEN Step([run EXCEPT !.at = "interrupted"], <<>>)
  ELSE Step([run EXCEPT !.at = "failed"], <<Hook("run_error", None), Event("run_failed", None)>>)

Ended == {"complete", "failed", "interrupted"}

\* What the outside world may answer.
Answers(stage) ==
  [class : {"final"}, to : IF stage \in Exits THEN {None} ELSE Edges[stage]]
    \cup [class : {"invalid", "tool", "silent", "error"}, to : {None}]
Results(stage) ==
  [class : {"ok"}, to : IF stage \in ModelStages \cup Exits THEN {None} ELSE Edges[stage]]
    \cup [class : {"error"}, to : {None}]
Verdicts == {"allowed", "denied", "unavailable"}
Contents == {"plain", "value", "name"}
=============================================================================

---------------------------- MODULE WorkflowRun ----------------------------
(***************************************************************************)
(* One call of WorkflowRuntime.run (runtime.ts): the stage loop, the       *)
(* events it emits, and the life cycle of the trace recorder it was given. *)
(*                                                                         *)
(* run is one asynchronous function.  Between two awaits nothing else      *)
(* happens, so an action here is the code from one await to the next, and  *)
(* `phase` names the await the run is suspended at: an event's sink, the   *)
(* stage executor, or the recorder's finishRun.  While it is suspended the *)
(* caller may abort its signal.                                            *)
(***************************************************************************)
EXTENDS Naturals, Sequences, FiniteSets

CONSTANTS
  Stages,        \* stage ids of the manifest
  Fields,        \* names of output fields and of run inputs
  Entry,         \* entryStageId
  Exits,         \* exitStageIds
  Writes,        \* [Stages -> [declared field -> write type]]
  Optional,      \* [Stages -> the declared fields that are optional]
  Reads,         \* [Stages -> refs of the required reads]
  Transitions,   \* [Stages -> sequence of [to, priority, guard]]
  OutputsOf,     \* [Stages -> outputs the stage's executor may return]
  InputsOf,      \* inputs run may be called with
  MaxSteps,      \* options.maxSteps
  NoStage        \* stageId of an event that has none

(***************************************************************************)
(* A value is abstracted to what validation, normalization and the guards  *)
(* tell apart: undefined, null, a non-empty and an empty string, a         *)
(* non-empty and an empty list, a number.                                  *)
(***************************************************************************)
Values == {"absent", "null", "text", "blank", "list", "no_items", "number"}
Nullish == {"absent", "null"}
Types == {"string", "string[]", "number", "json"}
Output == [Fields -> Values]

\* A ref is an input field or a field of a stage's output.
InputNode == "input"
Refs == [node : Stages \cup {InputNode}, field : Fields]
Guards == [kind : {"always", "has_value", "missing", "eq", "if"}, ref : Refs]
TransitionSpec == [to : Stages, priority : Nat, guard : Guards]

ASSUME ManifestAssumption ==
  /\ Entry \in Stages
  /\ Exits \subseteq Stages
  /\ InputNode \notin Stages
  /\ NoStage \notin Stages
  /\ \A s \in Stages : /\ DOMAIN Writes[s] \subseteq Fields
                       /\ \A f \in DOMAIN Writes[s] : Writes[s][f] \in Types
                       /\ Optional[s] \subseteq DOMAIN Writes[s]
                       /\ Reads[s] \subseteq Refs
                       /\ Transitions[s] \in Seq(TransitionSpec)
                       /\ OutputsOf[s] \subseteq Output
  /\ InputsOf \subseteq Output

ASSUME MaxStepsAssumption == MaxSteps \in Nat

VARIABLES
  inputs,        \* the inputs run was called with
  aborted,       \* options.signal.aborted
  phase,         \* the await the run is suspended at, or how it settled
  current,       \* currentId
  selected,      \* selected.to, from selectTransition to the next iteration
  steps,
  stageOutputs,  \* a stage that has not completed reads as undefined
  event,         \* the event emitted last
  cause,         \* the error that ended the loop
  thrown,        \* the error run rejected with
  begun,         \* TraceRecorder.begun
  finished,      \* TraceRecorder.finished
  status,        \* the status finishRun was called with
  overflow       \* TraceRecorder.eventLimitExceeded

recorder == <<begun, finished, status, overflow>>
vars == <<inputs, aborted, phase, current, selected, steps, stageOutputs,
          event, cause, thrown, recorder>>

-----------------------------------------------------------------------------
(* Refs, guards and transitions *)

Resolve(ref, outs) ==
  IF ref.node = InputNode THEN inputs[ref.field] ELSE outs[ref.node][ref.field]

\* resolveReads throws when a required read is null or undefined.
ReadsAvailable(s, outs) == \A r \in Reads[s] : Resolve(r, outs) \notin Nullish

\* A ref under `if` is converted with Boolean(); an empty list is truthy.
Truthy(v) == v \notin Nullish \cup {"blank"}

\* eq compares with a string literal and rejects a number operand.
GuardThrows(g, outs) == g.kind = "eq" /\ Resolve(g.ref, outs) = "number"

GuardHolds(g, outs) ==
  \/ g.kind = "always"
  \/ g.kind = "has_value" /\ Resolve(g.ref, outs) \notin Nullish
  \/ g.kind = "missing"   /\ Resolve(g.ref, outs) \in Nullish
  \/ g.kind = "eq"        /\ Resolve(g.ref, outs) = "text"
  \/ g.kind = "if"        /\ Truthy(Resolve(g.ref, outs))

\* The order of the stable sort by priority.
Precedes(ts, i, j) ==
  \/ ts[i].priority < ts[j].priority
  \/ ts[i].priority = ts[j].priority /\ i < j

\* The transition at which selectTransition stops: the first, in that order,
\* whose guard holds or throws.
StopsAt(s, i, outs) ==
  LET ts == Transitions[s]
      Stops(k) == GuardThrows(ts[k].guard, outs) \/ GuardHolds(ts[k].guard, outs)
  IN  /\ Stops(i)
      /\ \A j \in DOMAIN ts : Stops(j) => j = i \/ Precedes(ts, i, j)

-----------------------------------------------------------------------------
(* Stage outputs *)

HasType(v, t) ==
  CASE t = "string"   -> v \in {"text", "blank"}
    [] t = "string[]" -> v \in {"list", "no_items"}
    [] t = "number"   -> v = "number"
    [] t = "json"     -> TRUE

\* validateOutput: no unknown field, every required field present (null is a
\* value for json), every value of its declared type.
ValidOutput(s, out) ==
  /\ \A f \in Fields \ DOMAIN Writes[s] : out[f] = "absent"
  /\ \A f \in DOMAIN Writes[s] :
       IF out[f] \in Nullish
         THEN f \in Optional[s] \/ (out[f] = "null" /\ Writes[s][f] = "json")
         ELSE HasType(out[f], Writes[s][f])

\* Mutant: empty lists are stored as they come.
NormalizeNothing(s, out) == out

\* normalizeOptionalEmptyArrays
Normalize(s, out) ==
  [f \in Fields |->
     IF f \in Optional[s] /\ Writes[s][f] = "string[]" /\ out[f] = "no_items"
       THEN "null" ELSE out[f]]

-----------------------------------------------------------------------------
(* Events and the recorder *)

Event(kind, stage) == [kind |-> kind, stage |-> stage]
NoEvent == Event("none", NoStage)

\* emit hands the event to the observer first; the observer's failures are
\* swallowed.  The recorder's event budget may run out at any record.
Observe == overflow' \in {overflow, TRUE}

Emit(kind, stage) ==
  /\ event' = Event(kind, stage)
  /\ phase' = kind
  /\ Observe
  /\ UNCHANGED <<begun, finished, status>>

\* Mutant: finishRun is given the phase instead of a status.
CallFinishRunWithPhase(s) ==
  /\ phase' = "finishing"
  /\ status' = phase
  /\ finished' = ~overflow
  /\ UNCHANGED <<begun, overflow, event>>

\* finishRun up to its first await: it throws before marking the recorder
\* finished when the event budget was exceeded.
CallFinishRun(s) ==
  /\ phase' = "finishing"
  /\ status' = s
  /\ finished' = ~overflow
  /\ UNCHANGED <<begun, overflow, event>>

\* Mutant: an aborted run rejects without finalizing its trace.
FailAbandoningTrace(e) ==
  /\ cause' = e
  /\ IF aborted THEN phase' = "rejected" /\ thrown' = e /\ UNCHANGED <<event, recorder>>
                ELSE Emit("run_failed", NoStage) /\ UNCHANGED thrown

\* The catch clause of run up to its first await.
Fail(e) ==
  /\ cause' = e
  /\ IF aborted THEN CallFinishRun("interrupted") ELSE Emit("run_failed", NoStage)
  /\ UNCHANGED thrown

Settle(how, e) == phase' = how /\ thrown' = e

\* Mutant: the step limit is off by one.
IterateOffByOne(s) ==
  \/ /\ steps > MaxSteps \/ aborted
     /\ Fail(IF aborted THEN "cancelled" ELSE "max_steps")
  \/ /\ steps <= MaxSteps /\ ~aborted
     /\ IF ReadsAvailable(s, stageOutputs)
          THEN Emit("stage_started", s) /\ UNCHANGED <<cause, thrown>>
          ELSE Fail("data_unavailable")

\* Mutant: required reads are not checked.
IterateUnchecked(s) ==
  IF steps >= MaxSteps \/ aborted
    THEN Fail(IF steps >= MaxSteps THEN "max_steps" ELSE "cancelled")
    ELSE Emit("stage_started", s) /\ UNCHANGED <<cause, thrown>>

\* Mutant: the signal is not polled between stages.
IterateDeaf(s) ==
  IF steps >= MaxSteps THEN Fail("max_steps")
  ELSE IF ~ReadsAvailable(s, stageOutputs) THEN Fail("data_unavailable")
  ELSE Emit("stage_started", s) /\ UNCHANGED <<cause, thrown>>

\* The top of the loop for stage s: limits, reads, visit, stage_started.
Iterate(s) ==
  \/ /\ steps >= MaxSteps
     /\ Fail("max_steps")
  \/ /\ steps < MaxSteps /\ aborted
     /\ Fail("cancelled")
  \/ /\ steps < MaxSteps /\ ~aborted
     /\ ~ReadsAvailable(s, stageOutputs)
     /\ Fail("data_unavailable")
  \/ /\ steps < MaxSteps /\ ~aborted
     /\ ReadsAvailable(s, stageOutputs)
     /\ Emit("stage_started", s)
     /\ UNCHANGED <<cause, thrown>>

-----------------------------------------------------------------------------
Init ==
  /\ inputs \in InputsOf
  /\ aborted \in BOOLEAN
  /\ phase = "called"
  /\ current = Entry
  /\ selected = NoStage
  /\ steps = 0
  /\ stageOutputs = [s \in Stages |-> [f \in Fields |-> "absent"]]
  /\ event = NoEvent
  /\ cause = "none" /\ thrown = "none"
  /\ begun \in BOOLEAN            \* TRUE: the recorder served an earlier run
  /\ finished = FALSE
  /\ status = "none"
  /\ overflow = FALSE

\* options.signal is aborted by its owner at any time.
Abort ==
  /\ ~aborted
  /\ aborted' = TRUE
  /\ UNCHANGED <<inputs, phase, current, selected, steps, stageOutputs, event,
                 cause, thrown, recorder>>

\* beginRun, recordRunInputs and run_started stand before the try: beginRun
\* refuses a used recorder, recordRunInputs may refuse the inputs.
Begin ==
  /\ phase = "called"
  /\ \/ begun /\ Settle("rejected", "recorder") /\ UNCHANGED <<event, recorder>>
     \/ /\ ~begun /\ begun' = TRUE
        /\ \/ Settle("rejected", "recorder") /\ UNCHANGED <<event, finished, status, overflow>>
           \/ /\ event' = Event("run_started", NoStage)
              /\ phase' = "run_started"
              /\ Observe
              /\ UNCHANGED <<thrown, finished, status>>
  /\ UNCHANGED <<inputs, aborted, current, selected, steps, stageOutputs, cause>>

RunStartedDelivered ==
  /\ phase = "run_started"
  /\ Iterate(current)
  /\ UNCHANGED <<inputs, aborted, current, selected, steps, stageOutputs>>

\* A sink that fails on run_started rejects run outside the try.
RunStartedFails ==
  /\ phase = "run_started"
  /\ Settle("rejected", "sink")
  /\ UNCHANGED <<inputs, aborted, current, selected, steps, stageOutputs, event,
                 cause, recorder>>

StageStartedDelivered ==
  /\ phase = "stage_started"
  /\ phase' = "executing"
  /\ UNCHANGED <<inputs, aborted, current, selected, steps, stageOutputs, event,
                 cause, thrown, recorder>>

\* The executor emits events of its own, which count against the budget too.
ExecutorEmits ==
  /\ phase = "executing" /\ ~overflow
  /\ overflow' = TRUE
  /\ UNCHANGED <<inputs, aborted, phase, current, selected, steps, stageOutputs,
                 event, cause, thrown, begun, finished, status>>

\* Mutant: a completed stage is not counted.
ExecuteReturnsUncounted(out) ==
  /\ phase = "executing"
  /\ out \in OutputsOf[current]
  /\ IF ValidOutput(current, out)
       THEN /\ stageOutputs' = [stageOutputs EXCEPT ![current] = Normalize(current, out)]
            /\ Emit("stage_completed", current)
            /\ UNCHANGED <<cause, thrown>>
       ELSE Fail("invalid_output") /\ UNCHANGED stageOutputs
  /\ UNCHANGED <<inputs, aborted, current, selected, steps>>

ExecuteReturns(out) ==
  /\ phase = "executing"
  /\ out \in OutputsOf[current]
  /\ IF ValidOutput(current, out)
       THEN /\ stageOutputs' = [stageOutputs EXCEPT ![current] = Normalize(current, out)]
            /\ steps' = steps + 1
            /\ Emit("stage_completed", current)
            /\ UNCHANGED <<cause, thrown>>
       ELSE Fail("invalid_output") /\ UNCHANGED <<steps, stageOutputs>>
  /\ UNCHANGED <<inputs, aborted, current, selected>>

ExecuteThrows ==
  /\ phase = "executing"
  /\ Fail("executor")
  /\ UNCHANGED <<inputs, aborted, current, selected, steps, stageOutputs>>

\* An exit stage completes the run; any other stage selects its transition.
StageCompletedDelivered ==
  /\ phase = "stage_completed"
  /\ \/ /\ current \in Exits
        /\ Emit("run_completed", NoStage)
        /\ UNCHANGED <<cause, thrown, selected>>
     \/ /\ current \notin Exits
        /\ \E i \in DOMAIN Transitions[current] :
             LET t == Transitions[current][i] IN
             /\ StopsAt(current, i, stageOutputs)
             /\ IF GuardThrows(t.guard, stageOutputs)
                  THEN Fail("guard") /\ UNCHANGED selected
                  ELSE /\ selected' = t.to
                       /\ Emit("transition_selected", current)
                       /\ UNCHANGED <<cause, thrown>>
     \/ /\ current \notin Exits
        /\ ~\E i \in DOMAIN Transitions[current] : StopsAt(current, i, stageOutputs)
        /\ Fail("no_transition")
        /\ UNCHANGED selected
  /\ UNCHANGED <<inputs, aborted, current, steps, stageOutputs>>

\* Mutant: the next iteration runs the stage the run came from.
TransitionSelectedStale ==
  /\ phase = "transition_selected"
  /\ current' = selected
  /\ selected' = NoStage
  /\ Iterate(current)
  /\ UNCHANGED <<inputs, aborted, steps, stageOutputs>>

TransitionSelectedDelivered ==
  /\ phase = "transition_selected"
  /\ current' = selected
  /\ selected' = NoStage
  /\ Iterate(selected)
  /\ UNCHANGED <<inputs, aborted, steps, stageOutputs>>

\* A sink failure inside the try is an error of the run like any other, also
\* on run_completed: `finalized` is set only after that event is delivered.
SinkFails ==
  /\ phase \in {"stage_started", "stage_completed", "transition_selected", "run_completed"}
  /\ Fail("sink")
  /\ UNCHANGED <<inputs, aborted, current, selected, steps, stageOutputs>>

RunCompletedDelivered ==
  /\ phase = "run_completed"
  /\ CallFinishRun("complete")
  /\ UNCHANGED <<inputs, aborted, current, selected, steps, stageOutputs, cause, thrown>>

RunFailedDelivered ==
  /\ phase = "run_failed"
  /\ CallFinishRun("failed")
  /\ UNCHANGED <<inputs, aborted, current, selected, steps, stageOutputs, cause, thrown>>

\* A sink that fails on run_failed leaves the catch clause at once.
RunFailedFails ==
  /\ phase = "run_failed"
  /\ Settle("rejected", "sink")
  /\ UNCHANGED <<inputs, aborted, current, selected, steps, stageOutputs, event,
                 cause, recorder>>

\* finishRun settles: the archive is built, or building or scanning it throws.
FinishRunReturns ==
  /\ phase = "finishing" /\ finished
  /\ IF status = "complete" THEN Settle("resolved", "none") ELSE Settle("rejected", cause)
  /\ UNCHANGED <<inputs, aborted, current, selected, steps, stageOutputs, event,
                 cause, recorder>>

\* Mutant: a failed finalization of a completed run enters the catch clause.
FinishRunThrowsTwice ==
  /\ phase = "finishing"
  /\ IF status = "complete"
       THEN Fail("sink")
       ELSE /\ Settle("rejected", IF status = "interrupted" THEN cause ELSE "trace")
            /\ UNCHANGED <<event, cause, recorder>>
  /\ UNCHANGED <<inputs, aborted, current, selected, steps, stageOutputs>>

\* An interrupted run swallows the failure and rejects with the original error.
FinishRunThrows ==
  /\ phase = "finishing"
  /\ Settle("rejected", IF status = "interrupted" THEN cause ELSE "trace")
  /\ UNCHANGED <<inputs, aborted, current, selected, steps, stageOutputs, event,
                 cause, recorder>>

RunStep ==
  \/ Begin
  \/ RunStartedDelivered \/ RunStartedFails
  \/ StageStartedDelivered
  \/ (\E out \in UNION {OutputsOf[s] : s \in Stages} : ExecuteReturns(out))
  \/ ExecuteThrows \/ ExecutorEmits
  \/ StageCompletedDelivered
  \/ TransitionSelectedDelivered
  \/ SinkFails
  \/ RunCompletedDelivered
  \/ RunFailedDelivered \/ RunFailedFails
  \/ FinishRunReturns \/ FinishRunThrows

Next == RunStep \/ Abort

\* Sinks, executors and the recorder settle their promises: without that no
\* caller of run makes progress.  Nobody is obliged to abort.
Spec == Init /\ [][Next]_vars /\ WF_vars(RunStep)
-----------------------------------------------------------------------------
(* Properties *)

Causes == {"none", "max_steps", "cancelled", "data_unavailable", "executor",
           "invalid_output", "no_transition", "guard", "sink"}

\* Every variable keeps its type.
TypeOK ==
  /\ inputs \in Output
  /\ aborted \in BOOLEAN
  /\ phase \in {"called", "run_started", "stage_started", "executing",
                "stage_completed", "transition_selected", "run_completed",
                "run_failed", "finishing", "resolved", "rejected"}
  /\ current \in Stages
  /\ selected \in Stages \cup {NoStage}
  /\ steps \in Nat
  /\ stageOutputs \in [Stages -> Output]
  /\ event \in [kind : {"none", "run_started", "stage_started", "stage_completed",
                        "transition_selected", "run_completed", "run_failed"},
                stage : Stages \cup {NoStage}]
  /\ cause \in Causes
  /\ thrown \in Causes \cup {"recorder", "trace"}
  /\ begun \in BOOLEAN /\ finished \in BOOLEAN /\ overflow \in BOOLEAN
  /\ status \in {"none", "complete", "failed", "interrupted"}

\* What the caller, the event consumer and the trace are told of a run agree:
\* a resolved run ended in an exit stage, its last event is run_completed and its
\* trace is a finished "complete" one; a "failed" trace belongs to a run whose last
\* event is run_failed; an "interrupted" one to an aborted run that emitted no
\* run_failed and rejects with the error that stopped it.
OutcomeAgrees ==
  /\ phase = "resolved" => status = "complete" /\ finished /\ current \in Exits
  /\ status = "complete" => event.kind = "run_completed" /\ cause = "none"
  /\ status = "failed" => event.kind = "run_failed" /\ cause # "none"
  /\ status = "interrupted" =>
       /\ aborted /\ cause # "none" /\ event.kind # "run_failed"
       /\ phase = "rejected" => thrown = cause

\* A run that settles has called finishRun, unless the recorder refused to begin
\* or the sink failed on run_started or on run_failed; after those two the trace
\* is left open.
RecorderFinalized ==
  phase \in {"resolved", "rejected"} /\ status = "none" =>
    \/ thrown = "recorder" /\ event = NoEvent
    \/ thrown = "sink" /\ event.kind \in {"run_started", "run_failed"}

\* maxSteps stages at most are executed, and the run is failed for exceeding
\* maxSteps only once that many have completed.
StepBudget ==
  /\ steps <= MaxSteps
  /\ phase \in {"stage_started", "executing"} => steps < MaxSteps
  /\ cause = "max_steps" => steps = MaxSteps

\* A stage that executes has every required read of its own, not of the stage
\* before it.
ExecutesReady ==
  phase \in {"stage_started", "executing"} => ReadsAvailable(current, stageOutputs)

\* No optional array is ever stored empty: has_value guards and optional reads
\* never take "the model had no items" for a value.
NoEmptyOptionalList ==
  \A s \in Stages : \A f \in Optional[s] :
    Writes[s][f] = "string[]" => stageOutputs[s][f] # "no_items"

Follows(a, b) ==
  CASE b.kind = "run_started" -> a.kind = "none"
    [] b.kind = "stage_started" ->
         \/ a.kind = "run_started" /\ b.stage = Entry
         \/ /\ a.kind = "transition_selected"
            /\ \E i \in DOMAIN Transitions[a.stage] : Transitions[a.stage][i].to = b.stage
    [] b.kind = "stage_completed" -> a = Event("stage_started", b.stage)
    [] b.kind = "transition_selected" -> a = Event("stage_completed", b.stage)
    [] b.kind = "run_completed" -> a.kind = "stage_completed" /\ a.stage \in Exits
    [] b.kind = "run_failed" -> a.kind \notin {"none", "run_failed"}
    [] OTHER -> FALSE

\* The events of a run come in the order of its path through the manifest, and
\* nothing follows run_failed; run_completed is followed only by the run_failed
\* of a run whose sink failed on it.
EventOrder ==
  [][event' # event => /\ Follows(event, event')
                       /\ event.kind = "run_completed" => cause' = "sink"]_vars

\* Once the signal is aborted the run starts no stage and reports no failure:
\* it either completes the exit stage it is in or is interrupted.
AbortStops ==
  [][aborted /\ event' # event => event'.kind \notin {"stage_started", "run_failed"}]_vars

\* Every run settles, also in a manifest whose transitions form a cycle.
Settles == <>(phase \in {"resolved", "rejected"})
=============================================================================

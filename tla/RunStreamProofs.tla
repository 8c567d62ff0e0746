-------------------------- MODULE RunStreamProofs --------------------------
(***************************************************************************)
(* Proofs about WorkflowRun, and about RunStream, which is a WorkflowRun   *)
(* with a consumer: the generator delivers the events of the run it        *)
(* drives, for every manifest, set of inputs and outputs and step limit,   *)
(* however many events there are.  The invariants of the run hold in the   *)
(* stream too, because a step of the stream is one of the run or none.     *)
(***************************************************************************)
EXTENDS RunStream, SequenceTheorems, TLAPS

-----------------------------------------------------------------------------
(* The run *)

Phases == {"called", "run_started", "stage_started", "executing",
           "stage_completed", "transition_selected", "run_completed",
           "run_failed", "finishing", "resolved", "rejected"}

EventType == [kind : {"none", "run_started", "stage_started", "stage_completed",
                      "transition_selected", "run_completed", "run_failed"},
              stage : Stages \cup {NoStage}]

\* The part of TypeOK that an emission or a failure can disturb.
OutcomeTypes ==
  /\ phase \in Phases
  /\ event \in EventType
  /\ cause \in Causes
  /\ thrown \in Causes \cup {"recorder", "trace"}
  /\ begun \in BOOLEAN /\ finished \in BOOLEAN /\ overflow \in BOOLEAN
  /\ status \in {"none", "complete", "failed", "interrupted"}

\* The rest of it.  TypeOK alone is not inductive: the next iteration runs the
\* selected stage, so while transition_selected is awaited there must be one.
PathTypes ==
  /\ inputs \in Output
  /\ aborted \in BOOLEAN
  /\ current \in Stages
  /\ selected \in Stages \cup {NoStage}
  /\ phase = "transition_selected" => selected \in Stages
  /\ steps \in Nat
  /\ stageOutputs \in [Stages -> Output]

TypeInv == OutcomeTypes /\ PathTypes

LEMMA TypeInvImplies == TypeInv => TypeOK
  BY DEF TypeInv, TypeOK, OutcomeTypes, PathTypes, Phases, EventType

\* Where an error of the run and the top of its loop lead.
LEMMA FailPhase ==
  ASSUME NEW e, Fail(e)
  PROVE  phase' \in {"finishing", "run_failed"}
  BY DEF Fail, CallFinishRun, Emit

LEMMA IteratePhase ==
  ASSUME NEW s, Iterate(s)
  PROVE  phase' \in {"stage_started", "finishing", "run_failed"}
  BY FailPhase DEF Iterate, Emit

\* What emitting an event leaves.
LEMMA EmitTypes ==
  ASSUME OutcomeTypes,
         NEW kind \in {"stage_started", "stage_completed", "transition_selected",
                       "run_completed", "run_failed"},
         NEW stage \in Stages \cup {NoStage},
         Emit(kind, stage), cause' \in Causes, thrown' = thrown
  PROVE  OutcomeTypes'
  BY DEF OutcomeTypes, Emit, Observe, Event, EventType, Phases

\* What calling finishRun leaves.
LEMMA FinishTypes ==
  ASSUME OutcomeTypes, NEW s \in {"complete", "failed", "interrupted"},
         CallFinishRun(s), cause' \in Causes, thrown' = thrown
  PROVE  OutcomeTypes'
  BY DEF OutcomeTypes, CallFinishRun, Phases

\* What the catch clause of run leaves.
LEMMA FailTypes ==
  ASSUME OutcomeTypes, NEW e \in Causes, Fail(e)
  PROVE  OutcomeTypes'
  <1>1. cause' \in Causes /\ thrown' = thrown
    BY DEF Fail
  <1>2. CASE aborted
    BY <1>1, <1>2, FinishTypes DEF Fail
  <1>3. CASE ~aborted
    BY <1>1, <1>3, EmitTypes DEF Fail
  <1>. QED BY <1>2, <1>3

\* What the top of the loop leaves.
LEMMA IterateTypes ==
  ASSUME OutcomeTypes, NEW s \in Stages, Iterate(s)
  PROVE  OutcomeTypes'
  <1>1. CASE \E e \in Causes : Fail(e)
    BY <1>1, FailTypes
  <1>2. CASE Emit("stage_started", s) /\ UNCHANGED <<cause, thrown>>
    BY <1>2, EmitTypes DEF OutcomeTypes
  <1>3. (\E e \in Causes : Fail(e)) \/ (Emit("stage_started", s) /\ UNCHANGED <<cause, thrown>>)
    BY DEF Iterate, Causes
  <1>. QED BY <1>1, <1>2, <1>3

\* Storing a stage's output keeps the type of the outputs.
LEMMA NormalizeTypes ==
  ASSUME NEW s \in Stages, NEW out \in Output
  PROVE  Normalize(s, out) \in Output
  BY DEF Normalize, Output, Values

\* The manifest's transitions lead to stages.
LEMMA TransitionTypes ==
  ASSUME NEW s \in Stages, NEW i \in DOMAIN Transitions[s]
  PROVE  Transitions[s][i].to \in Stages
  <1>1. Transitions[s] \in Seq(TransitionSpec)
    BY ManifestAssumption
  <1>2. Transitions[s][i] \in TransitionSpec
    BY <1>1
  <1>. QED BY <1>2 DEF TransitionSpec

LEMMA TypeInit == Init => TypeInv
  <1>. SUFFICES ASSUME Init PROVE TypeInv
    OBVIOUS
  <1>1. OutcomeTypes
    BY ManifestAssumption DEF Init, OutcomeTypes, NoEvent, Event, EventType, Phases, Causes
  <1>2. PathTypes
    BY ManifestAssumption DEF Init, PathTypes, Output, Values
  <1>. QED BY <1>1, <1>2 DEF TypeInv

LEMMA TypeNext == TypeInv /\ [Next]_vars => TypeInv'
  <1>. SUFFICES ASSUME OutcomeTypes, PathTypes, [Next]_vars PROVE OutcomeTypes' /\ PathTypes'
    BY DEF TypeInv
  <1>. USE DEF PathTypes
  <1>1. CASE Begin
    <2>1. PathTypes'
      BY <1>1 DEF Begin, Settle
    <2>2. CASE UNCHANGED <<event, recorder>> /\ Settle("rejected", "recorder")
      BY <1>1, <2>2 DEF Begin, Settle, OutcomeTypes, Phases, recorder
    <2>3. CASE begun' = TRUE /\ Settle("rejected", "recorder")
               /\ UNCHANGED <<event, finished, status, overflow>>
      BY <1>1, <2>3 DEF Begin, Settle, OutcomeTypes, Phases
    <2>4. CASE /\ begun' = TRUE
               /\ event' = Event("run_started", NoStage)
               /\ phase' = "run_started"
               /\ Observe
               /\ UNCHANGED <<thrown, finished, status>>
      BY <1>1, <2>4 DEF Begin, Observe, Event, EventType, OutcomeTypes, Phases
    <2>. QED BY <1>1, <2>1, <2>2, <2>3, <2>4 DEF Begin
  <1>2. CASE RunStartedDelivered
    BY <1>2, IterateTypes, IteratePhase DEF RunStartedDelivered
  <1>3. CASE RunStartedFails
    BY <1>3 DEF RunStartedFails, Settle, OutcomeTypes, Phases, Causes, recorder
  <1>4. CASE StageStartedDelivered
    BY <1>4 DEF StageStartedDelivered, OutcomeTypes, Phases, recorder
  <1>5. ASSUME NEW out \in UNION {OutputsOf[s] : s \in Stages}, ExecuteReturns(out)
        PROVE  OutcomeTypes' /\ PathTypes'
    <2>1. out \in Output /\ current \in Stages
      BY <1>5, ManifestAssumption DEF ExecuteReturns
    <2>2. CASE ValidOutput(current, out)
      <3>1. OutcomeTypes'
        BY <1>5, <2>2, EmitTypes DEF ExecuteReturns, OutcomeTypes
      <3>2. Normalize(current, out) \in Output
        BY <2>1, NormalizeTypes
      <3>3. PathTypes'
        BY <1>5, <2>2, <3>2 DEF ExecuteReturns, Emit
      <3>. QED BY <3>1, <3>3
    <2>3. CASE ~ValidOutput(current, out)
      <3>1. OutcomeTypes'
        BY <1>5, <2>3, FailTypes DEF ExecuteReturns, Causes
      <3>2. PathTypes'
        BY <1>5, <2>3, FailPhase DEF ExecuteReturns
      <3>. QED BY <3>1, <3>2
    <2>. QED BY <2>2, <2>3
  <1>6. CASE ExecuteThrows
    BY <1>6, FailTypes, FailPhase DEF ExecuteThrows, Causes
  <1>7. CASE ExecutorEmits
    BY <1>7 DEF ExecutorEmits, OutcomeTypes
  <1>8. CASE StageCompletedDelivered
    <2>1. PathTypes'
      BY <1>8, TransitionTypes, FailPhase DEF StageCompletedDelivered, Emit
    <2>2. (\E e \in Causes : Fail(e))
          \/ (\E k \in {"run_completed", "transition_selected"}, s \in {current, NoStage} :
                Emit(k, s) /\ UNCHANGED <<cause, thrown>>)
      BY <1>8 DEF StageCompletedDelivered, Causes
    <2>3. OutcomeTypes'
      BY <2>2, FailTypes, EmitTypes DEF OutcomeTypes
    <2>. QED BY <2>1, <2>3
  <1>9. CASE TransitionSelectedDelivered
    BY <1>9, IterateTypes, IteratePhase DEF TransitionSelectedDelivered
  <1>10. CASE SinkFails
    BY <1>10, FailTypes, FailPhase DEF SinkFails, Causes
  <1>11. CASE RunCompletedDelivered
    BY <1>11, FinishTypes DEF RunCompletedDelivered, OutcomeTypes, CallFinishRun
  <1>12. CASE RunFailedDelivered
    BY <1>12, FinishTypes DEF RunFailedDelivered, OutcomeTypes, CallFinishRun
  <1>13. CASE RunFailedFails
    BY <1>13 DEF RunFailedFails, Settle, OutcomeTypes, Phases, Causes, recorder
  <1>14. CASE FinishRunReturns
    BY <1>14 DEF FinishRunReturns, Settle, OutcomeTypes, Phases, Causes, recorder
  <1>15. CASE FinishRunThrows
    BY <1>15 DEF FinishRunThrows, Settle, OutcomeTypes, Phases, Causes, recorder
  <1>16. CASE Abort
    BY <1>16 DEF Abort, OutcomeTypes, recorder
  <1>17. CASE UNCHANGED vars
    BY <1>17 DEF vars, OutcomeTypes, recorder
  <1>. QED
    BY <1>1, <1>2, <1>3, <1>4, <1>5, <1>6, <1>7, <1>8, <1>9, <1>10, <1>11, <1>12,
       <1>13, <1>14, <1>15, <1>16, <1>17 DEF Next, RunStep

\* Every variable keeps its type.
THEOREM TypeCorrect == Spec => []TypeOK
  BY TypeInit, TypeNext, TypeInvImplies, PTL DEF Spec

-----------------------------------------------------------------------------
(* The outcome of a run *)

\* The awaits of the try block, and that of run_started before it.
Running == {"run_started", "stage_started", "executing", "stage_completed",
            "transition_selected", "run_completed"}

\* OutcomeAgrees and RecorderFinalized speak of settled runs.  That they hold
\* follows from what is known at each await: until the loop has ended there is
\* no cause and no status, the event awaited is the one emitted last, and only
\* a run in an exit stage emits run_completed.
OutcomeInv ==
  /\ phase = "called" => event = NoEvent /\ cause = "none"
  /\ phase \in Running =>
       cause = "none" /\ event.kind = IF phase = "executing" THEN "stage_started" ELSE phase
  /\ phase = "run_failed" => cause # "none" /\ event.kind = "run_failed"
  /\ phase \in Running \cup {"called", "run_failed"} => status = "none"
  /\ phase = "finishing" => status # "none"
  /\ phase = "run_completed" \/ status = "complete" => current \in Exits
  /\ OutcomeAgrees /\ RecorderFinalized /\ StepBudget

LEMMA OutcomeInit == Init => OutcomeInv
  BY MaxStepsAssumption
  DEF Init, OutcomeInv, Running, OutcomeAgrees, RecorderFinalized, StepBudget, NoEvent, Event

\* The catch clause keeps the invariant, whatever the error.
LEMMA FailOutcome ==
  ASSUME OutcomeInv, phase \in Running, NEW e \in Causes \ {"none"}, Fail(e),
         aborted' = aborted, steps' \in Nat, steps' <= MaxSteps,
         e = "max_steps" => steps' = MaxSteps
  PROVE  OutcomeInv'
  <1>1. status = "none" /\ event.kind # "run_failed"
    BY DEF OutcomeInv, Running
  <1>2. CASE aborted
    BY <1>1, <1>2 DEF Fail, CallFinishRun, OutcomeInv, Running, OutcomeAgrees,
                      RecorderFinalized, StepBudget
  <1>3. CASE ~aborted
    BY <1>1, <1>3 DEF Fail, Emit, Event, OutcomeInv, Running, OutcomeAgrees,
                      RecorderFinalized, StepBudget
  <1>. QED BY <1>2, <1>3

\* So does emitting an event of the loop.
LEMMA EmitOutcome ==
  ASSUME OutcomeInv, phase \in Running,
         NEW kind \in Running \ {"run_started", "executing"}, NEW stage, Emit(kind, stage),
         cause' = cause, steps' \in Nat, steps' <= MaxSteps,
         kind = "stage_started" => steps' < MaxSteps,
         kind = "run_completed" => current' \in Exits
  PROVE  OutcomeInv'
  BY MaxStepsAssumption
  DEF Emit, Event, OutcomeInv, Running, OutcomeAgrees, RecorderFinalized, StepBudget

LEMMA IterateOutcome ==
  ASSUME OutcomeInv, TypeInv, phase \in Running, NEW s, Iterate(s),
         aborted' = aborted, steps' = steps
  PROVE  OutcomeInv'
  <1>1. steps \in Nat /\ steps <= MaxSteps /\ MaxSteps \in Nat
    BY MaxStepsAssumption DEF TypeInv, PathTypes, OutcomeInv, StepBudget
  <1>2. CASE \E e \in Causes \ {"none"} : Fail(e) /\ (e = "max_steps" => steps >= MaxSteps)
    BY <1>1, <1>2, FailOutcome
  <1>3. CASE steps < MaxSteps /\ Emit("stage_started", s) /\ UNCHANGED <<cause, thrown>>
    BY <1>1, <1>3, EmitOutcome DEF Running
  <1>. QED BY <1>2, <1>3 DEF Iterate, Causes

LEMMA OutcomeNext == TypeInv /\ OutcomeInv /\ [Next]_vars => OutcomeInv'
  <1>. SUFFICES ASSUME TypeInv, OutcomeInv, [Next]_vars PROVE OutcomeInv'
    OBVIOUS
  <1>0. steps \in Nat /\ steps <= MaxSteps /\ MaxSteps \in Nat
    BY MaxStepsAssumption DEF TypeInv, PathTypes, OutcomeInv, StepBudget
  <1>. USE <1>0
  <1>1. CASE Begin
    <2>1. phase = "called" /\ event = NoEvent /\ cause = "none" /\ status = "none"
      BY <1>1 DEF Begin, OutcomeInv
    <2>2. UNCHANGED <<steps, current, cause, status>>
      BY <1>1 DEF Begin, recorder
    <2>3. \/ phase' = "rejected" /\ thrown' = "recorder" /\ event' = event
          \/ phase' = "run_started" /\ event' = Event("run_started", NoStage)
      BY <1>1 DEF Begin, Settle, recorder
    <2>. QED BY <2>1, <2>2, <2>3 DEF OutcomeInv, Running, OutcomeAgrees, RecorderFinalized,
                                     StepBudget, Event, NoEvent
  <1>2. CASE RunStartedDelivered
    BY <1>2, IterateOutcome DEF RunStartedDelivered, Running
  <1>3. CASE RunStartedFails
    BY <1>3 DEF RunStartedFails, Settle, recorder, OutcomeInv, Running, OutcomeAgrees,
                RecorderFinalized, StepBudget
  <1>4. CASE StageStartedDelivered
    BY <1>4 DEF StageStartedDelivered, recorder, OutcomeInv, Running, OutcomeAgrees,
                RecorderFinalized, StepBudget
  <1>5. ASSUME NEW out, ExecuteReturns(out) PROVE OutcomeInv'
    <2>1. phase = "executing" /\ steps < MaxSteps
      BY <1>5 DEF ExecuteReturns, OutcomeInv, StepBudget
    <2>2. CASE ValidOutput(current, out)
      BY <1>5, <2>1, <2>2, EmitOutcome DEF ExecuteReturns, Running
    <2>3. CASE ~ValidOutput(current, out)
      BY <1>5, <2>1, <2>3, FailOutcome DEF ExecuteReturns, Running, Causes
    <2>. QED BY <2>2, <2>3
  <1>6. CASE ExecuteThrows
    BY <1>6, FailOutcome DEF ExecuteThrows, Running, Causes
  <1>7. CASE ExecutorEmits
    BY <1>7 DEF ExecutorEmits, OutcomeInv, Running, OutcomeAgrees, RecorderFinalized, StepBudget
  <1>8. CASE StageCompletedDelivered
    <2>1. \/ \E e \in Causes \ {"none", "max_steps"} : Fail(e)
          \/ /\ cause' = cause
             /\ \/ current \in Exits /\ Emit("run_completed", NoStage)
                \/ Emit("transition_selected", current)
      BY <1>8 DEF StageCompletedDelivered, Causes
    <2>2. phase = "stage_completed" /\ UNCHANGED <<aborted, current, steps>>
      BY <1>8 DEF StageCompletedDelivered
    <2>. QED BY <2>1, <2>2, FailOutcome, EmitOutcome DEF Running
  <1>9. CASE TransitionSelectedDelivered
    BY <1>9, IterateOutcome DEF TransitionSelectedDelivered, Running
  <1>10. CASE SinkFails
    BY <1>10, FailOutcome DEF SinkFails, Running, Causes
  <1>11. CASE RunCompletedDelivered
    BY <1>11 DEF RunCompletedDelivered, CallFinishRun, OutcomeInv, Running, OutcomeAgrees,
                 RecorderFinalized, StepBudget
  <1>12. CASE RunFailedDelivered
    BY <1>12 DEF RunFailedDelivered, CallFinishRun, OutcomeInv, Running, OutcomeAgrees,
                 RecorderFinalized, StepBudget
  <1>13. CASE RunFailedFails
    BY <1>13 DEF RunFailedFails, Settle, recorder, OutcomeInv, Running, OutcomeAgrees,
                 RecorderFinalized, StepBudget
  <1>14. CASE FinishRunReturns
    BY <1>14 DEF FinishRunReturns, Settle, recorder, OutcomeInv, Running, OutcomeAgrees,
                 RecorderFinalized, StepBudget
  <1>15. CASE FinishRunThrows
    BY <1>15 DEF FinishRunThrows, Settle, recorder, OutcomeInv, Running, OutcomeAgrees,
                 RecorderFinalized, StepBudget
  <1>16. CASE Abort
    BY <1>16 DEF Abort, recorder, OutcomeInv, Running, OutcomeAgrees, RecorderFinalized, StepBudget
  <1>17. CASE UNCHANGED vars
    BY <1>17 DEF vars, recorder, OutcomeInv, Running, OutcomeAgrees, RecorderFinalized, StepBudget
  <1>. QED
    BY <1>1, <1>2, <1>3, <1>4, <1>5, <1>6, <1>7, <1>8, <1>9, <1>10, <1>11, <1>12,
       <1>13, <1>14, <1>15, <1>16, <1>17 DEF Next, RunStep

\* The two invariants together.
LEMMA OutcomeAlways == Spec => [](TypeInv /\ OutcomeInv)
  BY TypeInit, TypeNext, OutcomeInit, OutcomeNext, PTL DEF Spec

\* The caller, the event consumer and the trace are told the same outcome.
THEOREM OutcomeCorrect == Spec => []OutcomeAgrees
  <1>1. OutcomeInv => OutcomeAgrees
    BY DEF OutcomeInv
  <1>. QED BY <1>1, OutcomeAlways, PTL

\* A settled run has finalized its trace, but for the three named exceptions.
THEOREM FinalizationCorrect == Spec => []RecorderFinalized
  <1>1. OutcomeInv => RecorderFinalized
    BY DEF OutcomeInv
  <1>. QED BY <1>1, OutcomeAlways, PTL

\* No run executes more than maxSteps stages.
THEOREM BudgetCorrect == Spec => []StepBudget
  <1>1. OutcomeInv => StepBudget
    BY DEF OutcomeInv
  <1>. QED BY <1>1, OutcomeAlways, PTL

-----------------------------------------------------------------------------
(* The path of a run *)

\* The event awaited names the stage the run is in, a selected stage is the goal
\* of one of that stage's transitions, and a stage that executes has its reads.
PathInv ==
  /\ phase \in {"called", "run_started"} => current = Entry
  /\ phase \in {"stage_started", "executing", "stage_completed", "transition_selected"} =>
       event.stage = current
  /\ phase = "transition_selected" =>
       \E i \in DOMAIN Transitions[current] : Transitions[current][i].to = selected
  /\ ExecutesReady

LEMMA PathInit == Init => PathInv
  BY DEF Init, PathInv, ExecutesReady

\* An error leads to awaits the invariant says nothing of.
LEMMA FailPath ==
  ASSUME NEW e, Fail(e)
  PROVE  PathInv'
  BY FailPhase DEF PathInv, ExecutesReady

LEMMA IteratePath ==
  ASSUME NEW s, Iterate(s), current' = s, UNCHANGED <<inputs, stageOutputs>>
  PROVE  PathInv'
  <1>1. CASE \E e \in Causes : Fail(e)
    BY <1>1, FailPath
  <1>2. CASE ReadsAvailable(s, stageOutputs) /\ Emit("stage_started", s)
    BY <1>2 DEF Emit, Event, PathInv, ExecutesReady, ReadsAvailable, Resolve
  <1>. QED BY <1>1, <1>2 DEF Iterate, Causes

LEMMA PathNext == PathInv /\ [Next]_vars => PathInv'
  <1>. SUFFICES ASSUME PathInv, [Next]_vars PROVE PathInv'
    OBVIOUS
  <1>. USE DEF PathInv, ExecutesReady
  <1>1. CASE Begin
    BY <1>1 DEF Begin, Settle
  <1>2. CASE RunStartedDelivered
    BY <1>2, IteratePath DEF RunStartedDelivered
  <1>3. CASE RunStartedFails
    BY <1>3 DEF RunStartedFails, Settle
  <1>4. CASE StageStartedDelivered
    BY <1>4 DEF StageStartedDelivered, ReadsAvailable, Resolve
  <1>5. ASSUME NEW out, ExecuteReturns(out) PROVE PathInv'
    <2>1. CASE ValidOutput(current, out)
      BY <1>5, <2>1 DEF ExecuteReturns, Emit, Event
    <2>2. CASE ~ValidOutput(current, out)
      BY <1>5, <2>2, FailPath DEF ExecuteReturns
    <2>. QED BY <2>1, <2>2
  <1>6. CASE ExecuteThrows
    BY <1>6, FailPath DEF ExecuteThrows
  <1>7. CASE ExecutorEmits
    BY <1>7 DEF ExecutorEmits, ReadsAvailable, Resolve
  <1>8. CASE StageCompletedDelivered
    <2>1. \/ \E e \in Causes : Fail(e)
          \/ Emit("run_completed", NoStage)
          \/ /\ \E i \in DOMAIN Transitions[current] : selected' = Transitions[current][i].to
             /\ Emit("transition_selected", current)
      BY <1>8 DEF StageCompletedDelivered, Causes
    <2>2. current' = current
      BY <1>8 DEF StageCompletedDelivered
    <2>3. CASE \E e \in Causes : Fail(e)
      BY <2>3, FailPath
    <2>4. CASE Emit("run_completed", NoStage)
      BY <2>4 DEF Emit
    <2>5. CASE /\ \E i \in DOMAIN Transitions[current] : selected' = Transitions[current][i].to
               /\ Emit("transition_selected", current)
      BY <2>2, <2>5 DEF Emit, Event
    <2>. QED BY <2>1, <2>3, <2>4, <2>5
  <1>9. CASE TransitionSelectedDelivered
    BY <1>9, IteratePath DEF TransitionSelectedDelivered
  <1>10. CASE SinkFails
    BY <1>10, FailPath DEF SinkFails
  <1>11. CASE RunCompletedDelivered \/ RunFailedDelivered
    BY <1>11 DEF RunCompletedDelivered, RunFailedDelivered, CallFinishRun
  <1>12. CASE RunFailedFails \/ FinishRunReturns \/ FinishRunThrows
    BY <1>12 DEF RunFailedFails, FinishRunReturns, FinishRunThrows, Settle
  <1>13. CASE Abort
    BY <1>13 DEF Abort, ReadsAvailable, Resolve
  <1>14. CASE UNCHANGED vars
    BY <1>14 DEF vars, ReadsAvailable, Resolve
  <1>. QED
    BY <1>1, <1>2, <1>3, <1>4, <1>5, <1>6, <1>7, <1>8, <1>9, <1>10, <1>11, <1>12,
       <1>13, <1>14 DEF Next, RunStep

\* A stage executes only with all its required reads available.
THEOREM ReadsCorrect == Spec => []ExecutesReady
  <1>1. PathInv => ExecutesReady
    BY DEF PathInv
  <1>. QED BY <1>1, PathInit, PathNext, PTL DEF Spec

LEMMA NormalizedLists ==
  ASSUME NEW s \in Stages, NEW out \in Output, NEW f \in Optional[s], Writes[s][f] = "string[]"
  PROVE  Normalize(s, out)[f] # "no_items"
  <1>1. f \in Fields
    BY ManifestAssumption
  <1>. QED BY <1>1 DEF Normalize, Output

LEMMA ListsNext == TypeInv /\ NoEmptyOptionalList /\ [Next]_vars => NoEmptyOptionalList'
  <1>. SUFFICES ASSUME TypeInv, NoEmptyOptionalList, [Next]_vars PROVE NoEmptyOptionalList'
    OBVIOUS
  <1>1. ASSUME NEW out \in UNION {OutputsOf[s] : s \in Stages}, ExecuteReturns(out)
        PROVE  NoEmptyOptionalList'
    <2>1. current \in Stages /\ stageOutputs \in [Stages -> Output]
      BY DEF TypeInv, PathTypes
    <2>2. out \in Output
      BY ManifestAssumption
    <2>3. \/ stageOutputs' = stageOutputs
          \/ stageOutputs' = [stageOutputs EXCEPT ![current] = Normalize(current, out)]
      BY <1>1 DEF ExecuteReturns
    <2>4. ASSUME NEW s \in Stages, NEW f \in Optional[s], Writes[s][f] = "string[]"
          PROVE  stageOutputs'[s][f] # "no_items"
      BY <2>1, <2>2, <2>3, <2>4, NormalizedLists DEF NoEmptyOptionalList
    <2>. QED BY <2>4 DEF NoEmptyOptionalList
  <1>2. CASE stageOutputs' = stageOutputs
    BY <1>2 DEF NoEmptyOptionalList
  <1>3. stageOutputs' = stageOutputs
          \/ \E out \in UNION {OutputsOf[s] : s \in Stages} : ExecuteReturns(out)
    BY DEF Next, RunStep, Begin, RunStartedDelivered, RunStartedFails, StageStartedDelivered,
           ExecuteThrows, ExecutorEmits, StageCompletedDelivered, TransitionSelectedDelivered,
           SinkFails, RunCompletedDelivered, RunFailedDelivered, RunFailedFails,
           FinishRunReturns, FinishRunThrows, Abort, vars
  <1>. QED BY <1>1, <1>2, <1>3

\* No optional array is ever stored empty.
THEOREM ListsCorrect == Spec => []NoEmptyOptionalList
  <1>1. Init => NoEmptyOptionalList
    BY ManifestAssumption DEF Init, NoEmptyOptionalList
  <1>. QED BY <1>1, TypeInit, TypeNext, ListsNext, PTL DEF Spec

-----------------------------------------------------------------------------
(* The events of a run *)

\* run_failed may follow every event of a run but itself.
LEMMA FailFollows ==
  ASSUME OutcomeInv, phase \in Running, NEW e, Fail(e), event' # event
  PROVE  Follows(event, event')
  <1>1. event.kind \notin {"none", "run_failed"}
    BY DEF OutcomeInv, Running
  <1>2. event'.kind = "run_failed"
    BY DEF Fail, CallFinishRun, Emit, Event
  <1>. QED BY <1>1, <1>2 DEF Follows

\* A stage starts first, or where a transition of the stage before it leads.
LEMMA FirstStageFollows ==
  ASSUME OutcomeInv, PathInv, phase = "run_started", Emit("stage_started", current)
  PROVE  Follows(event, event')
  BY DEF Emit, Event, Follows, OutcomeInv, PathInv, Running

LEMMA NextStageFollows ==
  ASSUME OutcomeInv, PathInv, phase = "transition_selected", Emit("stage_started", selected)
  PROVE  Follows(event, event')
  BY DEF Emit, Event, Follows, OutcomeInv, PathInv, Running

LEMMA OrderNext ==
  TypeInv /\ OutcomeInv /\ PathInv /\ [Next]_vars =>
    [event' # event => /\ Follows(event, event')
                       /\ event.kind = "run_completed" => cause' = "sink"]_vars
  <1>. SUFFICES ASSUME TypeInv, OutcomeInv, PathInv, Next, event' # event
                PROVE  /\ Follows(event, event')
                       /\ event.kind = "run_completed" => cause' = "sink"
    BY DEF vars
  <1>1. CASE Begin
    BY <1>1 DEF Begin, OutcomeInv, Follows, Event, NoEvent, Settle, recorder
  <1>2. CASE RunStartedDelivered
    <2>1. event.kind = "run_started" /\ phase = "run_started"
      BY <1>2 DEF RunStartedDelivered, OutcomeInv, Running
    <2>2. (\E e \in Causes : Fail(e)) \/ Emit("stage_started", current)
      BY <1>2 DEF RunStartedDelivered, Iterate, Causes
    <2>3. CASE \E e \in Causes : Fail(e)
      BY <2>1, <2>3, FailFollows DEF Running
    <2>4. CASE Emit("stage_started", current)
      <3>1. Follows(event, event')
        BY <2>1, <2>4, FirstStageFollows
      <3>. QED BY <2>1, <3>1
    <2>. QED BY <2>2, <2>3, <2>4
  <1>3. ASSUME NEW out, ExecuteReturns(out)
        PROVE  /\ Follows(event, event')
               /\ event.kind = "run_completed" => cause' = "sink"
    <2>1. phase = "executing" /\ event.kind = "stage_started" /\ event.stage = current
      BY <1>3 DEF ExecuteReturns, OutcomeInv, PathInv, Running
    <2>2. event \in EventType
      BY DEF TypeInv, OutcomeTypes
    <2>3. CASE Emit("stage_completed", current)
      <3>1. event'.kind = "stage_completed" /\ event'.stage = current
        BY <2>3 DEF Emit, Event
      <3>2. event = Event("stage_started", event'.stage)
        BY <2>1, <2>2, <3>1 DEF Event, EventType
      <3>. QED BY <2>1, <3>1, <3>2 DEF Follows
    <2>4. CASE Fail("invalid_output")
      BY <2>1, <2>4, FailFollows DEF Running
    <2>. QED BY <1>3, <2>3, <2>4 DEF ExecuteReturns
  <1>4. CASE ExecuteThrows
    BY <1>4, FailFollows DEF ExecuteThrows, OutcomeInv, Running
  <1>5. CASE StageCompletedDelivered
    <2>1. phase = "stage_completed" /\ event.kind = "stage_completed" /\ event.stage = current
      BY <1>5 DEF StageCompletedDelivered, OutcomeInv, PathInv, Running
    <2>2. event \in EventType
      BY DEF TypeInv, OutcomeTypes
    <2>3. \/ \E e \in Causes : Fail(e)
          \/ current \in Exits /\ Emit("run_completed", NoStage)
          \/ Emit("transition_selected", current)
      BY <1>5 DEF StageCompletedDelivered, Causes
    <2>4. CASE \E e \in Causes : Fail(e)
      BY <2>1, <2>4, FailFollows DEF Running
    <2>5. CASE current \in Exits /\ Emit("run_completed", NoStage)
      <3>1. event'.kind = "run_completed"
        BY <2>5 DEF Emit, Event
      <3>. QED BY <2>1, <2>5, <3>1 DEF Follows
    <2>6. CASE Emit("transition_selected", current)
      <3>1. event'.kind = "transition_selected" /\ event'.stage = current
        BY <2>6 DEF Emit, Event
      <3>2. event = Event("stage_completed", event'.stage)
        BY <2>1, <2>2, <3>1 DEF Event, EventType
      <3>. QED BY <2>1, <3>1, <3>2 DEF Follows
    <2>. QED BY <2>3, <2>4, <2>5, <2>6
  <1>6. CASE TransitionSelectedDelivered
    <2>1. event.kind = "transition_selected" /\ phase = "transition_selected"
      BY <1>6 DEF TransitionSelectedDelivered, OutcomeInv, Running
    <2>2. (\E e \in Causes : Fail(e)) \/ Emit("stage_started", selected)
      BY <1>6 DEF TransitionSelectedDelivered, Iterate, Causes
    <2>3. CASE \E e \in Causes : Fail(e)
      BY <2>1, <2>3, FailFollows DEF Running
    <2>4. CASE Emit("stage_started", selected)
      <3>1. Follows(event, event')
        BY <2>1, <2>4, NextStageFollows
      <3>. QED BY <2>1, <3>1
    <2>. QED BY <2>2, <2>3, <2>4
  <1>7. CASE SinkFails
    <2>1. cause' = "sink" /\ phase \in Running /\ Fail("sink")
      BY <1>7 DEF SinkFails, Fail, Running
    <2>. QED BY <2>1, FailFollows
  <1>8. CASE \/ RunStartedFails \/ StageStartedDelivered \/ ExecutorEmits \/ RunCompletedDelivered
             \/ RunFailedDelivered \/ RunFailedFails \/ FinishRunReturns \/ FinishRunThrows \/ Abort
    BY <1>8 DEF RunStartedFails, StageStartedDelivered, ExecutorEmits, RunCompletedDelivered,
                RunFailedDelivered, RunFailedFails, FinishRunReturns, FinishRunThrows, Abort,
                CallFinishRun
  <1>. QED BY <1>1, <1>2, <1>3, <1>4, <1>5, <1>6, <1>7, <1>8 DEF Next, RunStep

\* The events of a run come in the order of its path through the manifest.
THEOREM OrderCorrect == Spec => EventOrder
  <1>1. Spec => [](TypeInv /\ OutcomeInv /\ PathInv)
    BY OutcomeAlways, PathInit, PathNext, PTL DEF Spec
  <1>. QED BY <1>1, OrderNext, PTL DEF Spec, EventOrder

LEMMA AbortNext ==
  [Next]_vars =>
    [aborted /\ event' # event => event'.kind \notin {"stage_started", "run_failed"}]_vars
  <1>. SUFFICES ASSUME Next, aborted, event' # event
                PROVE  event'.kind \notin {"stage_started", "run_failed"}
    BY DEF vars
  <1>1. ASSUME NEW e PROVE ~Fail(e)
    BY DEF Fail, CallFinishRun
  <1>2. ASSUME NEW s PROVE ~Iterate(s)
    BY <1>1 DEF Iterate
  <1>3. \A kind, stage : Emit(kind, stage) => event'.kind = kind
    BY DEF Emit, Event
  <1>4. CASE Begin
    BY <1>4 DEF Begin, Event
  <1>5. CASE \E out \in UNION {OutputsOf[s] : s \in Stages} : ExecuteReturns(out)
    BY <1>1, <1>3, <1>5 DEF ExecuteReturns
  <1>6. CASE StageCompletedDelivered
    BY <1>1, <1>3, <1>6 DEF StageCompletedDelivered
  <1>7. ~(RunStartedDelivered \/ TransitionSelectedDelivered \/ ExecuteThrows \/ SinkFails)
    BY <1>1, <1>2 DEF RunStartedDelivered, TransitionSelectedDelivered, ExecuteThrows, SinkFails
  <1>8. ~(\/ RunStartedFails \/ StageStartedDelivered \/ ExecutorEmits \/ RunCompletedDelivered
          \/ RunFailedDelivered \/ RunFailedFails \/ FinishRunReturns \/ FinishRunThrows \/ Abort)
    BY DEF RunStartedFails, StageStartedDelivered, ExecutorEmits, RunCompletedDelivered,
           RunFailedDelivered, RunFailedFails, FinishRunReturns, FinishRunThrows, Abort,
           CallFinishRun
  <1>. QED BY <1>4, <1>5, <1>6, <1>7, <1>8 DEF Next, RunStep

\* An aborted run starts no stage and reports no failure.
THEOREM AbortCorrect == Spec => AbortStops
  BY AbortNext, PTL DEF Spec, AbortStops

-----------------------------------------------------------------------------
(* What the executor is to blame for *)

\* A run that rejects with what its executor threw has not announced completion.
BlameInv ==
  /\ cause = "executor" => event.kind \notin {"none", "run_completed"}
  /\ thrown = "executor" => phase = "rejected" /\ cause = "executor"

LEMMA BlameInit == Init => BlameInv
  BY DEF Init, BlameInv

\* The catch clause blames the executor only for what it threw in a stage.
LEMMA FailBlame ==
  ASSUME BlameInv, phase # "rejected", NEW e, Fail(e),
         e = "executor" => event.kind \notin {"none", "run_completed"}
  PROVE  BlameInv'
  BY DEF BlameInv, Fail, CallFinishRun, Emit, Event

\* Until then there is nobody to blame.
LEMMA EmitBlame ==
  ASSUME OutcomeInv, BlameInv, phase \in Running, NEW kind, NEW stage, Emit(kind, stage),
         UNCHANGED <<cause, thrown>>
  PROVE  BlameInv'
  BY DEF BlameInv, OutcomeInv, Running, Emit

LEMMA BlameNext == OutcomeInv /\ BlameInv /\ [Next]_vars => BlameInv'
  <1>. SUFFICES ASSUME OutcomeInv, BlameInv, [Next]_vars PROVE BlameInv'
    OBVIOUS
  <1>1. CASE Begin
    BY <1>1 DEF Begin, Settle, BlameInv, OutcomeInv
  <1>2. ASSUME phase \in Running, NEW s, Iterate(s) PROVE BlameInv'
    <2>1. CASE \E e \in Causes \ {"executor"} : Fail(e)
      BY <1>2, <2>1, FailBlame DEF Running
    <2>2. CASE Emit("stage_started", s) /\ UNCHANGED <<cause, thrown>>
      BY <1>2, <2>2, EmitBlame
    <2>. QED BY <1>2, <2>1, <2>2 DEF Iterate, Causes
  <1>3. CASE RunStartedDelivered \/ TransitionSelectedDelivered
    BY <1>2, <1>3 DEF RunStartedDelivered, TransitionSelectedDelivered, Running
  <1>4. ASSUME NEW out, ExecuteReturns(out) PROVE BlameInv'
    BY <1>4, FailBlame, EmitBlame DEF ExecuteReturns, Running
  <1>5. CASE ExecuteThrows
    <2>1. phase = "executing" /\ event.kind = "stage_started" /\ Fail("executor")
      BY <1>5 DEF ExecuteThrows, OutcomeInv, Running
    <2>. QED BY <2>1, FailBlame
  <1>6. CASE StageCompletedDelivered
    <2>1. \/ \E e \in Causes \ {"executor"} : Fail(e)
          \/ \E kind, stage : Emit(kind, stage) /\ UNCHANGED <<cause, thrown>>
      BY <1>6 DEF StageCompletedDelivered, Causes
    <2>2. phase = "stage_completed"
      BY <1>6 DEF StageCompletedDelivered
    <2>. QED BY <2>1, <2>2, FailBlame, EmitBlame DEF Running
  <1>7. CASE SinkFails
    BY <1>7, FailBlame DEF SinkFails
  <1>8. CASE RunCompletedDelivered \/ RunFailedDelivered
    BY <1>8 DEF RunCompletedDelivered, RunFailedDelivered, CallFinishRun, BlameInv
  <1>9. CASE RunStartedFails \/ RunFailedFails \/ FinishRunReturns \/ FinishRunThrows
    BY <1>9 DEF RunStartedFails, RunFailedFails, FinishRunReturns, FinishRunThrows, Settle, BlameInv
  <1>10. CASE StageStartedDelivered \/ ExecutorEmits \/ Abort \/ UNCHANGED vars
    BY <1>10 DEF StageStartedDelivered, ExecutorEmits, Abort, vars, BlameInv
  <1>. QED BY <1>1, <1>3, <1>4, <1>5, <1>6, <1>7, <1>8, <1>9, <1>10 DEF Next, RunStep

-----------------------------------------------------------------------------
(* The generator and its consumer *)

RunIsSettled == {"resolved", "rejected"}
Generator == {"unstarted", "starting", "waiting", "at_yield", "unwinding", "joining",
              "returned", "threw", "left"}

FeedEvents == [kind : {"run_started", "stage_started", "stage_completed", "executor",
                       "transition_selected", "run_completed", "run_failed"},
               stage : Stages \cup {NoStage}]

-----------------------------------------------------------------------------
(* The run inside the stream *)

\* Every step of the stream is a step of the run or leaves it alone: a consumer
\* that leaves, and a generator that throws, only abort it.
LEMMA StreamStepIsRunStep ==
  ASSUME TypeInv, [StreamNext]_allVars
  PROVE  [Next]_vars
  <1>. USE DEF TypeInv, OutcomeTypes, PathTypes
  <1>1. CASE BackgroundRun
    BY <1>1 DEF BackgroundRun, SinkedRunStep, Next, RunStep
  <1>2. CASE ExecutorPushes
    <2>1. CASE overflow' = overflow
      BY <1>2, <2>1 DEF ExecutorPushes, vars, recorder
    <2>2. CASE overflow' # overflow
      <3>1. ExecutorEmits
        BY <1>2, <2>2 DEF ExecutorPushes, Observe, ExecutorEmits
      <3>. QED BY <3>1 DEF Next, RunStep
    <2>. QED BY <2>1, <2>2
  <1>3. CASE UNCHANGED vars
    BY <1>3
  <1>4. CASE UNCHANGED <<inputs, phase, current, selected, steps, stageOutputs, event,
                         cause, thrown, recorder>> /\ aborted' \in {aborted, TRUE}
    <2>1. CASE aborted' = aborted
      BY <1>4, <2>1 DEF vars
    <2>2. CASE aborted' # aborted
      <3>1. Abort
        BY <1>4, <2>2 DEF Abort
      <3>. QED BY <3>1 DEF Next
    <2>. QED BY <2>1, <2>2
  <1>5. CASE Finally \/ FirstNext \/ EnterLoop \/ Woken \/ PullNext \/ Unwound
    BY <1>3, <1>5 DEF Finally, FirstNext, EnterLoop, Woken, PullNext, Continue, Unwound
  <1>6. CASE Joined \/ ConsumerLeaves
    BY <1>4, <1>6 DEF Joined, ConsumerLeaves
  <1>7. CASE CallerAborts
    BY <1>7 DEF CallerAborts, Next
  <1>8. CASE UNCHANGED allVars
    BY <1>3, <1>8 DEF allVars
  <1>. QED BY <1>1, <1>2, <1>5, <1>6, <1>7, <1>8 DEF StreamNext

-----------------------------------------------------------------------------
(* Sequences *)

\* Pushing keeps the queue the rest of what was pushed.
LEMMA AppendToRest ==
  ASSUME NEW S, NEW s \in Seq(S), NEW e \in S, NEW n \in Nat, n <= Len(s)
  PROVE  Append(SubSeq(s, n + 1, Len(s)), e) = SubSeq(Append(s, e), n + 1, Len(Append(s, e)))
  <1>1. Len(s) \in Nat /\ Len(s) + 1 \in Int
    BY LenProperties
  <1>2. /\ Append(s, e) \in Seq(S) /\ Len(Append(s, e)) = Len(s) + 1
        /\ \A i \in 1..Len(s) : Append(s, e)[i] = s[i]
        /\ Append(s, e)[Len(s) + 1] = e
    BY AppendProperties
  <1>3. DEFINE rest == SubSeq(s, n + 1, Len(s))
               more == SubSeq(Append(s, e), n + 1, Len(s) + 1)
  <1>4. \A i \in (n + 1)..Len(s) : s[i] \in S
    BY <1>1, LenProperties
  <1>5. /\ rest \in Seq(S) /\ Len(rest) = Len(s) - n
        /\ \A i \in 1..(Len(s) - n) : rest[i] = s[n + i]
    <2>1. n + 1 \in Int /\ Len(s) \in Int
      BY <1>1
    <2>. QED BY <1>1, <1>4, <2>1, SubSeqProperties
  <1>6. \A i \in (n + 1)..(Len(s) + 1) : Append(s, e)[i] \in S
    BY <1>1, <1>2, <1>4
  <1>7. /\ more \in Seq(S) /\ Len(more) = Len(s) + 1 - n
        /\ \A i \in 1..(Len(s) + 1 - n) : more[i] = Append(s, e)[n + i]
    <2>1. n + 1 \in Int /\ Len(s) + 1 \in Int
      BY <1>1
    <2>. QED BY <1>1, <1>6, <2>1, SubSeqProperties
  <1>. HIDE DEF rest, more
  <1>8. /\ Append(rest, e) \in Seq(S) /\ Len(Append(rest, e)) = Len(rest) + 1
        /\ \A i \in 1..Len(rest) : Append(rest, e)[i] = rest[i]
        /\ Append(rest, e)[Len(rest) + 1] = e
    BY <1>5, AppendProperties
  <1>9. \A i \in 1..Len(more) : Append(rest, e)[i] = more[i]
    BY <1>1, <1>2, <1>5, <1>7, <1>8
  <1>10. Append(rest, e) = more
    <2>1. \A t, u \in Seq(S) : Len(t) = Len(u) /\ (\A i \in 1..Len(t) : t[i] = u[i]) => t = u
      BY SeqEqual
    <2>2. Len(more) = Len(Append(rest, e))
      BY <1>1, <1>5, <1>7, <1>8
    <2>. QED BY <1>7, <1>8, <1>9, <2>1, <2>2
  <1>. QED BY <1>2, <1>10 DEF rest, more

\* Yielding the head of the rest leaves the rest after it.
LEMMA TailOfRest ==
  ASSUME NEW S, NEW s \in Seq(S), NEW n \in Nat, n <= Len(s),
         SubSeq(s, n + 1, Len(s)) # <<>>
  PROVE  n < Len(s) /\ Tail(SubSeq(s, n + 1, Len(s))) = SubSeq(s, n + 2, Len(s))
  <1>1. Len(s) \in Nat
    BY LenProperties
  <1>2. n < Len(s)
    BY <1>1, SubSeqEmpty
  <1>3. n + 1 \in 1..Len(s) /\ Len(s) \in (n + 1)..Len(s) /\ (n + 1) + 1 = n + 2
    BY <1>1, <1>2
  <1>4. Tail(SubSeq(s, n + 1, Len(s))) = SubSeq(s, (n + 1) + 1, Len(s))
    BY <1>3, HeadTailOfSubSeq
  <1>. QED BY <1>2, <1>3, <1>4

\* There is no rest exactly when everything was taken.
LEMMA EmptyRest ==
  ASSUME NEW S, NEW s \in Seq(S), NEW n \in Nat, n <= Len(s),
         SubSeq(s, n + 1, Len(s)) = <<>>
  PROVE  n = Len(s)
  <1>1. Len(s) \in Nat /\ \A i \in (n + 1)..Len(s) : s[i] \in S
    BY LenProperties
  <1>2. Len(SubSeq(s, n + 1, Len(s))) = IF n + 1 <= Len(s) THEN Len(s) - (n + 1) + 1 ELSE 0
    BY <1>1, SubSeqProperties, n + 1 \in Int, Len(s) \in Int
  <1>3. Len(SubSeq(s, n + 1, Len(s))) = 0
    BY EmptySeq
  <1>. QED BY <1>1, <1>2, <1>3

-----------------------------------------------------------------------------
(* The queue and the generator *)

StreamTypes ==
  /\ pushed \in Seq(FeedEvents)
  /\ yielded \in Nat /\ yielded <= Len(pushed)
  /\ done \in BOOLEAN
  /\ generator \in Generator

\* The strengthening.  done is set after the run has settled, so nothing is pushed
\* after it; a generator that has left its loop found the queue empty then; the
\* last event pushed is run_completed exactly if the run's last event is; and who
\* unwinds has aborted the run.
StreamInv ==
  /\ StreamTypes
  /\ QueueIsRest
  /\ NoLostWakeup
  /\ done => phase \in RunIsSettled
  /\ generator \in {"joining", "returned", "threw"} => done /\ queue = <<>>
  /\ generator = "returned" => phase = "resolved" \/ thrown = "executor"
  /\ generator = "threw" => phase = "rejected"
  /\ event.kind # "none" => pushed # <<>>
  /\ pushed # <<>> =>
       (event.kind = "run_completed" <=> pushed[Len(pushed)].kind = "run_completed")
  /\ generator \in {"unwinding", "left"} => aborted

\* The run's part of the invariant.
RunInv == TypeInv /\ OutcomeInv /\ PathInv /\ BlameInv

\* What the sink does to the queue, for any event of the run.
LEMMA PushKeepsQueue ==
  ASSUME StreamTypes, QueueIsRest, NEW e \in FeedEvents, Push(e)
  PROVE  /\ StreamTypes' /\ QueueIsRest' /\ NoLostWakeup'
         /\ pushed' # <<>> /\ pushed'[Len(pushed')] = e
  <1>1. /\ pushed' \in Seq(FeedEvents) /\ pushed' # <<>>
        /\ Len(pushed') = Len(pushed) + 1 /\ Len(pushed) \in Nat
        /\ pushed'[Len(pushed) + 1] = e
    BY AppendProperties, LenProperties DEF Push, StreamTypes
  <1>2. queue' = SubSeq(pushed', yielded + 1, Len(pushed'))
    BY AppendToRest DEF Push, StreamTypes, QueueIsRest
  <1>3. StreamTypes'
    BY <1>1 DEF StreamTypes, Push
  <1>4. QueueIsRest'
    BY <1>2 DEF QueueIsRest, Push
  <1>5. NoLostWakeup'
    BY DEF NoLostWakeup, Push
  <1>. QED BY <1>1, <1>3, <1>4, <1>5

\* An event the run emits is one of the feed.
LEMMA EmittedIsFed ==
  ASSUME RunInv, RunInv', Next, event' # event
  PROVE  event' \in FeedEvents
  <1>1. Follows(event, event')
    BY OrderNext DEF RunInv, vars
  <1>2. event' \in EventType
    BY DEF RunInv, TypeInv, OutcomeTypes
  <1>3. event'.kind # "none"
    BY <1>1 DEF Follows
  <1>. QED BY <1>2, <1>3 DEF EventType, FeedEvents

\* A step of the run that reaches the sink is taken before the run has settled.
LEMMA SinkedStepRuns ==
  ASSUME SinkedRunStep
  PROVE  phase \notin RunIsSettled /\ (aborted => aborted') /\ Next
  <1>1. phase \notin RunIsSettled
    BY DEF SinkedRunStep, Begin, RunStartedDelivered, StageStartedDelivered, ExecuteReturns,
           ExecuteThrows, StageCompletedDelivered, TransitionSelectedDelivered,
           RunCompletedDelivered, RunFailedDelivered, FinishRunReturns, FinishRunThrows,
           RunIsSettled
  <1>2. aborted' = aborted
    BY DEF SinkedRunStep, Begin, RunStartedDelivered, StageStartedDelivered, ExecuteReturns,
           ExecuteThrows, StageCompletedDelivered, TransitionSelectedDelivered,
           RunCompletedDelivered, RunFailedDelivered, FinishRunReturns, FinishRunThrows
  <1>3. Next
    BY DEF SinkedRunStep, Next, RunStep
  <1>. QED BY <1>1, <1>2, <1>3

\* From a resumption to the next suspension.
LEMMA ContinueStep ==
  ASSUME RunInv, StreamInv, generator \in {"starting", "waiting", "at_yield"}, Continue
  PROVE  StreamInv'
  <1>1. UNCHANGED <<pushed, done, phase, event, aborted>>
    BY DEF Continue, vars
  <1>2. CASE queue # <<>>
    <2>1. yielded < Len(pushed) /\ Tail(queue) = SubSeq(pushed, yielded + 2, Len(pushed))
      BY <1>2, TailOfRest DEF StreamInv, StreamTypes, QueueIsRest
    <2>2. generator' = "at_yield" /\ queue' = Tail(queue) /\ yielded' = yielded + 1
      BY <1>2 DEF Continue
    <2>3. Len(pushed) \in Nat /\ yielded \in Nat
      BY LenProperties DEF StreamInv, StreamTypes
    <2>4. (yielded + 1) + 1 = yielded + 2
      BY <2>3
    <2>5. QueueIsRest'
      BY <1>1, <2>1, <2>2, <2>4 DEF QueueIsRest
    <2>6. StreamTypes'
      BY <1>1, <2>1, <2>2, <2>3 DEF StreamInv, StreamTypes, Generator
    <2>. QED BY <1>1, <2>2, <2>5, <2>6 DEF StreamInv, NoLostWakeup
  <1>3. CASE queue = <<>>
    <2>1. /\ generator' = IF done THEN "joining" ELSE "waiting"
          /\ resolveWait' = ~done /\ UNCHANGED <<queue, yielded>>
      BY <1>3 DEF Continue
    <2>. QED BY <1>1, <1>3, <2>1 DEF StreamInv, StreamTypes, QueueIsRest, NoLostWakeup, Generator
  <1>. QED BY <1>2, <1>3

LEMMA StreamInvInit == StreamInit => StreamInv
  <1>. SUFFICES ASSUME StreamInit PROVE StreamInv
    OBVIOUS
  <1>1. pushed \in Seq(FeedEvents) /\ Len(pushed) = 0
    BY EmptySeq DEF StreamInit
  <1>2. QueueIsRest
    BY <1>1, SubSeqEmpty, 0 + 1 \in Int, 0 \in Int DEF StreamInit, QueueIsRest
  <1>3. StreamTypes
    <2>1. yielded = 0 /\ generator \in Generator
      BY DEF StreamInit, Generator
    <2>2. done \in BOOLEAN
      BY DEF StreamInit
    <2>3. yielded \in Nat /\ yielded <= Len(pushed)
      BY <1>1, <2>1
    <2>. QED BY <1>1, <2>1, <2>2, <2>3 DEF StreamTypes
  <1>4. event.kind = "none" /\ pushed = <<>> /\ generator = "unstarted" /\ ~done
    BY DEF StreamInit, Init, NoEvent, Event
  <1>. QED BY <1>2, <1>3, <1>4 DEF StreamInv, NoLostWakeup

LEMMA StreamInvNext == RunInv /\ RunInv' /\ StreamInv /\ [StreamNext]_allVars => StreamInv'
  <1>. SUFFICES ASSUME RunInv, RunInv', StreamInv, [StreamNext]_allVars PROVE StreamInv'
    OBVIOUS
  <1>1. CASE BackgroundRun
    <2>1. SinkedRunStep /\ Next /\ phase \notin RunIsSettled /\ (aborted => aborted')
      BY <1>1, SinkedStepRuns DEF BackgroundRun
    <2>2. UNCHANGED <<generator, done, yielded>> /\ ~done
      BY <1>1, <2>1 DEF BackgroundRun, Push, StreamInv, RunIsSettled, StreamTypes
    <2>3. CASE event' = event
      <3>1. UNCHANGED <<queue, pushed, resolveWait>>
        BY <1>1, <2>3 DEF BackgroundRun
      <3>. QED BY <2>1, <2>2, <2>3, <3>1
               DEF StreamInv, StreamTypes, QueueIsRest, NoLostWakeup
    <2>4. CASE event' # event
      <3>1. Push(event') /\ event' \in FeedEvents
        BY <1>1, <2>1, <2>4, EmittedIsFed DEF BackgroundRun
      <3>2. /\ StreamTypes' /\ QueueIsRest' /\ NoLostWakeup'
            /\ pushed' # <<>> /\ pushed'[Len(pushed')] = event'
        BY <3>1, PushKeepsQueue DEF StreamInv
      <3>. QED BY <2>1, <2>2, <3>2 DEF StreamInv
    <2>. QED BY <2>3, <2>4
  <1>2. CASE ExecutorPushes
    <2>1. /\ UNCHANGED <<phase, event, aborted, generator, done>> /\ phase = "executing"
          /\ Push(Event("executor", current))
      BY <1>2 DEF ExecutorPushes, Push
    <2>2. Event("executor", current) \in FeedEvents
      BY DEF RunInv, TypeInv, PathTypes, Event, FeedEvents
    <2>3. StreamTypes' /\ QueueIsRest' /\ NoLostWakeup'
      BY <2>1, <2>2, PushKeepsQueue DEF StreamInv
    <2>4. event.kind # "run_completed" /\ ~done /\ generator # "returned"
      BY <2>1 DEF RunInv, OutcomeInv, Running, StreamInv, StreamTypes, RunIsSettled
    <2>5. pushed' # <<>> /\ pushed'[Len(pushed')].kind = "executor"
      BY <2>1, <2>2, PushKeepsQueue DEF StreamInv, Event
    <2>. QED BY <2>1, <2>3, <2>4, <2>5 DEF StreamInv
  <1>3. CASE Finally
    BY <1>3 DEF Finally, vars, StreamInv, StreamTypes, QueueIsRest, NoLostWakeup, RunIsSettled
  <1>4. CASE FirstNext
    BY <1>4 DEF FirstNext, vars, StreamInv, StreamTypes, QueueIsRest, NoLostWakeup, Generator
  <1>5. CASE EnterLoop \/ Woken \/ PullNext
    BY <1>5, ContinueStep DEF EnterLoop, Woken, PullNext
  <1>6. CASE Joined
    BY <1>6 DEF Joined, MayBeFalsy, StreamInv, StreamTypes, QueueIsRest, NoLostWakeup, Generator
  <1>7. CASE Unwound
    BY <1>7 DEF Unwound, vars, StreamInv, StreamTypes, QueueIsRest, NoLostWakeup, Generator
  <1>8. CASE ConsumerLeaves
    BY <1>8 DEF ConsumerLeaves, StreamInv, StreamTypes, QueueIsRest, NoLostWakeup, Generator
  <1>9. CASE CallerAborts
    BY <1>9 DEF CallerAborts, Abort, streamVars, StreamInv, StreamTypes, QueueIsRest, NoLostWakeup
  <1>10. CASE UNCHANGED allVars
    BY <1>10 DEF allVars, vars, streamVars, StreamInv, StreamTypes, QueueIsRest, NoLostWakeup
  <1>. QED BY <1>1, <1>2, <1>3, <1>4, <1>5, <1>6, <1>7, <1>8, <1>9, <1>10 DEF StreamNext

LEMMA StreamAlways == StreamSpec => [](RunInv /\ StreamInv)
  <1>1. RunInv /\ StreamInv /\ [StreamNext]_allVars => (RunInv /\ StreamInv)'
    BY StreamStepIsRunStep, TypeNext, OutcomeNext, PathNext, BlameNext, StreamInvNext DEF RunInv
  <1>2. StreamInit => RunInv /\ StreamInv
    BY TypeInit, OutcomeInit, PathInit, BlameInit, StreamInvInit DEF StreamInit, RunInv
  <1>. QED BY <1>1, <1>2, PTL DEF StreamSpec

\* No wake-up is lost: a generator waits for one only with an empty queue and a
\* run that goes on.
THEOREM WakeupCorrect == StreamSpec => []NoLostWakeup
  <1>1. StreamInv => NoLostWakeup
    BY DEF StreamInv
  <1>. QED BY <1>1, StreamAlways, PTL

\* The queue holds exactly what was pushed and not yet yielded, in order.
THEOREM QueueCorrect == StreamSpec => []QueueIsRest
  <1>1. StreamInv => QueueIsRest
    BY DEF StreamInv
  <1>. QED BY <1>1, StreamAlways, PTL

\* Iteration ends after the run's last event, which tells the outcome.
THEOREM EndCorrect == StreamSpec => []EndTellsOutcome
  <1>1. RunInv /\ StreamInv => EndTellsOutcome
    <2>. SUFFICES ASSUME RunInv, StreamInv, generator \in {"returned", "threw"}
                  PROVE  EndTellsOutcome
      BY DEF EndTellsOutcome
    <2>1. yielded = Len(pushed) /\ phase \in RunIsSettled
      BY EmptyRest DEF StreamInv, StreamTypes, QueueIsRest
    <2>2. CASE phase = "resolved"
      <3>1. event.kind = "run_completed"
        BY <2>2 DEF RunInv, OutcomeInv, OutcomeAgrees
      <3>. QED BY <2>1, <2>2, <3>1 DEF StreamInv, EndTellsOutcome
    <2>3. CASE phase = "rejected"
      <3>1. CASE generator = "returned"
        <4>1. thrown = "executor" /\ event.kind \notin {"none", "run_completed"}
          BY <2>3, <3>1 DEF StreamInv, RunInv, BlameInv
        <4>. QED BY <2>1, <2>3, <3>1, <4>1 DEF StreamInv, EndTellsOutcome
      <3>2. CASE generator = "threw"
        BY <2>1, <2>3, <3>2 DEF EndTellsOutcome
      <3>. QED BY <3>1, <3>2
    <2>. QED BY <2>1, <2>2, <2>3 DEF RunIsSettled
  <1>. QED BY <1>1, StreamAlways, PTL

-----------------------------------------------------------------------------
(* Leaving *)

\* An aborted run does not come to stage_started.
LEMMA AbortedStartsNoStage ==
  ASSUME [Next]_vars, aborted, phase # "stage_started"
  PROVE  phase' # "stage_started"
  <1>1. ASSUME NEW e, Fail(e) PROVE phase' # "stage_started"
    BY <1>1, FailPhase
  <1>2. ASSUME NEW s, Iterate(s) PROVE phase' # "stage_started"
    BY <1>1, <1>2 DEF Iterate
  <1>3. CASE \E out \in UNION {OutputsOf[s] : s \in Stages} : ExecuteReturns(out)
    BY <1>1, <1>3 DEF ExecuteReturns, Emit
  <1>4. CASE StageCompletedDelivered
    BY <1>1, <1>4 DEF StageCompletedDelivered, Emit
  <1>5. CASE RunStartedDelivered \/ TransitionSelectedDelivered
    BY <1>2, <1>5 DEF RunStartedDelivered, TransitionSelectedDelivered
  <1>6. CASE ExecuteThrows \/ SinkFails
    BY <1>1, <1>6 DEF ExecuteThrows, SinkFails
  <1>7. CASE \/ Begin \/ RunStartedFails \/ StageStartedDelivered \/ ExecutorEmits
             \/ RunCompletedDelivered \/ RunFailedDelivered \/ RunFailedFails
             \/ FinishRunReturns \/ FinishRunThrows \/ Abort \/ UNCHANGED vars
    BY <1>7 DEF Begin, RunStartedFails, StageStartedDelivered, ExecutorEmits, RunCompletedDelivered,
                RunFailedDelivered, RunFailedFails, FinishRunReturns, FinishRunThrows, Abort,
                CallFinishRun, Settle, vars
  <1>. QED BY <1>3, <1>4, <1>5, <1>6, <1>7 DEF Next, RunStep

\* A consumer that broke out has aborted the run: from then on it starts no stage.
THEOREM LeavingCorrect == StreamSpec => LeavingCancels
  <1>1. RunInv /\ StreamInv /\ [StreamNext]_allVars =>
          [(generator \in {"unwinding", "left"} /\ phase # "stage_started")
             => phase' # "stage_started"]_allVars
    BY StreamStepIsRunStep, AbortedStartsNoStage DEF RunInv, StreamInv
  <1>. QED BY <1>1, StreamAlways, PTL DEF StreamSpec, LeavingCancels

-----------------------------------------------------------------------------
(* The feed *)

LEMMA FeedInit == StreamInit => Feed!Init
  BY DEF StreamInit, Feed!Init

\* A resumed generator takes the next event, or stays a reader of an empty queue.
LEMMA ContinueFeeds ==
  ASSUME StreamInv, generator \in {"starting", "waiting", "at_yield"}, Continue
  PROVE  [Feed!Next]_(Feed!vars)
  <1>1. UNCHANGED <<pushed, done>>
    BY DEF Continue
  <1>2. CASE queue # <<>>
    <2>1. yielded < Len(pushed)
      BY <1>2, TailOfRest DEF StreamInv, StreamTypes, QueueIsRest
    <2>2. generator' = "at_yield" /\ yielded' = yielded + 1
      BY <1>2 DEF Continue
    <2>3. Feed!Take
      BY <1>1, <2>1, <2>2 DEF Feed!Take
    <2>. QED BY <2>3 DEF Feed!Next
  <1>3. CASE queue = <<>>
    <2>1. generator' \in {"joining", "waiting"} /\ yielded' = yielded
      BY <1>3 DEF Continue
    <2>. QED BY <1>1, <2>1 DEF Feed!vars
  <1>. QED BY <1>2, <1>3

\* Every step of the stream is one of the feed, or none.
LEMMA FeedNext ==
  ASSUME RunInv, RunInv', StreamInv, [StreamNext]_allVars
  PROVE  [Feed!Next]_(Feed!vars)
  <1>1. ASSUME NEW e \in FeedEvents, Push(e), phase \notin RunIsSettled
        PROVE  [Feed!Next]_(Feed!vars)
    <2>1. Feed!Produce
      BY <1>1 DEF Push, Feed!Produce, StreamInv, StreamTypes, FeedEvents
    <2>. QED BY <2>1 DEF Feed!Next
  <1>2. CASE BackgroundRun
    <2>1. Next /\ phase \notin RunIsSettled
      BY <1>2, SinkedStepRuns DEF BackgroundRun
    <2>2. CASE event' = event
      BY <1>2, <2>2 DEF BackgroundRun, Feed!vars
    <2>3. CASE event' # event
      <3>1. Push(event') /\ event' \in FeedEvents
        BY <1>2, <2>1, <2>3, EmittedIsFed DEF BackgroundRun
      <3>. QED BY <1>1, <2>1, <3>1
    <2>. QED BY <2>2, <2>3
  <1>3. CASE ExecutorPushes
    <2>1. Push(Event("executor", current)) /\ phase \notin RunIsSettled
      BY <1>3 DEF ExecutorPushes, RunIsSettled
    <2>2. Event("executor", current) \in FeedEvents
      BY DEF RunInv, TypeInv, PathTypes, Event, FeedEvents
    <2>. QED BY <1>1, <2>1, <2>2
  <1>4. CASE Finally
    <2>1. Feed!Finish
      BY <1>4 DEF Finally, Feed!Finish
    <2>. QED BY <2>1 DEF Feed!Next
  <1>5. CASE EnterLoop \/ Woken \/ PullNext
    BY <1>5, ContinueFeeds DEF EnterLoop, Woken, PullNext
  <1>6. CASE ConsumerLeaves
    <2>1. Feed!Leave
      BY <1>6 DEF ConsumerLeaves, Feed!Leave
    <2>. QED BY <2>1 DEF Feed!Next
  <1>7. CASE Joined
    <2>1. yielded = Len(pushed)
      BY <1>7, EmptyRest DEF Joined, StreamInv, StreamTypes, QueueIsRest
    <2>2. Feed!End
      BY <1>7, <2>1 DEF Joined, Feed!End
    <2>. QED BY <2>2 DEF Feed!Next
  <1>8. CASE Unwound
    <2>1. Feed!End
      BY <1>8 DEF Unwound, Feed!End
    <2>. QED BY <2>1 DEF Feed!Next
  <1>9. CASE FirstNext \/ CallerAborts \/ UNCHANGED allVars
    BY <1>9 DEF FirstNext, CallerAborts, allVars, streamVars, Feed!vars
  <1>. QED BY <1>2, <1>3, <1>4, <1>5, <1>6, <1>7, <1>8, <1>9 DEF StreamNext

\* The generator implements the abstract feed of the run's events: its consumer
\* gets each event once and in order, and is gone only when the run is over.
THEOREM StreamImplementsFeed == StreamSpec => Feed!Init /\ [][Feed!Next]_(Feed!vars)
  <1>1. RunInv /\ StreamInv /\ RunInv' /\ StreamInv' /\ [StreamNext]_allVars
          => [Feed!Next]_(Feed!vars)
    BY FeedNext
  <1>. QED BY <1>1, FeedInit, StreamAlways, PTL DEF StreamSpec
=============================================================================

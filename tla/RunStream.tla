----------------------------- MODULE RunStream -----------------------------
(***************************************************************************)
(* WorkflowRuntime.stream (runtime.ts): an async generator that starts     *)
(* WorkflowRun in the background and yields its events.  The run's sink    *)
(* pushes into an array and wakes the generator through resolveWait; the   *)
(* generator yields from the array, and when its consumer breaks out it    *)
(* aborts the run and waits for it.                                        *)
(***************************************************************************)
EXTENDS WorkflowRun

CONSTANT MaxDeltas     \* bound on the events executors emit in one run

VARIABLES
  queue,
  resolveWait,   \* a wait promise is pending and resolveWait can resolve it
  done,
  generator,     \* where the generator is suspended
  pushed,        \* history: the events pushed into the queue
  yielded,       \* history: how many of them were yielded
  deltas         \* counter for MaxDeltas

streamVars == <<queue, resolveWait, done, generator, pushed, yielded, deltas>>
allVars == <<vars, streamVars>>

ASSUME MaxDeltasAssumption == MaxDeltas \in Nat

StreamInit ==
  /\ Init
  /\ queue = <<>> /\ pushed = <<>> /\ yielded = 0 /\ deltas = 0
  /\ resolveWait = FALSE
  /\ done = FALSE
  /\ generator = "unstarted"

-----------------------------------------------------------------------------
(* The background run *)

\* Mutant: the sink pushes without waking the generator.
PushSilently(e) ==
  /\ queue' = Append(queue, e)
  /\ pushed' = Append(pushed, e)
  /\ UNCHANGED <<resolveWait, generator, done, yielded>>

\* The sink: it never throws and settles at once.
Push(e) ==
  /\ queue' = Append(queue, e)
  /\ pushed' = Append(pushed, e)
  /\ resolveWait' = FALSE
  /\ UNCHANGED <<generator, done, yielded>>

\* The steps of run whose sink is this one.
SinkedRunStep ==
  \/ Begin
  \/ RunStartedDelivered \/ StageStartedDelivered
  \/ (\E out \in UNION {OutputsOf[s] : s \in Stages} : ExecuteReturns(out))
  \/ ExecuteThrows
  \/ StageCompletedDelivered \/ TransitionSelectedDelivered
  \/ RunCompletedDelivered \/ RunFailedDelivered
  \/ FinishRunReturns \/ FinishRunThrows

\* The generator's body, and with it the run, starts at the first next().
BackgroundRun ==
  /\ generator # "unstarted"
  /\ SinkedRunStep
  /\ IF event' = event THEN UNCHANGED <<queue, pushed, resolveWait, generator, done, yielded>>
                       ELSE Push(event')
  /\ UNCHANGED deltas

\* Model and tool events come from inside the executor, through the same sink.
ExecutorPushes ==
  /\ phase = "executing" /\ deltas < MaxDeltas
  /\ deltas' = deltas + 1
  /\ Push(Event("executor", current))
  /\ Observe
  /\ UNCHANGED <<inputs, aborted, phase, current, selected, steps, stageOutputs,
                 event, cause, thrown, begun, finished, status>>

\* Mutant: the end of the run does not wake the generator.
FinallySilently ==
  /\ phase \in {"resolved", "rejected"} /\ ~done
  /\ done' = TRUE
  /\ UNCHANGED <<vars, queue, pushed, resolveWait, generator, yielded, deltas>>

\* The catch and finally callbacks of runPromise run after run has settled.
Finally ==
  /\ phase \in {"resolved", "rejected"} /\ ~done
  /\ done' = TRUE
  /\ resolveWait' = FALSE
  /\ UNCHANGED <<vars, queue, pushed, generator, yielded, deltas>>

CallerAborts == Abort /\ UNCHANGED streamVars

-----------------------------------------------------------------------------
(* The generator.  From a resumption to the next suspension nothing else runs. *)

\* Mutant: the newest event is yielded first.
ContinueLifo ==
  /\ IF queue # <<>>
       THEN /\ generator' = "at_yield"
            /\ queue' = SubSeq(queue, 1, Len(queue) - 1)
            /\ yielded' = yielded + 1
            /\ UNCHANGED resolveWait
       ELSE /\ generator' = IF done THEN "joining" ELSE "waiting"
            /\ resolveWait' = ~done
            /\ UNCHANGED <<queue, yielded>>
  /\ UNCHANGED <<vars, pushed, done, deltas>>

\* Mutant: the outer loop ends with the run, whatever is left in the queue.
ContinueUntilDone ==
  /\ IF queue # <<>> /\ ~done
       THEN /\ generator' = "at_yield"
            /\ queue' = Tail(queue)
            /\ yielded' = yielded + 1
            /\ UNCHANGED resolveWait
       ELSE /\ generator' = IF done THEN "joining" ELSE "waiting"
            /\ resolveWait' = ~done
            /\ UNCHANGED <<queue, yielded>>
  /\ UNCHANGED <<vars, pushed, done, deltas>>

\* The two nested loops: yield the head of the queue, or leave the loop when
\* the run is done, or install a wait promise.
Continue ==
  /\ IF queue # <<>>
       THEN /\ generator' = "at_yield"
            /\ queue' = Tail(queue)
            /\ yielded' = yielded + 1
            /\ UNCHANGED resolveWait
       ELSE /\ generator' = IF done THEN "joining" ELSE "waiting"
            /\ resolveWait' = ~done
            /\ UNCHANGED <<queue, yielded>>
  /\ UNCHANGED <<vars, pushed, done, deltas>>

\* The first next(): a signal that is aborted already aborts the run's own.
\* The body calls run, then enters the loop.  With a trace recorder run_started
\* reaches the sink only after the observer's await, when the loop may be waiting;
\* without one it is in the queue already.
FirstNext ==
  /\ generator = "unstarted"
  /\ generator' = "starting"
  /\ UNCHANGED <<vars, queue, resolveWait, done, pushed, yielded, deltas>>

EnterLoop == generator = "starting" /\ Continue

Woken == generator = "waiting" /\ ~resolveWait /\ Continue

PullNext == generator = "at_yield" /\ Continue

\* Mutant: breaking out only waits for the run.
LeaveRunning ==
  /\ generator = "at_yield"
  /\ generator' = "unwinding"
  /\ UNCHANGED <<vars, queue, resolveWait, done, pushed, yielded, deltas>>

\* The consumer breaks out: the finally block aborts the run.
ConsumerLeaves ==
  /\ generator = "at_yield"
  /\ generator' = "unwinding"
  /\ aborted' = TRUE
  /\ UNCHANGED <<inputs, phase, current, selected, steps, stageOutputs, event, cause,
                 thrown, recorder, queue, resolveWait, done, pushed, yielded, deltas>>

\* What run rejects with is an Error the runtime made, unless it passes on what
\* the stage executor threw: host code may throw undefined, "" or 0.
MayBeFalsy(e) == e = "executor"

\* await runPromise after the loop: iteration throws the run's error if there is
\* one and it is truthy, and ends normally otherwise.  The finally block of a
\* generator that throws aborts a signal nobody listens to any more.
Joined ==
  /\ generator = "joining" /\ done
  /\ \/ /\ phase = "resolved" \/ MayBeFalsy(thrown)
        /\ generator' = "returned" /\ UNCHANGED aborted
     \/ /\ phase = "rejected"
        /\ generator' = "threw" /\ aborted' = TRUE
  /\ UNCHANGED <<inputs, phase, current, selected, steps, stageOutputs, event, cause,
                 thrown, recorder, queue, resolveWait, done, pushed, yielded, deltas>>

\* Mutant: the generator returns without waiting for the aborted run.
UnwoundAtOnce ==
  /\ generator = "unwinding"
  /\ generator' = "left"
  /\ UNCHANGED <<vars, queue, resolveWait, done, pushed, yielded, deltas>>

Unwound ==
  /\ generator = "unwinding" /\ done
  /\ generator' = "left"
  /\ UNCHANGED <<vars, queue, resolveWait, done, pushed, yielded, deltas>>

GeneratorStep == EnterLoop \/ Woken \/ Joined \/ Unwound

StreamNext ==
  \/ BackgroundRun \/ ExecutorPushes \/ Finally
  \/ FirstNext \/ EnterLoop \/ Woken \/ PullNext \/ Joined \/ Unwound
  \/ ConsumerLeaves \/ CallerAborts

\* The run progresses as in WorkflowRun; a resumed generator runs; and the
\* consumer asks for the next event or leaves, which is what iterating means.
StreamSpec ==
  /\ StreamInit /\ [][StreamNext]_allVars
  /\ WF_allVars(BackgroundRun) /\ WF_allVars(Finally)
  /\ WF_allVars(FirstNext) /\ WF_allVars(GeneratorStep)
  /\ WF_allVars(PullNext)

-----------------------------------------------------------------------------
(* Properties *)

\* No wake-up is lost: a generator that still waits for one has nothing to
\* yield and a run to wait for.
NoLostWakeup ==
  generator = "waiting" /\ resolveWait => queue = <<>> /\ ~done

\* The queue holds exactly what was pushed and not yet yielded, in order.
QueueIsRest == queue = SubSeq(pushed, yielded + 1, Len(pushed))

\* Iteration ends after the run's last event, and that event tells the outcome:
\* iteration that ends normally was of a run that resolved exactly if its last
\* event is run_completed; it may otherwise only hide what the executor threw.
\* Iteration that throws was of a run that rejected.
EndTellsOutcome ==
  /\ generator \in {"returned", "threw"} => yielded = Len(pushed)
  /\ generator = "returned" =>
       /\ phase = "resolved" <=> pushed[yielded].kind = "run_completed"
       /\ phase = "rejected" => thrown = "executor"
  /\ generator = "threw" => phase = "rejected"

\* A consumer that broke out has aborted the run: from then on it starts no stage.
LeavingCancels ==
  [][(generator \in {"unwinding", "left"} /\ phase # "stage_started")
       => phase' # "stage_started"]_allVars

\* The generator implements the abstract feed of the run's events.
Feed == INSTANCE EventFeed WITH
  Events   <- [kind : {"run_started", "stage_started", "stage_completed", "executor",
                       "transition_selected", "run_completed", "run_failed"},
               stage : Stages \cup {NoStage}],
  produced <- pushed,
  taken    <- yielded,
  over     <- done,
  consumer <- IF generator \in {"returned", "threw", "left"} THEN "gone"
              ELSE IF generator = "unwinding" THEN "leaving" ELSE "reading"
FeedSpec == Feed!Spec

\* Whoever iterates gets to the end: the stream neither hangs on the queue nor
\* on a run it has aborted.
StreamEnds == <>(generator \in {"returned", "threw", "left"})
=============================================================================

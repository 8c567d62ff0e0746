# Verification of the NemoIR web runtime

TLA+ specifications of the TypeScript runtime that executes compiled NemoIR
workflows in a browser, the TLC configurations that check them on small
instances, and TLAPS proofs of the properties that matter most. Every definition
is translated from the code under `src/src/`; `PROJECT.json` maps each one to its
lines.

## 1. The system

| component | source | state | operations |
|---|---|---|---|
| `WorkflowRuntime.run` | `runtime.ts`, `events.ts`, `evaluator.ts` | current stage, step count, stage outputs, abort signal, the recorder's life cycle | `run`: begin, iterate, execute, validate, select transition, complete, fail |
| `WorkflowRuntime.stream` | `runtime.ts` | event queue, pending wake-up, `done`, the suspended generator | push, wake, yield, leave, join |
| Policy enforcement, tools | `runtime.ts`, `tools.ts` | pending (nested) call, policy outcome, replay tape, vault records | `callTool`, deny check, before requirements, handler call |
| `ModelStageExecutor` | `models.ts` | conversation, retry and round counters, pending model-call ids | attempt, stream, correct, run tools, validate |
| `WebLlmSession`, its adapter | `webllm.ts` | engine, worker, loaded model, `unhealthy`, `loadPromise` | `ensureLoaded`, `switchModel`, `retryLoad`, delete, `interrupt`, `dispose`, generate |
| `WorkflowAgent` | `agent.ts` | default options, tools, last recorder | `run`, `stream` |
| Browser tools | `browser-tools.ts`, `ui-host.ts` | cached database promise, a worker per call | storage read/write, `js.run`, fetch |
| Sandbox runner | `sandbox.ts` | frame, message port, timer of one run | `run` |
| Deterministic stages | `deterministic.ts` | none | map reads to arguments, call the tool, map the result |
| `TraceRecorder`, archive | `trace.ts`, `trace-export.ts`, `canonical.ts` | event ledger, pending visit/model/tool ids, vault records | semantic hooks, `observeWorkflowEvent`, `finishRun`, `verifyArchive`, `unlockArchive` |
| Replay | `replay.ts` | fixtures and tapes of one archive | `replayTrace`, taped model, tools and policies, `comparePaths` |
| Publication | `publication.ts` | none (report and attestation are files) | `scanPublication`, attest, `preparePublication` |
| IR, manifest, capabilities | `ir.ts`, `manifest.ts`, `capabilities.ts` | none | decode, validate, build |
| Device probes, model sources | `device-capabilities.ts`, `model-sources.ts`, `model-contract.ts` | none | probes and lookups |
| Command line | `cli.ts`, `bin/` | files | inspect, verify, unlock, replay, publish |

How they interact. `run` awaits three kinds of things: the sink of each event it
emits, the stage executor, and the recorder's `finishRun`. The executor of a model
stage awaits the model adapter and, through `ctx.callTool`, the policy gate, which
awaits tool handlers; all of them emit events through the same emitter, so an
event reaches the trace observer first and then the sink. `stream` is `run` in the
background with a sink that feeds a generator. The adapter of a WebLLM session
shares one engine and one worker with every load, switch and dispose.

What is hard here. Nothing is parallel, but every `await` is a point at which
anything else may run: an abort, a second call on the shared session, a consumer
that breaks out of a generator, a sink that rejects. Failures come in the middle of
sequences (an event that was announced but not recorded, a tool that ran but whose
completion could not be delivered), identities are given by position in queues, and
two retry budgets and a step limit have to end loops whose length the model
decides. `PROJECT.json` lists each of these hazards at its line, with the property
that would catch it or the reason why none does.

What makes each component correct:

- run: the caller, the event consumer and the trace are told the same outcome; the
  events follow the path through the manifest; a stage runs only with its required
  reads; the limits hold and every run settles, at once after an abort.
- stream: no event is lost, repeated or reordered, no wake-up is lost, leaving
  cancels the run and waits for it, and the last event tells the outcome.
- policy gate: no handler runs unless every policy on it allowed this very call,
  nested or not; denials and outcomes are on record.
- model stage: attempts are bounded by the budgets, the conversation is one a
  provider accepts, the ledger names the right attempt.
- WebLLM session: the model reported as loaded is the one the live engine holds, a
  call that returns normally has its model, workers do not leak, no call hangs on
  another one; generation ends when it is interrupted.
- sandbox, `js.run`: one settlement per run and the frame or worker removed once.
- recorder, archive: what a finished run left verifies; a full vault holds the evidence of
  everything the ledger reports; who edits an archive is noticed, and a vault opens only
  with the record it was sealed with.
- replay: a completed run takes the recorded path again. Publication: what is published is
  what was reviewed.

## 2. Modules

| module | models | state and actions |
|---|---|---|
| `WorkflowRun` | one call of `run` | `phase` is the await the run is suspended at; an action is the code from one await to the next. `Begin`, `RunStartedDelivered` ... are the continuations after a delivered event, `SinkFails` the same after a rejected one, `ExecuteReturns`/`ExecuteThrows` after the executor, `FinishRunReturns`/`FinishRunThrows` after the recorder. `Iterate` is the top of the loop, `Fail` the catch clause. |
| `EventFeed` | what `stream` promises | events are produced, taken in order, the run ends, the consumer leaves |
| `RunStream` | `stream`, composed with `WorkflowRun` (EXTENDS) | `queue`, `resolveWait`, `done` are the generator's variables; `BackgroundRun` is a step of the run with its `Push`; `Continue` is the generator from a resumption to the next suspension |
| `PolicyGate` | `enforceAndCall` and `enforceAndCallWithPolicies` | `stack` holds the call and the call a policy requires; a frame's `at` is the await it is suspended at; `Plan` is the set of policies a call must pass, a frame's `left` those it has still to pass, `ComesBefore` the order in which it does |
| `ModelStage` | `ModelStageExecutor.execute` and the recorder's model-call ids | `at` is the await; an answer of the model is one of the classes `execute` tells apart; `pendingModels` is the recorder's queue of ids |
| `WebllmSession` | the session's calls, overlapping | `call[c].at` is the await call `c` is suspended at; `inbox`, `live` and `holds` are the workers: requests posted to them, which of them live, what their engines hold; `Unloaded` is the code after `unloadCurrent` in each caller, `End` the settlement of a load with its `finally` |
| `OneShot` | what a browser tool that runs code promises | a call settles once and from then on holds nothing of the page |
| `SandboxRun` | one run of the opaque-origin sandbox | the page (`call`, `frame`, `port`, `timer`, `listening`), the frame's document (`bound`, `answered`) and its worker, with the messages between them in flight; `Cleanup` and `Settle` are the functions of that name |
| `JsRun` | one call of `js.run` | the worker, what it said and the page has not seen, timer and listener; a call begins with `Start`, or ends there with `Refuse` or `PostFails`; `Settle` includes the `finally` clause, which runs before the next event |
| `RunScript` | what a run says to its recorder | pure: each step gives where the run is then and the hooks it called and the events it emitted, in order; the same steps are taken live and on replay |
| `TraceLedger` | `TraceRecorder` | `rec` holds the recorder's fields: ledger, vault, the queues that tell which visit and call an event is about; `Record` applies the calls of a step, `FinishRun` builds the archive, an archive is entries by name and an index over them |
| `ArchiveCheck` | `verifyArchive`, `unlockArchive` | pure: sets of errors and warnings of an archive |
| `TapedReplay` | `replayTrace` | `tape` are the answers not yet taken, `run` the replayed run, `path` its events; `Compare` is `comparePaths` |
| `Publication` | scanning, attesting, preparing | `report`, `attestation`, `published`: the files the three commands leave |
| `RunStreamProofs`, `PolicyGateProofs`, `ModelStageProofs`, `WebllmSessionProofs`, `SandboxRunProofs` | theorems about the module each is named after | section 4; `RunStreamProofs` begins with those about `WorkflowRun` |
| `BrowserCallsProofs` | theorems about the composition in `MCBrowserCalls` | rests on `SandboxRunProofs` through INSTANCE; the proofs of `JsRun` are here, its only use |
| `EvidenceProofs` | theorems about the composition in `MCEvidence` | the recorder, the archive, its check and the publication, and the run that is recorded |
| `ReplayProofs` | theorems about taped replay in `MCEvidence` | rests on `EvidenceProofs`; the recorded run, its tape and the replayed one |
| `MC*` | the instances TLC checks | |

Data are abstracted to what the code branches on: a field value is null, a non-empty
or empty string or list, or a number; a policy condition is a verdict; a model's
answer is a class. Message texts, previews, schemas and reasoning modes are left
out. Counters that only exist to bound a model are named `Max...` (`MaxDeltas`,
`MaxCalls`). Definitions introduced by a comment that begins with "Mutant:" are
plausible bugs of the definition below them; no specification uses them, and a
check substitutes each to see that the property it belongs to is violated.

Where a promise that is already settled is awaited (`unloadCurrent` of a session
without an engine, a load that settles and the `finally` of the call that owns it),
the continuation is part of the same action: only other microtasks could come
between, and those that could touch the same fields are continuations of engine
requests, each of which arrives in a task of its own.

## 3. What TLC checks

| run | question | states | properties |
|---|---|---|---|
| `workflow_run` | Do the outcome, the events and the trace of a run agree, whatever fails and whenever it is aborted? | 7,204 | `TypeOK`, `OutcomeAgrees`, `RecorderFinalized`, `StepBudget`, `ExecutesReady`, `NoEmptyOptionalList`, `EventOrder`, `AbortStops`, `Settles` |
| `run_stream` | Does the generator deliver the run's events, wherever the consumer leaves? | 80,896 | `NoLostWakeup`, `QueueIsRest`, `EndTellsOutcome`, `LeavingCancels`, `FeedSpec`, `StreamEnds` |
| `policy_gate` | Does any handler run that a policy did not allow, and is each denial and outcome on record? | 16,801 | `GateTypeOK`, `HandlerAuthorized`, `DenialOnRecord`, `OutcomeOnRecord`, `CallSettles` |
| `model_stage` | Do the budgets bound a stage, is its conversation well formed, does the ledger name the right attempt? | 71,513 | `AttemptsPaidFor`, `ConversationWellFormed`, `EventsNameTheirAttempt`, `LedgerHasEvidence`, `StageSettles` |
| `browser_calls` | Does each call settle once and let go of what it holds, whatever wins the race? | 1,994 | `NothingOutlivesAbort`, `SandboxIsOneShot`, `OneAnswerDecides`, `JsRunIsOneShot` |
| `evidence` | Does what a run left verify, unlock, bind, replay and publish as promised? | 169,759 | `FinishedVerifies`, `UnlockComplete`, `VaultBindsRecord`, `PublishedIsReviewed`, `ReplayMatches` |
| `webllm_session` | Is the session's word about its engine true while calls overlap, and do calls settle? | 200,710 | `SessionTypeOK`, `NoLeakedWorker`, `LoadedIsReal`, `LoadPromiseLive`, `ResolvedIsLoaded`, `CallsSettle` |
| `model_stage_ids`, `webllm_reload`, `webllm_clean`, `js_run_worker`, `replay_failed` | section 6 | | one violated property each |

`FeedSpec` is the refinement of the abstract feed by the generator: what it maps is
given at `Feed` in `RunStream`. `EventFeed` itself says what a consumer may rely on:
events come in the order they were produced, none after the feed is over, a reading
consumer is only gone when the run is over and everything was taken, and one that
leaves is gone only when the run is over.

How the modules of the evidence compose. `MCEvidence` runs a live `RunScript` whose calls
`TraceLedger` records, with aborts at the top of the loop and in the catch clause. Whoever
holds the archive may rewrite it once: a record dropped or edited, the status, the graph, the
summary or the vault's presence changed, the vault's metadata adjusted, the vault replaced by
one sealed with another key, with and without a new index. It is then replayed, with the
right and with a wrong passphrase, or scanned, attested and published, the rewriting falling
before, between or after these.

`ReplayMatches` has preconditions, and each marks a limit of taped replay that the model
shows: the capture is complete and nothing is masked or left out; every attempt had a
response (an attempt without one leaves nothing on the tape, so its retry is not replayed);
some tool call that a model asked for succeeded, if it asked for any (a failed result is
filed without the tool's name, and a name without a result is unknown on replay). Runs with
loops, retries, denials and failed tools are among those it holds for.

### Bounds, and why they are enough

- `workflow_run`: three stages with a cycle, `MaxSteps = 5`. The review loop runs
  twice, so a stage sees outputs of an earlier iteration, and the limit falls inside
  the loop and on the exit stage. Outputs range over every value class the
  validators, `normalizeOptionalEmptyArrays` and the guards tell apart, including the
  ones that make a guard throw or leave no transition open. The sink, the executor
  and the recorder may fail at every await, and the signal may be aborted at every one.
- `run_stream`: at most three stages and `MaxDeltas = 2` events of the executor.
  A queue with more than one event, a consumer slower and faster than the run, and a
  leave at every event occur; the generator looks at one event at a time, so a longer
  run repeats these situations.
- `policy_gate`: `MaxCalls = 2`, so that a second call sees the records and the tape
  the first one left. The five policies cover a requirement with its own deny policy,
  a requirement with a before policy that must not apply, two requirements of one
  policy, and a policy that requires nothing; the tapes cover a live run, a shorter
  tape than the run needs and a taped denial. Nesting is at most two calls deep by the
  code, not by a bound.
- `model_stage`: `MaxModelRetries = 3`, `MaxToolRounds = 2`. Each budget runs out alone
  and with the other; three failed attempts leave ids pending. An answer has at most two
  tool calls, enough for one to fail after another succeeded, and at most one delta
  is distinguished from the next.
- `webllm_session`: three calls on two models, one of them the first load, the
  others any operation. Three is the least number with a call that joins a load while
  a third replaces the worker. Two signals may be aborted. A worker per call bounds the
  workers, which is no restriction: a call creates at most one.
- `browser_calls`: one call of each kind on one signal, and one or two messages of a worker that
  says more than it should. What decides is the first message, so a third adds nothing.
- `evidence`: a model stage that may loop and a tool stage; `MaxVisits = 3`, `MaxAsks = 3`,
  `MaxCalls = 2`, `MaxRetries = 1`: a stage is visited again, a visit has a retry, a tool
  failure and a denial before it succeeds, and a retry follows both a completed and an open
  attempt. `MaxEvents = 22` and `MaxVault = 15` are passed by the longest runs only, so each
  limit is met and every shorter run is archived. The eleven configurations are an audit
  with everything open and annotated, without provenance, with a failing hook, with a
  secret in the workflow's names, a full replay profile with and without annotations, and
  one replay profile for each kind of evidence the vault leaves out. `MaxRewritten = 1`
  bounds the model calls of a run whose archive is rewritten: a rewriting changes one
  place, and longer ledgers have no other places.

### Fairness

A property of the form "it settles" holds only if what is awaited settles; the
specifications assume that and nothing more.

- `WorkflowRun`: weak fairness of `RunStep`: sinks, executors and `finishRun` settle their
  promises. Which way they settle is not constrained, and `Abort` has no fairness: a
  caller need not abort.
- `RunStream`: the run as above; a continuation of the generator that is scheduled runs (the
  event loop is fair to a resolved promise); the consumer asks for the next event or
  leaves, as a `for await` loop does. It need not leave.
- `PolicyGate`, `ModelStage`: tools, sinks, adapters and validators settle. A stage need not
  make another call, and a stream need not produce another delta.
- `WebllmSession`: continuations run and live workers answer. A request to a terminated worker
  has no fairness: it may never settle, and `CallsSettle` says this is the only way
  for a call to hang.

- `SandboxRun`, `JsRun`: timers fire. Frames, workers and callers need not do anything, so a
  call settles even if the code it runs never answers.
- The evidence has no liveness property, and its specification states no fairness.

Weak fairness of a disjunction is enough in each case: some disjunct stays enabled
until the component settles, and every disjunct decreases what is left to do.

## 4. What is proved

Each theorem holds for every value of the constants that satisfies the assumptions named
with it. The assumptions are stated in the module that declares the constants and are
what the code guarantees before it gets there; TLC evaluates them in every run.

| module | theorem | statement |
|---|---|---|
| `RunStreamProofs` | `TypeCorrect` | `Spec => []TypeOK` |
| | `OutcomeCorrect` | `Spec => []OutcomeAgrees` |
| | `FinalizationCorrect` | `Spec => []RecorderFinalized` |
| | `BudgetCorrect` | `Spec => []StepBudget` |
| | `ReadsCorrect` | `Spec => []ExecutesReady` |
| | `ListsCorrect` | `Spec => []NoEmptyOptionalList` |
| | `OrderCorrect` | `Spec => EventOrder` |
| | `AbortCorrect` | `Spec => AbortStops` |
| | `WakeupCorrect` | `StreamSpec => []NoLostWakeup` |
| | `QueueCorrect` | `StreamSpec => []QueueIsRest` |
| | `EndCorrect` | `StreamSpec => []EndTellsOutcome` |
| | `LeavingCorrect` | `StreamSpec => LeavingCancels` |
| | `StreamImplementsFeed` | `StreamSpec => Feed!Init /\ [][Feed!Next]_(Feed!vars)` |
| `PolicyGateProofs` | `GateTypeCorrect` | `Spec => []GateTypeOK` |
| | `AuthorizationCorrect` | `Spec => []HandlerAuthorized` |
| | `DenialCorrect` | `Spec => []DenialOnRecord` |
| | `OutcomeCorrect` | `Spec => []OutcomeOnRecord` |
| `ModelStageProofs` | `BudgetCorrect` | `Spec => []AttemptsPaidFor` |
| | `EventIdsCorrect` | `Spec => []EventsNameTheirAttempt` |
| | `EvidenceCorrect` | `Spec => []LedgerHasEvidence` |
| | `ConversationCorrect` | `Spec => []ConversationWellFormed` |
| `WebllmSessionProofs` | `SessionTypeCorrect` | `Spec => []SessionTypeOK` |
| | `WorkersCorrect` | `Spec => []NoLeakedWorker` |
| | `LoadedCorrect` | `Spec => []LoadedIsReal` |
| | `PromiseCorrect` | `Spec => []LoadPromiseLive` |
| | `ResolveCorrect` | `Spec => ResolvedIsLoaded` |
| `SandboxRunProofs` | `AbortCorrect` | `Spec => []NothingOutlivesAbort` |
| | `AnswerCorrect` | `Spec => OneAnswerDecides` |
| | `SandboxImplementsOneShot` | `Spec => Promise!Init /\ [][Promise!Next]_(Promise!vars)` |
| `BrowserCallsProofs` | `AbortEndsSandbox`, `AnswerDecidesSandbox` | the same two of the composition with `js.run` |
| | `SandboxStaysOneShot`, `JsRunStaysOneShot` | the safety parts of `SandboxIsOneShot` and `JsRunIsOneShot` |
| `EvidenceProofs` | `RecordingSafe` | `MCSpec => []EvidenceInv` |
| | `EveryArchiveVerifies` | `MCSpec => []FinishedVerifies` |
| | `VaultsAreComplete` | `MCSpec => []UnlockComplete` |
| | `RewritingIsNoticed` | `MCSpec => []VaultBindsRecord` |
| | `PublicationIsReviewed` | `MCSpec => []PublishedIsReviewed` |
| `ReplayProofs` | `ReplayKeepsToTheRun` | `MCSpec => []RecordAndReplayInv` |
| | `ReplayIsFaithful` | `MCSpec => []ReplayMatches` |

Every proof has the same shape: the invariant holds initially, each action preserves it,
with one step per action, and it implies the property. What several actions do alike has a
lemma of its own. None of the properties is inductive alone; what is added, and why:

**`WorkflowRun`**, under `ManifestAssumption`: what the validation of a manifest guarantees before
a run can start (entry, exits and transition targets are stages, reads name fields of
stages or inputs, the types of fields are the ones the validators know), and
`MaxSteps \in Nat`.

- `TypeInv` adds to `TypeOK` that a stage is selected while `transition_selected` is
  awaited, since the next iteration makes it the current one.
- `OutcomeInv` says, for each await, what the run can have told its consumer and its
  trace by then: while it runs there is no error, the last event is the one whose delivery
  is awaited and the recorder is open; while `run_failed` is delivered there is an error;
  while `finishRun` is awaited its status is known. The sink that fails on
  `run_completed` is why "there is an error" cannot be read off the last event.
  `OutcomeAgrees`, `RecorderFinalized` and `StepBudget` are conjuncts of it.
- `PathInv` ties the current and the selected stage to the last event. With it,
  `EventOrder` holds of every step, and a stage executes only after its own reads were
  tested.

**`RunStream`**, with those assumptions and `MaxDeltas \in Nat`. `StreamStepIsRunStep` shows that
a step of the stream is a step of the run or leaves it alone, so the three invariants of the
run hold in the stream without being proved again. `StreamInv` adds what the generator may
assume of the run: `done` is set only after the run has settled, hence nothing is pushed after
it; a generator past its loop found `done` and an empty queue; the last event pushed is
`run_completed` exactly if the last event of the run is; who unwinds has aborted the run.
`BlameInv`, of the run, says that a run which rejects with what its executor threw did not
get as far as `run_completed`; so the last event tells the outcome even when that value is
falsy and iteration ends normally (section 6). The number of events is not
bounded by anything but the run. In the refinement, a push is `Produce`, a resumption that finds
an event is `Take`, setting `done` is `Finish`; a step of the run without an event and a
resumption that finds the queue empty are stutters.

**`PolicyGate`**, under `PolicyAssumption` (the policies are a sequence of policy records, the
confirmation tool is one of the capabilities): for every list of policies, tools and tapes. Three layers, each
resting on the one before. `ShapeInv`: at most two frames, the inner one is the call the outer
one requires; a call whose tool was started has no policy left to pass. `RecordInv`: ids in the
ledger were given out, those of pending calls are not on record yet, and the last record
agrees with the event being delivered. `AuthInv`, of every frame: the policies no longer in
`left` are those on record as having let this very call pass (`Passed`), and the requirements
before the present one were answered (`Answered`). Records stay while the stage's call is
pending (`AnswersStay`), so what was granted cannot be taken back by a nested call.

**`ModelStage`**, under `BudgetAssumption` (the budgets are numbers, or no limit on rounds), for
both protocols and any answers.
`BudgetInv`: between two attempts there are as many attempts as retries and rounds of tools,
during one there is one more. `IdInv`: ids are given out one per attempt, and the newest id is the
present attempt's whichever older ones are still pending; this is why `model_delta` and
`model_retry` are named right while `model_completed`, which takes the oldest, is not (section 6).
`ConvInv`: only the message that began the present round of tools may lack results, and then
as many as there are calls left.

**`WebllmSession`**, under `CallsAssumption` (finitely many calls), for any models, any operation
each, and any overlap. `QueueInv`: a call has one request, exactly while it waits, to a worker that exists.
`WorkerInv`: only the current worker may live, and a call creates at most one, so workers never
outnumber calls. `HealthInv`: a healthy session with a loaded model has its engine on its
live worker, which holds the model; and a load posted to a living worker finds the engine
still there. The second half is what makes the first inductive while other calls replace the
worker between a request and its answer. `CallInv`: what a call that loads was asked for.

**`SandboxRun`, `JsRun`**, for every set of messages of a worker. `SandboxInv` lists the
exchanges a pending call may be in (loading, initializing, ready, running, working,
answering), each with what is in flight, and that a settled call holds nothing. `JsInv` says the
same of a `js.run` call, except for the worker of a call whose input could not be posted,
which `Holds` leaves out by name.

**The evidence**, under `ScriptAssumption` (entry and exits are stages, `Edges` names stages) and
`LedgerAssumption` (the limits are numbers), for every workflow, recorder configuration,
limit and bound of `MCEvidence`, hence for runs of any length. The hazard is that events carry no ids: a
record is right only if the queues hold what the event is about. Each hook and each event has a
contract on the queues (`StageVisitHook` ... `TransitionEvent`); the calls of each step of a run,
in the order the code makes them, meet the contracts (`BeginInStep` ... `FailInStep`).

- `LedgerInv`, of a recorder within its limit: every record of the ledger is one that
  verification accepts (`SoundRecord`), and in a complete vault what it reports has its
  evidence (`Filed`). `Filed` must speak of the attempts still queued and of the last to
  complete as well, because a later event or a retry may name them: each is on file or is the
  call in progress. Over the limit nothing is promised, since `finishRun` refuses.
- `RunInv` adds that between two steps no visit and no tool call waits for its event (attempts
  may: a silent one does), that a visit has begun wherever the run is in a stage, and that a
  model's stage has asked before it calls a tool, so that its retry finds an attempt.
- `ArchiveInv`: an archive is built of a finished recorder within its limits, and what is held is
  it or one rewriting of it. `FinishedVerifies` and `UnlockComplete` follow from this and
  `LedgerInv`; `VaultBindsRecord` because digests are free of collisions and a rewriting
  leaves the vault's binding or changes its key.
- `PubInv`: what is published was projected from an archive with the index of the one attested,
  under the same options. The index of an archive that verifies determines its entries, so
  the two projections are equal; that a projection verifies is shown record by record.

**Replay**, under the same assumptions: for runs of any length, with loops, retries, denials and
failed tools, whichever passphrase sealed the vault and whether the archive was rewritten or
not. The proof relates two runs that are never under way at the same time, so what the recorded run
went through is kept in an invariant of the recording and used when the replay begins.

- `RecordingInv`, while every attempt was answered (`Fine`). A view is the run with the
  visit, the stages and what the vault holds at that moment. There is a set of
  views, the present one among them, that is a `History`: it holds an opened run, and from each view
  other than the present one some other `Follows`: one answer a replay takes was filed
  from one to the other (or none was asked for), and the step that answer decides, taken by
  the same operators of `RunScript`, leads from the run of one to the run of the other with the
  milestones of the path appended. Each is `Behind` the present one: a
  visit's answers are filed before its snapshot gives it a stage, and a visit has at most one.
- `ReplayInv`: once the archive is sealed, `TapeAt` is the tape of the vault without the records of a view,
  and the replay is `Abreast`: at some view of the history, with the run of that view, its path and that tape.
  If that view is not the last, the answer that leads on heads its queue, since a later record
  comes after it and an earlier one was taken; so no step of the replay can find a queue
  empty or another's answer. At the last view the run is over, and `Compare` finds equal paths.
- Attempts without an answer, tools that never succeeded and failed visits break exactly
  these arguments; they are the preconditions of `ReplayMatches` and the hazards listed for them. The
  proof makes no use of "nothing is masked": the condition stays because what a masked
  record holds is outside the model.

Induction is over numbers (`Least`, `Induct`, from the library's well-foundedness of `<`) applied to the
set of numbers a statement holds of, over the length of a list or the cardinality of what is
left of a vault; so facts about the recursive functions `After` and `Pick` are proved as well.

Only model-checked:

- liveness (`Settles`, `StreamEnds`, `CallSettles`, `StageSettles`, `CallsSettle`) and the
  fairness in `FeedSpec`, `SandboxIsOneShot` and `JsRunIsOneShot`: the prover handles
  neither `ENABLED` nor temporal reasoning beyond invariance.

Every other property of a passing run is the statement of a theorem. The properties that TLC refutes
(section 6) are not theorems of anything.

## 5. Not modelled

- Of the modelled components: texts, previews, token counts and prompts; the
  parsing of model answers (an answer is its class); the evaluation of policy
  conditions (a verdict); in the WebLLM module, generation through the adapter,
  storage assessment, the classification of load errors and the memo of cached
  model ids.
- A run that outlives `timeoutSeconds`: the option is documented as not enforced, and it is not.
- Device probes, model sources, the entry point, errors and the command line keep no state
  over time.
- Of the evidence: how secrets are found (a value or a name holds one or not), the ZIP
  container, canonical JSON and the ciphers (a digest is free of collisions, a vault opens
  with its key and its authenticated data or not at all), byte limits of single entries (and the count of
  vault records at `trace.ts:3554`, which an archive within them cannot fail), the
  ids a recorder makes up for a host that emits events without calling its hooks, the
  host's own annotations between events, and the export of traces to other formats. Of
  replay: the decoding of the manifest snapshot, the schemas of the stub tools, and the
  differences in options (retries, rounds, steps) between the recorded and the replayed run.
- Browser storage and fetch: single calls on browser services.
- Agent, deterministic stages, IR validation, and the pure algorithms of the evaluator and the
  parsers: in the plan.

## 6. What the models disagree with

- `model_stage_ids` (`CompletionNamesItsAttempt`): the recorder names a completed model call by the
  oldest pending id. After an attempt that failed before it completed, the completion of
  the next attempt is recorded under the failed one's id, against "Each attempt gets its
  own trace model-call id" (`models.ts:805`).
- `js_run_worker` (`WorkerEndsWithCall`): `js.run` creates its worker (`browser-tools.ts:239`) and
  posts the input (242) before the `try` whose `finally` clause terminates it. When the
  input cannot be cloned, the call rejects and the worker stays, against "The worker is
  terminated on completion, timeout, or cancellation" (`browser-tools.ts:219`).
- `webllm_reload` (`LoadsOntoLiveWorker`): after `deleteAllModelArtifacts`, `switchModel` clears
  `unhealthy` through `unloadCurrent` before it loads, so the load is posted to the
  engine of the terminated worker instead of "a fresh worker" (`webllm.ts:887-889`).
- `webllm_clean` (`DeletesUnloaded`): `retryLoad` with `cleanCache` deletes the artifacts of the
  model before it unloads it, although "WebLLM cannot safely delete artifacts of a loaded
  model" (`webllm.ts:887`). In this run and in `webllm_reload` each call is made when the one
  before it has settled (`SequentialSpec`), so that neither is a matter of overlap.
- `replay_failed` (`FailurePathReplays`): replay learns the stage of a visit from its snapshot
  (`replay.ts:605`), which a failed visit does not have, so the answers of the failing stage
  are filed under no stage and the replayed path breaks off before them, against "taped
  replay matches failure path" (`replay.test.ts:155`), whose example fails in a stage that
  asked no model.

One disagreement is plain from the code and has no run: `maxToolRounds: null` is documented as
unlimited (`runtime-types.ts:79`), but `?? 32` turns null into the default (`models.ts:736`), and
`ModelStage` has it so.

Observations without a document they contradict. `stream` throws the run's error only if it is
truthy (`runtime.ts:947`), so a run whose executor threw `undefined` or an empty string ends its
iteration as a success does; only the last event, which is not `run_completed`, tells. (Whatever
else stops a run is an `Error` of the runtime: the sink of a stream does not throw, and the
recorder's clock, a hook for tests, is taken to return a date.) Two retries with a fresh worker that overlap may both reload onto one engine, and when the first fails and the second succeeds
the second returns normally although the session is marked unhealthy and `isModelLoaded`
says no. A call that has joined a load starts its own afterwards without looking whether
another joiner already has, so that two loads of one model may run.

## 7. Plan

Order, modules and what they compose:

1. done: `WorkflowRun`, `EventFeed`, `RunStream` (over `WorkflowRun`), `PolicyGate`, `ModelStage`,
   `WebllmSession`; `OneShot`, `SandboxRun`, `JsRun`; `RunScript`,
   `TraceLedger`, `ArchiveCheck`, `TapedReplay`, `Publication`.
2. done: `RunStreamProofs`, `PolicyGateProofs`, `ModelStageProofs`, `WebllmSessionProofs`,
   `SandboxRunProofs`, `BrowserCallsProofs`, `EvidenceProofs`, `ReplayProofs`, as section 4 lists
   them.
3. `Values`: the evaluator (truthiness, comparison, method calls), `extractFirstJsonObject`,
   the tagged envelope, `hasRepeatingTail`, `normalizeOptionalEmptyArrays`, as recursive
   functions checked against reference definitions over bounded inputs; `IrCheck`: the
   validation of a manifest, shown to establish `ManifestAssumption`.
4. `AgentRuns`: the facade's defaults and its shared last recorder under concurrent runs;
   `WebllmGenerate`: generation, abort and interrupt on the shared engine, composed with
   `WebllmSession`.
5. Overlapping tool calls of a custom executor in `TraceLedger`.

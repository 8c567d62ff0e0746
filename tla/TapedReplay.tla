---------------------------- MODULE TapedReplay -----------------------------
(***************************************************************************)
(* replayTrace (replay.ts): the recorded workflow runs once more, with the *)
(* same runtime, on answers taken from the unlocked vault, and the events  *)
(* it emits are compared with the ledger.  The answers are filed by stage  *)
(* (models), in one queue (tools) and by policy; nothing tells which       *)
(* attempt or which call of the recording one belongs to.                  *)
(***************************************************************************)
EXTENDS ArchiveCheck

VARIABLES
  tape,     \* the answers not yet taken
  run,      \* the replayed run; at = "off" before it begins
  path,     \* the events it emitted
  verdict   \* "none", "refused", "matched" or "diverged"

replayVars == <<tape, run, path, verdict>>

NoTape == [models |-> [s \in Stages |-> <<>>], tools |-> <<>>, policies |-> <<>>, named |-> FALSE]
ReplayInit ==
  /\ tape = NoTape /\ path = <<>> /\ verdict = "none"
  /\ run = [at |-> "off", stage |-> Entry, retries |-> 0, out |-> None]

\* Why a trace cannot be replayed at all.
Refusals(a, unlocked) ==
  IF ~unlocked.ok THEN unlocked.errors
  ELSE LET types == {v.type : v \in ToSet(unlocked.records)} IN
       When("full_workflow_ir" \notin types, "no manifest snapshot")
         \cup When(a.entries.manifest.status = "interrupted", "interrupted")
         \cup When("run_inputs" \notin types, "no run inputs")

\* The elements of a sequence at these places, in their order.
Pick(seq, places) ==
  LET picked[n \in 0..Len(seq)] ==
        IF n = 0 THEN <<>>
        ELSE IF n \in places THEN Append(picked[n - 1], seq[n]) ELSE picked[n - 1]
  IN  picked[Len(seq)]

\* The tape.  The stage of a visit is known from its snapshot only, so a visit
\* that did not end has none, and its answers are filed under no stage.
OfType(records, type) == {i \in DOMAIN records : records[i].type = type}
StagesOf(records, visit) ==
  {records[i].stage : i \in {j \in OfType(records, "stage_snapshot") : records[j].visit = visit}}
ResponsesIn(records, stage) ==
  {i \in OfType(records, "model_response") : stage \in StagesOf(records, records[i].visit)}

\* Mutant: the answers of a stage come last first.
TapeLastFirst(records) ==
  [models |-> [s \in Stages |-> Reverse(Pick(records, ResponsesIn(records, s)))],
   tools |-> Pick(records, OfType(records, "tool_result")),
   policies |-> Pick(records, OfType(records, "policy_evaluation")),
   named |-> \E i \in OfType(records, "tool_result") : records[i].named]

Tape(records) ==
  [models |-> [s \in Stages |-> Pick(records, ResponsesIn(records, s))],
   tools |-> Pick(records, OfType(records, "tool_result")),
   policies |-> Pick(records, OfType(records, "policy_evaluation")),
   named |-> \E i \in OfType(records, "tool_result") : records[i].named]

\* A step of the run that is replayed: its events are what the comparison sees.
EventsOf(calls) == Pick(calls, {i \in DOMAIN calls : calls[i].call = "event"})
Take(step) == run' = step.run /\ path' = path \o EventsOf(step.calls)

LoadTape(a, passphrase) ==
  /\ run.at = "off" /\ verdict = "none"
  /\ LET unlocked == Unlock(a, passphrase) IN
     IF Refusals(a, unlocked) # {}
       THEN verdict' = "refused" /\ UNCHANGED <<tape, run, path>>
       ELSE tape' = Tape(unlocked.records) /\ Take(BeginRun) /\ UNCHANGED verdict

ReplayStage ==
  /\ run.at = "next" /\ Take(StartStage(run))
  /\ UNCHANGED <<tape, verdict>>

\* TapedModelAdapter.complete: the next answer of the stage, or the run fails.
ReplayAsk ==
  /\ run.at = "ask"
  /\ LET left == tape.models[run.stage] IN
     IF left = <<>> THEN Take(Failing(run, <<>>)) /\ UNCHANGED tape
     ELSE /\ Take(Ask(run, [class |-> Head(left).body, to |-> Head(left).to]))
          /\ tape' = [tape EXCEPT !.models[run.stage] = Tail(left)]
  /\ UNCHANGED verdict

\* The model names its tool: TapedToolRegistry.getByName knows the names its
\* results were filed with.
ToolIsUnknown == run.stage \in ModelStages /\ ~tape.named

\* consumeTapedPolicy, or, when the tape is empty, the condition itself.
ReplayGate ==
  /\ run.at = "gate"
  /\ IF ToolIsUnknown THEN Take(ToolFails(run, <<>>)) /\ UNCHANGED tape
     ELSE IF tape.policies # <<>>
       THEN Take(Gate(run, Head(tape.policies).body)) /\ tape' = [tape EXCEPT !.policies = Tail(@)]
     ELSE \E v \in Verdicts : Take(Gate(run, v)) /\ UNCHANGED tape
  /\ UNCHANGED verdict

\* TapedToolRegistry.call: the next fixture, whatever was called; a recorded
\* failure fails again, an exhausted tape fails the run.
ReplayCall ==
  /\ run.at = "call"
  /\ IF tape.tools = <<>>
       THEN /\ Take(Failing(run, <<Event("tool_call_started", run.stage), Event("tool_call_failed", run.stage)>>))
            /\ UNCHANGED tape
       ELSE /\ Take(CallTool(run, [class |-> Head(tape.tools).body, to |-> Head(tape.tools).to], "plain"))
            /\ tape' = [tape EXCEPT !.tools = Tail(@)]
  /\ UNCHANGED verdict

ReplayCompletes == run.at = "done" /\ Take(CompleteStage(run)) /\ UNCHANGED <<tape, verdict>>
ReplayFails == run.at = "failing" /\ Take(Fail(run, FALSE)) /\ UNCHANGED <<tape, verdict>>

-----------------------------------------------------------------------------
(* comparePaths *)

Key(e) == <<e.kind, e.stage, IF e.kind = "transition_selected" THEN e.to ELSE None, e.denied>>
Milestone(e) == e.kind \notin {"model_delta", "annotation"}
Milestones(events) == Pick(events, {i \in DOMAIN events : Milestone(events[i])})
Keys(events) == LET kept == Milestones(events) IN [i \in DOMAIN kept |-> Key(kept[i])]

\* The outputs of the replayed visits, numbered as they started.
Outputs(events) ==
  LET started(i) == Cardinality({j \in 1..i : events[j].kind = "stage_started"})
  IN  {<<started(i), events[i].to>> : i \in {i \in DOMAIN events : events[i].kind = "stage_completed"}}

Snapshots(records) ==
  {<<v.visit, v.to>> : v \in {v \in ToSet(records) : v.type = "stage_snapshot"}}

Divergences(a) ==
  LET status == a.entries.manifest.status IN
  When(Keys(path) # Keys(Events(a)), "path")
    \cup When(~(Snapshots(a.entries.enc.records) \subseteq Outputs(path)), "outputs")
    \cup When(run.at # status, "status")

Compare(a) ==
  /\ run.at \in Ended /\ verdict = "none"
  /\ verdict' = IF Divergences(a) = {} THEN "matched" ELSE "diverged"
  /\ UNCHANGED <<tape, run, path>>

Replay(a, passphrase) ==
  \/ LoadTape(a, passphrase)
  \/ ReplayStage
  \/ ReplayAsk
  \/ ReplayGate
  \/ ReplayCall
  \/ ReplayCompletes
  \/ ReplayFails
  \/ Compare(a)
=============================================================================

---------------------------- MODULE TraceLedger -----------------------------
(***************************************************************************)
(* TraceRecorder (trace.ts): the hooks and the observed events of one run  *)
(* become a public ledger, from which everything private is masked or      *)
(* left out, and, in the replay profile, the records of an encrypted       *)
(* vault.  Hooks hand out the ids of visits, model calls and tool calls;   *)
(* events do not carry them, so the recorder keeps queues to tell which    *)
(* visit and which call an event is about.  finishRun builds the archive.  *)
(***************************************************************************)
EXTENDS RunScript, SequencesExt, FiniteSets

CONSTANTS
  Configs,     \* the configurations a recorder may be given
  MaxEvents,   \* LIMIT_EVENT_COUNT
  MaxVault     \* maxVaultBytes, in records

TraceId == "run"          \* config.traceId
Passphrase == "right"     \* config.vaultPassphrase

\* profile: "audit" or "replay"; capture: what the vault keeps; bound: the
\* provenance names the compiled IR; open: the host approved a path alias and the
\* metrics; hook: what onStageCompleted does; names: the workflow's names hold a
\* secret.
Captured == {"messages", "results", "snapshots", "policy", "ir"}
Config == [profile : {"audit", "replay"}, capture : SUBSET Captured, bound : BOOLEAN,
           open : BOOLEAN, hook : {"absent", "annotates", "fails"}, names : {"clean", "secret"}]

ASSUME LedgerAssumption ==
  /\ Configs \subseteq Config
  /\ MaxEvents \in Nat /\ MaxVault \in Nat

VARIABLES
  rec,       \* the recorder's fields
  archive,   \* archiveBytes: NoArchive, or the entries and their index
  outcome    \* what finishRun did: "none", "archived", or why it threw

vars == <<rec, archive, outcome>>

NoArchive == [entries |-> <<>>, index |-> <<>>]

\* A Map of the recorder from ids to lists; an id without entry has the empty list.
At(map, id) == IF id \in DOMAIN map THEN map[id] ELSE <<>>
Put(map, id, list) == [k \in DOMAIN map \cup {id} |-> IF k = id THEN list ELSE map[k]]

\* The constructor: nothing has begun.
New(config) ==
  [config |-> config, begun |-> FALSE, finished |-> FALSE, live |-> 0,
   events |-> <<>>, vault |-> <<>>, exceeded |-> FALSE, dropped |-> 0,
   visits |-> 0, models |-> 0, tools |-> 0,
   current |-> 0, pendingVisits |-> <<>>, pendingModels |-> <<>>, lastModel |-> <<>>,
   pendingTools |-> <<>>, openTools |-> <<>>, pendingTransitions |-> <<>>,
   heldVisit |-> 0, heldModel |-> 0, heldTool |-> 0]

Init ==
  /\ rec \in {New(c) : c \in Configs}
  /\ archive = NoArchive
  /\ outcome = "none"

VaultEnabled(r) == r.config.profile = "replay"
Captures(r, what) == VaultEnabled(r) /\ what \in r.config.capture

-----------------------------------------------------------------------------
(* Hooks.  heldVisit, heldModel and heldTool stand for the id the caller    *)
(* was given and passes to the hooks that follow.                           *)

BeginStageVisit(r, stage) ==
  LET id == r.visits + 1 IN
  [r EXCEPT !.visits = id, !.heldVisit = id, !.current = id,
            !.pendingVisits = Put(@, stage, Append(At(@, stage), id))]

BeginModelCall(r) ==
  LET id == r.models + 1 IN
  [r EXCEPT !.models = id, !.heldModel = id,
            !.pendingModels = Put(@, r.current, Append(At(@, r.current), id))]

BeginToolCall(r) ==
  LET id == r.tools + 1 IN
  [r EXCEPT !.tools = id, !.heldTool = id,
            !.pendingTools = Put(@, r.current, Append(At(@, r.current), id))]

VaultRecord(type) ==
  [type |-> type, visit |-> 0, model |-> 0, tool |-> 0, seq |-> 0,
   body |-> None, to |-> None, stage |-> None, named |-> FALSE]
AppendVaultRecord(r, record) == [r EXCEPT !.vault = Append(@, record)]
Keep(r, what, record) == IF Captures(r, what) THEN AppendVaultRecord(r, record) ELSE r

\* Run inputs are kept whatever the vault captures.
RecordRunInputs(r) == IF VaultEnabled(r) THEN AppendVaultRecord(r, VaultRecord("run_inputs")) ELSE r

RecordModelRequest(r) ==
  Keep(r, "messages", [VaultRecord("model_request") EXCEPT !.model = r.heldModel, !.visit = r.current])

RecordModelResponse(r, o) ==
  Keep(r, "messages", [VaultRecord("model_response") EXCEPT
                         !.model = r.heldModel, !.visit = r.current, !.body = o.body, !.to = o.to])

RecordPolicyEvaluation(r, o) ==
  Keep(r, "policy", [VaultRecord("policy_evaluation") EXCEPT !.visit = r.current, !.body = o.body])

\* A result is filed with the tool's name, an error without it.
RecordToolResult(r, o) ==
  Keep(r, "results", [VaultRecord("tool_result") EXCEPT
                        !.tool = r.heldTool, !.visit = r.current, !.body = "ok", !.to = o.to, !.named = TRUE])

RecordToolError(r) ==
  Keep(r, "results", [VaultRecord("tool_result") EXCEPT
                        !.tool = r.heldTool, !.visit = r.current, !.body = "error"])

\* The evidence waits for the event that names the chosen transition.
RecordTransitionEvaluation(r) ==
  IF Captures(r, "policy")
    THEN [r EXCEPT !.pendingTransitions = Put(@, r.heldVisit, Append(At(@, r.heldVisit), "candidates"))]
    ELSE r

-----------------------------------------------------------------------------
(* Observed events.  The runtime calls the hook before it emits the event,  *)
(* so a queue is empty here only where a retry follows a completed attempt. *)

\* takeVisit: stage_started consumes the visit its hook queued.
TakeVisit(r, stage) ==
  LET queue == At(r.pendingVisits, stage) IN
  IF queue = <<>> THEN [r EXCEPT !.visits = @ + 1, !.current = r.visits + 1]
  ELSE [r EXCEPT !.current = Head(queue), !.pendingVisits = Put(@, stage, Tail(queue))]

\* peekModel: the last call the visit began and has not completed.
PeekModel(r) == LET queue == At(r.pendingModels, r.current) IN
  IF queue = <<>> THEN 0 ELSE Last(queue)

\* popModel: the first such call; a retry may ask for it again.
PopModel(r) ==
  LET queue == At(r.pendingModels, r.current)
      id == IF queue = <<>> THEN r.models + 1 ELSE Head(queue)
  IN  [r EXCEPT !.models = IF queue = <<>> THEN id ELSE @,
                !.pendingModels = Put(@, r.current, IF queue = <<>> THEN <<>> ELSE Tail(queue)),
                !.lastModel = Put(@, r.current, <<id>>)]

\* Mutant: a retry without a pending call gets a new id.
RetriedModelFresh(r) == IF PeekModel(r) # 0 THEN PeekModel(r) ELSE r.models + 1

\* The attempt a model_retry is about: the pending one, else the last to complete.
RetriedModel(r) ==
  IF PeekModel(r) # 0 THEN PeekModel(r)
  ELSE IF At(r.lastModel, r.current) # <<>> THEN Head(At(r.lastModel, r.current))
  ELSE r.models + 1

\* popTool: the first call begun and not started is open from now on.
PopTool(r) ==
  LET queue == At(r.pendingTools, r.current)
      id == IF queue = <<>> THEN r.tools + 1 ELSE Head(queue)
  IN  [r EXCEPT !.tools = IF queue = <<>> THEN id ELSE @,
                !.pendingTools = Put(@, r.current, IF queue = <<>> THEN <<>> ELSE Tail(queue)),
                !.openTools = Put(@, r.current, Append(At(@, r.current), id))]

\* peekTool: the last call to start in the visit; it stays open.
PeekTool(r) == LET open == At(r.openTools, r.current) IN
  IF open # <<>> THEN Last(open) ELSE r.tools + 1

ModelKinds == {"model_delta", "model_completed", "model_retry"}
ToolKinds == {"tool_call_started", "tool_call_completed", "tool_call_failed"}
StageKinds == ModelKinds \cup ToolKinds \cup
  {"stage_started", "policy_checked", "policy_denied", "transition_selected", "stage_completed"}
Kinds == StageKinds \cup {"run_started", "run_completed", "run_failed", "annotation"}

\* The queues after an event of this kind; a kind that takes no id leaves them.
Settled(r, e) ==
  CASE e.kind = "stage_started"     -> TakeVisit(r, e.stage)
    [] e.kind = "model_completed"   -> PopModel(r)
    [] e.kind = "tool_call_started" -> PopTool(r)
    [] e.kind = "model_retry" /\ RetriedModel(r) > r.models -> [r EXCEPT !.models = @ + 1]
    [] OTHER -> r

\* What an argument or an output shows: an alias-relative path or a metric when
\* the host approved them, else an opaque reference or a marker.
Shown(config, kind) ==
  CASE kind = "tool_call_started" -> IF config.open THEN "path" ELSE "path_ref"
    [] kind = "stage_completed"   -> IF config.open THEN "metric" ELSE "marker"
    [] kind \in {"model_delta", "run_completed"} -> "marker"
    [] OTHER -> None

PublicRecord(kind, stage, visit) ==
  [kind |-> kind, run |-> TraceId, seq |-> 0, stage |-> stage, visit |-> visit, model |-> 0,
   tool |-> 0, to |-> None, denied |-> FALSE, shown |-> None, name |-> None,
   masked |-> FALSE, anchor |-> 0, odd |-> "no"]

\* project: the record of an event, from the queues as the event left them (s).
\* A stage output is never shown as it is: the record has no `to` for it.
Project(r, s, e) ==
  [PublicRecord(e.kind, e.stage, IF e.kind \in StageKinds THEN s.current ELSE 0) EXCEPT
     !.seq = r.live,
     !.model = CASE e.kind = "model_completed" -> Head(At(s.lastModel, s.current))
                 [] e.kind = "model_delta" -> PeekModel(s)
                 [] e.kind = "model_retry" -> RetriedModel(r)
                 [] OTHER -> 0,
     !.tool = IF e.kind \in ToolKinds THEN PeekTool(s) ELSE 0,
     !.to = IF e.kind = "transition_selected" THEN e.to ELSE None,
     !.denied = e.denied,
     !.shown = Shown(r.config, e.kind),
     !.name = IF e.kind \in ToolKinds THEN "tool" ELSE None,
     !.masked = e.content = "value"]

Full(r) == r.exceeded \/ Len(r.events) >= MaxEvents
Push(r, record) == [r EXCEPT !.events = Append(@, record)]

\* captureStageSnapshot
CaptureStageSnapshot(r, e) ==
  Keep(r, "snapshots", [VaultRecord("stage_snapshot") EXCEPT
                          !.visit = r.current, !.seq = r.live, !.stage = e.stage, !.to = e.to])

\* maybeEmitStageAnnotation with recordAnnotation: the host's note on a visit that
\* ended, anchored to its event; a hook that fails is counted, never passed on.
AnnotateStage(r, e) ==
  CASE r.config.hook = "absent" -> r
    [] r.config.hook = "fails" \/ (r.config.hook = "annotates" /\ Full(r)) ->
         [r EXCEPT !.dropped = @ + 1, !.exceeded = r.config.hook = "annotates" \/ @]
    [] OTHER -> Push(r, [PublicRecord("annotation", e.stage, r.current) EXCEPT
                           !.shown = "marker", !.anchor = r.live])

\* flushTransitionEvidence
FlushTransitionEvidence(r) ==
  LET pending == At(r.pendingTransitions, r.current)
      record == [VaultRecord("transition_evaluation") EXCEPT !.visit = r.current, !.seq = r.live]
  IN  IF ~VaultEnabled(r) \/ pending = <<>> THEN r
      ELSE [r EXCEPT !.pendingTransitions = Put(@, r.current, <<>>),
                     !.vault = @ \o [i \in DOMAIN pending |-> record]]

\* observeWorkflowEvent.  The event has its number before the recorder sees it,
\* so a record that is left out leaves a gap.  A secret in a value is masked
\* (applyRegistry, scanAndMask); one in a name cannot be: the record is left out,
\* and what follows from a record does not happen.
ObserveWorkflowEvent(r0, e) ==
  LET r == [r0 EXCEPT !.live = @ + 1]
      s == Settled(r, e)
      pushed == Push(s, Project(r, s, e))
  IN  IF Full(r) THEN [r EXCEPT !.exceeded = TRUE]
      ELSE IF e.content = "name" THEN s
      ELSE CASE e.kind = "stage_completed" -> AnnotateStage(CaptureStageSnapshot(pushed, e), e)
             [] e.kind = "transition_selected" -> FlushTransitionEvidence(pushed)
             [] OTHER -> pushed

\* One call of the run on its recorder.
Apply(r, o) ==
  CASE o.call = "event" -> ObserveWorkflowEvent(r, o)
    [] o.call = "begin_run" -> [r EXCEPT !.begun = TRUE]
    [] o.call = "run_inputs" -> RecordRunInputs(r)
    [] o.call = "stage_visit" -> BeginStageVisit(r, o.stage)
    [] o.call = "model_call" -> BeginModelCall(r)
    [] o.call = "model_request" -> RecordModelRequest(r)
    [] o.call = "model_response" -> RecordModelResponse(r, o)
    [] o.call = "policy_evaluation" -> RecordPolicyEvaluation(r, o)
    [] o.call = "tool_call" -> BeginToolCall(r)
    [] o.call = "tool_result" -> RecordToolResult(r, o)
    [] o.call = "tool_error" -> RecordToolError(r)
    [] o.call = "transition_evaluation" -> RecordTransitionEvaluation(r)
    [] o.call = "run_error" -> r

\* The recorder after the calls of a step, in order.
After(r, calls) ==
  LET after[n \in 0..Len(calls)] == IF n = 0 THEN r ELSE Apply(after[n - 1], calls[n])
  IN  after[Len(calls)]

Record(calls) ==
  /\ ~rec.finished
  /\ rec' = After(rec, calls)
  /\ UNCHANGED <<archive, outcome>>

-----------------------------------------------------------------------------
(* The archive: entries by name, and the index of integrity.json.  Digests  *)
(* are free of collisions: two are equal exactly when the hashed values are. *)

Hash(value) == [sha256 |-> value]

VisitsOf(events) == {events[i].visit : i \in DOMAIN events} \ {0}
Summary(events, dropped) ==
  [hash |-> Hash(events), count |-> Len(events), visits |-> Cardinality(VisitsOf(events)),
   kinds |-> [k \in {events[i].kind : i \in DOMAIN events} |->
                Len(SelectSeq(events, LAMBDA e : e.kind = k))],
   dropped |-> dropped]

Manifest(r, status) ==
  [trace |-> TraceId, status |-> status, profile |-> r.config.profile,
   vault |-> VaultEnabled(r), bound |-> r.config.bound, names |-> r.config.names, odd |-> "no"]

\* Mutant: the ledger is not part of what the vault is sealed with.
BindingWithoutLedger(entries) ==
  [manifest |-> Hash(entries.manifest), events |-> Hash(<<>>), graph |-> Hash(entries.graph),
   trace |-> entries.manifest.trace, bound |-> entries.manifest.bound]

\* The authenticated data of the vault: sealing and opening compute it alike.
Binding(entries) ==
  [manifest |-> Hash(entries.manifest), events |-> Hash(entries.events), graph |-> Hash(entries.graph),
   trace |-> entries.manifest.trace, bound |-> entries.manifest.bound]

\* buildGraph: the public workflow graph.
Graph == [nodes |-> Stages, edges |-> UNION {{s} \X Edges[s] : s \in Stages}]

SealedRecords(r) ==
  IF "ir" \in r.config.capture THEN Append(r.vault, VaultRecord("full_workflow_ir")) ELSE r.vault

\* sealVaultEntries adds the vault's two entries to the public ones.
SealVaultEntries(r, entries) ==
  [manifest |-> entries.manifest, graph |-> entries.graph,
   events |-> entries.events, summary |-> entries.summary,
   enc |-> [key |-> Passphrase, aad |-> Binding(entries), records |-> SealedRecords(r)],
   meta |-> [aad |-> Binding(entries)]]

\* buildEntries
BuildEntries(r, status) ==
  LET public == [manifest |-> Manifest(r, status), graph |-> Graph,
                 events |-> r.events, summary |-> Summary(r.events, r.dropped)]
  IN  IF VaultEnabled(r) THEN SealVaultEntries(r, public) ELSE public

Index(entries) == [name \in DOMAIN entries |-> Hash(entries[name])]

\* finishRun.  A ledger over its limit is refused before the recorder counts as
\* finished; a vault over its limit and a secret in the names only after it.
FinishRun(status) ==
  /\ rec.begun /\ ~rec.finished
  /\ IF rec.exceeded \/ Len(rec.events) > MaxEvents
       THEN outcome' = "event_limit" /\ UNCHANGED <<rec, archive>>
     ELSE /\ rec' = [rec EXCEPT !.finished = TRUE]
          /\ IF VaultEnabled(rec) /\ Len(SealedRecords(rec)) > MaxVault
               THEN outcome' = "vault_limit" /\ UNCHANGED archive
             ELSE IF rec.config.names = "secret"
               THEN outcome' = "scanner" /\ UNCHANGED archive
             ELSE LET entries == BuildEntries(rec, status) IN
                  /\ outcome' = "archived"
                  /\ archive' = [entries |-> entries, index |-> Index(entries)]
=============================================================================

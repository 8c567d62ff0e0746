--------------------------- MODULE EvidenceProofs ---------------------------
(***************************************************************************)
(* Proofs about the evidence of a run (MCEvidence): the recorder, its      *)
(* archive, the check of an archive, and the publication.                  *)
(*                                                                         *)
(* The recorder learns of a run through hooks, which hand out ids, and     *)
(* events, which do not carry them.  The proof follows the calls: each     *)
(* hook and each event has a contract on the recorder's queues (what must  *)
(* wait there, what waits afterwards); the calls of each step of a run, in *)
(* their order, meet these contracts; so between two steps every record of *)
(* the ledger is one verification accepts, and, in a complete vault, has   *)
(* its evidence.  The archive is then built of such a recorder; rewriting  *)
(* it breaks its index or the binding of its vault; and a publication is   *)
(* tied by the index to what was attested.                                 *)
(***************************************************************************)
EXTENDS MCEvidence, SequenceTheorems, TLAPS

-----------------------------------------------------------------------------
(* Recorders in order *)

\* The fields of the recorder that New writes.
RecorderFields ==
  {"config", "begun", "finished", "live", "events", "vault", "exceeded", "dropped",
   "visits", "models", "tools", "current", "pendingVisits", "pendingModels", "lastModel",
   "pendingTools", "openTools", "pendingTransitions", "heldVisit", "heldModel", "heldTool"}

\* An id a hook hands out; 0 stands for none.
Ids == Nat \ {0}
\* A stage, or none where a record has no stage or no target.
MaybeStage == Stages \cup {None}
\* What the public record may show in place of an argument or an output.
Shows == {None, "path", "path_ref", "metric", "marker"}
\* What a vault record may hold of an answer.
Bodies == {None, "final", "invalid", "tool", "silent", "error", "ok", "allowed", "denied"}

\* A call of a run on its recorder.
Calls ==
  [call : {"event", "begin_run", "run_inputs", "stage_visit", "model_call", "model_request",
           "model_response", "policy_evaluation", "tool_call", "tool_result", "tool_error",
           "transition_evaluation", "run_error"},
   kind : Kinds \cup {None}, stage : MaybeStage, to : MaybeStage,
   denied : BOOLEAN, content : Contents, body : Bodies]

\* A record of the public ledger, by its fields.
LedgerRecord ==
  [kind : Kinds, run : {TraceId}, seq : Nat, stage : MaybeStage, visit : Nat, model : Nat,
   tool : Nat, to : MaybeStage, denied : BOOLEAN, shown : Shows, name : {None, "tool"},
   masked : BOOLEAN, anchor : Nat, odd : {"no"}]

\* What verification asks of one record of the ledger.
Placed(e) ==
  /\ (e.kind = "annotation") <=> (e.seq = 0)
  /\ e.kind \in StageKinds => e.stage \in Stages /\ e.visit # 0
\* The calls it names, the markers it must carry, and a transition along an edge.
Filled(e) ==
  /\ e.kind \in ModelKinds => e.model # 0
  /\ e.kind \in ToolKinds => e.tool # 0
  /\ e.kind \in {"model_delta", "run_completed", "annotation"} => e.shown = "marker"
  /\ e.kind = "transition_selected" => e.to \in Edges[e.stage]
\* A record verification has nothing against.
SoundRecord == {e \in LedgerRecord : Placed(e) /\ Filled(e)}

\* A record of the vault, by its fields.
KeptRecord ==
  [type : {"run_inputs", "model_request", "model_response", "policy_evaluation", "tool_result",
           "stage_snapshot", "transition_evaluation", "full_workflow_ir"},
   visit : Nat, model : Nat, tool : Nat, seq : Nat, body : Bodies, to : MaybeStage,
   stage : MaybeStage, named : BOOLEAN]

\* The types of a recorder that kept count, its queues read through At.
Typed(r) ==
  /\ r.config \in Config
  /\ r.live \in Nat /\ r.visits \in Nat /\ r.models \in Nat /\ r.tools \in Nat
  /\ r.current \in Nat /\ r.heldVisit \in Nat /\ r.heldModel \in Nat /\ r.heldTool \in Nat
  /\ r.events \in Seq(SoundRecord)
  /\ r.vault \in Seq(KeptRecord)
  /\ \A s \in Stages : At(r.pendingVisits, s) \in Seq(Ids)
  /\ \A v \in Nat :
       /\ At(r.pendingModels, v) \in Seq(Ids) /\ At(r.lastModel, v) \in Seq(Ids)
       /\ At(r.pendingTools, v) \in Seq(Ids) /\ At(r.openTools, v) \in Seq(Ids)
       /\ At(r.pendingTransitions, v) \in Seq({"candidates"})

\* The vault captures everything.
Complete(r) == VaultEnabled(r) /\ Captured \subseteq r.config.capture

\* The model calls, the tool calls and the visits the vault has evidence of.
ModelsKept(r) ==
  {r.vault[i].model : i \in {j \in DOMAIN r.vault : r.vault[j].type \in {"model_request", "model_response"}}}
ToolsKept(r) == {r.vault[i].tool : i \in {j \in DOMAIN r.vault : r.vault[j].type = "tool_result"}}
VisitsKept(r) ==
  {r.vault[i].visit : i \in {j \in DOMAIN r.vault : r.vault[j].type = "transition_evaluation"}}

\* What a public record reports, the vault has evidence of (checkVaultEvidence).
EventFiled(r, e) ==
  /\ e.kind \in {"model_completed", "model_retry"} => e.model \in ModelsKept(r)
  /\ e.kind \in {"tool_call_completed", "tool_call_failed"} => e.tool \in ToolsKept(r)
  /\ e.kind = "transition_selected" => e.visit \in VisitsKept(r)

\* Every record has its evidence, and every attempt that still waits for its event,
\* or may be asked for by a retry, has it or is the call in progress.
Filed(r) ==
  /\ \A i \in DOMAIN r.events : EventFiled(r, r.events[i])
  /\ \A v \in Nat : \A i \in DOMAIN At(r.pendingModels, v) :
        At(r.pendingModels, v)[i] \in ModelsKept(r) \cup {r.heldModel}
  /\ \A v \in Nat : \A i \in DOMAIN At(r.lastModel, v) :
        At(r.lastModel, v)[i] \in ModelsKept(r) \cup {r.heldModel}

\* A recorder that kept count.
Well(r) == Typed(r) /\ (Complete(r) => Filed(r))

\* A recorder: once it has left out a record for the limit, nothing more is promised,
\* because finishRun refuses it.
LedgerInv(r) ==
  /\ DOMAIN r = RecorderFields
  /\ r.exceeded \in BOOLEAN
  /\ ~r.exceeded => Well(r)

\* From r to s at most the named fields change.
Changes(r, s, names) == DOMAIN s = RecorderFields /\ \A n \in RecorderFields \ names : s[n] = r[n]

-----------------------------------------------------------------------------

\* Put replaces one list of a map and leaves the others.
LEMMA AtPut ==
  ASSUME NEW map, NEW k, NEW list, NEW id
  PROVE  At(Put(map, k, list), id) = IF id = k THEN list ELSE At(map, id)
  BY DEF At, Put

\* A record appended to the vault is evidence, and what was evidence stays so.
LEMMA VaultGrows ==
  ASSUME NEW r, NEW s, r.vault \in Seq(KeptRecord), NEW x \in KeptRecord, s.vault = Append(r.vault, x)
  PROVE  /\ s.vault \in Seq(KeptRecord)
         /\ ModelsKept(r) \subseteq ModelsKept(s)
         /\ ToolsKept(r) \subseteq ToolsKept(s)
         /\ VisitsKept(r) \subseteq VisitsKept(s)
         /\ x.type \in {"model_request", "model_response"} => x.model \in ModelsKept(s)
         /\ x.type = "tool_result" => x.tool \in ToolsKept(s)
         /\ x.type = "transition_evaluation" => x.visit \in VisitsKept(s)
  <1> PICK v : v = r.vault
    OBVIOUS
  <1> PICK w : w = s.vault
    OBVIOUS
  <1>1. w \in Seq(KeptRecord) /\ DOMAIN v \subseteq DOMAIN w /\ (\A i \in DOMAIN v : w[i] = v[i])
        /\ \E j \in DOMAIN w : w[j] = x
    BY AppendProperties
  <1> QED BY <1>1 DEF ModelsKept, ToolsKept, VisitsKept

\* What the vault keeps only grows.
Grows(r, s) ==
  /\ ModelsKept(r) \subseteq ModelsKept(s)
  /\ ToolsKept(r) \subseteq ToolsKept(s)
  /\ VisitsKept(r) \subseteq VisitsKept(s)

\* Appending a record to the vault keeps the recorder in order and files the record.
LEMMA AppendKeeps ==
  ASSUME NEW r, LedgerInv(r), ~r.exceeded, NEW x \in KeptRecord,
         NEW s, s = AppendVaultRecord(r, x)
  PROVE  /\ LedgerInv(s) /\ ~s.exceeded /\ Changes(r, s, {"vault"}) /\ Grows(r, s)
         /\ x.type \in {"model_request", "model_response"} => x.model \in ModelsKept(s)
         /\ x.type = "tool_result" => x.tool \in ToolsKept(s)
         /\ x.type = "transition_evaluation" => x.visit \in VisitsKept(s)
  <1>1. Changes(r, s, {"vault"}) /\ s.vault = Append(r.vault, x)
    BY DEF AppendVaultRecord, Changes, RecorderFields, LedgerInv
  <1>2. r.vault \in Seq(KeptRecord)
    BY DEF LedgerInv, Well, Typed
  <1>3. /\ s.vault \in Seq(KeptRecord) /\ Grows(r, s)
        /\ x.type \in {"model_request", "model_response"} => x.model \in ModelsKept(s)
        /\ x.type = "tool_result" => x.tool \in ToolsKept(s)
        /\ x.type = "transition_evaluation" => x.visit \in VisitsKept(s)
    BY <1>1, <1>2, VaultGrows DEF Grows
  <1>4. /\ s.config = r.config /\ s.exceeded = r.exceeded /\ s.events = r.events
        /\ s.live = r.live /\ s.visits = r.visits /\ s.models = r.models /\ s.tools = r.tools
        /\ s.current = r.current /\ s.heldVisit = r.heldVisit
        /\ s.heldModel = r.heldModel /\ s.heldTool = r.heldTool
        /\ s.pendingVisits = r.pendingVisits /\ s.pendingModels = r.pendingModels
        /\ s.lastModel = r.lastModel /\ s.pendingTools = r.pendingTools
        /\ s.openTools = r.openTools /\ s.pendingTransitions = r.pendingTransitions
    BY <1>1 DEF Changes, RecorderFields
  <1>5. Typed(s)
    BY <1>3, <1>4 DEF LedgerInv, Well, Typed
  <1>6. Complete(s) => Filed(s)
    BY <1>3, <1>4 DEF LedgerInv, Well, Complete, VaultEnabled, Filed, EventFiled, Grows
  <1>. QED BY <1>1, <1>3, <1>4, <1>5, <1>6 DEF LedgerInv, Well, Changes

\* The flags of a recorder say nothing of its ledger.
LEMMA SameWell ==
  ASSUME NEW r, LedgerInv(r), NEW s, Changes(r, s, {"begun", "finished", "dropped"})
  PROVE  LedgerInv(s) /\ s.exceeded = r.exceeded /\ Grows(r, s)
  <1>1. /\ s.config = r.config /\ s.exceeded = r.exceeded /\ s.events = r.events /\ s.vault = r.vault
        /\ s.live = r.live /\ s.visits = r.visits /\ s.models = r.models /\ s.tools = r.tools
        /\ s.current = r.current /\ s.heldVisit = r.heldVisit
        /\ s.heldModel = r.heldModel /\ s.heldTool = r.heldTool
        /\ s.pendingVisits = r.pendingVisits /\ s.pendingModels = r.pendingModels
        /\ s.lastModel = r.lastModel /\ s.pendingTools = r.pendingTools
        /\ s.openTools = r.openTools /\ s.pendingTransitions = r.pendingTransitions
    BY DEF Changes, RecorderFields
  <1>2. ModelsKept(s) = ModelsKept(r) /\ ToolsKept(s) = ToolsKept(r) /\ VisitsKept(s) = VisitsKept(r)
    BY <1>1 DEF ModelsKept, ToolsKept, VisitsKept
  <1>3. Well(r) => Typed(s)
    BY <1>1 DEF Well, Typed
  <1>4. Well(r) => (Complete(s) => Filed(s))
    BY <1>1, <1>2 DEF Well, Complete, VaultEnabled, Filed, EventFiled
  <1>. QED BY <1>1, <1>2, <1>3, <1>4 DEF LedgerInv, Well, Changes, Grows

\* A record the capture options may leave out: with them all, it is filed.
LEMMA KeepStep ==
  ASSUME NEW r, LedgerInv(r), ~r.exceeded, NEW what, NEW x \in KeptRecord,
         NEW s, s = Keep(r, what, x)
  PROVE  /\ LedgerInv(s) /\ ~s.exceeded /\ Changes(r, s, {"vault"}) /\ Grows(r, s)
         /\ (Complete(r) /\ what \in Captured) =>
              /\ x.type \in {"model_request", "model_response"} => x.model \in ModelsKept(s)
              /\ x.type = "tool_result" => x.tool \in ToolsKept(s)
              /\ x.type = "transition_evaluation" => x.visit \in VisitsKept(s)
  <1>1. CASE Captures(r, what)
    BY <1>1, AppendKeeps DEF Keep
  <1>2. CASE ~Captures(r, what)
    <2>1. s = r
      BY <1>2 DEF Keep
    <2>2. Changes(r, s, {"vault"}) /\ Grows(r, s)
      BY <2>1 DEF Changes, Grows, LedgerInv
    <2>3. ~(Complete(r) /\ what \in Captured)
      BY <1>2 DEF Captures, Complete
    <2>. QED BY <2>1, <2>2, <2>3
  <1>. QED BY <1>1, <1>2

\* The record of a tool's outcome names its tool.
LEMMA KeepsTool ==
  ASSUME NEW r, LedgerInv(r), ~r.exceeded, NEW x \in KeptRecord, x.type = "tool_result",
         NEW s, s = Keep(r, "results", x)
  PROVE  /\ LedgerInv(s) /\ ~s.exceeded /\ Changes(r, s, {"vault"}) /\ Grows(r, s)
         /\ Complete(r) => x.tool \in ToolsKept(s)
  <1>1. "results" \in Captured
    BY DEF Captured
  <1>2. /\ LedgerInv(s) /\ ~s.exceeded /\ Changes(r, s, {"vault"}) /\ Grows(r, s)
        /\ (Complete(r) /\ "results" \in Captured) => (x.type = "tool_result" => x.tool \in ToolsKept(s))
    BY KeepStep
  <1>. QED BY <1>1, <1>2

\* A blank vault record of any type is one.
LEMMA BlankKept ==
  ASSUME NEW type \in {"run_inputs", "model_request", "model_response", "policy_evaluation", "tool_result",
           "stage_snapshot", "transition_evaluation", "full_workflow_ir"}
  PROVE  VaultRecord(type) \in KeptRecord
  BY DEF VaultRecord, KeptRecord, Bodies, MaybeStage

\* The record x is v, told of this tool.
IsOutcome(x, v, tool) == x \in KeptRecord /\ x.type = v.type /\ x.tool = tool

\* What a tool call came to, as a record: its result, or its error.
LEMMA OutcomeKept ==
  ASSUME NEW v \in KeptRecord, NEW tool \in Nat, NEW visit \in Nat, NEW body \in Bodies,
         NEW to \in MaybeStage
  PROVE  IsOutcome([v EXCEPT !.tool = tool, !.visit = visit, !.body = body, !.to = to, !.named = TRUE],
                   v, tool)
  BY DEF IsOutcome, KeptRecord

LEMMA FaultKept ==
  ASSUME NEW v \in KeptRecord, NEW tool \in Nat, NEW visit \in Nat, NEW body \in Bodies
  PROVE  IsOutcome([v EXCEPT !.tool = tool, !.visit = visit, !.body = body], v, tool)
  BY DEF IsOutcome, KeptRecord

\* The hooks that only write to the vault.
LEMMA HooksThatKeep ==
  ASSUME NEW r, LedgerInv(r), ~r.exceeded, NEW o \in Calls, NEW s, s = Apply(r, o),
         o.call \in {"run_inputs", "model_request", "model_response", "policy_evaluation",
                     "tool_result", "tool_error"}
  PROVE  /\ LedgerInv(s) /\ ~s.exceeded /\ Changes(r, s, {"vault"}) /\ Grows(r, s)
         /\ Complete(r) /\ o.call \in {"model_request", "model_response"} => r.heldModel \in ModelsKept(s)
         /\ Complete(r) /\ o.call \in {"tool_result", "tool_error"} => r.heldTool \in ToolsKept(s)
  <1>0. /\ r.current \in Nat /\ r.heldModel \in Nat /\ r.heldTool \in Nat
        /\ o.body \in Bodies /\ o.to \in MaybeStage
    BY DEF LedgerInv, Well, Typed, Calls
  <1>1. CASE o.call = "run_inputs"
    <2>1. s = RecordRunInputs(r)
      BY <1>1 DEF Apply
    <2>2. VaultRecord("run_inputs") \in KeptRecord
      BY BlankKept
    <2>3. CASE VaultEnabled(r)
      <3>1. s = AppendVaultRecord(r, VaultRecord("run_inputs"))
        BY <2>1, <2>3 DEF RecordRunInputs
      <3>. QED BY <1>1, <2>2, <3>1, AppendKeeps
    <2>4. CASE ~VaultEnabled(r)
      BY <1>1, <2>1, <2>4 DEF RecordRunInputs, Changes, LedgerInv, Grows
    <2>. QED BY <2>3, <2>4
  <1>2. CASE o.call = "model_request"
    <2>. DEFINE x == [VaultRecord("model_request") EXCEPT !.model = r.heldModel, !.visit = r.current]
    <2>1. s = Keep(r, "messages", x)
      BY <1>2 DEF Apply, RecordModelRequest
    <2>2. x \in KeptRecord /\ x.type = "model_request" /\ x.model = r.heldModel
      BY <1>0, BlankKept DEF KeptRecord, VaultRecord
    <2>. HIDE DEF x
    <2>. QED BY <1>2, <2>1, <2>2, KeepStep DEF Captured
  <1>3. CASE o.call = "model_response"
    <2>. DEFINE x == [VaultRecord("model_response") EXCEPT
                        !.model = r.heldModel, !.visit = r.current, !.body = o.body, !.to = o.to]
    <2>1. s = Keep(r, "messages", x)
      BY <1>3 DEF Apply, RecordModelResponse
    <2>2. x \in KeptRecord /\ x.type = "model_response" /\ x.model = r.heldModel
      BY <1>0, BlankKept DEF KeptRecord, VaultRecord
    <2>. HIDE DEF x
    <2>. QED BY <1>3, <2>1, <2>2, KeepStep DEF Captured
  <1>4. CASE o.call = "policy_evaluation"
    <2>. DEFINE x == [VaultRecord("policy_evaluation") EXCEPT !.visit = r.current, !.body = o.body]
    <2>1. s = Keep(r, "policy", x)
      BY <1>4 DEF Apply, RecordPolicyEvaluation
    <2>2. x \in KeptRecord
      BY <1>0, BlankKept DEF KeptRecord, VaultRecord
    <2>. HIDE DEF x
    <2>. QED BY <1>4, <2>1, <2>2, KeepStep
  <1>5. CASE o.call = "tool_result"
    <2>. DEFINE x == [VaultRecord("tool_result") EXCEPT
                        !.tool = r.heldTool, !.visit = r.current, !.body = "ok", !.to = o.to, !.named = TRUE]
    <2>1. s = Keep(r, "results", x)
      BY <1>5 DEF Apply, RecordToolResult
    <2>2. x \in KeptRecord /\ x.type = "tool_result" /\ x.tool = r.heldTool
      <3>. PICK v \in KeptRecord : v = VaultRecord("tool_result")
        BY BlankKept
      <3>1. v.type = "tool_result"
        BY DEF VaultRecord
      <3>2. "ok" \in Bodies /\ "error" \in Bodies
        BY DEF Bodies
      <3>. PICK body \in Bodies : body = "ok"
        BY <3>2
      <3>3. IsOutcome(x, v, r.heldTool)
        BY <1>0, OutcomeKept
      <3>. QED BY <3>1, <3>3 DEF IsOutcome
    <2>. HIDE DEF x
    <2>3. /\ LedgerInv(s) /\ ~s.exceeded /\ Changes(r, s, {"vault"}) /\ Grows(r, s)
          /\ Complete(r) => x.tool \in ToolsKept(s)
      BY <2>1, <2>2, KeepsTool
    <2>. QED BY <1>5, <2>2, <2>3
  <1>6. CASE o.call = "tool_error"
    <2>. DEFINE x == [VaultRecord("tool_result") EXCEPT
                        !.tool = r.heldTool, !.visit = r.current, !.body = "error"]
    <2>1. s = Keep(r, "results", x)
      BY <1>6 DEF Apply, RecordToolError
    <2>2. x \in KeptRecord /\ x.type = "tool_result" /\ x.tool = r.heldTool
      <3>. PICK v \in KeptRecord : v = VaultRecord("tool_result")
        BY BlankKept
      <3>1. v.type = "tool_result"
        BY DEF VaultRecord
      <3>2. "ok" \in Bodies /\ "error" \in Bodies
        BY DEF Bodies
      <3>. PICK body \in Bodies : body = "error"
        BY <3>2
      <3>3. IsOutcome(x, v, r.heldTool)
        BY <1>0, FaultKept
      <3>. QED BY <3>1, <3>3 DEF IsOutcome
    <2>. HIDE DEF x
    <2>3. /\ LedgerInv(s) /\ ~s.exceeded /\ Changes(r, s, {"vault"}) /\ Grows(r, s)
          /\ Complete(r) => x.tool \in ToolsKept(s)
      BY <2>1, <2>2, KeepsTool
    <2>. QED BY <1>6, <2>2, <2>3
  <1>. QED BY <1>1, <1>2, <1>3, <1>4, <1>5, <1>6

\* Appending adds one element and keeps the others.
LEMMA AppendTyped ==
  ASSUME NEW S, NEW q \in Seq(S), NEW x \in S
  PROVE  /\ Append(q, x) \in Seq(S) /\ Append(q, x) # <<>>
         /\ \A i \in DOMAIN Append(q, x) : Append(q, x)[i] = x \/ (i \in DOMAIN q /\ Append(q, x)[i] = q[i])
  <1>1. Append(q, x) \in Seq(S) /\ Append(q, x) # <<>>
    BY AppendProperties
  <1>2. \A i \in DOMAIN Append(q, x) : Append(q, x)[i] = x \/ (i \in DOMAIN q /\ Append(q, x)[i] = q[i])
    OBVIOUS
  <1>. QED BY <1>1, <1>2

\* The queues of no and of one id.
LEMMA ShortTyped == <<>> \in Seq(Ids) /\ \A x \in Ids : <<x>> \in Seq(Ids)
  OBVIOUS

\* The id after n.
LEMMA NextId ==
  ASSUME NEW n \in Nat
  PROVE  n + 1 \in Nat /\ n + 1 \in Ids
  BY DEF Ids

\* The evidence depends on the vault only.
LEMMA SameVault ==
  ASSUME NEW r, NEW s, s.vault = r.vault
  PROVE  ModelsKept(s) = ModelsKept(r) /\ ToolsKept(s) = ToolsKept(r) /\ VisitsKept(s) = VisitsKept(r)
  BY DEF ModelsKept, ToolsKept, VisitsKept

\* So it only grows where the vault stays as it is.
LEMMA SameGrows ==
  ASSUME NEW r, NEW s, s.vault = r.vault
  PROVE  Grows(r, s)
  BY SameVault DEF Grows

\* What is filed depends on the events, the vault and the attempts that are waiting.
LEMMA SameFiled ==
  ASSUME NEW r, NEW s, s.config = r.config, s.events = r.events, s.vault = r.vault,
         s.pendingModels = r.pendingModels, s.lastModel = r.lastModel, s.heldModel = r.heldModel
  PROVE  /\ Complete(s) => Complete(r)
         /\ Filed(r) => Filed(s)
  <1>1. Complete(s) => Complete(r)
    BY DEF Complete, VaultEnabled
  <1>2. /\ ModelsKept(s) = ModelsKept(r) /\ ToolsKept(s) = ToolsKept(r)
        /\ VisitsKept(s) = VisitsKept(r)
    BY SameVault
  <1>3. \A e : EventFiled(r, e) => EventFiled(s, e)
    BY <1>2 DEF EventFiled
  <1>4. Filed(r) => Filed(s)
    BY <1>2, <1>3 DEF Filed
  <1>. QED BY <1>1, <1>4

\* beginStageVisit queues a fresh visit under its stage and makes it current.
LEMMA StageVisitHook ==
  ASSUME NEW r, LedgerInv(r), ~r.exceeded, NEW o \in Calls, NEW s, s = Apply(r, o),
         o.call = "stage_visit", o.stage \in Stages
  PROVE  /\ LedgerInv(s) /\ ~s.exceeded
         /\ Changes(r, s, {"visits", "heldVisit", "current", "pendingVisits"}) /\ Grows(r, s)
         /\ s.current \in Ids /\ s.heldVisit = s.current
         /\ At(s.pendingVisits, o.stage) = Append(At(r.pendingVisits, o.stage), s.current)
         /\ \A t \in Stages \ {o.stage} : At(s.pendingVisits, t) = At(r.pendingVisits, t)
  <1>. DEFINE id == r.visits + 1
              names == {"visits", "heldVisit", "current", "pendingVisits"}
  <1>1. s = BeginStageVisit(r, o.stage)
    BY DEF Apply
  <1>2. Changes(r, s, names)
    BY <1>1 DEF BeginStageVisit, Changes, RecorderFields, LedgerInv
  <1>3. /\ s.visits = id /\ s.heldVisit = id /\ s.current = id
        /\ s.pendingVisits = Put(r.pendingVisits, o.stage, Append(At(r.pendingVisits, o.stage), id))
    BY <1>1 DEF BeginStageVisit, RecorderFields, LedgerInv
  <1>4. /\ s.config = r.config /\ s.exceeded = r.exceeded /\ s.events = r.events /\ s.vault = r.vault
        /\ s.live = r.live /\ s.models = r.models /\ s.tools = r.tools
        /\ s.heldModel = r.heldModel /\ s.heldTool = r.heldTool
        /\ s.pendingModels = r.pendingModels /\ s.lastModel = r.lastModel
        /\ s.pendingTools = r.pendingTools /\ s.openTools = r.openTools
        /\ s.pendingTransitions = r.pendingTransitions
    BY <1>2 DEF Changes, RecorderFields
  <1>5. Typed(r)
    BY DEF LedgerInv, Well
  <1>6. id \in Nat /\ id \in Ids
    BY <1>5, NextId DEF Typed
  <1>. HIDE DEF id
  <1>7. \A t \in Stages :
          At(s.pendingVisits, t) = IF t = o.stage THEN Append(At(r.pendingVisits, o.stage), id)
                                   ELSE At(r.pendingVisits, t)
    BY <1>3, AtPut
  <1>8. Append(At(r.pendingVisits, o.stage), id) \in Seq(Ids)
    BY <1>5, <1>6, AppendTyped DEF Typed
  <1>9. \A t \in Stages : At(s.pendingVisits, t) \in Seq(Ids)
    BY <1>5, <1>7, <1>8 DEF Typed
  <1>10. Typed(s)
    BY <1>3, <1>4, <1>5, <1>6, <1>9 DEF Typed
  <1>11. Complete(s) => Filed(s)
    BY <1>4, SameVault DEF LedgerInv, Well, Complete, VaultEnabled, Filed, EventFiled
  <1>12. Grows(r, s)
    BY <1>4, SameGrows
  <1>. QED BY <1>2, <1>3, <1>4, <1>6, <1>7, <1>10, <1>11, <1>12 DEF LedgerInv, Well, Changes

\* beginModelCall queues a fresh call; the call held before it must be on file.
LEMMA ModelCallHook ==
  ASSUME NEW r, LedgerInv(r), ~r.exceeded, NEW o \in Calls, NEW s, s = Apply(r, o),
         o.call = "model_call", Complete(r) => r.heldModel \in ModelsKept(r) \cup {0}
  PROVE  /\ LedgerInv(s) /\ ~s.exceeded
         /\ Changes(r, s, {"models", "heldModel", "pendingModels"}) /\ Grows(r, s)
         /\ At(s.pendingModels, s.current) # <<>>
  <1>. DEFINE id == r.models + 1
              queue == Append(At(r.pendingModels, r.current), id)
  <1>1. s = BeginModelCall(r)
    BY DEF Apply
  <1>2. Changes(r, s, {"models", "heldModel", "pendingModels"})
    BY <1>1 DEF BeginModelCall, Changes, RecorderFields, LedgerInv
  <1>3. /\ s.models = id /\ s.heldModel = id
        /\ s.pendingModels = Put(r.pendingModels, r.current, queue)
    BY <1>1 DEF BeginModelCall, RecorderFields, LedgerInv
  <1>4. /\ s.config = r.config /\ s.exceeded = r.exceeded /\ s.events = r.events /\ s.vault = r.vault
        /\ s.live = r.live /\ s.visits = r.visits /\ s.tools = r.tools
        /\ s.current = r.current /\ s.heldVisit = r.heldVisit /\ s.heldTool = r.heldTool
        /\ s.pendingVisits = r.pendingVisits /\ s.lastModel = r.lastModel
        /\ s.pendingTools = r.pendingTools /\ s.openTools = r.openTools
        /\ s.pendingTransitions = r.pendingTransitions
    BY <1>2 DEF Changes, RecorderFields
  <1>5. Typed(r)
    BY DEF LedgerInv, Well
  <1>6. id \in Nat /\ id \in Ids /\ r.current \in Nat
    BY <1>5, NextId DEF Typed
  <1>. HIDE DEF id
  <1>7. /\ queue \in Seq(Ids) /\ queue # <<>>
        /\ \A i \in DOMAIN queue :
             queue[i] = id \/ (i \in DOMAIN At(r.pendingModels, r.current)
                               /\ queue[i] = At(r.pendingModels, r.current)[i])
    <2>1. At(r.pendingModels, r.current) \in Seq(Ids)
      BY <1>5, <1>6 DEF Typed
    <2>. PICK q \in Seq(Ids) : q = At(r.pendingModels, r.current)
      BY <2>1
    <2>. QED BY <1>6, AppendTyped
  <1>. HIDE DEF queue
  <1>8. \A v \in Nat :
          At(s.pendingModels, v) = IF v = r.current THEN queue ELSE At(r.pendingModels, v)
    BY <1>3, AtPut
  <1>9. \A v \in Nat : At(s.pendingModels, v) \in Seq(Ids)
    BY <1>5, <1>7, <1>8 DEF Typed
  <1>10. Typed(s)
    BY <1>3, <1>4, <1>5, <1>6, <1>9 DEF Typed
  <1>11. ASSUME Complete(s)
         PROVE  Filed(s)
    <2>1. Filed(r) /\ r.heldModel \in ModelsKept(r) \cup {0}
      BY <1>4, <1>11 DEF LedgerInv, Well, Complete, VaultEnabled
    <2>2. ModelsKept(s) = ModelsKept(r) /\ ToolsKept(s) = ToolsKept(r) /\ VisitsKept(s) = VisitsKept(r)
      BY <1>4, SameVault
    <2>3. \A v \in Nat : \A i \in DOMAIN At(r.pendingModels, v) :
             At(r.pendingModels, v)[i] \in ModelsKept(r)
      <3>1. \A v \in Nat : \A i \in DOMAIN At(r.pendingModels, v) : At(r.pendingModels, v)[i] \in Ids
        BY <1>5 DEF Typed
      <3>. QED BY <2>1, <3>1 DEF Filed, Ids
    <2>4. \A v \in Nat : \A i \in DOMAIN At(r.lastModel, v) : At(r.lastModel, v)[i] \in ModelsKept(r)
      <3>1. \A v \in Nat : \A i \in DOMAIN At(r.lastModel, v) : At(r.lastModel, v)[i] \in Ids
        BY <1>5 DEF Typed
      <3>. QED BY <2>1, <3>1 DEF Filed, Ids
    <2>5. \A v \in Nat : \A i \in DOMAIN At(s.pendingModels, v) :
             At(s.pendingModels, v)[i] \in ModelsKept(s) \cup {s.heldModel}
      BY <1>3, <1>6, <1>7, <1>8, <2>2, <2>3
    <2>. QED BY <1>4, <2>1, <2>2, <2>4, <2>5 DEF Filed, EventFiled
  <1>12. Grows(r, s)
    BY <1>4, SameGrows
  <1>. QED BY <1>2, <1>4, <1>6, <1>7, <1>8, <1>10, <1>11, <1>12 DEF LedgerInv, Well, Changes

\* beginToolCall queues a fresh call under the current visit.
LEMMA ToolCallHook ==
  ASSUME NEW r, LedgerInv(r), ~r.exceeded, NEW o \in Calls, NEW s, s = Apply(r, o),
         o.call = "tool_call"
  PROVE  /\ LedgerInv(s) /\ ~s.exceeded
         /\ Changes(r, s, {"tools", "heldTool", "pendingTools"}) /\ Grows(r, s)
         /\ s.heldTool \in Ids
         /\ At(s.pendingTools, r.current) = Append(At(r.pendingTools, r.current), s.heldTool)
         /\ \A v \in Nat \ {r.current} : At(s.pendingTools, v) = At(r.pendingTools, v)
  <1>. DEFINE id == r.tools + 1
              queue == Append(At(r.pendingTools, r.current), id)
  <1>1. s = BeginToolCall(r)
    BY DEF Apply
  <1>2. Changes(r, s, {"tools", "heldTool", "pendingTools"})
    BY <1>1 DEF BeginToolCall, Changes, RecorderFields, LedgerInv
  <1>3. /\ s.tools = id /\ s.heldTool = id
        /\ s.pendingTools = Put(r.pendingTools, r.current, queue)
    BY <1>1 DEF BeginToolCall, RecorderFields, LedgerInv
  <1>4. /\ s.config = r.config /\ s.exceeded = r.exceeded /\ s.events = r.events /\ s.vault = r.vault
        /\ s.live = r.live /\ s.visits = r.visits /\ s.models = r.models
        /\ s.current = r.current /\ s.heldVisit = r.heldVisit /\ s.heldModel = r.heldModel
        /\ s.pendingVisits = r.pendingVisits /\ s.pendingModels = r.pendingModels
        /\ s.lastModel = r.lastModel /\ s.openTools = r.openTools
        /\ s.pendingTransitions = r.pendingTransitions
    BY <1>2 DEF Changes, RecorderFields
  <1>5. Typed(r)
    BY DEF LedgerInv, Well
  <1>6. id \in Nat /\ id \in Ids /\ r.current \in Nat
    BY <1>5, NextId DEF Typed
  <1>. HIDE DEF id
  <1>7. queue \in Seq(Ids)
    BY <1>5, <1>6, AppendTyped DEF Typed
  <1>8. \A v \in Nat :
          At(s.pendingTools, v) = IF v = r.current THEN queue ELSE At(r.pendingTools, v)
    BY <1>3, AtPut
  <1>9. \A v \in Nat : At(s.pendingTools, v) \in Seq(Ids)
    BY <1>5, <1>7, <1>8 DEF Typed
  <1>10. Typed(s)
    BY <1>3, <1>4, <1>5, <1>6, <1>9 DEF Typed
  <1>11. Complete(s) => Filed(s)
    BY <1>4, SameVault DEF LedgerInv, Well, Complete, VaultEnabled, Filed, EventFiled
  <1>12. Grows(r, s)
    BY <1>4, SameGrows
  <1>. QED BY <1>2, <1>3, <1>4, <1>6, <1>8, <1>10, <1>11, <1>12 DEF LedgerInv, Well, Changes

\* recordTransitionEvaluation leaves the evidence waiting for its event.
LEMMA TransitionHook ==
  ASSUME NEW r, LedgerInv(r), ~r.exceeded, NEW o \in Calls, NEW s, s = Apply(r, o),
         o.call = "transition_evaluation"
  PROVE  /\ LedgerInv(s) /\ ~s.exceeded /\ Changes(r, s, {"pendingTransitions"}) /\ Grows(r, s)
         /\ Complete(r) => At(s.pendingTransitions, r.heldVisit) # <<>>
  <1>. DEFINE queue == Append(At(r.pendingTransitions, r.heldVisit), "candidates")
  <1>1. s = RecordTransitionEvaluation(r)
    BY DEF Apply
  <1>2. Changes(r, s, {"pendingTransitions"})
    BY <1>1 DEF RecordTransitionEvaluation, Changes, RecorderFields, LedgerInv
  <1>3. Captures(r, "policy") => s.pendingTransitions = Put(r.pendingTransitions, r.heldVisit, queue)
    BY <1>1 DEF RecordTransitionEvaluation, RecorderFields, LedgerInv
  <1>4. /\ s.config = r.config /\ s.exceeded = r.exceeded /\ s.events = r.events /\ s.vault = r.vault
        /\ s.live = r.live /\ s.visits = r.visits /\ s.models = r.models /\ s.tools = r.tools
        /\ s.current = r.current /\ s.heldVisit = r.heldVisit /\ s.heldModel = r.heldModel
        /\ s.heldTool = r.heldTool
        /\ s.pendingVisits = r.pendingVisits /\ s.pendingModels = r.pendingModels
        /\ s.lastModel = r.lastModel /\ s.pendingTools = r.pendingTools /\ s.openTools = r.openTools
    BY <1>2 DEF Changes, RecorderFields
  <1>5. Typed(r)
    BY DEF LedgerInv, Well
  <1>6. r.heldVisit \in Nat
    BY <1>5 DEF Typed
  <1>7. queue \in Seq({"candidates"}) /\ queue # <<>>
    <2>1. At(r.pendingTransitions, r.heldVisit) \in Seq({"candidates"})
      BY <1>5, <1>6 DEF Typed
    <2>. PICK q \in Seq({"candidates"}) : q = At(r.pendingTransitions, r.heldVisit)
      BY <2>1
    <2>2. Append(q, "candidates") \in Seq({"candidates"}) /\ Append(q, "candidates") # <<>>
      BY AppendTyped
    <2>. QED BY <2>2
  <1>. HIDE DEF queue
  <1>8. Captures(r, "policy") =>
          \A v \in Nat : At(s.pendingTransitions, v) =
                            IF v = r.heldVisit THEN queue ELSE At(r.pendingTransitions, v)
    BY <1>3, AtPut
  <1>9. \A v \in Nat : At(s.pendingTransitions, v) \in Seq({"candidates"})
    <2>1. ~Captures(r, "policy") => s = r
      BY <1>1 DEF RecordTransitionEvaluation
    <2>. QED BY <1>5, <1>7, <1>8, <2>1 DEF Typed
  <1>10. Typed(s)
    BY <1>4, <1>5, <1>9 DEF Typed
  <1>11. Complete(s) => Filed(s)
    BY <1>4, SameVault DEF LedgerInv, Well, Complete, VaultEnabled, Filed, EventFiled
  <1>12. Grows(r, s)
    BY <1>4, SameGrows
  <1>13. Complete(r) => Captures(r, "policy")
    BY DEF Complete, Captures, Captured
  <1>. QED BY <1>2, <1>4, <1>6, <1>7, <1>8, <1>10, <1>11, <1>12, <1>13 DEF LedgerInv, Well, Changes

\* The hooks that keep nothing.
LEMMA RunHooks ==
  ASSUME NEW r, LedgerInv(r), NEW o \in Calls, NEW s, s = Apply(r, o),
         o.call \in {"begin_run", "run_error"}
  PROVE  LedgerInv(s) /\ s.exceeded = r.exceeded /\ Changes(r, s, {"begun"}) /\ Grows(r, s)
  <1>1. s = r \/ s = [r EXCEPT !.begun = TRUE]
    BY DEF Apply
  <1>2. Changes(r, s, {"begun"})
    BY <1>1 DEF Changes, RecorderFields, LedgerInv
  <1>3. Changes(r, s, {"begun", "finished", "dropped"})
    BY <1>2 DEF Changes
  <1>. QED BY <1>2, <1>3, SameWell

-----------------------------------------------------------------------------
(* Observed events. *)

\* An event takes its number before the recorder sees it.
LEMMA Tick ==
  ASSUME NEW r0, LedgerInv(r0), NEW r, r = [r0 EXCEPT !.live = @ + 1]
  PROVE  /\ LedgerInv(r) /\ r.exceeded = r0.exceeded /\ Changes(r0, r, {"live"}) /\ Grows(r0, r)
         /\ ~r.exceeded => r.live \in Ids
  <1>1. Changes(r0, r, {"live"})
    BY DEF Changes, RecorderFields, LedgerInv
  <1>2. r.live = r0.live + 1
    BY DEF RecorderFields, LedgerInv
  <1>3. /\ r.config = r0.config /\ r.exceeded = r0.exceeded /\ r.events = r0.events /\ r.vault = r0.vault
        /\ r.visits = r0.visits /\ r.models = r0.models /\ r.tools = r0.tools
        /\ r.current = r0.current /\ r.heldVisit = r0.heldVisit
        /\ r.heldModel = r0.heldModel /\ r.heldTool = r0.heldTool
        /\ r.pendingVisits = r0.pendingVisits /\ r.pendingModels = r0.pendingModels
        /\ r.lastModel = r0.lastModel /\ r.pendingTools = r0.pendingTools
        /\ r.openTools = r0.openTools /\ r.pendingTransitions = r0.pendingTransitions
    BY <1>1 DEF Changes, RecorderFields
  <1>4. ~r.exceeded => r.live \in Ids /\ r.live \in Nat
    BY <1>2, <1>3, NextId DEF LedgerInv, Well, Typed
  <1>5. ~r.exceeded => Typed(r)
    BY <1>3, <1>4 DEF LedgerInv, Well, Typed
  <1>6. ~r.exceeded => (Complete(r) => Filed(r))
    BY <1>3, SameFiled DEF LedgerInv, Well
  <1>7. Grows(r0, r)
    BY <1>3, SameGrows
  <1>. QED BY <1>1, <1>3, <1>4, <1>5, <1>6, <1>7 DEF LedgerInv, Well, Changes

\* A sound record, filed if the vault is complete, keeps the ledger in order.
LEMMA PushWell ==
  ASSUME NEW s, LedgerInv(s), ~s.exceeded, NEW p \in SoundRecord,
         Complete(s) => EventFiled(s, p), NEW t, t = Push(s, p)
  PROVE  LedgerInv(t) /\ ~t.exceeded /\ Changes(s, t, {"events"}) /\ Grows(s, t)
  <1>1. Changes(s, t, {"events"}) /\ t.events = Append(s.events, p)
    BY DEF Push, Changes, RecorderFields, LedgerInv
  <1>2. /\ t.config = s.config /\ t.exceeded = s.exceeded /\ t.live = s.live /\ t.vault = s.vault
        /\ t.visits = s.visits /\ t.models = s.models /\ t.tools = s.tools
        /\ t.current = s.current /\ t.heldVisit = s.heldVisit
        /\ t.heldModel = s.heldModel /\ t.heldTool = s.heldTool
        /\ t.pendingVisits = s.pendingVisits /\ t.pendingModels = s.pendingModels
        /\ t.lastModel = s.lastModel /\ t.pendingTools = s.pendingTools
        /\ t.openTools = s.openTools /\ t.pendingTransitions = s.pendingTransitions
    BY <1>1 DEF Changes, RecorderFields
  <1>3. Typed(s)
    BY DEF LedgerInv, Well
  <1>4. PICK q \in Seq(SoundRecord) : q = s.events
    BY <1>3 DEF Typed
  <1>5. /\ t.events \in Seq(SoundRecord)
        /\ \A i \in DOMAIN t.events : t.events[i] = p \/ (i \in DOMAIN s.events /\ t.events[i] = s.events[i])
    BY <1>1, <1>4, AppendTyped
  <1>6. Typed(t)
    BY <1>2, <1>3, <1>5 DEF Typed
  <1>7. ASSUME Complete(t)
        PROVE  Filed(t)
    <2>1. ModelsKept(t) = ModelsKept(s) /\ ToolsKept(t) = ToolsKept(s) /\ VisitsKept(t) = VisitsKept(s)
      BY <1>2, SameVault
    <2>2. Filed(s) /\ EventFiled(s, p)
      BY <1>2, <1>7 DEF LedgerInv, Well, Complete, VaultEnabled
    <2>3. \A e : EventFiled(s, e) => EventFiled(t, e)
      BY <2>1 DEF EventFiled
    <2>4. \A i \in DOMAIN t.events : EventFiled(t, t.events[i])
      BY <1>5, <2>2, <2>3 DEF Filed
    <2>. QED BY <1>2, <2>1, <2>2, <2>4 DEF Filed
  <1>8. Grows(s, t)
    BY <1>2, SameGrows
  <1>. QED BY <1>1, <1>2, <1>6, <1>7, <1>8 DEF LedgerInv, Well, Changes

\* First and last of a queue of ids.
LEMMA LastId ==
  ASSUME NEW q \in Seq(Ids), q # <<>>
  PROVE  /\ Last(q) \in Ids /\ Head(q) \in Ids /\ Tail(q) \in Seq(Ids)
         /\ \E i \in DOMAIN q : q[i] = Last(q)
         /\ \E i \in DOMAIN q : q[i] = Head(q)
         /\ \A i \in DOMAIN Tail(q) : \E j \in DOMAIN q : q[j] = Tail(q)[i]
  <1>1. Len(q) \in 1..Len(q) /\ 1 \in 1..Len(q) /\ DOMAIN q = 1..Len(q)
    OBVIOUS
  <1>2. Last(q) = q[Len(q)] /\ Head(q) = q[1]
    BY DEF Last
  <1>3. Tail(q) \in Seq(Ids) /\ \A i \in DOMAIN Tail(q) : i + 1 \in DOMAIN q /\ Tail(q)[i] = q[i + 1]
    BY HeadTailProperties
  <1>4. q[Len(q)] \in Ids /\ q[1] \in Ids
    BY <1>1
  <1>. QED BY <1>1, <1>2, <1>3, <1>4

\* What a record of the ledger says of its event.
LEMMA ProjectSound ==
  ASSUME NEW r, NEW s, Typed(r), Typed(s), r.live # 0, NEW o \in Calls,
         o.kind \in Kinds \ {"annotation"},
         o.kind \in StageKinds => o.stage \in Stages /\ s.current # 0,
         o.kind = "transition_selected" => o.to \in Edges[o.stage],
         o.kind = "model_completed" => At(s.lastModel, s.current) # <<>>,
         o.kind = "model_delta" => At(s.pendingModels, s.current) # <<>>
  PROVE  /\ Project(r, s, o) \in SoundRecord
         /\ Project(r, s, o).kind = o.kind
         /\ o.kind = "model_completed" => Project(r, s, o).model = Head(At(s.lastModel, s.current))
         /\ o.kind = "model_retry" => Project(r, s, o).model = RetriedModel(r)
         /\ o.kind \in ToolKinds => Project(r, s, o).tool = PeekTool(s)
         /\ o.kind \in StageKinds => Project(r, s, o).visit = s.current
  <1>1. PeekTool(s) \in Ids
    <2>1. At(s.openTools, s.current) \in Seq(Ids)
      BY DEF Typed
    <2>2. s.tools + 1 \in Ids
      BY NextId DEF Typed
    <2>. QED BY <2>1, <2>2, LastId DEF PeekTool
  <1>2. PeekModel(s) \in Nat /\ (o.kind = "model_delta" => PeekModel(s) \in Ids)
    <2>1. At(s.pendingModels, s.current) \in Seq(Ids)
      BY DEF Typed
    <2>. QED BY <2>1, LastId DEF PeekModel, Ids
  <1>3. RetriedModel(r) \in Ids
    <2>1. At(r.pendingModels, r.current) \in Seq(Ids) /\ At(r.lastModel, r.current) \in Seq(Ids)
      BY DEF Typed
    <2>2. r.models + 1 \in Ids
      BY NextId DEF Typed
    <2>3. PeekModel(r) # 0 => PeekModel(r) \in Ids
      BY <2>1, LastId DEF PeekModel
    <2>. QED BY <2>1, <2>2, <2>3, LastId DEF RetriedModel
  <1>4. o.kind = "model_completed" => Head(At(s.lastModel, s.current)) \in Ids
    <2>1. At(s.lastModel, s.current) \in Seq(Ids)
      BY DEF Typed
    <2>. QED BY <2>1, LastId
  <1>. DEFINE p == Project(r, s, o)
              model == CASE o.kind = "model_completed" -> Head(At(s.lastModel, s.current))
                         [] o.kind = "model_delta" -> PeekModel(s)
                         [] o.kind = "model_retry" -> RetriedModel(r)
                         [] OTHER -> 0
              visit == IF o.kind \in StageKinds THEN s.current ELSE 0
              tool == IF o.kind \in ToolKinds THEN PeekTool(s) ELSE 0
  <1>5. p = [kind |-> o.kind, run |-> TraceId, seq |-> r.live, stage |-> o.stage, visit |-> visit,
             model |-> model, tool |-> tool,
             to |-> IF o.kind = "transition_selected" THEN o.to ELSE None,
             denied |-> o.denied, shown |-> Shown(r.config, o.kind),
             name |-> IF o.kind \in ToolKinds THEN "tool" ELSE None,
             masked |-> o.content = "value", anchor |-> 0, odd |-> "no"]
    <2>. DEFINE shown == Shown(r.config, o.kind)
                to == IF o.kind = "transition_selected" THEN o.to ELSE None
                name == IF o.kind \in ToolKinds THEN "tool" ELSE None
                masked == o.content = "value"
    <2>1. p = [PublicRecord(o.kind, o.stage, visit) EXCEPT
                 !.seq = r.live, !.model = model, !.tool = tool, !.to = to, !.denied = o.denied,
                 !.shown = shown, !.name = name, !.masked = masked]
      BY DEF Project
    <2>. DEFINE D == {"kind", "run", "seq", "stage", "visit", "model", "tool", "to", "denied",
                       "shown", "name", "masked", "anchor", "odd"}
                q == PublicRecord(o.kind, o.stage, visit)
                b == [kind |-> o.kind, run |-> TraceId, seq |-> r.live, stage |-> o.stage,
                      visit |-> visit, model |-> model, tool |-> tool, to |-> to,
                      denied |-> o.denied, shown |-> shown, name |-> name, masked |-> masked,
                      anchor |-> 0, odd |-> "no"]
    <2>. HIDE DEF p, visit, model, tool, shown, to, name, masked
    <2>2. /\ DOMAIN q = D /\ q.kind = o.kind /\ q.run = TraceId /\ q.stage = o.stage
          /\ q.visit = visit /\ q.anchor = 0 /\ q.odd = "no"
      BY DEF PublicRecord
    <2>. HIDE DEF q
    <2>3. p = [q EXCEPT !.seq = r.live, !.model = model, !.tool = tool, !.to = to,
                        !.denied = o.denied, !.shown = shown, !.name = name, !.masked = masked]
      BY <2>1 DEF q
    <2>4. DOMAIN p = D /\ p = [n \in D |-> p[n]]
      BY <2>2, <2>3
    <2>5. /\ p.seq = r.live /\ p.model = model /\ p.tool = tool /\ p.to = to
          /\ p.denied = o.denied /\ p.shown = shown /\ p.name = name /\ p.masked = masked
          /\ p.kind = q.kind /\ p.run = q.run /\ p.stage = q.stage /\ p.visit = q.visit
          /\ p.anchor = q.anchor /\ p.odd = q.odd
      BY <2>2, <2>3
    <2>6. /\ b.seq = r.live /\ b.model = model /\ b.tool = tool /\ b.to = to
          /\ b.denied = o.denied /\ b.shown = shown /\ b.name = name /\ b.masked = masked
          /\ b.kind = o.kind /\ b.run = TraceId /\ b.stage = o.stage /\ b.visit = visit
          /\ b.anchor = 0 /\ b.odd = "no" /\ b = [n \in D |-> b[n]]
      OBVIOUS
    <2>. HIDE DEF b
    <2>7. \A n \in D : p[n] = b[n]
      BY <2>2, <2>5, <2>6
    <2>8. p = b
      <3>1. [n \in D |-> p[n]] = [n \in D |-> b[n]]
        BY <2>7
      <3>. QED BY <2>4, <2>6, <3>1
    <2>. QED BY <2>8, Zenon DEF b, shown, to, name, masked
  <1>6. /\ model \in Nat
        /\ o.kind \in ModelKinds => model # 0
    BY <1>2, <1>3, <1>4 DEF Ids, ModelKinds
  <1>7. tool \in Nat /\ (o.kind \in ToolKinds => tool # 0)
    BY <1>1 DEF Ids
  <1>8. visit \in Nat /\ (o.kind \in StageKinds => visit # 0)
    BY DEF Typed
  <1>9. /\ Shown(r.config, o.kind) \in Shows
        /\ o.kind \in {"model_delta", "run_completed"} => Shown(r.config, o.kind) = "marker"
    BY DEF Shown, Shows
  <1>10. r.live \in Nat
    BY DEF Typed
  <1>11. o.kind = "model_completed" => model = Head(At(s.lastModel, s.current))
    OBVIOUS
  <1>12. o.kind = "model_retry" => model = RetriedModel(r)
    OBVIOUS
  <1>13. o.kind \in StageKinds => visit = s.current
    OBVIOUS
  <1>14. o.kind \in ToolKinds => tool = PeekTool(s)
    OBVIOUS
  <1>. HIDE DEF model, visit, tool, p
  <1>15. p \in LedgerRecord
    BY <1>5, <1>6, <1>7, <1>8, <1>9, <1>10 DEF LedgerRecord, Calls, MaybeStage
  <1>16. Placed(p)
    BY <1>5, <1>8 DEF Placed
  <1>17. Filled(p)
    BY <1>5, <1>6, <1>7, <1>9 DEF Filled
  <1>18. p.kind = o.kind /\ p.model = model /\ p.visit = visit /\ p.tool = tool
    BY <1>5
  <1>19. p = Project(r, s, o)
    BY DEF p
  <1>. QED BY <1>11, <1>12, <1>13, <1>14, <1>15, <1>16, <1>17, <1>18, <1>19 DEF SoundRecord

\* From the recorder q that met the event, settled to s, the event o can be recorded,
\* with its evidence if the vault is complete.
Projectable(q, s, o) ==
  /\ Typed(q) /\ q.live # 0 /\ LedgerInv(s) /\ ~s.exceeded
  /\ o.kind \in Kinds \ {"annotation"}
  /\ o.kind \in StageKinds => o.stage \in Stages /\ s.current # 0
  /\ o.kind = "transition_selected" =>
       o.to \in Edges[o.stage] /\ (Complete(s) => s.current \in VisitsKept(s))
  /\ o.kind = "model_completed" =>
       /\ At(s.lastModel, s.current) # <<>>
       /\ Complete(s) => Head(At(s.lastModel, s.current)) \in ModelsKept(s)
  /\ o.kind = "model_delta" => At(s.pendingModels, s.current) # <<>>
  /\ o.kind = "model_retry" => (Complete(s) => RetriedModel(q) \in ModelsKept(s))
  /\ o.kind \in {"tool_call_completed", "tool_call_failed"} =>
       (Complete(s) => PeekTool(s) \in ToolsKept(s))

\* From s to t one record was added, and all is in order.
Pushed(s, t) == LedgerInv(t) /\ ~t.exceeded /\ Changes(s, t, {"events"}) /\ Grows(s, t)

\* The record of an event whose evidence is kept joins the ledger.
LEMMA PushProjected ==
  ASSUME NEW q, NEW s, NEW o \in Calls, Projectable(q, s, o)
  PROVE  Pushed(s, Push(s, Project(q, s, o)))
  <1>. PICK p : p = Project(q, s, o)
    OBVIOUS
  <1>. PICK t : t = Push(s, p)
    OBVIOUS
  <1>0. LedgerInv(s) /\ ~s.exceeded
    BY DEF Projectable
  <1>1. Typed(s)
    BY <1>0 DEF LedgerInv, Well
  <1>2. /\ p \in SoundRecord /\ p.kind = o.kind
        /\ o.kind = "model_completed" => p.model = Head(At(s.lastModel, s.current))
        /\ o.kind = "model_retry" => p.model = RetriedModel(q)
        /\ o.kind \in ToolKinds => p.tool = PeekTool(s)
        /\ o.kind \in StageKinds => p.visit = s.current
    BY <1>1, ProjectSound DEF Projectable
  <1>3. Complete(s) => EventFiled(s, p)
    BY <1>2 DEF EventFiled, ToolKinds, StageKinds, Projectable
  <1>4. Pushed(s, t)
    BY <1>0, <1>2, <1>3, PushWell DEF Pushed
  <1>. QED BY <1>4

\* A ledger that is full stays full: what no longer fits is refused at the end.
LEMMA Overflow ==
  ASSUME NEW r, LedgerInv(r), NEW o \in Calls, o.call = "event", NEW t, t = Apply(r, o),
         Full([r EXCEPT !.live = @ + 1])
  PROVE  LedgerInv(t) /\ t.exceeded
  <1>1. t = [[r EXCEPT !.live = @ + 1] EXCEPT !.exceeded = TRUE]
    BY DEF Apply, ObserveWorkflowEvent
  <1>2. DOMAIN t = RecorderFields /\ t.exceeded = TRUE
    BY <1>1 DEF LedgerInv, RecorderFields
  <1>. QED BY <1>2 DEF LedgerInv

\* A recorder over its limit stays so, whatever it is told.
LEMMA ExceededStays ==
  ASSUME NEW r, LedgerInv(r), r.exceeded, NEW o \in Calls, NEW t, t = Apply(r, o)
  PROVE  LedgerInv(t) /\ t.exceeded
  <1>0. DOMAIN r = RecorderFields /\ r.exceeded = TRUE
    BY DEF LedgerInv
  <1>1. CASE o.call = "event"
    <2>1. [r EXCEPT !.live = @ + 1].exceeded = TRUE
      BY <1>0 DEF RecorderFields
    <2>. QED BY <1>1, <2>1, Overflow DEF Full
  <1>2. CASE o.call # "event"
    <2>1. /\ t = r
          \/ t = [r EXCEPT !.begun = TRUE]
          \/ \E x : t = AppendVaultRecord(r, x)
          \/ t = BeginStageVisit(r, o.stage)
          \/ t = BeginModelCall(r)
          \/ t = BeginToolCall(r)
          \/ \E y : t = [r EXCEPT !.pendingTransitions = y]
      BY <1>2 DEF Apply, Calls, RecordRunInputs, RecordModelRequest, RecordModelResponse,
                  RecordPolicyEvaluation, RecordToolResult, RecordToolError, Keep,
                  RecordTransitionEvaluation
    <2>2. DOMAIN t = RecorderFields /\ t.exceeded = TRUE
      <3>1. ASSUME NEW z, t = AppendVaultRecord(r, z)
            PROVE  DOMAIN t = RecorderFields /\ t.exceeded = TRUE
        BY <1>0, <3>1 DEF AppendVaultRecord, RecorderFields
      <3>2. CASE t = BeginStageVisit(r, o.stage)
        BY <1>0, <3>2 DEF BeginStageVisit, RecorderFields
      <3>3. CASE t = BeginModelCall(r)
        BY <1>0, <3>3 DEF BeginModelCall, RecorderFields
      <3>4. CASE t = BeginToolCall(r)
        BY <1>0, <3>4 DEF BeginToolCall, RecorderFields
      <3>5. ASSUME NEW w, t = [r EXCEPT !.pendingTransitions = w]
            PROVE  DOMAIN t = RecorderFields /\ t.exceeded = TRUE
        BY <1>0, <3>5 DEF RecorderFields
      <3>6. CASE t = r \/ t = [r EXCEPT !.begun = TRUE]
        BY <1>0, <3>6 DEF RecorderFields
      <3>. QED BY <2>1, <3>1, <3>2, <3>3, <3>4, <3>5, <3>6
    <2>. QED BY <2>2 DEF LedgerInv
  <1>. QED BY <1>1, <1>2

\* An attempt of the current visit is on record.
Asked(r) == At(r.pendingModels, r.current) # <<>> \/ At(r.lastModel, r.current) # <<>>

\* The attempt a retry is about is on file, once the held one is.
LEMMA RetriedIsKept ==
  ASSUME NEW r, LedgerInv(r), ~r.exceeded, Asked(r), Complete(r),
         r.heldModel \in ModelsKept(r) \cup {0}
  PROVE  RetriedModel(r) \in ModelsKept(r)
  <1>1. /\ At(r.pendingModels, r.current) \in Seq(Ids) /\ At(r.lastModel, r.current) \in Seq(Ids)
        /\ r.current \in Nat
    BY DEF LedgerInv, Well, Typed
  <1>2. \A i \in DOMAIN At(r.pendingModels, r.current) :
           At(r.pendingModels, r.current)[i] \in ModelsKept(r) \cup {r.heldModel}
    BY <1>1 DEF LedgerInv, Well, Filed
  <1>3. \A i \in DOMAIN At(r.lastModel, r.current) :
           At(r.lastModel, r.current)[i] \in ModelsKept(r) \cup {r.heldModel}
    BY <1>1 DEF LedgerInv, Well, Filed
  <1>4. CASE At(r.pendingModels, r.current) # <<>>
    <2>1. Last(At(r.pendingModels, r.current)) \in Ids
          /\ Last(At(r.pendingModels, r.current)) \in ModelsKept(r) \cup {r.heldModel}
      BY <1>1, <1>2, <1>4, LastId
    <2>. QED BY <1>4, <2>1 DEF RetriedModel, PeekModel, Ids
  <1>5. CASE At(r.pendingModels, r.current) = <<>>
    <2>1. Head(At(r.lastModel, r.current)) \in Ids
          /\ Head(At(r.lastModel, r.current)) \in ModelsKept(r) \cup {r.heldModel}
      BY <1>1, <1>3, <1>5, LastId DEF Asked
    <2>. QED BY <1>5, <2>1 DEF RetriedModel, PeekModel, Ids, Asked
  <1>. QED BY <1>4, <1>5

\* The events that take no id.
Plain == {"run_started", "run_completed", "run_failed", "model_delta", "model_retry",
          "policy_checked", "policy_denied", "tool_call_completed", "tool_call_failed"}

\* An event that takes no id from a queue adds one record in order.
LEMMA PlainEvent ==
  ASSUME NEW r, LedgerInv(r), ~r.exceeded, NEW o \in Calls, o.call = "event", o.kind \in Plain,
         o.content = "plain",
         o.kind \in StageKinds => o.stage \in Stages /\ r.current # 0,
         o.kind = "model_delta" => At(r.pendingModels, r.current) # <<>>,
         o.kind = "model_retry" =>
           Asked(r) /\ (Complete(r) => r.heldModel \in ModelsKept(r) \cup {0}),
         o.kind \in {"tool_call_completed", "tool_call_failed"} =>
           /\ At(r.openTools, r.current) # <<>>
           /\ Complete(r) => Last(At(r.openTools, r.current)) \in ToolsKept(r),
         NEW t, t = Apply(r, o)
  PROVE  /\ LedgerInv(t)
         /\ ~t.exceeded => Changes(r, t, {"live", "events", "models"}) /\ Grows(r, t)
  <1>. PICK q : q = [r EXCEPT !.live = @ + 1]
    OBVIOUS
  <1>1. /\ LedgerInv(q) /\ ~q.exceeded /\ Changes(r, q, {"live"}) /\ Grows(r, q) /\ q.live \in Ids
    BY Tick
  <1>2. /\ q.config = r.config /\ q.current = r.current /\ q.pendingModels = r.pendingModels
        /\ q.lastModel = r.lastModel /\ q.openTools = r.openTools /\ q.heldModel = r.heldModel
        /\ q.vault = r.vault /\ q.models = r.models
    BY <1>1 DEF Changes, RecorderFields
  <1>3. CASE Full(q)
    BY <1>3, Overflow
  <1>4. CASE ~Full(q)
    <2>. PICK s : s = Settled(q, o)
      OBVIOUS
    <2>1. s = q \/ (s = [q EXCEPT !.models = @ + 1])
      BY DEF Settled, Plain
    <2>2. t = Push(s, Project(q, s, o))
      BY <1>4 DEF Apply, ObserveWorkflowEvent, Plain
    <2>3. /\ LedgerInv(s) /\ ~s.exceeded /\ Changes(q, s, {"models"}) /\ Grows(q, s)
      <3>1. CASE s = q
        BY <1>1, <3>1 DEF Changes, LedgerInv, Grows
      <3>2. CASE s = [q EXCEPT !.models = @ + 1]
        <4>1. Changes(q, s, {"models"}) /\ s.models = q.models + 1
          BY <1>1, <3>2 DEF Changes, RecorderFields, LedgerInv
        <4>2. /\ s.config = q.config /\ s.exceeded = q.exceeded /\ s.events = q.events /\ s.vault = q.vault
              /\ s.live = q.live /\ s.visits = q.visits /\ s.tools = q.tools
              /\ s.current = q.current /\ s.heldVisit = q.heldVisit
              /\ s.heldModel = q.heldModel /\ s.heldTool = q.heldTool
              /\ s.pendingVisits = q.pendingVisits /\ s.pendingModels = q.pendingModels
              /\ s.lastModel = q.lastModel /\ s.pendingTools = q.pendingTools
              /\ s.openTools = q.openTools /\ s.pendingTransitions = q.pendingTransitions
          BY <4>1 DEF Changes, RecorderFields
        <4>3. s.models \in Nat
          BY <1>1, <4>1, NextId DEF LedgerInv, Well, Typed
        <4>4. Typed(s)
          BY <1>1, <4>2, <4>3 DEF LedgerInv, Well, Typed
        <4>5. Complete(s) => Filed(s)
          BY <1>1, <4>2, SameFiled DEF LedgerInv, Well
        <4>6. Grows(q, s)
          BY <4>2, SameGrows
        <4>. QED BY <1>1, <4>1, <4>2, <4>4, <4>5, <4>6 DEF LedgerInv, Well, Changes
      <3>. QED BY <2>1, <3>1, <3>2
    <2>4. /\ s.current = q.current /\ s.pendingModels = q.pendingModels /\ s.openTools = q.openTools
          /\ s.vault = q.vault /\ s.config = q.config
      BY <2>3 DEF Changes, RecorderFields
    <2>5. Typed(q) /\ q.live # 0
      BY <1>1 DEF LedgerInv, Well, Ids
    <2>6. /\ o.kind \in Kinds \ {"annotation"} /\ o.kind # "transition_selected"
          /\ o.kind # "model_completed"
      BY DEF Plain, Kinds, StageKinds, ModelKinds, ToolKinds
    <2>7. ASSUME Complete(s)
          PROVE  /\ o.kind = "model_retry" => RetriedModel(q) \in ModelsKept(s)
                 /\ o.kind \in {"tool_call_completed", "tool_call_failed"} => PeekTool(s) \in ToolsKept(s)
      <3>1. Complete(q) /\ Complete(r)
        BY <1>2, <2>4, <2>7 DEF Complete, VaultEnabled
      <3>2. ModelsKept(s) = ModelsKept(q) /\ ToolsKept(s) = ToolsKept(r) /\ ModelsKept(q) = ModelsKept(r)
        BY <1>2, <2>4, SameVault
      <3>3. o.kind = "model_retry" => RetriedModel(q) \in ModelsKept(s)
        BY <1>1, <1>2, <3>1, <3>2, RetriedIsKept DEF Asked
      <3>4. o.kind \in {"tool_call_completed", "tool_call_failed"} => PeekTool(s) \in ToolsKept(s)
        BY <1>2, <2>4, <3>1, <3>2 DEF PeekTool
      <3>. QED BY <3>3, <3>4
    <2>8. LedgerInv(t) /\ Changes(s, t, {"events"}) /\ Grows(s, t)
      <3>1. o.kind \in StageKinds => o.stage \in Stages /\ s.current # 0
        BY <1>2, <2>4
      <3>2. o.kind = "model_delta" => At(s.pendingModels, s.current) # <<>>
        BY <1>2, <2>4
      <3>3. Projectable(q, s, o)
        BY <2>3, <2>5, <2>6, <2>7, <3>1, <3>2 DEF Projectable
      <3>. QED BY <2>2, <3>3, PushProjected DEF Pushed
    <2>9. Changes(r, t, {"live", "events", "models"})
      BY <1>1, <2>3, <2>8 DEF Changes
    <2>10. Grows(r, t)
      BY <1>1, <2>3, <2>8 DEF Grows
    <2>. QED BY <2>8, <2>9, <2>10
  <1>. QED BY <1>3, <1>4

\* An event: it has its number, its ids are taken, and unless the ledger is full
\* or the record has a secret in a name, its record is written and followed up.
LEMMA EventCases ==
  ASSUME NEW r, LedgerInv(r), ~r.exceeded, NEW o \in Calls, o.call = "event", NEW t, t = Apply(r, o)
  PROVE  \E q :
           /\ LedgerInv(q) /\ ~q.exceeded /\ Changes(r, q, {"live"}) /\ Grows(r, q) /\ q.live # 0
           /\ \/ LedgerInv(t) /\ t.exceeded
              \/ LET s == Settled(q, o)
                     pushed == Push(s, Project(q, s, o))
                 IN  t = IF o.content = "name" THEN s
                         ELSE CASE o.kind = "stage_completed" -> AnnotateStage(CaptureStageSnapshot(pushed, o), o)
                                [] o.kind = "transition_selected" -> FlushTransitionEvidence(pushed)
                                [] OTHER -> pushed
  <1>. DEFINE q == [r EXCEPT !.live = @ + 1]
  <1>1. /\ LedgerInv(q) /\ ~q.exceeded /\ Changes(r, q, {"live"}) /\ Grows(r, q) /\ q.live # 0
    BY Tick DEF Ids
  <1>2. Full(q) => LedgerInv(t) /\ t.exceeded
    BY Overflow
  <1>3. ~Full(q) =>
           LET s == Settled(q, o)
               pushed == Push(s, Project(q, s, o))
           IN  t = IF o.content = "name" THEN s
                   ELSE CASE o.kind = "stage_completed" -> AnnotateStage(CaptureStageSnapshot(pushed, o), o)
                          [] o.kind = "transition_selected" -> FlushTransitionEvidence(pushed)
                          [] OTHER -> pushed
    BY DEF Apply, ObserveWorkflowEvent
  <1>. HIDE DEF q
  <1>. QED BY <1>1, <1>2, <1>3

\* stage_started takes the one visit its hook queued.
LEMMA TakeVisitWell ==
  ASSUME NEW q, LedgerInv(q), ~q.exceeded, NEW stage \in Stages,
         At(q.pendingVisits, stage) = <<q.current>>, q.current \in Ids,
         NEW s, s = TakeVisit(q, stage)
  PROVE  /\ LedgerInv(s) /\ ~s.exceeded /\ Changes(q, s, {"current", "pendingVisits"}) /\ Grows(q, s)
         /\ s.current = q.current
         /\ \A t \in Stages :
               At(s.pendingVisits, t) = IF t = stage THEN <<>> ELSE At(q.pendingVisits, t)
  <1>1. /\ At(q.pendingVisits, stage) # <<>>
        /\ Head(At(q.pendingVisits, stage)) = q.current /\ Tail(At(q.pendingVisits, stage)) = <<>>
    OBVIOUS
  <1>2. s = [q EXCEPT !.current = q.current, !.pendingVisits = Put(@, stage, <<>>)]
    BY <1>1 DEF TakeVisit
  <1>3. /\ Changes(q, s, {"current", "pendingVisits"}) /\ s.current = q.current
        /\ s.pendingVisits = Put(q.pendingVisits, stage, <<>>)
    BY <1>2 DEF Changes, RecorderFields, LedgerInv
  <1>4. /\ s.config = q.config /\ s.exceeded = q.exceeded /\ s.events = q.events /\ s.vault = q.vault
        /\ s.live = q.live /\ s.visits = q.visits /\ s.models = q.models /\ s.tools = q.tools
        /\ s.heldVisit = q.heldVisit /\ s.heldModel = q.heldModel /\ s.heldTool = q.heldTool
        /\ s.pendingModels = q.pendingModels
        /\ s.lastModel = q.lastModel /\ s.pendingTools = q.pendingTools
        /\ s.openTools = q.openTools /\ s.pendingTransitions = q.pendingTransitions
    BY <1>3 DEF Changes, RecorderFields
  <1>5. Typed(q)
    BY DEF LedgerInv, Well
  <1>6. \A t \in Stages :
          At(s.pendingVisits, t) = IF t = stage THEN <<>> ELSE At(q.pendingVisits, t)
    BY <1>3, AtPut
  <1>7. \A t \in Stages : At(s.pendingVisits, t) \in Seq(Ids)
    BY <1>5, <1>6, ShortTyped DEF Typed
  <1>8. Typed(s)
    BY <1>3, <1>4, <1>5, <1>7 DEF Typed
  <1>9. Complete(s) => Filed(s)
    BY <1>4, SameVault DEF LedgerInv, Well, Complete, VaultEnabled, Filed, EventFiled
  <1>10. Grows(q, s)
    BY <1>4, SameGrows
  <1>. QED BY <1>3, <1>4, <1>6, <1>8, <1>9, <1>10 DEF LedgerInv, Well, Changes

\* model_completed takes the first attempt that waits, and remembers it for a retry.
LEMMA PopModelWell ==
  ASSUME NEW q, LedgerInv(q), ~q.exceeded, At(q.pendingModels, q.current) # <<>>,
         NEW s, s = PopModel(q)
  PROVE  /\ LedgerInv(s) /\ ~s.exceeded
         /\ Changes(q, s, {"models", "pendingModels", "lastModel"}) /\ Grows(q, s)
         /\ At(s.lastModel, q.current) # <<>> /\ Head(At(s.lastModel, q.current)) \in Ids
         /\ Complete(s) => Head(At(s.lastModel, q.current)) \in ModelsKept(s) \cup {s.heldModel}
  <1>. DEFINE queue == At(q.pendingModels, q.current)
              id == Head(queue)
  <1>1. s = [q EXCEPT !.models = @, !.pendingModels = Put(@, q.current, Tail(queue)),
                      !.lastModel = Put(@, q.current, <<id>>)]
    BY DEF PopModel
  <1>2. /\ Changes(q, s, {"models", "pendingModels", "lastModel"}) /\ s.models = q.models
        /\ s.pendingModels = Put(q.pendingModels, q.current, Tail(queue))
        /\ s.lastModel = Put(q.lastModel, q.current, <<id>>)
    BY <1>1 DEF Changes, RecorderFields, LedgerInv
  <1>3. /\ s.config = q.config /\ s.exceeded = q.exceeded /\ s.events = q.events /\ s.vault = q.vault
        /\ s.live = q.live /\ s.visits = q.visits /\ s.tools = q.tools /\ s.current = q.current
        /\ s.heldVisit = q.heldVisit /\ s.heldModel = q.heldModel /\ s.heldTool = q.heldTool
        /\ s.pendingVisits = q.pendingVisits /\ s.pendingTools = q.pendingTools
        /\ s.openTools = q.openTools /\ s.pendingTransitions = q.pendingTransitions
    BY <1>2 DEF Changes, RecorderFields
  <1>4. Typed(q)
    BY DEF LedgerInv, Well
  <1>5. q.current \in Nat /\ queue \in Seq(Ids)
    BY <1>4 DEF Typed
  <1>6. /\ id \in Ids /\ Tail(queue) \in Seq(Ids)
        /\ \E i \in DOMAIN queue : queue[i] = id
        /\ \A i \in DOMAIN Tail(queue) : \E j \in DOMAIN queue : queue[j] = Tail(queue)[i]
    BY <1>5, LastId
  <1>7. Complete(q) => \A i \in DOMAIN queue : queue[i] \in ModelsKept(q) \cup {q.heldModel}
    BY <1>5 DEF LedgerInv, Well, Filed
  <1>. PICK rest : rest = Tail(queue)
    OBVIOUS
  <1>. HIDE DEF queue, id
  <1>8. \A v \in Nat :
          /\ At(s.pendingModels, v) = IF v = q.current THEN rest ELSE At(q.pendingModels, v)
          /\ At(s.lastModel, v) = IF v = q.current THEN <<id>> ELSE At(q.lastModel, v)
    BY <1>2, AtPut
  <1>9. \A v \in Nat : At(s.pendingModels, v) \in Seq(Ids) /\ At(s.lastModel, v) \in Seq(Ids)
    BY <1>4, <1>6, <1>8, ShortTyped DEF Typed
  <1>10. Typed(s)
    BY <1>2, <1>3, <1>4, <1>9 DEF Typed
  <1>11. ModelsKept(s) = ModelsKept(q) /\ ToolsKept(s) = ToolsKept(q) /\ VisitsKept(s) = VisitsKept(q)
    BY <1>3, SameVault
  <1>12. Complete(s) = Complete(q)
    BY <1>3 DEF Complete, VaultEnabled
  <1>13. Complete(s) => /\ id \in ModelsKept(s) \cup {s.heldModel}
                       /\ \A i \in DOMAIN rest : rest[i] \in ModelsKept(s) \cup {s.heldModel}
    BY <1>3, <1>6, <1>7, <1>11, <1>12
  <1>14. ASSUME Complete(s)
         PROVE  Filed(s)
    <2>1. Filed(q)
      BY <1>12, <1>14 DEF LedgerInv, Well
    <2>2. \A v \in Nat : \A i \in DOMAIN At(s.pendingModels, v) :
            At(s.pendingModels, v)[i] \in ModelsKept(s) \cup {s.heldModel}
      BY <1>3, <1>8, <1>11, <1>13, <1>14, <2>1 DEF Filed
    <2>3. \A v \in Nat : \A i \in DOMAIN At(s.lastModel, v) :
            At(s.lastModel, v)[i] \in ModelsKept(s) \cup {s.heldModel}
      BY <1>3, <1>8, <1>11, <1>13, <1>14, <2>1 DEF Filed
    <2>4. \A i \in DOMAIN s.events : EventFiled(s, s.events[i])
      BY <1>3, <1>11, <2>1 DEF Filed, EventFiled
    <2>. QED BY <2>2, <2>3, <2>4 DEF Filed
  <1>15. Grows(q, s)
    BY <1>11 DEF Grows
  <1>16. At(s.lastModel, q.current) = <<id>>
    BY <1>5, <1>8
  <1>17. At(s.lastModel, q.current) # <<>> /\ Head(At(s.lastModel, q.current)) = id
    BY <1>16
  <1>. QED BY <1>2, <1>3, <1>6, <1>10, <1>13, <1>14, <1>15, <1>17 DEF LedgerInv, Well, Changes

\* tool_call_started takes the one call its hook queued; it is the last to open.
LEMMA PopToolWell ==
  ASSUME NEW q, LedgerInv(q), ~q.exceeded, At(q.pendingTools, q.current) = <<q.heldTool>>,
         q.heldTool \in Ids, NEW s, s = PopTool(q)
  PROVE  /\ LedgerInv(s) /\ ~s.exceeded
         /\ Changes(q, s, {"tools", "pendingTools", "openTools"}) /\ Grows(q, s)
         /\ At(s.openTools, q.current) # <<>> /\ Last(At(s.openTools, q.current)) = q.heldTool
         /\ \A v \in Nat :
              At(s.pendingTools, v) = IF v = q.current THEN <<>> ELSE At(q.pendingTools, v)
  <1>. DEFINE open == Append(At(q.openTools, q.current), q.heldTool)
  <1>1. /\ At(q.pendingTools, q.current) # <<>>
        /\ Head(At(q.pendingTools, q.current)) = q.heldTool /\ Tail(At(q.pendingTools, q.current)) = <<>>
    OBVIOUS
  <1>2. s = [q EXCEPT !.tools = @, !.pendingTools = Put(@, q.current, <<>>),
                      !.openTools = Put(@, q.current, open)]
    BY <1>1 DEF PopTool
  <1>3. /\ Changes(q, s, {"tools", "pendingTools", "openTools"}) /\ s.tools = q.tools
        /\ s.pendingTools = Put(q.pendingTools, q.current, <<>>)
        /\ s.openTools = Put(q.openTools, q.current, open)
    BY <1>2 DEF Changes, RecorderFields, LedgerInv
  <1>4. /\ s.config = q.config /\ s.exceeded = q.exceeded /\ s.events = q.events /\ s.vault = q.vault
        /\ s.live = q.live /\ s.visits = q.visits /\ s.models = q.models /\ s.current = q.current
        /\ s.heldVisit = q.heldVisit /\ s.heldModel = q.heldModel /\ s.heldTool = q.heldTool
        /\ s.pendingVisits = q.pendingVisits /\ s.pendingModels = q.pendingModels
        /\ s.lastModel = q.lastModel /\ s.pendingTransitions = q.pendingTransitions
    BY <1>3 DEF Changes, RecorderFields
  <1>5. Typed(q)
    BY DEF LedgerInv, Well
  <1>6. q.current \in Nat /\ At(q.openTools, q.current) \in Seq(Ids)
    BY <1>5 DEF Typed
  <1>7. open \in Seq(Ids) /\ open # <<>> /\ Last(open) = q.heldTool
    <2>. PICK a \in Seq(Ids) : a = At(q.openTools, q.current)
      BY <1>6
    <2>1. open = Append(a, q.heldTool) /\ open \in Seq(Ids) /\ open # <<>>
      BY AppendTyped
    <2>2. Len(open) = Len(a) + 1 /\ open[Len(a) + 1] = q.heldTool
      BY <2>1, AppendProperties
    <2>. QED BY <2>1, <2>2 DEF Last
  <1>. HIDE DEF open
  <1>8. \A v \in Nat :
          /\ At(s.pendingTools, v) = IF v = q.current THEN <<>> ELSE At(q.pendingTools, v)
          /\ At(s.openTools, v) = IF v = q.current THEN open ELSE At(q.openTools, v)
    BY <1>3, AtPut
  <1>9. \A v \in Nat : At(s.pendingTools, v) \in Seq(Ids) /\ At(s.openTools, v) \in Seq(Ids)
    BY <1>5, <1>7, <1>8, ShortTyped DEF Typed
  <1>10. Typed(s)
    BY <1>3, <1>4, <1>5, <1>9 DEF Typed
  <1>11. Complete(s) => Filed(s)
    BY <1>4, SameVault DEF LedgerInv, Well, Complete, VaultEnabled, Filed, EventFiled
  <1>12. Grows(q, s)
    BY <1>4, SameGrows
  <1>. QED BY <1>3, <1>4, <1>6, <1>7, <1>8, <1>10, <1>11, <1>12 DEF LedgerInv, Well, Changes

\* stage_started takes the visit its hook queued.
LEMMA StageStartedEvent ==
  ASSUME NEW r, LedgerInv(r), ~r.exceeded, NEW o \in Calls, o.call = "event",
         o.kind = "stage_started", o.content = "plain", o.stage \in Stages,
         At(r.pendingVisits, o.stage) = <<r.current>>, r.current \in Ids,
         NEW t, t = Apply(r, o)
  PROVE  /\ LedgerInv(t)
         /\ ~t.exceeded =>
              /\ Changes(r, t, {"live", "events", "current", "pendingVisits"}) /\ Grows(r, t)
              /\ t.current = r.current
              /\ \A x \in Stages :
                   At(t.pendingVisits, x) = IF x = o.stage THEN <<>> ELSE At(r.pendingVisits, x)
  <1>. PICK q :
         /\ LedgerInv(q) /\ ~q.exceeded /\ Changes(r, q, {"live"}) /\ Grows(r, q) /\ q.live # 0
         /\ \/ LedgerInv(t) /\ t.exceeded
            \/ t = Push(Settled(q, o), Project(q, Settled(q, o), o))
    BY EventCases
  <1>1. CASE LedgerInv(t) /\ t.exceeded
    BY <1>1
  <1>2. CASE t = Push(Settled(q, o), Project(q, Settled(q, o), o))
    <2>1. q.current = r.current /\ q.pendingVisits = r.pendingVisits
      BY DEF Changes, RecorderFields
    <2>. PICK s : s = TakeVisit(q, o.stage)
      OBVIOUS
    <2>2. t = Push(s, Project(q, s, o))
      BY <1>2 DEF Settled
    <2>3. /\ LedgerInv(s) /\ ~s.exceeded /\ Changes(q, s, {"current", "pendingVisits"}) /\ Grows(q, s)
          /\ s.current = q.current
          /\ \A x \in Stages :
               At(s.pendingVisits, x) = IF x = o.stage THEN <<>> ELSE At(q.pendingVisits, x)
      BY <2>1, TakeVisitWell
    <2>4. Typed(q) /\ s.current # 0 /\ o.kind \in Kinds \ {"annotation"}
      BY <2>1, <2>3 DEF LedgerInv, Well, Ids, Kinds, StageKinds
    <2>5. LedgerInv(t) /\ ~t.exceeded /\ Changes(s, t, {"events"}) /\ Grows(s, t)
      <3>1. Projectable(q, s, o)
        BY <2>3, <2>4 DEF Projectable
      <3>. QED BY <2>2, <3>1, PushProjected DEF Pushed
    <2>6. t.current = s.current /\ t.pendingVisits = s.pendingVisits
      BY <2>5 DEF Changes, RecorderFields
    <2>7. Changes(r, t, {"live", "events", "current", "pendingVisits"})
      BY <2>3, <2>5 DEF Changes
    <2>8. Grows(r, t)
      BY <2>3, <2>5 DEF Grows
    <2>. QED BY <2>1, <2>3, <2>5, <2>6, <2>7, <2>8
  <1>. QED BY <1>1, <1>2

\* model_completed takes the oldest attempt not yet completed.
LEMMA ModelCompletedEvent ==
  ASSUME NEW r, LedgerInv(r), ~r.exceeded, NEW o \in Calls, o.call = "event",
         o.kind = "model_completed", o.content = "plain", o.stage \in Stages, r.current # 0,
         At(r.pendingModels, r.current) # <<>>,
         Complete(r) => r.heldModel \in ModelsKept(r) \cup {0},
         NEW t, t = Apply(r, o)
  PROVE  /\ LedgerInv(t)
         /\ ~t.exceeded =>
              /\ Changes(r, t, {"live", "events", "models", "pendingModels", "lastModel"}) /\ Grows(r, t)
              /\ At(t.lastModel, r.current) # <<>>
  <1>. PICK q :
         /\ LedgerInv(q) /\ ~q.exceeded /\ Changes(r, q, {"live"}) /\ Grows(r, q) /\ q.live # 0
         /\ \/ LedgerInv(t) /\ t.exceeded
            \/ t = Push(Settled(q, o), Project(q, Settled(q, o), o))
    BY EventCases
  <1>1. CASE LedgerInv(t) /\ t.exceeded
    BY <1>1
  <1>2. CASE t = Push(Settled(q, o), Project(q, Settled(q, o), o))
    <2>1. /\ q.current = r.current /\ q.pendingModels = r.pendingModels /\ q.heldModel = r.heldModel
          /\ q.config = r.config /\ q.vault = r.vault
      BY DEF Changes, RecorderFields
    <2>. PICK s : s = PopModel(q)
      OBVIOUS
    <2>2. t = Push(s, Project(q, s, o))
      BY <1>2 DEF Settled
    <2>3. /\ LedgerInv(s) /\ ~s.exceeded
          /\ Changes(q, s, {"models", "pendingModels", "lastModel"}) /\ Grows(q, s)
          /\ At(s.lastModel, q.current) # <<>> /\ Head(At(s.lastModel, q.current)) \in Ids
          /\ Complete(s) => Head(At(s.lastModel, q.current)) \in ModelsKept(s) \cup {s.heldModel}
      BY <2>1, PopModelWell
    <2>4. /\ s.current = q.current /\ s.heldModel = q.heldModel /\ s.config = q.config
          /\ s.vault = q.vault
      BY <2>3 DEF Changes, RecorderFields
    <2>5. Complete(s) => Head(At(s.lastModel, s.current)) \in ModelsKept(s)
      <3>1. ModelsKept(s) = ModelsKept(r)
        BY <2>1, <2>4, SameVault
      <3>2. Complete(s) => Complete(r)
        BY <2>1, <2>4 DEF Complete, VaultEnabled
      <3>. QED BY <2>1, <2>3, <2>4, <3>1, <3>2 DEF Ids
    <2>6. Typed(q) /\ s.current # 0 /\ o.kind \in Kinds \ {"annotation"}
      BY <2>1, <2>4 DEF LedgerInv, Well, Kinds, StageKinds, ModelKinds
    <2>7. LedgerInv(t) /\ ~t.exceeded /\ Changes(s, t, {"events"}) /\ Grows(s, t)
      <3>1. At(s.lastModel, s.current) # <<>>
        BY <2>3, <2>4
      <3>2. Projectable(q, s, o)
        BY <2>3, <2>5, <2>6, <3>1 DEF Projectable
      <3>. QED BY <2>2, <3>2, PushProjected DEF Pushed
    <2>8. t.lastModel = s.lastModel
      BY <2>7 DEF Changes, RecorderFields
    <2>9. Changes(r, t, {"live", "events", "models", "pendingModels", "lastModel"})
      BY <2>3, <2>7 DEF Changes
    <2>10. Grows(r, t)
      BY <2>3, <2>7 DEF Grows
    <2>. QED BY <2>1, <2>3, <2>7, <2>8, <2>9, <2>10
  <1>. QED BY <1>1, <1>2

\* tool_call_started opens the call its hook queued; a secret in a name of its
\* arguments keeps the record out of the ledger.
LEMMA ToolStartedEvent ==
  ASSUME NEW r, LedgerInv(r), ~r.exceeded, NEW o \in Calls, o.call = "event",
         o.kind = "tool_call_started", o.stage \in Stages, r.current # 0,
         At(r.pendingTools, r.current) = <<r.heldTool>>, r.heldTool \in Ids,
         NEW t, t = Apply(r, o)
  PROVE  /\ LedgerInv(t)
         /\ ~t.exceeded =>
              /\ Changes(r, t, {"live", "events", "tools", "pendingTools", "openTools"}) /\ Grows(r, t)
              /\ At(t.openTools, r.current) # <<>> /\ Last(At(t.openTools, r.current)) = r.heldTool
              /\ \A v \in Nat :
                   At(t.pendingTools, v) = IF v = r.current THEN <<>> ELSE At(r.pendingTools, v)
  <1>. PICK q :
         /\ LedgerInv(q) /\ ~q.exceeded /\ Changes(r, q, {"live"}) /\ Grows(r, q) /\ q.live # 0
         /\ \/ LedgerInv(t) /\ t.exceeded
            \/ t = Settled(q, o)
            \/ t = Push(Settled(q, o), Project(q, Settled(q, o), o))
    BY EventCases
  <1>1. CASE LedgerInv(t) /\ t.exceeded
    BY <1>1
  <1>2. CASE t = Settled(q, o) \/ t = Push(Settled(q, o), Project(q, Settled(q, o), o))
    <2>1. q.current = r.current /\ q.pendingTools = r.pendingTools /\ q.heldTool = r.heldTool
      BY DEF Changes, RecorderFields
    <2>. PICK s : s = PopTool(q)
      OBVIOUS
    <2>2. t = s \/ t = Push(s, Project(q, s, o))
      BY <1>2 DEF Settled
    <2>3. /\ LedgerInv(s) /\ ~s.exceeded
          /\ Changes(q, s, {"tools", "pendingTools", "openTools"}) /\ Grows(q, s)
          /\ At(s.openTools, q.current) # <<>> /\ Last(At(s.openTools, q.current)) = q.heldTool
          /\ \A v \in Nat :
               At(s.pendingTools, v) = IF v = q.current THEN <<>> ELSE At(q.pendingTools, v)
      BY <2>1, PopToolWell
    <2>4. s.current = q.current
      BY <2>3 DEF Changes, RecorderFields
    <2>5. Typed(q) /\ s.current # 0 /\ o.kind \in Kinds \ {"annotation"}
      BY <2>1, <2>4 DEF LedgerInv, Well, Kinds, StageKinds, ToolKinds
    <2>6. LedgerInv(t) /\ ~t.exceeded /\ Changes(s, t, {"events"}) /\ Grows(s, t)
      <3>1. CASE t = s
        BY <2>3, <3>1 DEF Changes, LedgerInv, Grows
      <3>2. CASE t = Push(s, Project(q, s, o))
        <4>1. Projectable(q, s, o)
          BY <2>3, <2>5 DEF Projectable
        <4>. QED BY <3>2, <4>1, PushProjected DEF Pushed
      <3>. QED BY <2>2, <3>1, <3>2
    <2>7. t.openTools = s.openTools /\ t.pendingTools = s.pendingTools
      BY <2>6 DEF Changes, RecorderFields
    <2>8. Changes(r, t, {"live", "events", "tools", "pendingTools", "openTools"})
      BY <2>3, <2>6 DEF Changes
    <2>9. Grows(r, t)
      BY <2>3, <2>6 DEF Grows
    <2>. QED BY <2>1, <2>3, <2>6, <2>7, <2>8, <2>9
  <1>. QED BY <1>1, <1>2

\* The snapshot of a stage is a vault record like the others.
LEMMA SnapshotWell ==
  ASSUME NEW r, LedgerInv(r), ~r.exceeded, NEW o \in Calls, NEW s, s = CaptureStageSnapshot(r, o)
  PROVE  LedgerInv(s) /\ ~s.exceeded /\ Changes(r, s, {"vault"}) /\ Grows(r, s)
  <1>. DEFINE x == [VaultRecord("stage_snapshot") EXCEPT
                      !.visit = r.current, !.seq = r.live, !.stage = o.stage, !.to = o.to]
  <1>1. s = Keep(r, "snapshots", x)
    BY DEF CaptureStageSnapshot
  <1>2. r.current \in Nat /\ r.live \in Nat /\ o.stage \in MaybeStage /\ o.to \in MaybeStage
    BY DEF LedgerInv, Well, Typed, Calls
  <1>3. x \in KeptRecord
    BY <1>2, BlankKept DEF KeptRecord, VaultRecord
  <1>. HIDE DEF x
  <1>. QED BY <1>1, <1>3, KeepStep

\* The host's note on a visit: written, dropped or refused.
LEMMA AnnotateWell ==
  ASSUME NEW r, LedgerInv(r), ~r.exceeded, NEW o \in Calls, NEW s, s = AnnotateStage(r, o)
  PROVE  /\ LedgerInv(s)
         /\ ~s.exceeded => Changes(r, s, {"events", "dropped"}) /\ Grows(r, s)
  <1>1. CASE s = r
    BY <1>1 DEF Changes, LedgerInv, Grows
  <1>2. CASE s = [r EXCEPT !.dropped = @ + 1, !.exceeded = r.config.hook = "annotates" \/ @]
    <2>1. CASE r.config.hook = "annotates"
      <3>1. s.exceeded = TRUE /\ DOMAIN s = RecorderFields
        BY <1>2, <2>1 DEF LedgerInv, RecorderFields
      <3>. QED BY <3>1 DEF LedgerInv
    <2>2. CASE r.config.hook # "annotates"
      <3>1. r.exceeded = FALSE
        BY DEF LedgerInv
      <3>2. s = [r EXCEPT !.dropped = @ + 1, !.exceeded = FALSE]
        BY <1>2, <2>2, <3>1
      <3>3. Changes(r, s, {"dropped"})
        BY <3>1, <3>2 DEF Changes, RecorderFields, LedgerInv
      <3>4. Changes(r, s, {"begun", "finished", "dropped"}) /\ Changes(r, s, {"events", "dropped"})
        BY <3>3 DEF Changes
      <3>. QED BY <3>4, SameWell
    <2>. QED BY <2>1, <2>2
  <1>3. ASSUME s = Push(r, [PublicRecord("annotation", o.stage, r.current) EXCEPT
                               !.shown = "marker", !.anchor = r.live])
        PROVE  LedgerInv(s) /\ Changes(r, s, {"events", "dropped"}) /\ Grows(r, s)
    <2>. DEFINE p == [PublicRecord("annotation", o.stage, r.current) EXCEPT
                        !.shown = "marker", !.anchor = r.live]
    <2>1. r.current \in Nat /\ r.live \in Nat /\ o.stage \in MaybeStage
      BY DEF LedgerInv, Well, Typed, Calls
    <2>2. PublicRecord("annotation", o.stage, r.current) \in LedgerRecord
      BY <2>1 DEF PublicRecord, LedgerRecord, MaybeStage, Shows, Kinds
    <2>3. p \in LedgerRecord
      BY <2>1, <2>2 DEF LedgerRecord, Shows
    <2>4. p.kind = "annotation" /\ p.seq = 0 /\ p.shown = "marker"
      BY DEF PublicRecord
    <2>. HIDE DEF p
    <2>5. Placed(p) /\ Filled(p) /\ EventFiled(r, p)
      BY <2>4 DEF Placed, Filled, EventFiled, StageKinds, ModelKinds, ToolKinds
    <2>6. LedgerInv(s) /\ Changes(r, s, {"events"}) /\ Grows(r, s)
      BY <1>3, <2>3, <2>5, PushWell DEF p, SoundRecord
    <2>. QED BY <2>6 DEF Changes
  <1>. QED BY <1>1, <1>2, <1>3 DEF AnnotateStage

ConcatKept(v, m, x) ==
  /\ v \o m \in Seq(KeptRecord) /\ DOMAIN v \subseteq DOMAIN (v \o m)
  /\ \A i \in DOMAIN v : (v \o m)[i] = v[i]
  /\ \E j \in DOMAIN (v \o m) : (v \o m)[j] = x

\* Concatenation keeps what was there and adds x.
LEMMA ConcatAdds ==
  ASSUME NEW v \in Seq(KeptRecord), NEW m \in Seq(KeptRecord), NEW x, Len(m) \in Nat \ {0},
         \A i \in 1..Len(m) : m[i] = x
  PROVE  ConcatKept(v, m, x)
  <1>1. v \o m \in Seq(KeptRecord)
    BY ConcatProperties
  <1>2. Len(v \o m) = Len(v) + Len(m)
    BY ConcatProperties
  <1>3. \A i \in 1..(Len(v) + Len(m)) : (v \o m)[i] = IF i <= Len(v) THEN v[i] ELSE m[i - Len(v)]
    BY ConcatProperties
  <1>. PICK w \in Seq(KeptRecord) : w = v \o m
    BY <1>1
  <1>. PICK a : a = Len(v)
    OBVIOUS
  <1>. PICK b : b = Len(m)
    OBVIOUS
  <1>4. a \in Nat /\ b \in Nat \ {0} /\ DOMAIN v = 1..a /\ DOMAIN w = 1..(a + b)
    <2>1. a \in Nat /\ DOMAIN v = 1..a
      OBVIOUS
    <2>2. b \in Nat \ {0}
      OBVIOUS
    <2>3. DOMAIN w = 1..Len(w) /\ Len(w) = a + b
      BY <1>2
    <2>. QED BY <2>1, <2>2, <2>3
  <1>5. /\ \A i \in 1..(a + b) : w[i] = IF i <= a THEN v[i] ELSE m[i - a]
        /\ \A i \in 1..b : m[i] = x
    BY <1>3
  <1>6. a + 1 \in 1..(a + b) /\ ~(a + 1 <= a) /\ (a + 1) - a = 1 /\ 1 \in 1..b
    BY <1>4
  <1>7. a + 1 \in DOMAIN w /\ w[a + 1] = x
    BY <1>4, <1>5, <1>6
  <1>8. \A i \in 1..a : i \in 1..(a + b) /\ i <= a
    BY <1>4
  <1>9. DOMAIN v \subseteq DOMAIN w /\ \A i \in DOMAIN v : w[i] = v[i]
    BY <1>4, <1>5, <1>8
  <1>. QED BY <1>1, <1>7, <1>9 DEF ConcatKept

\* The evidence of a transition goes to the vault with the event that names it.
LEMMA FlushWell ==
  ASSUME NEW s, LedgerInv(s), ~s.exceeded, NEW f, f = FlushTransitionEvidence(s)
  PROVE  /\ LedgerInv(f) /\ ~f.exceeded /\ Changes(s, f, {"vault", "pendingTransitions"}) /\ Grows(s, f)
         /\ Complete(f) /\ At(s.pendingTransitions, s.current) # <<>> => f.current \in VisitsKept(f)
  <1>. DEFINE pending == At(s.pendingTransitions, s.current)
              x == [VaultRecord("transition_evaluation") EXCEPT !.visit = s.current, !.seq = s.live]
              more == [i \in DOMAIN pending |-> x]
  <1>0. /\ Typed(s) /\ s.current \in Nat /\ s.live \in Nat /\ pending \in Seq({"candidates"})
        /\ s.vault \in Seq(KeptRecord)
    BY DEF LedgerInv, Well, Typed
  <1>1. CASE ~VaultEnabled(s) \/ pending = <<>>
    <2>1. f = s
      BY <1>1 DEF FlushTransitionEvidence
    <2>. QED BY <1>1, <2>1 DEF Changes, LedgerInv, Grows, Complete
  <1>2. CASE VaultEnabled(s) /\ pending # <<>>
    <2>1. f = [s EXCEPT !.pendingTransitions = Put(@, s.current, <<>>), !.vault = @ \o more]
      BY <1>2 DEF FlushTransitionEvidence
    <2>2. x \in KeptRecord /\ x.type = "transition_evaluation" /\ x.visit = s.current
      BY <1>0, BlankKept DEF KeptRecord, VaultRecord
    <2>3. more \in Seq(KeptRecord) /\ Len(more) = Len(pending) /\ Len(pending) \in Nat \ {0}
          /\ \A i \in 1..Len(pending) : more[i] = x
      <3>. PICK y \in KeptRecord : y = x
        BY <2>2
      <3>. HIDE DEF x
      <3>. PICK k \in Seq({"candidates"}) : k = pending
        BY <1>0
      <3>. HIDE DEF pending
      <3>1. k # <<>>
        BY <1>2
      <3>. QED BY <3>1
    <2>. HIDE DEF x, more
    <2>4. /\ Changes(s, f, {"vault", "pendingTransitions"})
          /\ f.pendingTransitions = Put(s.pendingTransitions, s.current, <<>>)
          /\ f.vault = s.vault \o more
      BY <2>1 DEF Changes, RecorderFields, LedgerInv
    <2>. PICK v \in Seq(KeptRecord) : v = s.vault
      BY <1>0
    <2>. PICK w : w = f.vault
      OBVIOUS
    <2>5. /\ w \in Seq(KeptRecord) /\ DOMAIN v \subseteq DOMAIN w /\ (\A i \in DOMAIN v : w[i] = v[i])
          /\ \E j \in DOMAIN w : w[j] = x
      <3>1. w = v \o more
        BY <2>4
      <3>2. Len(more) \in Nat \ {0} /\ \A i \in 1..Len(more) : more[i] = x
        BY <2>3
      <3>. PICK m : m = more
        OBVIOUS
      <3>3. m \in Seq(KeptRecord) /\ Len(m) \in Nat \ {0} /\ \A i \in 1..Len(m) : m[i] = x
        BY <2>3, <3>2
      <3>. PICK y : y = x
        OBVIOUS
      <3>4. /\ v \o m \in Seq(KeptRecord) /\ DOMAIN v \subseteq DOMAIN (v \o m)
            /\ \A i \in DOMAIN v : (v \o m)[i] = v[i]
            /\ \E j \in DOMAIN (v \o m) : (v \o m)[j] = y
        <4>1. ConcatKept(v, m, y)
          BY <3>3, ConcatAdds
        <4>. QED BY <4>1 DEF ConcatKept
      <3>5. w = v \o m
        BY <3>1
      <3>. QED BY <3>4, <3>5
    <2>6. /\ Grows(s, f) /\ s.current \in VisitsKept(f)
      BY <2>2, <2>5 DEF Grows, ModelsKept, ToolsKept, VisitsKept
    <2>7. /\ f.config = s.config /\ f.exceeded = s.exceeded /\ f.events = s.events
          /\ f.live = s.live /\ f.visits = s.visits /\ f.models = s.models /\ f.tools = s.tools
          /\ f.current = s.current /\ f.heldVisit = s.heldVisit /\ f.heldModel = s.heldModel
          /\ f.heldTool = s.heldTool
          /\ f.pendingVisits = s.pendingVisits /\ f.pendingModels = s.pendingModels
          /\ f.lastModel = s.lastModel /\ f.pendingTools = s.pendingTools /\ f.openTools = s.openTools
      BY <2>4 DEF Changes, RecorderFields
    <2>8. \A u \in Nat :
            At(f.pendingTransitions, u) = IF u = s.current THEN <<>> ELSE At(s.pendingTransitions, u)
      BY <2>4, AtPut
    <2>9. \A u \in Nat : At(f.pendingTransitions, u) \in Seq({"candidates"})
      <3>1. <<>> \in Seq({"candidates"})
        OBVIOUS
      <3>. QED BY <1>0, <2>8, <3>1 DEF Typed
    <2>10. Typed(f)
      BY <1>0, <2>5, <2>7, <2>9 DEF Typed
    <2>11. Complete(f) => Filed(f)
      BY <2>6, <2>7 DEF LedgerInv, Well, Complete, VaultEnabled, Filed, EventFiled, Grows
    <2>. QED BY <2>4, <2>6, <2>7, <2>10, <2>11 DEF LedgerInv, Well, Changes
  <1>. QED BY <1>1, <1>2

\* stage_completed: the record, the snapshot, and the host's annotation.
LEMMA StageCompletedEvent ==
  ASSUME NEW r, LedgerInv(r), ~r.exceeded, NEW o \in Calls, o.call = "event",
         o.kind = "stage_completed", o.content = "plain", o.stage \in Stages, r.current # 0,
         NEW t, t = Apply(r, o)
  PROVE  /\ LedgerInv(t)
         /\ ~t.exceeded => Changes(r, t, {"live", "events", "vault", "dropped"}) /\ Grows(r, t)
  <1>. PICK q :
         /\ LedgerInv(q) /\ ~q.exceeded /\ Changes(r, q, {"live"}) /\ Grows(r, q) /\ q.live # 0
         /\ \/ LedgerInv(t) /\ t.exceeded
            \/ t = AnnotateStage(CaptureStageSnapshot(Push(q, Project(q, q, o)), o), o)
    <2>1. \A q : Settled(q, o) = q
      BY DEF Settled
    <2>. QED BY <2>1, EventCases
  <1>1. CASE LedgerInv(t) /\ t.exceeded
    BY <1>1
  <1>2. CASE t = AnnotateStage(CaptureStageSnapshot(Push(q, Project(q, q, o)), o), o)
    <2>. PICK p : p = Push(q, Project(q, q, o))
      OBVIOUS
    <2>. PICK s : s = CaptureStageSnapshot(p, o)
      OBVIOUS
    <2>1. q.current = r.current
      BY DEF Changes, RecorderFields
    <2>2. Typed(q) /\ q.current # 0 /\ o.kind \in Kinds \ {"annotation"}
      BY <2>1 DEF LedgerInv, Well, Kinds, StageKinds
    <2>3. LedgerInv(p) /\ ~p.exceeded /\ Changes(q, p, {"events"}) /\ Grows(q, p)
      <3>1. Projectable(q, q, o)
        BY <2>2 DEF Projectable
      <3>. QED BY <3>1, PushProjected DEF Pushed
    <2>4. LedgerInv(s) /\ ~s.exceeded /\ Changes(p, s, {"vault"}) /\ Grows(p, s)
      BY <2>3, SnapshotWell
    <2>5. LedgerInv(t) /\ (~t.exceeded => Changes(s, t, {"events", "dropped"}) /\ Grows(s, t))
      BY <1>2, <2>4, AnnotateWell
    <2>6. ~t.exceeded => Changes(r, t, {"live", "events", "vault", "dropped"})
      BY <2>3, <2>4, <2>5 DEF Changes
    <2>7. ~t.exceeded => Grows(r, t)
      BY <2>3, <2>4, <2>5 DEF Grows
    <2>. QED BY <2>5, <2>6, <2>7
  <1>. QED BY <1>1, <1>2

\* Writing the record and keeping its evidence commute.
LEMMA FlushCommutes ==
  ASSUME NEW q, LedgerInv(q), NEW p
  PROVE  FlushTransitionEvidence(Push(q, p)) = Push(FlushTransitionEvidence(q), p)
  <1>. DEFINE pending == At(q.pendingTransitions, q.current)
              x == [VaultRecord("transition_evaluation") EXCEPT !.visit = q.current, !.seq = q.live]
              more == [i \in DOMAIN pending |-> x]
              u == Push(q, p)
              a == Append(q.events, p)
              b == Put(q.pendingTransitions, q.current, <<>>)
              c == q.vault \o more
  <1>1. u = [q EXCEPT !.events = a]
    BY DEF Push
  <1>2. /\ u.pendingTransitions = q.pendingTransitions /\ u.current = q.current /\ u.config = q.config
        /\ u.live = q.live /\ u.vault = q.vault /\ DOMAIN q = RecorderFields
    BY <1>1 DEF RecorderFields, LedgerInv
  <1>3. VaultEnabled(u) <=> VaultEnabled(q)
    BY <1>2 DEF VaultEnabled
  <1>4. CASE ~VaultEnabled(q) \/ pending = <<>>
    <2>1. FlushTransitionEvidence(u) = u
      BY <1>2, <1>3, <1>4 DEF FlushTransitionEvidence
    <2>2. FlushTransitionEvidence(q) = q
      BY <1>4 DEF FlushTransitionEvidence
    <2>. QED BY <2>1, <2>2
  <1>5. CASE VaultEnabled(q) /\ pending # <<>>
    <2>1. FlushTransitionEvidence(q) = [q EXCEPT !.pendingTransitions = b, !.vault = c]
      BY <1>5 DEF FlushTransitionEvidence
    <2>2. FlushTransitionEvidence(u) =
            [u EXCEPT !.pendingTransitions = Put(u.pendingTransitions, u.current, <<>>),
                      !.vault = u.vault \o [i \in DOMAIN At(u.pendingTransitions, u.current) |->
                          [VaultRecord("transition_evaluation") EXCEPT !.visit = u.current, !.seq = u.live]]]
      BY <1>2, <1>3, <1>5 DEF FlushTransitionEvidence
    <2>. PICK f : f = FlushTransitionEvidence(q)
      OBVIOUS
    <2>. PICK g : g = FlushTransitionEvidence(u)
      OBVIOUS
    <2>. HIDE DEF u
    <2>3. g = [u EXCEPT !.pendingTransitions = b, !.vault = c]
      BY <1>2, <2>2
    <2>. HIDE DEF a, b, c
    <2>4. f = [q EXCEPT !.pendingTransitions = b, !.vault = c]
      BY <2>1
    <2>5. Push(f, p) = [f EXCEPT !.events = Append(f.events, p)]
      BY DEF Push
    <2>6. f.events = q.events /\ DOMAIN f = RecorderFields
      BY <1>2, <2>4 DEF RecorderFields
    <2>7. Push(f, p) = [f EXCEPT !.events = a]
      BY <2>5, <2>6 DEF a
    <2>. PICK h : h = Push(f, p)
      OBVIOUS
    <2>8. DOMAIN g = RecorderFields /\ DOMAIN h = RecorderFields
      BY <1>1, <1>2, <2>3, <2>6, <2>7
    <2>9. \A n \in RecorderFields : g[n] = h[n]
      <3>. DEFINE others == RecorderFields \ {"events", "vault", "pendingTransitions"}
      <3>1. DOMAIN u = RecorderFields /\ DOMAIN q = RecorderFields
        BY <1>1, <1>2
      <3>2. g.events = u.events /\ g.vault = c /\ g.pendingTransitions = b
        BY <2>3, <3>1 DEF RecorderFields
      <3>3. \A n \in others : g[n] = u[n]
        BY <2>3, <3>1
      <3>4. u.events = a /\ \A n \in others : u[n] = q[n]
        BY <1>1, <3>1 DEF RecorderFields
      <3>5. f.vault = c /\ f.pendingTransitions = b /\ \A n \in others : f[n] = q[n]
        BY <2>4, <3>1 DEF RecorderFields
      <3>6. h.events = a /\ h.vault = f.vault /\ h.pendingTransitions = f.pendingTransitions
        BY <2>6, <2>7 DEF RecorderFields
      <3>7. \A n \in others : h[n] = f[n]
        BY <2>6, <2>7
      <3>8. \A n \in others : g[n] = h[n]
        BY <3>3, <3>4, <3>5, <3>7
      <3>. QED BY <3>2, <3>4, <3>5, <3>6, <3>8
    <2>10. g = [n \in RecorderFields |-> g[n]]
      BY <2>3, <2>8
    <2>11. h = [n \in RecorderFields |-> h[n]]
      BY <2>7, <2>8
    <2>12. [n \in RecorderFields |-> g[n]] = [n \in RecorderFields |-> h[n]]
      BY <2>9
    <2>. QED BY <2>10, <2>11, <2>12 DEF u
  <1>. QED BY <1>4, <1>5

\* transition_selected is recorded with the evidence that waited for it.
LEMMA TransitionEvent ==
  ASSUME NEW r, LedgerInv(r), ~r.exceeded, NEW o \in Calls, o.call = "event",
         o.kind = "transition_selected", o.content = "plain", o.stage \in Stages,
         o.to \in Edges[o.stage], r.current # 0,
         Complete(r) => At(r.pendingTransitions, r.current) # <<>>,
         NEW t, t = Apply(r, o)
  PROVE  /\ LedgerInv(t)
         /\ ~t.exceeded =>
              Changes(r, t, {"live", "events", "vault", "pendingTransitions"}) /\ Grows(r, t)
  <1>. PICK q :
         /\ LedgerInv(q) /\ ~q.exceeded /\ Changes(r, q, {"live"}) /\ Grows(r, q) /\ q.live # 0
         /\ \/ LedgerInv(t) /\ t.exceeded
            \/ t = FlushTransitionEvidence(Push(q, Project(q, q, o)))
    <2>1. \A q : Settled(q, o) = q
      BY DEF Settled
    <2>. QED BY <2>1, EventCases
  <1>1. CASE LedgerInv(t) /\ t.exceeded
    BY <1>1
  <1>2. CASE t = FlushTransitionEvidence(Push(q, Project(q, q, o)))
    <2>1. q.current = r.current /\ q.pendingTransitions = r.pendingTransitions /\ q.config = r.config
      BY DEF Changes, RecorderFields
    <2>. PICK f : f = FlushTransitionEvidence(q)
      OBVIOUS
    <2>2. /\ LedgerInv(f) /\ ~f.exceeded /\ Changes(q, f, {"vault", "pendingTransitions"}) /\ Grows(q, f)
          /\ Complete(f) /\ At(q.pendingTransitions, q.current) # <<>> => f.current \in VisitsKept(f)
      BY FlushWell
    <2>3. f.current = q.current /\ f.config = q.config
      BY <2>2 DEF Changes, RecorderFields
    <2>4. Complete(f) => f.current \in VisitsKept(f)
      BY <2>1, <2>2, <2>3 DEF Complete, VaultEnabled
    <2>5. Project(q, q, o) = Project(q, f, o)
      BY <2>3 DEF Project, StageKinds, ToolKinds
    <2>6. t = Push(f, Project(q, f, o))
      BY <1>2, <2>5, FlushCommutes
    <2>7. Typed(q) /\ f.current # 0 /\ o.kind \in Kinds \ {"annotation"}
      BY <2>1, <2>3 DEF LedgerInv, Well, Kinds, StageKinds
    <2>8. LedgerInv(t) /\ Changes(f, t, {"events"}) /\ Grows(f, t)
      <3>1. Projectable(q, f, o)
        BY <2>2, <2>4, <2>7 DEF Projectable
      <3>. QED BY <2>6, <3>1, PushProjected DEF Pushed
    <2>9. Changes(r, t, {"live", "events", "vault", "pendingTransitions"})
      BY <2>2, <2>8 DEF Changes
    <2>10. Grows(r, t)
      BY <2>2, <2>8 DEF Grows
    <2>. QED BY <2>8, <2>9, <2>10
  <1>. QED BY <1>1, <1>2

\* What After says of at most five calls: the calls are applied one by one.  (For any
\* number it would take an induction; no step of a run makes more than five.)
LEMMA AfterCalls ==
  ASSUME NEW r, NEW calls, Len(calls) \in 0..5
  PROVE  \E s : /\ s[0] = r
                /\ \A n \in 1..Len(calls) : s[n] = Apply(s[n - 1], calls[n])
                /\ After(r, calls) = s[Len(calls)]
<1> DEFINE L == Len(calls)
           f == CHOOSE g : g = [n \in 0..L |-> IF n = 0 THEN r ELSE Apply(g[n - 1], calls[n])]
           a1 == Apply(r, calls[1])
           a2 == Apply(a1, calls[2])
           a3 == Apply(a2, calls[3])
           a4 == Apply(a3, calls[4])
           a5 == Apply(a4, calls[5])
           w == [n \in 0..L |-> IF n = 0 THEN r ELSE IF n = 1 THEN a1 ELSE IF n = 2 THEN a2
                                 ELSE IF n = 3 THEN a3 ELSE IF n = 4 THEN a4 ELSE a5]
<1>0. L \in 0..5
  OBVIOUS
<1> HIDE DEF L
<1>1. w = [n \in 0..L |-> IF n = 0 THEN r ELSE Apply(w[n - 1], calls[n])]
  <2>1. ASSUME NEW n \in 0..L
        PROVE  w[n] = IF n = 0 THEN r ELSE Apply(w[n - 1], calls[n])
    <3> HIDE DEF w
    <3>1. n \in {0, 1, 2, 3, 4, 5}
      BY <1>0
    <3>2. \A k \in 0..L : w[k] = IF k = 0 THEN r ELSE IF k = 1 THEN a1 ELSE IF k = 2 THEN a2
                                   ELSE IF k = 3 THEN a3 ELSE IF k = 4 THEN a4 ELSE a5
      BY DEF w
    <3>3. n # 0 => n - 1 \in 0..L
      BY <1>0
    <3>4. w[n] = IF n = 0 THEN r ELSE IF n = 1 THEN a1 ELSE IF n = 2 THEN a2
                                   ELSE IF n = 3 THEN a3 ELSE IF n = 4 THEN a4 ELSE a5
      BY <3>2
    <3>5. n # 0 => w[n - 1] = IF n = 1 THEN r ELSE IF n = 2 THEN a1 ELSE IF n = 3 THEN a2
                                   ELSE IF n = 4 THEN a3 ELSE a4
      BY <3>2, <3>3, <3>1
    <3> QED BY <3>1, <3>4, <3>5
  <2>2. w = [n \in 0..L |-> w[n]]
    OBVIOUS
  <2> HIDE DEF w
  <2>3. [n \in 0..L |-> w[n]] = [n \in 0..L |-> IF n = 0 THEN r ELSE Apply(w[n - 1], calls[n])]
    BY <2>1
  <2> QED BY <2>2, <2>3
<1>2. f = [n \in 0..L |-> IF n = 0 THEN r ELSE Apply(f[n - 1], calls[n])]
  BY <1>1
<1>3. After(r, calls) = f[L]
  BY DEF After, L
<1> HIDE DEF f
<1>4. f[0] = r /\ \A n \in 1..L : f[n] = Apply(f[n - 1], calls[n])
  BY <1>0, <1>2
<1> QED BY <1>3, <1>4 DEF L

\* No call, no change.
LEMMA AfterNone == \A r : After(r, <<>>) = r
  <1>. SUFFICES ASSUME NEW r PROVE After(r, <<>>) = r
    OBVIOUS
  <1>1. Len(<<>>) = 0
    OBVIOUS
  <1>2. PICK s : s[0] = r /\ After(r, <<>>) = s[Len(<<>>)]
    BY <1>1, AfterCalls
  <1>. QED BY <1>1, <1>2

\* One more call is applied last.
LEMMA AfterAppend ==
  ASSUME NEW S, NEW calls \in Seq(S), NEW c \in S, Len(calls) \in 0..4, NEW r
  PROVE  After(r, Append(calls, c)) = Apply(After(r, calls), c)
  <1>1. PICK n \in 0..4 : n = Len(calls)
    OBVIOUS
  <1>2. PICK more : more = Append(calls, c)
    OBVIOUS
  <1>3. Len(more) = n + 1 /\ more[n + 1] = c /\ \A i \in 1..n : more[i] = calls[i]
    BY <1>1, <1>2, AppendProperties
  <1>12. PICK s : /\ s[0] = r
                  /\ \A i \in 1..Len(calls) : s[i] = Apply(s[i - 1], calls[i])
                  /\ After(r, calls) = s[Len(calls)]
    BY AfterCalls
  <1>4. s[0] = r /\ (\A i \in 1..n : s[i] = Apply(s[i - 1], calls[i])) /\ After(r, calls) = s[n]
    BY <1>1, <1>12
  <1>5. Len(more) \in 0..5
    BY <1>1, <1>3
  <1>13. PICK t : /\ t[0] = r
                  /\ \A i \in 1..Len(more) : t[i] = Apply(t[i - 1], more[i])
                  /\ After(r, more) = t[Len(more)]
    BY <1>5, AfterCalls
  <1>6. t[0] = r /\ (\A i \in 1..(n + 1) : t[i] = Apply(t[i - 1], more[i])) /\ After(r, more) = t[n + 1]
    BY <1>3, <1>13
  <1>7. \A i \in 1..n : t[i - 1] = s[i - 1] => t[i] = s[i]
    BY <1>1, <1>3, <1>4, <1>6
  <1>8. t[0] = s[0] /\ (1 <= n => t[1] = s[1]) /\ (2 <= n => t[2] = s[2])
    BY <1>1, <1>4, <1>6, <1>7
  <1>9. (3 <= n => t[3] = s[3]) /\ (4 <= n => t[4] = s[4])
    BY <1>1, <1>7, <1>8
  <1>10. t[n] = s[n]
    BY <1>1, <1>8, <1>9
  <1>11. t[n + 1] = Apply(t[n], c)
    BY <1>1, <1>3, <1>6
  <1>. QED BY <1>2, <1>4, <1>6, <1>10, <1>11

\* Sequences written out are appended one by one.
LEMMA Appended ==
  ASSUME NEW S, NEW a \in S, NEW b \in S, NEW c \in S, NEW q \in Seq(S)
  PROVE  /\ <<a>> = Append(<<>>, a) /\ <<a, b>> = Append(<<a>>, b) /\ <<a, b, c>> = Append(<<a, b>>, c)
         /\ q \o <<a, b>> = Append(Append(q, a), b)
         /\ <<a>> \in Seq(S) /\ <<a, b>> \in Seq(S) /\ <<a, b, c>> \in Seq(S) /\ <<>> \in Seq(S)
  <1>1. <<>> \in Seq(S) /\ Len(<<>>) = 0
    BY EmptySeq
  <1>2. <<a>> \in Seq(S) /\ <<a, b>> \in Seq(S) /\ <<a, b, c>> \in Seq(S)
    OBVIOUS
  <1>3. <<a>> = Append(<<>>, a)
    <2>1. Append(<<>>, a) \in Seq(S) /\ Len(Append(<<>>, a)) = 1 /\ Append(<<>>, a)[1] = a
      BY <1>1, AppendProperties
    <2>2. Len(<<a>>) = 1 /\ <<a>>[1] = a
      OBVIOUS
    <2>3. \A i \in 1..Len(<<a>>) : <<a>>[i] = Append(<<>>, a)[i]
      BY <2>1, <2>2
    <2>. QED BY <1>2, <2>1, <2>2, <2>3, SeqEqual
  <1>4. <<a, b>> = Append(<<a>>, b)
    <2>1. /\ Append(<<a>>, b) \in Seq(S) /\ Len(Append(<<a>>, b)) = 2
          /\ Append(<<a>>, b)[1] = a /\ Append(<<a>>, b)[2] = b
      BY <1>2, AppendProperties
    <2>2. Len(<<a, b>>) = 2 /\ <<a, b>>[1] = a /\ <<a, b>>[2] = b
      OBVIOUS
    <2>3. \A i \in 1..Len(<<a, b>>) : <<a, b>>[i] = Append(<<a>>, b)[i]
      BY <2>1, <2>2
    <2>. QED BY <1>2, <2>1, <2>2, <2>3, SeqEqual
  <1>5. <<a, b, c>> = Append(<<a, b>>, c)
    <2>1. /\ Append(<<a, b>>, c) \in Seq(S) /\ Len(Append(<<a, b>>, c)) = 3
          /\ Append(<<a, b>>, c)[1] = a /\ Append(<<a, b>>, c)[2] = b /\ Append(<<a, b>>, c)[3] = c
      BY <1>2, AppendProperties
    <2>2. Len(<<a, b, c>>) = 3 /\ <<a, b, c>>[1] = a /\ <<a, b, c>>[2] = b /\ <<a, b, c>>[3] = c
      OBVIOUS
    <2>3. \A i \in 1..Len(<<a, b, c>>) : <<a, b, c>>[i] = Append(<<a, b>>, c)[i]
      BY <2>1, <2>2
    <2>. QED BY <1>2, <2>1, <2>2, <2>3, SeqEqual
  <1>6. q \o <<a, b>> = Append(Append(q, a), b)
    <2>1. PICK n \in Nat : n = Len(q)
      BY LenProperties
    <2>2. PICK p : p = <<a, b>>
      OBVIOUS
    <2>3. p \in Seq(S) /\ Len(p) = 2 /\ p[1] = a /\ p[2] = b
      BY <1>2, <2>2
    <2>4. PICK s : s = q \o p
      OBVIOUS
    <2>5. /\ s \in Seq(S) /\ Len(s) = n + 2 /\ \A i \in 1..n : s[i] = q[i]
          /\ s[n + 1] = a /\ s[n + 2] = b
      <3>3. s \in Seq(S)
        BY <2>3, <2>4, ConcatProperties
      <3>4. Len(s) = Len(q) + Len(p)
        BY <2>3, <2>4, ConcatProperties
      <3>1. s \in Seq(S) /\ Len(s) = n + 2
        BY <2>1, <2>3, <3>3, <3>4
      <3>2. \A i \in 1..(n + 2) : s[i] = IF i <= n THEN q[i] ELSE p[i - n]
        BY <2>1, <2>3, <2>4, ConcatProperties
      <3>. QED BY <2>1, <2>3, <3>1, <3>2
    <2>6. PICK u : u = Append(q, a)
      OBVIOUS
    <2>7. u \in Seq(S) /\ Len(u) = n + 1 /\ u[n + 1] = a /\ \A i \in 1..n : u[i] = q[i]
      BY <2>1, <2>6, AppendProperties
    <2>8. PICK t : t = Append(u, b)
      OBVIOUS
    <2>9. t \in Seq(S) /\ Len(t) = n + 2 /\ t[n + 2] = b /\ \A i \in 1..(n + 1) : t[i] = u[i]
      BY <2>7, <2>8, AppendProperties
    <2>10. \A i \in 1..Len(s) : s[i] = t[i]
      BY <2>1, <2>5, <2>7, <2>9
    <2>11. s = t
      BY <2>5, <2>9, <2>10, SeqEqual
    <2>. QED BY <2>2, <2>4, <2>6, <2>8, <2>11
  <1>. QED BY <1>1, <1>2, <1>3, <1>4, <1>5, <1>6

\* The hooks, as names of calls.
CallNames ==
  {"begin_run", "run_inputs", "stage_visit", "model_call", "model_request",
   "model_response", "policy_evaluation", "tool_call", "tool_result", "tool_error",
   "transition_evaluation", "run_error"}

\* A hook, and an event, as calls.
LEMMA HookCall ==
  ASSUME NEW call \in CallNames, NEW body \in Bodies
  PROVE  /\ Hook(call, body) \in Calls
         /\ Hook(call, body).call = call /\ Hook(call, body).body = body
  BY DEF Hook, Blank, Calls, CallNames, Bodies, MaybeStage, Contents

\* An event, as a call.
LEMMA EventCall ==
  ASSUME NEW kind \in Kinds, NEW stage \in MaybeStage
  PROVE  /\ Event(kind, stage) \in Calls /\ Event(kind, stage).call = "event"
         /\ Event(kind, stage).kind = kind /\ Event(kind, stage).stage = stage
         /\ Event(kind, stage).content = "plain"
  BY DEF Event, Blank, Calls, MaybeStage, Contents, Bodies

\* A call with a target.
LEMMA CallTo ==
  ASSUME NEW o \in Calls, NEW s \in MaybeStage
  PROVE  /\ [o EXCEPT !.to = s] \in Calls /\ [o EXCEPT !.to = s].call = o.call
         /\ [o EXCEPT !.to = s].kind = o.kind /\ [o EXCEPT !.to = s].stage = o.stage
         /\ [o EXCEPT !.to = s].content = o.content /\ [o EXCEPT !.to = s].to = s
  BY DEF Calls

\* A call with a stage.
LEMMA CallIn ==
  ASSUME NEW o \in Calls, NEW s \in MaybeStage
  PROVE  /\ [o EXCEPT !.stage = s] \in Calls /\ [o EXCEPT !.stage = s].call = o.call
         /\ [o EXCEPT !.stage = s].stage = s
  BY DEF Calls

\* A call with a verdict.
LEMMA CallDenied ==
  ASSUME NEW o \in Calls, NEW b \in BOOLEAN
  PROVE  /\ [o EXCEPT !.denied = b] \in Calls /\ [o EXCEPT !.denied = b].call = o.call
         /\ [o EXCEPT !.denied = b].kind = o.kind /\ [o EXCEPT !.denied = b].stage = o.stage
         /\ [o EXCEPT !.denied = b].content = o.content
  BY DEF Calls

\* A call with arguments that may hold a secret.
LEMMA CallHolding ==
  ASSUME NEW o \in Calls, NEW c \in Contents
  PROVE  /\ [o EXCEPT !.content = c] \in Calls /\ [o EXCEPT !.content = c].call = o.call
         /\ [o EXCEPT !.content = c].kind = o.kind /\ [o EXCEPT !.content = c].stage = o.stage
  BY DEF Calls

-----------------------------------------------------------------------------
(* The recorder between two calls *)

\* Between two steps of a run nothing waits for its event but calls of the model
\* that failed, and the caller's ids are those of the present visit and call.
Rest(r) ==
  /\ r.heldVisit = r.current
  /\ \A s \in Stages : At(r.pendingVisits, s) = <<>>
  /\ \A v \in Nat : At(r.pendingTools, v) = <<>>
  /\ Complete(r) => r.heldModel \in ModelsKept(r) \cup {0}

\* A recorder at rest, unless it is over its limit.
Resting(r) == LedgerInv(r) /\ (~r.exceeded => Rest(r))
\* A visit has begun.
Visiting(r) == Resting(r) /\ (~r.exceeded => r.current # 0)
\* An attempt of the visit waits for its event.
Awaiting(r) == Visiting(r) /\ (~r.exceeded => At(r.pendingModels, r.current) # <<>>)
\* An attempt of the visit is pending or was the last to complete.
AskedFor(r) == Visiting(r) /\ (~r.exceeded => Asked(r))

\* A recorder that has lost count stays so, and owes nothing.
LEMMA OverflowRests ==
  ASSUME NEW r, LedgerInv(r), r.exceeded, NEW o \in Calls
  PROVE  Apply(r, o).exceeded /\ Awaiting(Apply(r, o)) /\ AskedFor(Apply(r, o))
  <1>1. LedgerInv(Apply(r, o)) /\ Apply(r, o).exceeded
    BY ExceededStays
  <1>. QED BY <1>1 DEF Awaiting, AskedFor, Visiting, Resting

\* What a call that leaves these fields alone keeps of a recorder at rest.
LEMMA RestStays ==
  ASSUME NEW r, NEW t, LedgerInv(r), LedgerInv(t), ~r.exceeded, Rest(r), Grows(r, t),
         NEW names, Changes(r, t, names),
         names \subseteq {"live", "events", "models", "vault", "dropped", "begun", "pendingTransitions",
                          "pendingModels", "lastModel", "openTools", "tools"}
  PROVE  /\ Rest(t) /\ t.current = r.current
         /\ names \cap {"pendingModels", "lastModel"} = {} =>
              /\ Asked(t) <=> Asked(r)
              /\ At(t.pendingModels, t.current) = At(r.pendingModels, r.current)
  <1>1. /\ t.heldVisit = r.heldVisit /\ t.current = r.current /\ t.pendingVisits = r.pendingVisits
        /\ t.pendingTools = r.pendingTools /\ t.heldModel = r.heldModel /\ t.config = r.config
    BY DEF Changes, RecorderFields
  <1>2. names \cap {"pendingModels", "lastModel"} = {} =>
          t.pendingModels = r.pendingModels /\ t.lastModel = r.lastModel
    BY DEF Changes, RecorderFields
  <1>3. Complete(t) <=> Complete(r)
    BY <1>1 DEF Complete, VaultEnabled
  <1>. QED BY <1>1, <1>2, <1>3 DEF Rest, Grows, Asked

\* The hooks that file evidence leave the recorder at rest, but for the call they file.
LEMMA VaultHookRests ==
  ASSUME NEW r, NEW o \in Calls,
         o.call \in {"run_inputs", "model_request", "model_response", "policy_evaluation"}
  PROVE  /\ Resting(r) => Resting(Apply(r, o))
         /\ Visiting(r) => Visiting(Apply(r, o))
         /\ Awaiting(r) => Awaiting(Apply(r, o))
         /\ AskedFor(r) => AskedFor(Apply(r, o))
  <1>. SUFFICES ASSUME Resting(r)
                PROVE  /\ Resting(Apply(r, o))
                       /\ Visiting(r) => Visiting(Apply(r, o))
                       /\ Awaiting(r) => Awaiting(Apply(r, o))
                       /\ AskedFor(r) => AskedFor(Apply(r, o))
    BY DEF Visiting, Awaiting, AskedFor
  <1>1. CASE r.exceeded
    BY <1>1, OverflowRests DEF Resting, Visiting, Awaiting, AskedFor
  <1>2. CASE ~r.exceeded
    <2>1. PICK t : t = Apply(r, o)
      OBVIOUS
    <2>2. LedgerInv(t) /\ ~t.exceeded /\ Changes(r, t, {"vault"}) /\ Grows(r, t)
      BY <1>2, <2>1, HooksThatKeep DEF Resting
    <2>3. /\ Rest(t) /\ t.current = r.current
          /\ Asked(t) <=> Asked(r)
          /\ At(t.pendingModels, t.current) = At(r.pendingModels, r.current)
      BY <1>2, <2>2, RestStays DEF Resting
    <2>. QED BY <1>2, <2>1, <2>2, <2>3 DEF Resting, Visiting, Awaiting, AskedFor
  <1>. QED BY <1>1, <1>2

\* So do the hooks that keep nothing.
LEMMA RunHookRests ==
  ASSUME NEW r, NEW o \in Calls, Resting(r), o.call \in {"begin_run", "run_error"}
  PROVE  Resting(Apply(r, o))
  <1>1. CASE r.exceeded
    BY <1>1, OverflowRests DEF Resting, Awaiting, Visiting
  <1>2. CASE ~r.exceeded
    <2>1. PICK t : t = Apply(r, o)
      OBVIOUS
    <2>2. LedgerInv(t) /\ t.exceeded = r.exceeded /\ Changes(r, t, {"begun"}) /\ Grows(r, t)
      BY <2>1, RunHooks DEF Resting
    <2>3. Rest(t)
      BY <1>2, <2>2, RestStays DEF Resting
    <2>. QED BY <2>1, <2>2, <2>3 DEF Resting
  <1>. QED BY <1>1, <1>2

\* An event that takes no id leaves it at rest.
LEMMA PlainEventRests ==
  ASSUME NEW r, NEW t, LedgerInv(r), LedgerInv(t), ~r.exceeded, Rest(r), Grows(r, t),
         Changes(r, t, {"live", "events", "models"})
  PROVE  Rest(t) /\ t.current = r.current /\ (Asked(t) <=> Asked(r))
  <1>1. PICK names : names = {"live", "events", "models"}
    OBVIOUS
  <1>2. names \cap {"pendingModels", "lastModel"} = {} /\ Changes(r, t, names)
    BY <1>1
  <1>3. names \subseteq {"live", "events", "models", "vault", "dropped", "begun", "pendingTransitions",
                          "pendingModels", "lastModel", "openTools", "tools"}
    BY <1>1
  <1>. QED BY <1>2, <1>3, RestStays

\* The events of a run that ask nothing of the recorder but a visit.
LEMMA RunEventRests ==
  ASSUME NEW r, NEW o \in Calls, o.call = "event", o.content = "plain", Resting(r),
         o.kind \in {"run_started", "run_completed", "run_failed"}
  PROVE  Resting(Apply(r, o))
  <1>1. CASE r.exceeded
    BY <1>1, OverflowRests DEF Resting, Awaiting, Visiting
  <1>2. CASE ~r.exceeded
    <2>1. PICK t : t = Apply(r, o)
      OBVIOUS
    <2>2. o.kind \in Plain /\ o.kind \notin StageKinds
      BY DEF Plain, StageKinds, ModelKinds, ToolKinds
    <2>3. LedgerInv(t) /\ (~t.exceeded => Changes(r, t, {"live", "events", "models"}) /\ Grows(r, t))
      BY <1>2, <2>1, <2>2, PlainEvent DEF Resting
    <2>4. ~t.exceeded => Rest(t)
      BY <1>2, <2>3, RestStays DEF Resting
    <2>. QED BY <2>1, <2>3, <2>4 DEF Resting
  <1>. QED BY <1>1, <1>2

\* The verdicts of the gate are such events.
LEMMA PolicyEventRests ==
  ASSUME NEW r, NEW o \in Calls, o.call = "event", o.content = "plain", o.stage \in Stages,
         o.kind \in {"policy_checked", "policy_denied"}, Visiting(r)
  PROVE  Visiting(Apply(r, o)) /\ (AskedFor(r) => AskedFor(Apply(r, o)))
  <1>1. CASE r.exceeded
    BY <1>1, OverflowRests DEF Resting, Visiting, AskedFor
  <1>2. CASE ~r.exceeded
    <2>1. PICK t : t = Apply(r, o)
      OBVIOUS
    <2>2. o.kind \in Plain /\ o.kind \notin {"model_delta", "model_retry", "tool_call_completed", "tool_call_failed"}
      BY DEF Plain
    <2>3. LedgerInv(t) /\ (~t.exceeded => Changes(r, t, {"live", "events", "models"}) /\ Grows(r, t))
      BY <1>2, <2>1, <2>2, PlainEvent DEF Resting, Visiting
    <2>6. LedgerInv(r) /\ Rest(r)
      BY <1>2 DEF Resting, Visiting
    <2>4. ~t.exceeded => Rest(t) /\ t.current = r.current /\ (Asked(t) <=> Asked(r))
      BY <1>2, <2>3, <2>6, PlainEventRests
    <2>. QED BY <1>2, <2>1, <2>3, <2>4 DEF Resting, Visiting, AskedFor
  <1>. QED BY <1>1, <1>2

\* An attempt that failed before it was completed, and the correction after any.
LEMMA DeltaRests ==
  ASSUME NEW r, NEW o \in Calls, o.call = "event", o.content = "plain", o.stage \in Stages,
         o.kind = "model_delta", Awaiting(r)
  PROVE  AskedFor(Apply(r, o))
  <1>1. CASE r.exceeded
    <2>1. LedgerInv(r)
      BY DEF Resting, Visiting, Awaiting, AskedFor
    <2>. QED BY <1>1, <2>1, OverflowRests
  <1>2. CASE ~r.exceeded
    <2>1. PICK t : t = Apply(r, o)
      OBVIOUS
    <2>2. o.kind \in Plain
      BY DEF Plain
    <2>3. LedgerInv(t) /\ (~t.exceeded => Changes(r, t, {"live", "events", "models"}) /\ Grows(r, t))
      BY <1>2, <2>1, <2>2, PlainEvent DEF Resting, Visiting, Awaiting
    <2>6. LedgerInv(r) /\ Rest(r)
      BY <1>2 DEF Resting, Visiting, Awaiting
    <2>4. ~t.exceeded => Rest(t) /\ t.current = r.current /\ (Asked(t) <=> Asked(r))
      BY <1>2, <2>3, <2>6, PlainEventRests
    <2>. QED BY <1>2, <2>1, <2>3, <2>4 DEF Resting, Visiting, Awaiting, AskedFor, Asked
  <1>. QED BY <1>1, <1>2

\* A retry, of an attempt that is on record, leaves it at rest.
LEMMA RetryRests ==
  ASSUME NEW r, NEW o \in Calls, o.call = "event", o.content = "plain", o.stage \in Stages,
         o.kind = "model_retry", AskedFor(r)
  PROVE  AskedFor(Apply(r, o))
  <1>1. CASE r.exceeded
    <2>1. LedgerInv(r)
      BY DEF Resting, Visiting, Awaiting, AskedFor
    <2>. QED BY <1>1, <2>1, OverflowRests
  <1>2. CASE ~r.exceeded
    <2>1. PICK t : t = Apply(r, o)
      OBVIOUS
    <2>2. o.kind \in Plain
      BY DEF Plain
    <2>5. Complete(r) => r.heldModel \in ModelsKept(r) \cup {0}
      BY <1>2 DEF AskedFor, Visiting, Resting, Rest
    <2>3. LedgerInv(t) /\ (~t.exceeded => Changes(r, t, {"live", "events", "models"}) /\ Grows(r, t))
      BY <1>2, <2>1, <2>2, <2>5, PlainEvent DEF Resting, Visiting, AskedFor
    <2>6. LedgerInv(r) /\ Rest(r)
      BY <1>2 DEF Resting, Visiting, AskedFor
    <2>4. ~t.exceeded => Rest(t) /\ t.current = r.current /\ (Asked(t) <=> Asked(r))
      BY <1>2, <2>3, <2>6, PlainEventRests
    <2>. QED BY <1>2, <2>1, <2>3, <2>4 DEF Resting, Visiting, AskedFor
  <1>. QED BY <1>1, <1>2

\* model_completed leaves it at rest, with an attempt on record.
LEMMA CompletedRests ==
  ASSUME NEW r, NEW o \in Calls, o.call = "event", o.content = "plain", o.stage \in Stages,
         o.kind = "model_completed", Awaiting(r)
  PROVE  AskedFor(Apply(r, o))
  <1>1. CASE r.exceeded
    <2>1. LedgerInv(r)
      BY DEF Resting, Visiting, Awaiting, AskedFor
    <2>. QED BY <1>1, <2>1, OverflowRests
  <1>2. CASE ~r.exceeded
    <2>1. PICK t : t = Apply(r, o)
      OBVIOUS
    <2>2. Complete(r) => r.heldModel \in ModelsKept(r) \cup {0}
      BY <1>2 DEF Awaiting, Visiting, Resting, Rest
    <2>3. /\ LedgerInv(t)
          /\ ~t.exceeded =>
              /\ Changes(r, t, {"live", "events", "models", "pendingModels", "lastModel"}) /\ Grows(r, t)
              /\ At(t.lastModel, r.current) # <<>>
      BY <1>2, <2>1, <2>2, ModelCompletedEvent DEF Resting, Visiting, Awaiting
    <2>4. ~t.exceeded => Rest(t) /\ t.current = r.current
      BY <1>2, <2>3, RestStays DEF Resting, Visiting, Awaiting
    <2>. QED BY <1>2, <2>1, <2>3, <2>4 DEF Resting, Visiting, Awaiting, AskedFor, Asked
  <1>. QED BY <1>1, <1>2

\* A model is asked: the call is announced, and its request kept.
LEMMA AskingRests ==
  ASSUME NEW r, Visiting(r), NEW o \in Calls, o.call = "model_call",
         NEW p \in Calls, p.call = "model_request"
  PROVE  Awaiting(Apply(Apply(r, o), p))
  <1>1. CASE r.exceeded
    BY <1>1, OverflowRests DEF Resting, Visiting, Awaiting
  <1>2. CASE ~r.exceeded
    <2>1. PICK s : s = Apply(r, o)
      OBVIOUS
    <2>2. Complete(r) => r.heldModel \in ModelsKept(r) \cup {0}
      BY <1>2 DEF Visiting, Resting, Rest
    <2>3. /\ LedgerInv(s) /\ ~s.exceeded
          /\ Changes(r, s, {"models", "heldModel", "pendingModels"}) /\ Grows(r, s)
          /\ At(s.pendingModels, s.current) # <<>>
      BY <1>2, <2>1, <2>2, ModelCallHook DEF Resting, Visiting
    <2>4. PICK t : t = Apply(s, p)
      OBVIOUS
    <2>5. /\ LedgerInv(t) /\ ~t.exceeded /\ Changes(s, t, {"vault"})
          /\ Complete(s) => s.heldModel \in ModelsKept(t)
      BY <2>3, <2>4, HooksThatKeep
    <2>6. /\ t.heldVisit = r.heldVisit /\ t.current = r.current /\ t.pendingVisits = r.pendingVisits
          /\ t.pendingTools = r.pendingTools /\ t.heldModel = s.heldModel /\ t.config = s.config
          /\ t.pendingModels = s.pendingModels /\ s.current = t.current
      BY <2>3, <2>5 DEF Changes, RecorderFields
    <2>7. Complete(t) <=> Complete(s)
      BY <2>6 DEF Complete, VaultEnabled
    <2>8. Rest(t)
      BY <1>2, <2>5, <2>6, <2>7 DEF Rest, Visiting, Resting
    <2>. QED BY <1>2, <2>1, <2>3, <2>4, <2>5, <2>6, <2>8 DEF Resting, Visiting, Awaiting
  <1>. QED BY <1>1, <1>2

\* A tool is running: the last call to have started is the one held.
Calling(r) ==
  Visiting(r) /\ (~r.exceeded => At(r.openTools, r.current) # <<>> /\ Last(At(r.openTools, r.current)) = r.heldTool)

\* beginToolCall and tool_call_started together: the queue is empty again and the call
\* that opened last is the one held.
LEMMA ToolBegins ==
  ASSUME NEW r, Visiting(r), NEW o \in Calls, o.call = "tool_call",
         NEW e \in Calls, e.call = "event", e.kind = "tool_call_started", e.stage \in Stages
  PROVE  /\ Calling(Apply(Apply(r, o), e))
         /\ AskedFor(r) => AskedFor(Apply(Apply(r, o), e))
  <1>1. CASE r.exceeded
    <2>1. LedgerInv(Apply(r, o)) /\ Apply(r, o).exceeded
      BY <1>1, OverflowRests DEF Visiting, Awaiting, Resting
    <2>2. AskedFor(Apply(Apply(r, o), e)) /\ Apply(Apply(r, o), e).exceeded
      BY <2>1, OverflowRests
    <2>. QED BY <2>2 DEF AskedFor, Calling
  <1>2. CASE ~r.exceeded
    <2>1. PICK s : s = Apply(r, o)
      OBVIOUS
    <2>0. LedgerInv(r) /\ Rest(r) /\ r.current # 0 /\ r.current \in Nat
      BY <1>2 DEF Visiting, Resting, LedgerInv, Well, Typed
    <2>2. /\ LedgerInv(s) /\ ~s.exceeded
          /\ Changes(r, s, {"tools", "heldTool", "pendingTools"}) /\ Grows(r, s)
          /\ s.heldTool \in Ids
          /\ At(s.pendingTools, r.current) = Append(At(r.pendingTools, r.current), s.heldTool)
          /\ \A v \in Nat \ {r.current} : At(s.pendingTools, v) = At(r.pendingTools, v)
      BY <1>2, <2>0, <2>1, ToolCallHook
    <2>3. \A v \in Nat : At(r.pendingTools, v) = <<>>
      BY <2>0 DEF Rest
    <2>4. <<s.heldTool>> = Append(<<>>, s.heldTool)
      BY <2>2, EmptySeq, Appended
    <2>5. /\ At(s.pendingTools, r.current) = <<s.heldTool>>
          /\ \A v \in Nat \ {r.current} : At(s.pendingTools, v) = <<>>
      BY <2>0, <2>2, <2>3, <2>4
    <2>6. /\ s.current = r.current /\ s.heldVisit = r.heldVisit /\ s.pendingVisits = r.pendingVisits
          /\ s.heldModel = r.heldModel /\ s.config = r.config
          /\ s.pendingModels = r.pendingModels /\ s.lastModel = r.lastModel
      BY <2>2 DEF Changes, RecorderFields
    <2>7. PICK t : t = Apply(s, e)
      OBVIOUS
    <2>8. /\ LedgerInv(t)
          /\ ~t.exceeded =>
              /\ Changes(s, t, {"live", "events", "tools", "pendingTools", "openTools"}) /\ Grows(s, t)
              /\ At(t.openTools, s.current) # <<>> /\ Last(At(t.openTools, s.current)) = s.heldTool
              /\ \A v \in Nat :
                   At(t.pendingTools, v) = IF v = s.current THEN <<>> ELSE At(s.pendingTools, v)
      BY <2>0, <2>2, <2>5, <2>6, <2>7, ToolStartedEvent
    <2>9. ASSUME ~t.exceeded
          PROVE  /\ Rest(t) /\ t.current # 0 /\ (Asked(t) <=> Asked(r))
                 /\ At(t.openTools, t.current) # <<>> /\ Last(At(t.openTools, t.current)) = t.heldTool
      <3>1. /\ t.current = r.current /\ t.heldVisit = r.heldVisit /\ t.pendingVisits = r.pendingVisits
            /\ t.heldModel = r.heldModel /\ t.config = r.config /\ t.heldTool = s.heldTool
            /\ t.pendingModels = r.pendingModels /\ t.lastModel = r.lastModel
        BY <2>6, <2>8, <2>9 DEF Changes, RecorderFields
      <3>2. \A v \in Nat : At(t.pendingTools, v) = <<>>
        BY <2>5, <2>6, <2>8, <2>9
      <3>3. Complete(t) <=> Complete(r)
        BY <3>1 DEF Complete, VaultEnabled
      <3>4. ModelsKept(r) \subseteq ModelsKept(t)
        BY <2>2, <2>8, <2>9 DEF Grows
      <3>5. Rest(t)
        BY <2>0, <3>1, <3>2, <3>3, <3>4 DEF Rest
      <3>. QED BY <2>0, <2>6, <2>8, <2>9, <3>1, <3>5 DEF Asked
    <2>10. Visiting(t) /\ Calling(t)
      BY <2>8, <2>9 DEF Calling, Visiting, Resting
    <2>11. AskedFor(r) => AskedFor(t)
      BY <1>2, <2>9, <2>10 DEF AskedFor
    <2>. QED BY <2>1, <2>7, <2>10, <2>11
  <1>. QED BY <1>1, <1>2

\* The result or the error of the open call is filed before its event names it.
LEMMA ToolEnds ==
  ASSUME NEW r, Calling(r), NEW o \in Calls, o.call \in {"tool_result", "tool_error"},
         NEW e \in Calls, e.call = "event", e.content = "plain",
         e.kind \in {"tool_call_completed", "tool_call_failed"}, e.stage \in Stages
  PROVE  /\ Visiting(Apply(Apply(r, o), e))
         /\ AskedFor(r) => AskedFor(Apply(Apply(r, o), e))
  <1>1. CASE r.exceeded
    <2>1. LedgerInv(Apply(r, o)) /\ Apply(r, o).exceeded
      BY <1>1, OverflowRests DEF Calling, Visiting, Awaiting, Resting
    <2>2. AskedFor(Apply(Apply(r, o), e))
      BY <2>1, OverflowRests
    <2>. QED BY <2>2 DEF AskedFor
  <1>2. CASE ~r.exceeded
    <2>0. /\ LedgerInv(r) /\ Rest(r) /\ r.current # 0
          /\ At(r.openTools, r.current) # <<>> /\ Last(At(r.openTools, r.current)) = r.heldTool
      BY <1>2 DEF Calling, Visiting, Resting
    <2>1. PICK s : s = Apply(r, o)
      OBVIOUS
    <2>2. /\ LedgerInv(s) /\ ~s.exceeded /\ Changes(r, s, {"vault"}) /\ Grows(r, s)
          /\ Complete(r) => r.heldTool \in ToolsKept(s)
      BY <1>2, <2>0, <2>1, HooksThatKeep
    <2>3. s.openTools = r.openTools /\ s.current = r.current /\ s.config = r.config
      BY <2>2 DEF Changes, RecorderFields
    <2>4. Complete(s) <=> Complete(r)
      BY <2>3 DEF Complete, VaultEnabled
    <2>5. Rest(s) /\ (Asked(s) <=> Asked(r))
      <3>1. PICK names : names = {"vault"}
        OBVIOUS
      <3>2. names \cap {"pendingModels", "lastModel"} = {} /\ Changes(r, s, names)
        BY <2>2, <3>1
      <3>3. names \subseteq {"live", "events", "models", "vault", "dropped", "begun", "pendingTransitions",
                          "pendingModels", "lastModel", "openTools", "tools"}
        BY <3>1
      <3>. QED BY <1>2, <2>0, <2>2, <3>2, <3>3, RestStays
    <2>6. PICK t : t = Apply(s, e)
      OBVIOUS
    <2>7. e.kind \in Plain
      BY DEF Plain
    <2>8. LedgerInv(t) /\ (~t.exceeded => Changes(s, t, {"live", "events", "models"}) /\ Grows(s, t))
      BY <2>0, <2>2, <2>3, <2>4, <2>6, <2>7, PlainEvent
    <2>9. ~t.exceeded => Rest(t) /\ t.current = s.current /\ (Asked(t) <=> Asked(s))
      BY <2>2, <2>5, <2>8, PlainEventRests
    <2>. QED BY <1>2, <2>0, <2>1, <2>3, <2>5, <2>6, <2>8, <2>9 DEF AskedFor, Visiting, Resting
  <1>. QED BY <1>1, <1>2

\* beginStageVisit and stage_started together: the queue is empty again.
LEMMA VisitBegins ==
  ASSUME NEW r, Resting(r), NEW o \in Calls, o.call = "stage_visit", o.stage \in Stages,
         NEW e \in Calls, e.call = "event", e.kind = "stage_started", e.content = "plain",
         e.stage = o.stage
  PROVE  Visiting(Apply(Apply(r, o), e))
  <1>1. CASE r.exceeded
    <2>1. LedgerInv(Apply(r, o)) /\ Apply(r, o).exceeded
      BY <1>1, OverflowRests DEF Visiting, Awaiting, Resting
    <2>2. AskedFor(Apply(Apply(r, o), e))
      BY <2>1, OverflowRests
    <2>. QED BY <2>2 DEF AskedFor
  <1>2. CASE ~r.exceeded
    <2>0. LedgerInv(r) /\ Rest(r)
      BY <1>2 DEF Resting
    <2>1. PICK s : s = Apply(r, o)
      OBVIOUS
    <2>2. /\ LedgerInv(s) /\ ~s.exceeded
          /\ Changes(r, s, {"visits", "heldVisit", "current", "pendingVisits"}) /\ Grows(r, s)
          /\ s.current \in Ids /\ s.heldVisit = s.current
          /\ At(s.pendingVisits, o.stage) = Append(At(r.pendingVisits, o.stage), s.current)
          /\ \A t \in Stages \ {o.stage} : At(s.pendingVisits, t) = At(r.pendingVisits, t)
      BY <1>2, <2>0, <2>1, StageVisitHook
    <2>3. <<s.current>> = Append(<<>>, s.current)
      BY <2>2, EmptySeq, Appended
    <2>4. /\ At(s.pendingVisits, o.stage) = <<s.current>>
          /\ \A x \in Stages \ {o.stage} : At(s.pendingVisits, x) = <<>>
      BY <2>0, <2>2, <2>3 DEF Rest
    <2>5. PICK t : t = Apply(s, e)
      OBVIOUS
    <2>6. /\ LedgerInv(t)
          /\ ~t.exceeded =>
              /\ Changes(s, t, {"live", "events", "current", "pendingVisits"}) /\ Grows(s, t)
              /\ t.current = s.current
              /\ \A x \in Stages :
                   At(t.pendingVisits, x) = IF x = e.stage THEN <<>> ELSE At(s.pendingVisits, x)
      BY <2>2, <2>4, <2>5, StageStartedEvent
    <2>7. ASSUME ~t.exceeded PROVE Rest(t) /\ t.current # 0
      <3>1. /\ t.heldVisit = s.current /\ t.pendingTools = r.pendingTools
            /\ t.heldModel = r.heldModel /\ t.config = r.config
        BY <2>2, <2>6, <2>7 DEF Changes, RecorderFields
      <3>2. \A x \in Stages : At(t.pendingVisits, x) = <<>>
        BY <2>4, <2>6, <2>7
      <3>3. Complete(t) <=> Complete(r)
        BY <3>1 DEF Complete, VaultEnabled
      <3>4. ModelsKept(r) \subseteq ModelsKept(t)
        BY <2>2, <2>6, <2>7 DEF Grows
      <3>5. Rest(t)
        BY <2>0, <2>6, <2>7, <3>1, <3>2, <3>3, <3>4 DEF Rest
      <3>. QED BY <2>2, <2>6, <2>7, <3>5 DEF Ids
    <2>. QED BY <2>1, <2>5, <2>6, <2>7 DEF Visiting, Resting
  <1>. QED BY <1>1, <1>2

\* stage_completed leaves the recorder at rest in its visit.
LEMMA StageCompletedRests ==
  ASSUME NEW r, Visiting(r), NEW e \in Calls, e.call = "event", e.kind = "stage_completed",
         e.content = "plain", e.stage \in Stages
  PROVE  Visiting(Apply(r, e))
  <1>1. CASE r.exceeded
    BY <1>1, OverflowRests DEF Resting, Visiting, AskedFor
  <1>2. CASE ~r.exceeded
    <2>0. LedgerInv(r) /\ Rest(r) /\ r.current # 0
      BY <1>2 DEF Visiting, Resting
    <2>1. PICK t : t = Apply(r, e)
      OBVIOUS
    <2>2. /\ LedgerInv(t)
          /\ ~t.exceeded => Changes(r, t, {"live", "events", "vault", "dropped"}) /\ Grows(r, t)
      BY <1>2, <2>0, <2>1, StageCompletedEvent
    <2>3. ~t.exceeded => Rest(t) /\ t.current = r.current
      BY <1>2, <2>0, <2>2, RestStays
    <2>. QED BY <2>0, <2>1, <2>2, <2>3 DEF Visiting, Resting
  <1>. QED BY <1>1, <1>2

\* So does transition_selected, after the hook that brings its evidence.
LEMMA TransitionRests ==
  ASSUME NEW r, Visiting(r), NEW o \in Calls, o.call = "transition_evaluation",
         NEW e \in Calls, e.call = "event", e.kind = "transition_selected", e.content = "plain",
         e.stage \in Stages, e.to \in Edges[e.stage]
  PROVE  Visiting(Apply(Apply(r, o), e))
  <1>1. CASE r.exceeded
    <2>1. LedgerInv(Apply(r, o)) /\ Apply(r, o).exceeded
      BY <1>1, OverflowRests DEF Visiting, Awaiting, Resting
    <2>2. AskedFor(Apply(Apply(r, o), e))
      BY <2>1, OverflowRests
    <2>. QED BY <2>2 DEF AskedFor
  <1>2. CASE ~r.exceeded
    <2>0. LedgerInv(r) /\ Rest(r) /\ r.current # 0
      BY <1>2 DEF Visiting, Resting
    <2>1. PICK s : s = Apply(r, o)
      OBVIOUS
    <2>2. /\ LedgerInv(s) /\ ~s.exceeded /\ Changes(r, s, {"pendingTransitions"}) /\ Grows(r, s)
          /\ Complete(r) => At(s.pendingTransitions, r.heldVisit) # <<>>
      BY <1>2, <2>0, <2>1, TransitionHook
    <2>3. Rest(s) /\ s.current = r.current
      BY <1>2, <2>0, <2>2, RestStays
    <2>4. Complete(s) => At(s.pendingTransitions, s.current) # <<>>
      <3>1. s.config = r.config
        BY <2>2 DEF Changes, RecorderFields
      <3>. QED BY <2>0, <2>2, <2>3, <3>1 DEF Rest, Complete, VaultEnabled
    <2>5. PICK t : t = Apply(s, e)
      OBVIOUS
    <2>6. /\ LedgerInv(t)
          /\ ~t.exceeded =>
              Changes(s, t, {"live", "events", "vault", "pendingTransitions"}) /\ Grows(s, t)
      BY <2>0, <2>2, <2>3, <2>4, <2>5, TransitionEvent
    <2>7. ~t.exceeded => Rest(t) /\ t.current = s.current
      BY <2>2, <2>3, <2>6, RestStays
    <2>. QED BY <2>0, <2>1, <2>3, <2>5, <2>6, <2>7 DEF Visiting, Resting
  <1>. QED BY <1>1, <1>2

\* Where a run can be, and a run.
Points == {"off", "next", "ask", "gate", "call", "done", "failing"} \cup Ended

Runs == [at : Points, stage : Stages, retries : Nat, out : MaybeStage]

\* A run: the output of a stage that leads on names an edge.
LiveInv(l) ==
  /\ l \in Runs
  /\ l.at = "done" /\ l.stage \notin Exits => l.out \in Edges[l.stage]

\* The recorder is where the run is: a visit has begun in every stage, and a stage
\* of a model has asked it before a tool is called.
InStep(l, r) ==
  /\ LiveInv(l) /\ Resting(r)
  /\ l.at \in {"ask", "gate", "call", "done"} => Visiting(r)
  /\ l.at \in {"gate", "call"} /\ l.stage \in ModelStages => AskedFor(r)

\* The run m is at the point `at` of the stage of l.
IsAt(m, l, at) == m \in Runs /\ m.at = at /\ m.stage = l.stage

\* Where a run moves within its stage.
LEMMA Moved ==
  ASSUME NEW l \in Runs, NEW at \in Points, NEW n \in Nat
  PROVE  IsAt([l EXCEPT !.at = at, !.retries = n], l, at)
  BY DEF Runs, IsAt

\* The same, but for its retries.
LEMMA MovedTo ==
  ASSUME NEW l \in Runs, NEW at \in Points
  PROVE  /\ [l EXCEPT !.at = at] \in Runs
         /\ [l EXCEPT !.at = at].at = at /\ [l EXCEPT !.at = at].stage = l.stage
         /\ [l EXCEPT !.at = at].out = l.out
  BY DEF Runs

\* The same, with an output.
LEMMA MovedOut ==
  ASSUME NEW l \in Runs, NEW at \in Points, NEW x \in MaybeStage
  PROVE  /\ IsAt([l EXCEPT !.at = at, !.out = x], l, at)
         /\ [l EXCEPT !.at = at, !.out = x].out = x
  BY DEF Runs, IsAt

\* The recorder after two calls, and after two more.
LEMMA AfterTwo ==
  ASSUME NEW a \in Calls, NEW b \in Calls, NEW r
  PROVE  /\ After(r, <<a, b>>) = Apply(Apply(r, a), b)
         /\ <<a, b>> \in Seq(Calls) /\ Len(<<a, b>>) = 2
  <1>1. /\ <<a>> = Append(<<>>, a) /\ <<a, b>> = Append(<<a>>, b)
        /\ <<>> \in Seq(Calls) /\ <<a>> \in Seq(Calls) /\ <<a, b>> \in Seq(Calls)
    BY EmptySeq, Appended
  <1>2. Len(<<>>) = 0 /\ Len(<<a>>) = 1 /\ Len(<<a, b>>) = 2
    OBVIOUS
  <1>3. After(r, <<>>) = r
    BY AfterNone
  <1>4. After(r, Append(<<>>, a)) = Apply(After(r, <<>>), a)
    <2>1. Len(<<>>) \in 0..4
      BY <1>2
    <2>. QED BY <1>1, <2>1, AfterAppend
  <1>5. After(r, Append(<<a>>, b)) = Apply(After(r, <<a>>), b)
    <2>1. Len(<<a>>) \in 0..4
      BY <1>2
    <2>. QED BY <1>1, <2>1, AfterAppend
  <1>. QED BY <1>1, <1>2, <1>3, <1>4, <1>5

\* Three calls.
LEMMA AfterThree ==
  ASSUME NEW a \in Calls, NEW b \in Calls, NEW c \in Calls, NEW r
  PROVE  After(r, <<a, b, c>>) = Apply(Apply(Apply(r, a), b), c)
  <1>1. <<a, b, c>> = Append(<<a, b>>, c)
    BY EmptySeq, Appended
  <1>2. After(r, <<a, b, c>>) = Apply(After(r, <<a, b>>), c)
    <2>1. <<a, b>> \in Seq(Calls) /\ Len(<<a, b>>) \in 0..4
      BY AfterTwo
    <2>2. After(r, Append(<<a, b>>, c)) = Apply(After(r, <<a, b>>), c)
      BY <2>1, AfterAppend
    <2>. QED BY <1>1, <2>2
  <1>. QED BY <1>2, AfterTwo

\* One call after those made.
LEMMA AfterOneMore ==
  ASSUME NEW n \in 0..4, NEW q \in Seq(Calls), Len(q) = n, NEW a \in Calls, NEW r
  PROVE  /\ After(r, Append(q, a)) = Apply(After(r, q), a)
         /\ Append(q, a) \in Seq(Calls) /\ Len(Append(q, a)) = n + 1
  <1>1. Len(q) \in 0..4
    OBVIOUS
  <1>2. After(r, Append(q, a)) = Apply(After(r, q), a)
    BY <1>1, AfterAppend
  <1>. QED BY <1>2, AppendProperties

\* Two calls after those made.
LEMMA AfterTwoMore ==
  ASSUME NEW q \in Seq(Calls), Len(q) = 2, NEW a \in Calls, NEW b \in Calls, NEW r
  PROVE  /\ After(r, q \o <<a, b>>) = Apply(Apply(After(r, q), a), b)
         /\ q \o <<a, b>> \in Seq(Calls) /\ Len(q \o <<a, b>>) = 4
  <1>1. PICK u : u = Append(q, a)
    OBVIOUS
  <1>2. u \in Seq(Calls) /\ Len(u) = 3 /\ After(r, u) = Apply(After(r, q), a)
    <2>1. 2 \in 0..4 /\ 2 + 1 = 3
      OBVIOUS
    <2>. QED BY <1>1, <2>1, AfterOneMore
  <1>3. PICK w : w = Append(u, b)
    OBVIOUS
  <1>4. w \in Seq(Calls) /\ Len(w) = 4 /\ After(r, w) = Apply(After(r, u), b)
    <2>1. 3 \in 0..4 /\ 3 + 1 = 4
      OBVIOUS
    <2>. QED BY <1>2, <1>3, <2>1, AfterOneMore
  <1>5. q \o <<a, b>> = w
    BY <1>1, <1>3, Appended
  <1>. QED BY <1>2, <1>4, <1>5

\* An event of a stage, as a call.
LEMMA StageEvent ==
  ASSUME NEW kind \in StageKinds, NEW stage \in Stages, NEW e, e = Event(kind, stage)
  PROVE  e \in Calls /\ e.call = "event" /\ e.kind = kind /\ e.stage = stage /\ e.content = "plain"
  <1>1. kind \in Kinds /\ stage \in MaybeStage
    BY DEF Kinds, MaybeStage
  <1>. QED BY <1>1, EventCall

-----------------------------------------------------------------------------
(* The steps of a run *)

\* A run that is failing owes its recorder nothing.
LEMMA FailingInStep ==
  ASSUME NEW l, LiveInv(l), NEW calls, NEW r, Resting(After(r, calls))
  PROVE  InStep(Failing(l, calls).run, After(r, Failing(l, calls).calls))
  <1>1. Failing(l, calls).run = [l EXCEPT !.at = "failing"] /\ Failing(l, calls).calls = calls
    BY DEF Failing, Step
  <1>2. LiveInv([l EXCEPT !.at = "failing"]) /\ [l EXCEPT !.at = "failing"].at = "failing"
    <2>1. "failing" \in Points
      BY DEF Points
    <2>. QED BY <2>1, MovedTo DEF LiveInv
  <1>. QED BY <1>1, <1>2 DEF InStep

\* A retry after an attempt that is on record.
LEMMA RetryCalls ==
  ASSUME NEW calls \in Seq(Calls), Len(calls) \in 0..4, NEW stage \in Stages, NEW r, AskedFor(After(r, calls))
  PROVE  AskedFor(After(r, Append(calls, Event("model_retry", stage))))
  <1>1. PICK e : e = Event("model_retry", stage)
    OBVIOUS
  <1>2. e \in Calls /\ e.call = "event" /\ e.kind = "model_retry" /\ e.stage = stage /\ e.content = "plain"
    BY <1>1, EventCall DEF Kinds, StageKinds, ModelKinds, MaybeStage
  <1>3. After(r, Append(calls, e)) = Apply(After(r, calls), e)
    BY <1>2, AfterAppend
  <1>. QED BY <1>1, <1>2, <1>3, RetryRests

\* Retry, from calls that leave an attempt on record.
LEMMA RetryInStep ==
  ASSUME NEW l, LiveInv(l), NEW calls \in Seq(Calls), Len(calls) \in 0..4, NEW r, AskedFor(After(r, calls))
  PROVE  InStep(Retry(l, calls).run, After(r, Retry(l, calls).calls))
  <1>1. CASE l.retries < MaxRetries
    <2>1. PICK m : m = [l EXCEPT !.at = "ask", !.retries = @ + 1]
      OBVIOUS
    <2>2. LiveInv(m) /\ m.at = "ask"
      <3>1. "ask" \in Points
        BY DEF Points
      <3>2. l \in Runs /\ l.retries + 1 \in Nat
        BY DEF LiveInv, Runs
      <3>. PICK n \in Nat : n = l.retries + 1
        BY <3>2
      <3>3. m = [l EXCEPT !.at = "ask", !.retries = n]
        BY <2>1
      <3>4. IsAt([l EXCEPT !.at = "ask", !.retries = n], l, "ask")
        BY <3>1, <3>2, Moved
      <3>5. m \in Runs /\ m.at = "ask"
        BY <3>3, <3>4 DEF IsAt
      <3>. QED BY <3>5 DEF LiveInv
    <2>3. Retry(l, calls).run = m /\ Retry(l, calls).calls = Append(calls, Event("model_retry", l.stage))
      BY <1>1, <2>1 DEF Retry, Step
    <2>4. l.stage \in Stages
      BY DEF LiveInv, Runs
    <2>. QED BY <2>2, <2>3, <2>4, RetryCalls DEF InStep, AskedFor, Visiting
  <1>2. CASE ~(l.retries < MaxRetries)
    <2>1. Retry(l, calls) = Failing(l, calls)
      BY <1>2 DEF Retry
    <2>2. Resting(After(r, calls))
      BY DEF AskedFor, Visiting
    <2>. QED BY <2>1, <2>2, FailingInStep
  <1>. QED BY <1>1, <1>2

\* ToolFails, from calls that leave an attempt of a model's stage on record.
LEMMA ToolFailsInStep ==
  ASSUME NEW l, LiveInv(l), NEW calls \in Seq(Calls), Len(calls) \in 0..4, NEW r,
         Visiting(After(r, calls)), l.stage \in ModelStages => AskedFor(After(r, calls))
  PROVE  InStep(ToolFails(l, calls).run, After(r, ToolFails(l, calls).calls))
  <1>1. CASE l.stage \in ModelStages
    <2>1. PICK m : m = [l EXCEPT !.at = "ask"]
      OBVIOUS
    <2>2. LiveInv(m) /\ m.at = "ask"
      <3>1. "ask" \in Points
        BY DEF Points
      <3>. QED BY <2>1, <3>1, MovedTo DEF LiveInv
    <2>3. ToolFails(l, calls).run = m /\ ToolFails(l, calls).calls = Append(calls, Event("model_retry", l.stage))
      BY <1>1, <2>1 DEF ToolFails, Step
    <2>4. l.stage \in Stages
      BY DEF LiveInv, Runs
    <2>. QED BY <1>1, <2>2, <2>3, <2>4, RetryCalls DEF InStep, AskedFor, Visiting
  <1>2. CASE l.stage \notin ModelStages
    <2>1. ToolFails(l, calls) = Failing(l, calls)
      BY <1>2 DEF ToolFails
    <2>2. Resting(After(r, calls))
      BY DEF Visiting
    <2>. QED BY <2>1, <2>2, FailingInStep
  <1>. QED BY <1>1, <1>2

\* BeginRun keeps run and recorder in step.
LEMMA BeginInStep ==
  ASSUME NEW r, Resting(r)
  PROVE  InStep(BeginRun.run, After(r, BeginRun.calls))
  <1>1. PICK a : a = Hook("begin_run", None)
    OBVIOUS
  <1>2. PICK b : b = Hook("run_inputs", None)
    OBVIOUS
  <1>3. PICK c : c = Event("run_started", None)
    OBVIOUS
  <1>4. a \in Calls /\ a.call = "begin_run" /\ b \in Calls /\ b.call = "run_inputs"
    BY <1>1, <1>2, HookCall DEF CallNames, Bodies
  <1>5. c \in Calls /\ c.call = "event" /\ c.kind = "run_started" /\ c.content = "plain"
    BY <1>3, EventCall DEF Kinds, MaybeStage
  <1>6. Resting(Apply(Apply(Apply(r, a), b), c))
    <2>1. Resting(Apply(r, a))
      BY <1>4, RunHookRests
    <2>2. Resting(Apply(Apply(r, a), b))
      BY <1>4, <2>1, VaultHookRests
    <2>. QED BY <1>5, <2>2, RunEventRests
  <1>7. BeginRun.calls = <<a, b, c>> /\ BeginRun.run = [at |-> "next", stage |-> Entry, retries |-> 0, out |-> None]
    BY <1>1, <1>2, <1>3 DEF BeginRun, Step
  <1>8. LiveInv(BeginRun.run) /\ BeginRun.run.at = "next"
    BY <1>7, ScriptAssumption DEF LiveInv, Runs, Points, MaybeStage
  <1>. QED BY <1>4, <1>5, <1>6, <1>7, <1>8, AfterThree DEF InStep

\* StartStage keeps run and recorder in step.
LEMMA StartInStep ==
  ASSUME NEW r, NEW l, InStep(l, r)
  PROVE  InStep(StartStage(l).run, After(r, StartStage(l).calls))
  <1>1. PICK a : a = [Hook("stage_visit", None) EXCEPT !.stage = l.stage]
    OBVIOUS
  <1>2. PICK b : b = Event("stage_started", l.stage)
    OBVIOUS
  <1>3. l.stage \in Stages /\ Resting(r) /\ LiveInv(l)
    BY DEF InStep, LiveInv, Runs
  <1>4. a \in Calls /\ a.call = "stage_visit" /\ a.stage = l.stage
    <2>1. Hook("stage_visit", None) \in Calls /\ Hook("stage_visit", None).call = "stage_visit"
      BY HookCall DEF CallNames, Bodies
    <2>. QED BY <1>1, <1>3, <2>1, CallIn DEF MaybeStage
  <1>5. /\ b \in Calls /\ b.call = "event" /\ b.kind = "stage_started" /\ b.content = "plain"
        /\ b.stage = l.stage
    BY <1>2, <1>3, EventCall DEF Kinds, StageKinds, MaybeStage
  <1>6. Visiting(Apply(Apply(r, a), b))
    BY <1>3, <1>4, <1>5, VisitBegins
  <1>7. /\ StartStage(l).calls = <<a, b>>
        /\ StartStage(l).run = [l EXCEPT !.at = IF l.stage \in ModelStages THEN "ask" ELSE "gate", !.retries = 0]
    BY <1>1, <1>2 DEF StartStage, Step
  <1>8. /\ LiveInv(StartStage(l).run) /\ StartStage(l).run.stage = l.stage
        /\ StartStage(l).run.at = IF l.stage \in ModelStages THEN "ask" ELSE "gate"
    <2>1. PICK at \in {"ask", "gate"} : at = IF l.stage \in ModelStages THEN "ask" ELSE "gate"
      OBVIOUS
    <2>2. StartStage(l).run = [l EXCEPT !.at = at, !.retries = 0]
      BY <1>7, <2>1
    <2>3. at \in Points
      BY DEF Points
    <2>6. l \in Runs /\ 0 \in Nat
      BY <1>3 DEF LiveInv
    <2>7. PICK none \in Nat : none = 0
      OBVIOUS
    <2>8. IsAt([l EXCEPT !.at = at, !.retries = none], l, at)
      BY <2>3, <2>6, Moved
    <2>4. /\ StartStage(l).run \in Runs
          /\ StartStage(l).run.at = at /\ StartStage(l).run.stage = l.stage
      BY <2>2, <2>7, <2>8 DEF IsAt
    <2>5. at # "done"
      OBVIOUS
    <2>. QED BY <2>1, <2>4, <2>5 DEF LiveInv
  <1>9. After(r, StartStage(l).calls) = Apply(Apply(r, a), b)
    BY <1>4, <1>5, <1>7, AfterTwo
  <1>. QED BY <1>6, <1>8, <1>9 DEF InStep, Visiting

\* The model is asked, and the response it gave is filed and announced.
LEMMA AskedCalls ==
  ASSUME NEW r, Visiting(r), NEW q, q = <<Hook("model_call", None), Hook("model_request", None)>>
  PROVE  Awaiting(After(r, q)) /\ q \in Seq(Calls) /\ Len(q) = 2
  <1>1. PICK a : a = Hook("model_call", None)
    OBVIOUS
  <1>2. PICK b : b = Hook("model_request", None)
    OBVIOUS
  <1>3. a \in Calls /\ a.call = "model_call" /\ b \in Calls /\ b.call = "model_request"
    BY <1>1, <1>2, HookCall DEF CallNames, Bodies
  <1>4. Awaiting(Apply(Apply(r, a), b))
    BY <1>3, AskingRests
  <1>. QED BY <1>1, <1>2, <1>3, <1>4, AfterTwo

\* The calls of an attempt that was answered.
LEMMA ToldCalls ==
  ASSUME NEW r, NEW q \in Seq(Calls), Len(q) = 2, Awaiting(After(r, q)), NEW stage \in Stages,
         NEW class \in Bodies, NEW to \in MaybeStage,
         NEW p, p = q \o <<[Hook("model_response", class) EXCEPT !.to = to], Event("model_completed", stage)>>
  PROVE  AskedFor(After(r, p)) /\ p \in Seq(Calls) /\ Len(p) = 4
  <1>1. PICK a : a = [Hook("model_response", class) EXCEPT !.to = to]
    OBVIOUS
  <1>2. PICK b : b = Event("model_completed", stage)
    OBVIOUS
  <1>3. a \in Calls /\ a.call = "model_response"
    <2>1. Hook("model_response", class) \in Calls /\ Hook("model_response", class).call = "model_response"
      BY HookCall DEF CallNames
    <2>. QED BY <1>1, <2>1, CallTo
  <1>4. b \in Calls /\ b.call = "event" /\ b.kind = "model_completed" /\ b.content = "plain" /\ b.stage = stage
    BY <1>2, StageEvent DEF StageKinds, ModelKinds
  <1>5. AskedFor(Apply(Apply(After(r, q), a), b))
    <2>1. Awaiting(Apply(After(r, q), a))
      BY <1>3, VaultHookRests
    <2>. QED BY <1>4, <2>1, CompletedRests
  <1>6. /\ After(r, q \o <<a, b>>) = Apply(Apply(After(r, q), a), b)
        /\ q \o <<a, b>> \in Seq(Calls) /\ Len(q \o <<a, b>>) = 4
    BY <1>3, <1>4, AfterTwoMore
  <1>. QED BY <1>1, <1>2, <1>5, <1>6

\* Ask keeps run and recorder in step, whatever the model answers.
LEMMA AskInStep ==
  ASSUME NEW r, NEW l, InStep(l, r), l.at = "ask", NEW answer \in Answers(l.stage)
  PROVE  InStep(Ask(l, answer).run, After(r, Ask(l, answer).calls))
  <1>0. l \in Runs /\ l.stage \in Stages /\ LiveInv(l) /\ Visiting(r)
    BY DEF InStep, LiveInv, Runs
  <1>1. /\ answer.class \in Bodies /\ answer.to \in MaybeStage
        /\ answer.class \in {"final", "invalid", "tool", "silent", "error"}
        /\ answer.class = "final" /\ l.stage \notin Exits => answer.to \in Edges[l.stage]
    BY <1>0, ScriptAssumption DEF Answers, Bodies, MaybeStage
  <1>2. PICK q : q = <<Hook("model_call", None), Hook("model_request", None)>>
    OBVIOUS
  <1>3. Awaiting(After(r, q)) /\ q \in Seq(Calls) /\ Len(q) = 2
    BY <1>0, <1>2, AskedCalls
  <1>4. PICK p : p = q \o <<[Hook("model_response", answer.class) EXCEPT !.to = answer.to],
                            Event("model_completed", l.stage)>>
    OBVIOUS
  <1>5. AskedFor(After(r, p)) /\ p \in Seq(Calls) /\ Len(p) = 4
    BY <1>0, <1>1, <1>3, <1>4, ToldCalls
  <1>6. CASE answer.class = "final"
    <2>1. PICK m : m = [l EXCEPT !.at = "done", !.out = answer.to]
      OBVIOUS
    <2>2. Ask(l, answer).run = m /\ Ask(l, answer).calls = p
      BY <1>2, <1>4, <1>6, <2>1 DEF Ask, Step
    <2>3. "done" \in Points
      BY DEF Points
    <2>4. m \in Runs /\ m.at = "done" /\ m.stage = l.stage /\ m.out = answer.to
      <3>. PICK x \in MaybeStage : x = answer.to
        BY <1>1
      <3>1. m = [l EXCEPT !.at = "done", !.out = x]
        BY <2>1
      <3>2. /\ IsAt([l EXCEPT !.at = "done", !.out = x], l, "done")
            /\ [l EXCEPT !.at = "done", !.out = x].out = x
        BY <1>0, <2>3, MovedOut
      <3>. QED BY <3>1, <3>2 DEF IsAt
    <2>5. LiveInv(m)
      BY <1>1, <1>6, <2>4 DEF LiveInv
    <2>. QED BY <1>5, <2>2, <2>4, <2>5 DEF InStep, AskedFor, Visiting
  <1>7. CASE answer.class = "invalid"
    <2>1. Ask(l, answer) = Retry(l, p)
      BY <1>2, <1>4, <1>7 DEF Ask
    <2>2. Len(p) \in 0..4
      BY <1>5
    <2>. QED BY <1>0, <1>5, <2>1, <2>2, RetryInStep
  <1>8. CASE answer.class = "tool"
    <2>1. PICK m : m = [l EXCEPT !.at = "gate"]
      OBVIOUS
    <2>2. Ask(l, answer).run = m /\ Ask(l, answer).calls = p
      BY <1>2, <1>4, <1>8, <2>1 DEF Ask, Step
    <2>3. "gate" \in Points
      BY DEF Points
    <2>4. m \in Runs /\ m.at = "gate"
      BY <1>0, <2>1, <2>3, MovedTo
    <2>5. LiveInv(m)
      BY <2>4 DEF LiveInv
    <2>. QED BY <1>5, <2>2, <2>4, <2>5 DEF InStep, AskedFor, Visiting
  <1>9. CASE answer.class = "silent"
    <2>1. PICK e : e = Event("model_delta", l.stage)
      OBVIOUS
    <2>2. e \in Calls /\ e.call = "event" /\ e.kind = "model_delta" /\ e.content = "plain" /\ e.stage = l.stage
      BY <1>0, <2>1, StageEvent DEF StageKinds, ModelKinds
    <2>3. After(r, Append(q, e)) = Apply(After(r, q), e)
      <3>1. 2 \in 0..4
        OBVIOUS
      <3>. QED BY <1>3, <2>2, <3>1, AfterOneMore
    <2>4. AskedFor(After(r, Append(q, e)))
      BY <1>0, <1>3, <2>2, <2>3, DeltaRests
    <2>5. PICK s : s = Append(q, e)
      OBVIOUS
    <2>6. s \in Seq(Calls) /\ Len(s) = 3
      <3>1. 2 \in 0..4 /\ 2 + 1 = 3
        OBVIOUS
      <3>. QED BY <1>3, <2>2, <2>5, <3>1, AfterOneMore
    <2>7. Ask(l, answer) = Retry(l, s)
      BY <1>2, <1>9, <2>1, <2>5 DEF Ask
    <2>8. Len(s) \in 0..4
      BY <2>6
    <2>. QED BY <1>0, <2>4, <2>5, <2>6, <2>7, <2>8, RetryInStep
  <1>10. CASE answer.class = "error"
    <2>1. Ask(l, answer) = Failing(l, q)
      BY <1>2, <1>10 DEF Ask
    <2>2. Resting(After(r, q))
      BY <1>3 DEF Awaiting, Visiting
    <2>. QED BY <1>0, <2>1, <2>2, FailingInStep
  <1>. QED BY <1>1, <1>6, <1>7, <1>8, <1>9, <1>10

\* Gate keeps run and recorder in step, whatever the verdict.
LEMMA GateInStep ==
  ASSUME NEW r, NEW l, InStep(l, r), l.at = "gate", NEW answer \in Verdicts
  PROVE  InStep(Gate(l, answer).run, After(r, Gate(l, answer).calls))
  <1>0. /\ l \in Runs /\ l.stage \in Stages /\ LiveInv(l) /\ Visiting(r)
        /\ l.stage \in ModelStages => AskedFor(r)
    BY DEF InStep, LiveInv, Runs
  <1>1. PICK denied \in BOOLEAN : denied = (answer # "allowed")
    OBVIOUS
  <1>2. PICK a : a = [Event("policy_checked", l.stage) EXCEPT !.denied = denied]
    OBVIOUS
  <1>3. PICK b : b = Hook("policy_evaluation", IF denied THEN "denied" ELSE "allowed")
    OBVIOUS
  <1>4. a \in Calls /\ a.call = "event" /\ a.kind = "policy_checked" /\ a.content = "plain" /\ a.stage = l.stage
    <2>1. PICK e : e = Event("policy_checked", l.stage)
      OBVIOUS
    <2>2. e \in Calls /\ e.call = "event" /\ e.kind = "policy_checked" /\ e.content = "plain" /\ e.stage = l.stage
      BY <1>0, <2>1, StageEvent DEF StageKinds
    <2>. QED BY <1>2, <2>1, <2>2, CallDenied
  <1>5. b \in Calls /\ b.call = "policy_evaluation"
    BY <1>3, HookCall DEF CallNames, Bodies
  <1>6. PICK p : p = <<a, b>>
    OBVIOUS
  <1>7. p \in Seq(Calls) /\ Len(p) = 2 /\ After(r, p) = Apply(Apply(r, a), b)
    BY <1>4, <1>5, <1>6, AfterTwo
  <1>8. Visiting(After(r, p)) /\ (l.stage \in ModelStages => AskedFor(After(r, p)))
    <2>1. Visiting(Apply(r, a)) /\ (l.stage \in ModelStages => AskedFor(Apply(r, a)))
      BY <1>0, <1>4, PolicyEventRests
    <2>. QED BY <1>5, <1>7, <2>1, VaultHookRests
  <1>9. p = <<[Event("policy_checked", l.stage) EXCEPT !.denied = (answer # "allowed")],
              Hook("policy_evaluation", IF answer # "allowed" THEN "denied" ELSE "allowed")>>
    BY <1>1, <1>2, <1>3, <1>6
  <1>10. CASE answer = "allowed"
    <2>1. PICK m : m = [l EXCEPT !.at = "call"]
      OBVIOUS
    <2>2. Gate(l, answer).run = m /\ Gate(l, answer).calls = p
      BY <1>9, <1>10, <2>1 DEF Gate, Step
    <2>3. "call" \in Points
      BY DEF Points
    <2>4. m \in Runs /\ m.at = "call" /\ m.stage = l.stage
      BY <1>0, <2>1, <2>3, MovedTo
    <2>5. LiveInv(m)
      BY <2>4 DEF LiveInv
    <2>. QED BY <1>8, <2>2, <2>4, <2>5 DEF InStep, Visiting
  <1>11. CASE answer = "denied"
    <2>1. PICK e : e = Event("policy_denied", l.stage)
      OBVIOUS
    <2>2. e \in Calls /\ e.call = "event" /\ e.kind = "policy_denied" /\ e.content = "plain" /\ e.stage = l.stage
      BY <1>0, <2>1, StageEvent DEF StageKinds
    <2>3. PICK s : s = Append(p, e)
      OBVIOUS
    <2>4. After(r, Append(p, e)) = Apply(After(r, p), e)
      <3>1. 2 \in 0..4
        OBVIOUS
      <3>. QED BY <1>7, <2>2, <3>1, AfterOneMore
    <2>5. s \in Seq(Calls) /\ Len(s) = 3
      <3>1. 2 \in 0..4 /\ 2 + 1 = 3
        OBVIOUS
      <3>. QED BY <1>7, <2>2, <2>3, <3>1, AfterOneMore
    <2>6. Visiting(After(r, s)) /\ (l.stage \in ModelStages => AskedFor(After(r, s)))
      BY <1>0, <1>8, <2>2, <2>3, <2>4, PolicyEventRests
    <2>7. Gate(l, answer) = ToolFails(l, s)
      BY <1>9, <1>11, <2>1, <2>3 DEF Gate
    <2>8. Len(s) \in 0..4
      BY <2>5
    <2>. QED BY <1>0, <2>5, <2>6, <2>7, <2>8, ToolFailsInStep
  <1>12. CASE answer = "unavailable"
    <2>1. Gate(l, answer) = Failing(l, p)
      BY <1>9, <1>12 DEF Gate
    <2>2. Resting(After(r, p))
      BY <1>8 DEF Visiting
    <2>. QED BY <1>0, <2>1, <2>2, FailingInStep
  <1>. QED BY <1>10, <1>11, <1>12 DEF Verdicts

\* Where a run is after a tool has answered.
Returned(l, x) == [l EXCEPT !.at = IF l.stage \in ModelStages THEN "ask" ELSE "done", !.out = x]

\* A run a tool has returned to is a run.
LEMMA ReturnedRun ==
  ASSUME NEW l, LiveInv(l), NEW x \in MaybeStage, l.stage \notin ModelStages \cup Exits => x \in Edges[l.stage],
         NEW m, m = Returned(l, x)
  PROVE  LiveInv(m) /\ m.stage = l.stage /\ m.at = IF l.stage \in ModelStages THEN "ask" ELSE "done"
  <1>1. l \in Runs
    BY DEF LiveInv
  <1>2. CASE l.stage \in ModelStages
    <2>1. m = [l EXCEPT !.at = "ask", !.out = x] /\ "ask" \in Points
      BY <1>2 DEF Points, Returned
    <2>2. m \in Runs /\ m.at = "ask" /\ m.stage = l.stage
      BY <1>1, <2>1 DEF Runs
    <2>. QED BY <1>2, <2>2 DEF LiveInv
  <1>3. CASE l.stage \notin ModelStages
    <2>1. m = [l EXCEPT !.at = "done", !.out = x] /\ "done" \in Points
      BY <1>3 DEF Points, Returned
    <2>2. m \in Runs /\ m.at = "done" /\ m.stage = l.stage /\ m.out = x
      BY <1>1, <2>1 DEF Runs
    <2>. QED BY <1>3, <2>2 DEF LiveInv
  <1>. QED BY <1>2, <1>3

\* CallTool keeps run and recorder in step, whatever the tool does and wherever its
\* arguments hold a secret.
LEMMA CallInStep ==
  ASSUME NEW r, NEW l, InStep(l, r), l.at = "call", NEW result \in Results(l.stage), NEW content \in Contents
  PROVE  InStep(CallTool(l, result, content).run, After(r, CallTool(l, result, content).calls))
  <1>0. /\ l \in Runs /\ l.stage \in Stages /\ LiveInv(l) /\ Visiting(r)
        /\ l.stage \in ModelStages => AskedFor(r)
    BY DEF InStep, LiveInv, Runs
  <1>1. /\ result.to \in MaybeStage /\ result.class \in {"ok", "error"}
        /\ result.class = "ok" /\ l.stage \notin ModelStages \cup Exits => result.to \in Edges[l.stage]
    BY <1>0, ScriptAssumption DEF Results, MaybeStage
  <1>2. PICK a : a = Hook("tool_call", None)
    OBVIOUS
  <1>3. PICK b : b = [Event("tool_call_started", l.stage) EXCEPT !.content = content]
    OBVIOUS
  <1>4. a \in Calls /\ a.call = "tool_call"
    BY <1>2, HookCall DEF CallNames, Bodies
  <1>5. b \in Calls /\ b.call = "event" /\ b.kind = "tool_call_started" /\ b.stage = l.stage
    <2>1. PICK e : e = Event("tool_call_started", l.stage)
      OBVIOUS
    <2>2. e \in Calls /\ e.call = "event" /\ e.kind = "tool_call_started" /\ e.stage = l.stage
      BY <1>0, <2>1, StageEvent DEF StageKinds, ToolKinds
    <2>. QED BY <1>3, <2>1, <2>2, CallHolding
  <1>6. PICK q : q = <<a, b>>
    OBVIOUS
  <1>7. q \in Seq(Calls) /\ Len(q) = 2 /\ After(r, q) = Apply(Apply(r, a), b)
    BY <1>4, <1>5, <1>6, AfterTwo
  <1>8. Calling(After(r, q)) /\ (l.stage \in ModelStages => AskedFor(After(r, q)))
    BY <1>0, <1>4, <1>5, <1>7, ToolBegins
  <1>9. CASE result.class = "ok"
    <2>1. PICK c : c = [Hook("tool_result", "ok") EXCEPT !.to = result.to]
      OBVIOUS
    <2>2. PICK d : d = Event("tool_call_completed", l.stage)
      OBVIOUS
    <2>3. c \in Calls /\ c.call = "tool_result"
      <3>1. Hook("tool_result", "ok") \in Calls /\ Hook("tool_result", "ok").call = "tool_result"
        BY HookCall DEF CallNames, Bodies
      <3>. QED BY <1>1, <2>1, <3>1, CallTo
    <2>4. d \in Calls /\ d.call = "event" /\ d.kind = "tool_call_completed" /\ d.content = "plain" /\ d.stage = l.stage
      BY <1>0, <2>2, StageEvent DEF StageKinds, ToolKinds
    <2>5. Visiting(Apply(Apply(After(r, q), c), d))
      BY <1>0, <1>8, <2>3, <2>4, ToolEnds
    <2>6. After(r, q \o <<c, d>>) = Apply(Apply(After(r, q), c), d)
      BY <1>7, <2>3, <2>4, AfterTwoMore
    <2>7. PICK x : x = result.to
      OBVIOUS
    <2>8. PICK m : m = Returned(l, x)
      OBVIOUS
    <2>9. CallTool(l, result, content).run = m /\ CallTool(l, result, content).calls = q \o <<c, d>>
      BY <1>2, <1>3, <1>6, <1>9, <2>1, <2>2, <2>7, <2>8 DEF CallTool, Step, Returned
    <2>10. x \in MaybeStage /\ (l.stage \notin ModelStages \cup Exits => x \in Edges[l.stage])
      BY <1>1, <1>9, <2>7
    <2>11. LiveInv(m) /\ m.stage = l.stage /\ m.at = IF l.stage \in ModelStages THEN "ask" ELSE "done"
      <3>1. LiveInv(l)
        BY <1>0
      <3>. QED BY <2>8, <2>10, <3>1, ReturnedRun
    <2>12. m.at \notin {"gate", "call"}
      BY <2>11
    <2>. QED BY <2>5, <2>6, <2>9, <2>11, <2>12 DEF InStep, Visiting
  <1>10. CASE result.class = "error"
    <2>1. PICK c : c = Hook("tool_error", "error")
      OBVIOUS
    <2>2. PICK d : d = Event("tool_call_failed", l.stage)
      OBVIOUS
    <2>3. c \in Calls /\ c.call = "tool_error"
      BY <2>1, HookCall DEF CallNames, Bodies
    <2>4. d \in Calls /\ d.call = "event" /\ d.kind = "tool_call_failed" /\ d.content = "plain" /\ d.stage = l.stage
      <3>1. "tool_call_failed" \in StageKinds /\ l.stage \in Stages
        BY <1>0 DEF StageKinds, ToolKinds
      <3>. QED BY <2>2, <3>1, StageEvent
    <2>5. /\ Visiting(Apply(Apply(After(r, q), c), d))
          /\ l.stage \in ModelStages => AskedFor(Apply(Apply(After(r, q), c), d))
      BY <1>0, <1>8, <2>3, <2>4, ToolEnds
    <2>6. PICK s : s = q \o <<c, d>>
      OBVIOUS
    <2>7. After(r, s) = Apply(Apply(After(r, q), c), d) /\ s \in Seq(Calls) /\ Len(s) = 4
      BY <1>7, <2>3, <2>4, <2>6, AfterTwoMore
    <2>8. Len(s) \in 0..4
      BY <1>7, <2>7
    <2>9. CallTool(l, result, content) = ToolFails(l, s)
      BY <1>2, <1>3, <1>6, <1>10, <2>1, <2>2, <2>6 DEF CallTool
    <2>. QED BY <1>0, <2>5, <2>7, <2>8, <2>9, ToolFailsInStep
  <1>. QED BY <1>1, <1>9, <1>10

\* CompleteStage keeps run and recorder in step.
LEMMA CompleteInStep ==
  ASSUME NEW r, NEW l, InStep(l, r), l.at = "done"
  PROVE  InStep(CompleteStage(l).run, After(r, CompleteStage(l).calls))
  <1>0. l \in Runs /\ l.stage \in Stages /\ LiveInv(l) /\ Visiting(r) /\ l.out \in MaybeStage
    BY DEF InStep, LiveInv, Runs
  <1>1. PICK a : a = [Event("stage_completed", l.stage) EXCEPT !.to = l.out]
    OBVIOUS
  <1>2. a \in Calls /\ a.call = "event" /\ a.kind = "stage_completed" /\ a.content = "plain" /\ a.stage = l.stage
    <2>1. PICK e : e = Event("stage_completed", l.stage)
      OBVIOUS
    <2>2. e \in Calls /\ e.call = "event" /\ e.kind = "stage_completed" /\ e.content = "plain" /\ e.stage = l.stage
      BY <1>0, <2>1, StageEvent DEF StageKinds
    <2>. QED BY <1>0, <1>1, <2>1, <2>2, CallTo
  <1>3. Visiting(Apply(r, a))
    BY <1>0, <1>2, StageCompletedRests
  <1>4. CASE l.stage \in Exits
    <2>1. PICK b : b = Event("run_completed", None)
      OBVIOUS
    <2>2. b \in Calls /\ b.call = "event" /\ b.kind = "run_completed" /\ b.content = "plain"
      BY <2>1, EventCall DEF Kinds, MaybeStage
    <2>3. Resting(Apply(Apply(r, a), b))
      BY <1>3, <2>2, RunEventRests DEF Visiting
    <2>4. CompleteStage(l).run = [l EXCEPT !.at = "complete"] /\ CompleteStage(l).calls = <<a, b>>
      BY <1>1, <1>4, <2>1 DEF CompleteStage, Step
    <2>5. "complete" \in Points
      BY DEF Points, Ended
    <2>6. LiveInv(CompleteStage(l).run) /\ CompleteStage(l).run.at = "complete"
      BY <1>0, <2>4, <2>5, MovedTo DEF LiveInv
    <2>7. After(r, CompleteStage(l).calls) = Apply(Apply(r, a), b)
      BY <1>2, <2>2, <2>4, AfterTwo
    <2>. QED BY <2>3, <2>6, <2>7 DEF InStep
  <1>5. CASE l.stage \notin Exits
    <2>0. l.out \in Edges[l.stage] /\ l.out \in Stages
      BY <1>0, <1>5, ScriptAssumption DEF LiveInv
    <2>1. PICK b : b = Hook("transition_evaluation", None)
      OBVIOUS
    <2>2. b \in Calls /\ b.call = "transition_evaluation"
      BY <2>1, HookCall DEF CallNames, Bodies
    <2>3. PICK c : c = [Event("transition_selected", l.stage) EXCEPT !.to = l.out]
      OBVIOUS
    <2>4. /\ c \in Calls /\ c.call = "event" /\ c.kind = "transition_selected" /\ c.content = "plain"
          /\ c.stage = l.stage /\ c.to = l.out
      <3>1. PICK e : e = Event("transition_selected", l.stage)
        OBVIOUS
      <3>2. e \in Calls /\ e.call = "event" /\ e.kind = "transition_selected" /\ e.content = "plain" /\ e.stage = l.stage
        BY <1>0, <3>1, StageEvent DEF StageKinds
      <3>. QED BY <1>0, <2>3, <3>1, <3>2, CallTo
    <2>5. Visiting(Apply(Apply(Apply(r, a), b), c))
      BY <1>0, <1>3, <2>0, <2>2, <2>4, TransitionRests
    <2>6. CompleteStage(l).run = [l EXCEPT !.at = "next", !.stage = l.out] /\ CompleteStage(l).calls = <<a, b, c>>
      BY <1>1, <1>5, <2>1, <2>3 DEF CompleteStage, Step
    <2>7. CompleteStage(l).run \in Runs /\ CompleteStage(l).run.at = "next"
      <3>1. "next" \in Points
        BY DEF Points
      <3>. QED BY <1>0, <2>0, <2>6, <3>1 DEF Runs
    <2>8. LiveInv(CompleteStage(l).run)
      BY <2>7 DEF LiveInv
    <2>9. After(r, CompleteStage(l).calls) = Apply(Apply(Apply(r, a), b), c)
      BY <1>2, <2>2, <2>4, <2>6, AfterThree
    <2>. QED BY <2>5, <2>7, <2>8, <2>9 DEF InStep, Visiting
  <1>. QED BY <1>4, <1>5

\* Fail keeps run and recorder in step.
LEMMA FailInStep ==
  ASSUME NEW r, NEW l, InStep(l, r), NEW aborted \in BOOLEAN
  PROVE  InStep(Fail(l, aborted).run, After(r, Fail(l, aborted).calls))
  <1>0. l \in Runs /\ Resting(r)
    BY DEF InStep, LiveInv
  <1>1. CASE aborted
    <2>1. Fail(l, aborted).run = [l EXCEPT !.at = "interrupted"] /\ Fail(l, aborted).calls = <<>>
      BY <1>1 DEF Fail, Step
    <2>2. "interrupted" \in Points
      BY DEF Points, Ended
    <2>3. Fail(l, aborted).run \in Runs /\ Fail(l, aborted).run.at = "interrupted"
      BY <1>0, <2>1, <2>2, MovedTo
    <2>. QED BY <1>0, <2>1, <2>3, AfterNone DEF InStep, LiveInv
  <1>2. CASE ~aborted
    <2>1. PICK a : a = Hook("run_error", None)
      OBVIOUS
    <2>2. PICK b : b = Event("run_failed", None)
      OBVIOUS
    <2>3. a \in Calls /\ a.call = "run_error"
      BY <2>1, HookCall DEF CallNames, Bodies
    <2>4. b \in Calls /\ b.call = "event" /\ b.kind = "run_failed" /\ b.content = "plain"
      <3>1. "run_failed" \in Kinds /\ None \in MaybeStage
        BY DEF Kinds, MaybeStage
      <3>2. /\ Event("run_failed", None) \in Calls /\ Event("run_failed", None).call = "event"
            /\ Event("run_failed", None).kind = "run_failed"
            /\ Event("run_failed", None).content = "plain"
        BY <3>1, EventCall
      <3>. QED BY <2>2, <3>2
    <2>5. Resting(Apply(Apply(r, a), b))
      <3>1. Resting(Apply(r, a))
        BY <1>0, <2>3, RunHookRests
      <3>. QED BY <2>4, <3>1, RunEventRests
    <2>6. Fail(l, aborted).run = [l EXCEPT !.at = "failed"] /\ Fail(l, aborted).calls = <<a, b>>
      BY <1>2, <2>1, <2>2 DEF Fail, Step
    <2>7. "failed" \in Points
      BY DEF Points, Ended
    <2>8. Fail(l, aborted).run \in Runs /\ Fail(l, aborted).run.at = "failed"
      BY <1>0, <2>6, <2>7, MovedTo
    <2>9. After(r, Fail(l, aborted).calls) = Apply(Apply(r, a), b)
      BY <2>3, <2>4, <2>6, AfterTwo
    <2>. QED BY <2>5, <2>8, <2>9 DEF InStep, LiveInv
  <1>. QED BY <1>1, <1>2

-----------------------------------------------------------------------------
(* The run and its recorder *)

\* The run that is recorded is in step with its recorder.
RunInv == InStep(live, rec)

\* A recorder that has just been made is at rest.
LEMMA RunInit == MCInit => RunInv
  <1>. SUFFICES ASSUME MCInit PROVE RunInv
    OBVIOUS
  <1>1. PICK c \in Config : rec = New(c)
    BY LedgerAssumption DEF MCInit, Init
  <1>2. /\ DOMAIN rec = RecorderFields /\ rec.config = c /\ rec.exceeded = FALSE
        /\ rec.live = 0 /\ rec.visits = 0 /\ rec.models = 0 /\ rec.tools = 0 /\ rec.current = 0
        /\ rec.heldVisit = 0 /\ rec.heldModel = 0 /\ rec.heldTool = 0
        /\ rec.events = <<>> /\ rec.vault = <<>> /\ rec.pendingVisits = <<>>
        /\ rec.pendingModels = <<>> /\ rec.lastModel = <<>> /\ rec.pendingTools = <<>>
        /\ rec.openTools = <<>> /\ rec.pendingTransitions = <<>>
    BY <1>1 DEF New, RecorderFields
  <1>3. \A id : At(<<>>, id) = <<>>
    BY DEF At
  <1>4. <<>> \in Seq(SoundRecord) /\ <<>> \in Seq(KeptRecord) /\ <<>> \in Seq(Ids) /\ <<>> \in Seq({"candidates"})
    BY EmptySeq
  <1>5. Typed(rec)
    <2>1. rec.events \in Seq(SoundRecord) /\ rec.vault \in Seq(KeptRecord)
      BY <1>2, <1>4
    <2>2. \A s \in Stages : At(rec.pendingVisits, s) \in Seq(Ids)
      BY <1>2, <1>3, <1>4
    <2>3. \A v \in Nat : At(rec.pendingModels, v) \in Seq(Ids) /\ At(rec.lastModel, v) \in Seq(Ids)
      BY <1>2, <1>3, <1>4
    <2>4. \A v \in Nat : At(rec.pendingTools, v) \in Seq(Ids) /\ At(rec.openTools, v) \in Seq(Ids)
      BY <1>2, <1>3, <1>4
    <2>5. \A v \in Nat : At(rec.pendingTransitions, v) \in Seq({"candidates"})
      BY <1>2, <1>3, <1>4
    <2>6. /\ rec.config \in Config /\ rec.live \in Nat /\ rec.visits \in Nat /\ rec.models \in Nat
          /\ rec.tools \in Nat /\ rec.current \in Nat /\ rec.heldVisit \in Nat
          /\ rec.heldModel \in Nat /\ rec.heldTool \in Nat
      BY <1>2
    <2>. QED BY <2>1, <2>2, <2>3, <2>4, <2>5, <2>6 DEF Typed
  <1>6. DOMAIN <<>> = {}
    OBVIOUS
  <1>7. Filed(rec)
    BY <1>2, <1>3, <1>6 DEF Filed
  <1>8. LedgerInv(rec)
    BY <1>2, <1>5, <1>7 DEF LedgerInv, Well
  <1>9. Rest(rec)
    BY <1>2, <1>3 DEF Rest
  <1>10. live = [at |-> "off", stage |-> Entry, retries |-> 0, out |-> None]
    BY DEF MCInit
  <1>11. LiveInv(live) /\ live.at = "off"
    BY <1>10, ScriptAssumption DEF LiveInv, Runs, Points, MaybeStage
  <1>. QED BY <1>8, <1>9, <1>11 DEF RunInv, InStep, Resting

\* Finishing changes a flag.
LEMMA FinishRests ==
  ASSUME NEW r, Resting(r), NEW s, s = [r EXCEPT !.finished = TRUE]
  PROVE  /\ Resting(s) /\ (Visiting(r) => Visiting(s)) /\ (AskedFor(r) => AskedFor(s))
         /\ s.exceeded = r.exceeded
  <1>1. DOMAIN r = RecorderFields
    BY DEF Resting, LedgerInv
  <1>2. Changes(r, s, {"finished"}) /\ Changes(r, s, {"begun", "finished", "dropped"})
    BY <1>1 DEF Changes, RecorderFields
  <1>3. LedgerInv(s) /\ s.exceeded = r.exceeded /\ Grows(r, s)
    BY <1>2, SameWell DEF Resting
  <1>4. /\ s.heldVisit = r.heldVisit /\ s.current = r.current /\ s.pendingVisits = r.pendingVisits
        /\ s.pendingTools = r.pendingTools /\ s.heldModel = r.heldModel /\ s.config = r.config
        /\ s.pendingModels = r.pendingModels /\ s.lastModel = r.lastModel
    BY <1>2 DEF Changes, RecorderFields
  <1>5. Complete(s) <=> Complete(r)
    BY <1>4 DEF Complete, VaultEnabled
  <1>6. Rest(r) => Rest(s)
    BY <1>3, <1>4, <1>5 DEF Rest, Grows
  <1>7. Asked(r) <=> Asked(s)
    BY <1>4 DEF Asked
  <1>. QED BY <1>3, <1>4, <1>6, <1>7 DEF Resting, Visiting, AskedFor

\* Every step keeps run and recorder in step.
LEMMA RunNext == RunInv /\ [MCNext]_mcVars => RunInv'
  <1>. SUFFICES ASSUME RunInv, [MCNext]_mcVars PROVE RunInv'
    OBVIOUS
  <1>1. ASSUME NEW step, Advance(step), InStep(step.run, After(rec, step.calls))
        PROVE  RunInv'
    BY <1>1 DEF Advance, Record, RunInv
  <1>2. CASE UNCHANGED <<rec, live>>
    BY <1>2 DEF RunInv
  <1>3. CASE RunBegins
    BY <1>1, <1>3, BeginInStep DEF RunBegins, RunInv, InStep
  <1>4. CASE RunVisits
    BY <1>1, <1>4, StartInStep DEF RunVisits, RunInv
  <1>5. CASE RunAsks
    BY <1>1, <1>5, AskInStep DEF RunAsks, RunInv
  <1>6. CASE RunIsGated
    BY <1>1, <1>6, GateInStep DEF RunIsGated, RunInv
  <1>7. CASE RunCalls
    BY <1>1, <1>7, CallInStep DEF RunCalls, RunInv
  <1>8. CASE RunLeavesStage
    BY <1>1, <1>8, CompleteInStep DEF RunLeavesStage, RunInv
  <1>9. CASE RunFails
    BY <1>1, <1>9, FailInStep DEF RunFails, RunInv
  <1>10. CASE RunAborted
    BY <1>1, <1>10, FailInStep DEF RunAborted, RunInv
  <1>11. CASE RunFinishes
    <2>1. live' = live /\ (rec' = rec \/ rec' = [rec EXCEPT !.finished = TRUE])
      BY <1>11 DEF RunFinishes, FinishRun
    <2>2. CASE rec' = rec
      BY <2>1, <2>2, <1>2
    <2>3. CASE rec' = [rec EXCEPT !.finished = TRUE]
      <3>1. /\ Resting(rec) /\ LiveInv(live)
            /\ live.at \in {"ask", "gate", "call", "done"} => Visiting(rec)
            /\ live.at \in {"gate", "call"} /\ live.stage \in ModelStages => AskedFor(rec)
        BY DEF RunInv, InStep
      <3>2. Resting(rec') /\ (Visiting(rec) => Visiting(rec')) /\ (AskedFor(rec) => AskedFor(rec'))
        BY <2>3, <3>1, FinishRests
      <3>. QED BY <2>1, <3>1, <3>2 DEF RunInv, InStep
    <2>. QED BY <2>1, <2>2, <2>3
  <1>12. CASE Rewrite \/ Replays \/ Publishes
    BY <1>2, <1>12 DEF Rewrite, Replays, Publishes
  <1>13. CASE UNCHANGED mcVars
    BY <1>2, <1>13 DEF mcVars, vars
  <1>. QED BY <1>3, <1>4, <1>5, <1>6, <1>7, <1>8, <1>9, <1>10, <1>11, <1>12, <1>13 DEF MCNext

-----------------------------------------------------------------------------
(* The archive *)

\* The archive holds what the finished recorder held, with its index.
Archived ==
  /\ ~rec.exceeded /\ Len(rec.events) <= MaxEvents /\ rec.config.names # "secret"
  /\ \E status \in Ended :
       archive = [entries |-> BuildEntries(rec, status), index |-> Index(BuildEntries(rec, status))]

\* It is held as it was written, or rewritten once.
HeldOrForged ==
  held = archive \/ \E e \in Forgeries(archive.entries) :
                      held.entries = e /\ held.index \in {Index(e), archive.index}

\* What there is once a run is archived.
ArchiveInv == outcome = "archived" => rec.finished /\ Archived /\ HeldOrForged

\* Nothing is archived at first.
LEMMA ArchiveInit == MCInit => ArchiveInv
  BY DEF MCInit, Init, ArchiveInv

\* The archive is written once, from a recorder that is finished then, and rewritten
\* only from what was written.
LEMMA ArchiveNext == RunInv /\ ArchiveInv /\ [MCNext]_mcVars => ArchiveInv'
  <1>. SUFFICES ASSUME RunInv, ArchiveInv, [MCNext]_mcVars PROVE ArchiveInv'
    OBVIOUS
  <1>1. ASSUME NEW calls, Record(calls) PROVE ArchiveInv'
    BY <1>1 DEF Record, ArchiveInv
  <1>2. CASE RunBegins \/ RunVisits \/ RunAsks \/ RunIsGated \/ RunCalls \/ RunLeavesStage \/ RunFails \/ RunAborted
    BY <1>1, <1>2 DEF RunBegins, RunVisits, RunAsks, RunIsGated, RunCalls, RunLeavesStage, RunFails, RunAborted, Advance
  <1>3. CASE RunFinishes
    <2>1. CASE outcome' = "archived"
      <3>1. /\ rec' = [rec EXCEPT !.finished = TRUE] /\ ~rec.exceeded /\ ~(Len(rec.events) > MaxEvents)
            /\ rec.config.names # "secret" /\ held' = archive' /\ live.at \in Ended
            /\ archive' = [entries |-> BuildEntries(rec, live.at), index |-> Index(BuildEntries(rec, live.at))]
        BY <1>3, <2>1 DEF RunFinishes, FinishRun
      <3>2. DOMAIN rec = RecorderFields
        BY DEF RunInv, InStep, Resting, LedgerInv
      <3>3. /\ rec'.finished /\ rec'.exceeded = rec.exceeded /\ rec'.events = rec.events
            /\ rec'.config = rec.config /\ rec'.vault = rec.vault /\ rec'.dropped = rec.dropped
        BY <3>1, <3>2 DEF RecorderFields
      <3>4. BuildEntries(rec', live.at) = BuildEntries(rec, live.at)
        BY <3>3 DEF BuildEntries, SealVaultEntries, SealedRecords, Manifest, VaultEnabled
      <3>5. Len(rec.events) <= MaxEvents
        <4>1. Len(rec.events) \in Nat
          <5>1. rec.events \in Seq(SoundRecord)
            BY <3>1 DEF RunInv, InStep, Resting, LedgerInv, Well, Typed
          <5>. QED BY <5>1, LenProperties
        <4>. QED BY <3>1, <4>1, LedgerAssumption
      <3>6. Archived'
        BY <3>1, <3>3, <3>4, <3>5 DEF Archived
      <3>. QED BY <3>1, <3>3, <3>6 DEF ArchiveInv, HeldOrForged
    <2>. QED BY <2>1 DEF ArchiveInv
  <1>4. CASE Rewrite
    <2>1. /\ outcome = "archived" /\ held = archive /\ rec' = rec /\ archive' = archive /\ outcome' = outcome
          /\ \E e \in Forgeries(archive.entries), reindexed \in BOOLEAN :
               held' = [entries |-> e, index |-> IF reindexed THEN Index(e) ELSE archive.index]
      BY <1>4 DEF Rewrite
    <2>2. HeldOrForged'
      BY <2>1 DEF HeldOrForged
    <2>. QED BY <2>1, <2>2 DEF ArchiveInv, Archived
  <1>5. CASE Replays \/ Publishes \/ UNCHANGED mcVars
    BY <1>5 DEF Replays, Publishes, mcVars, vars, ArchiveInv, Archived, HeldOrForged
  <1>. QED BY <1>2, <1>3, <1>4, <1>5 DEF MCNext

\* What an archive is built of.
PublicEntries == {"manifest", "graph", "events", "summary"}

\* b holds what buildEntries writes of r.
IsBuilt(b, r, status) ==
  /\ DOMAIN b = IF VaultEnabled(r) THEN PublicEntries \cup {"enc", "meta"} ELSE PublicEntries
  /\ b = [n \in DOMAIN b |-> b[n]]
  /\ b.manifest = Manifest(r, status) /\ b.graph = Graph /\ b.events = r.events
  /\ b.summary = Summary(r.events, r.dropped)
  /\ VaultEnabled(r) => /\ b.enc = [key |-> Passphrase, aad |-> Binding(b), records |-> SealedRecords(r)]
                        /\ b.meta = [aad |-> Binding(b)]

\* The vault is bound to the entries it is added to: adding it changes none of them.
LEMMA Built ==
  ASSUME NEW r, NEW status
  PROVE  IsBuilt(BuildEntries(r, status), r, status)
  <1>. SUFFICES ASSUME NEW b, b = BuildEntries(r, status)
                PROVE  IsBuilt(b, r, status)
    OBVIOUS
  <1>1. PICK p : p = [manifest |-> Manifest(r, status), graph |-> Graph,
                      events |-> r.events, summary |-> Summary(r.events, r.dropped)]
    OBVIOUS
  <1>2. CASE ~VaultEnabled(r)
    BY <1>1, <1>2 DEF BuildEntries, PublicEntries, IsBuilt
  <1>3. CASE VaultEnabled(r)
    <2>1. b = SealVaultEntries(r, p)
      BY <1>1, <1>3 DEF BuildEntries
    <2>2. PICK a : a = Binding(p)
      OBVIOUS
    <2>3. b = [manifest |-> p.manifest, graph |-> p.graph, events |-> p.events, summary |-> p.summary,
               enc |-> [key |-> Passphrase, aad |-> a, records |-> SealedRecords(r)], meta |-> [aad |-> a]]
      BY <2>1, <2>2 DEF SealVaultEntries
    <2>4. /\ b.manifest = p.manifest /\ b.graph = p.graph /\ b.events = p.events /\ b.summary = p.summary
          /\ b.enc = [key |-> Passphrase, aad |-> a, records |-> SealedRecords(r)] /\ b.meta = [aad |-> a]
          /\ DOMAIN b = PublicEntries \cup {"enc", "meta"} /\ b = [n \in DOMAIN b |-> b[n]]
      BY <2>3 DEF PublicEntries
    <2>5. Binding(b) = a
      BY <2>2, <2>4 DEF Binding
    <2>6. p.manifest = Manifest(r, status) /\ p.graph = Graph /\ p.events = r.events /\ p.summary = Summary(r.events, r.dropped)
      BY <1>1
    <2>. QED BY <1>3, <2>4, <2>5, <2>6 DEF IsBuilt
  <1>. QED BY <1>2, <1>3

-----------------------------------------------------------------------------
(* Rewriting *)

\* A change is a change of one public entry.
LEMMA OneChanged ==
  ASSUME NEW E, NEW c \in Changed(E)
  PROVE  \E n \in PublicEntries : \E x : c = [E EXCEPT ![n] = x]
  <1>1. \/ \E x : c = [E EXCEPT !.events = x]
        \/ \E x : c = [E EXCEPT !.manifest = x]
        \/ \E x : c = [E EXCEPT !.graph = x]
        \/ \E x : c = [E EXCEPT !.summary = x]
    BY Zenon DEF Changed
  <1>. QED BY <1>1 DEF PublicEntries

\* What no rewriting changes about entries: they are a function, and a vault that is
\* whole is the recorded one or sealed with another key.
LEMMA ForgedVault ==
  ASSUME NEW E, E = [n \in DOMAIN E |-> E[n]], PublicEntries \subseteq DOMAIN E,
         "enc" \in DOMAIN E => E.enc = [key |-> Passphrase, aad |-> E.enc.aad, records |-> E.enc.records],
         NEW e \in Forgeries(E)
  PROVE  /\ e = [n \in DOMAIN e |-> e[n]] /\ e # E
         /\ "enc" \in DOMAIN e => "enc" \in DOMAIN E
         /\ "enc" \in DOMAIN e /\ "meta" \in DOMAIN e => e.enc = E.enc \/ e.enc.key = "other"
  <1>1. PICK c \in Changed(E) \cup {E} : e \in Vaults(c) /\ e # E
    <2>1. e # E /\ e \in UNION {Vaults(x) : x \in Changed(E) \cup {E}}
      BY DEF Forgeries
    <2>2. PICK S \in {Vaults(x) : x \in Changed(E) \cup {E}} : e \in S
      BY <2>1
    <2>3. \E x \in Changed(E) \cup {E} : S = Vaults(x)
      BY <2>2
    <2>. QED BY <2>1, <2>2, <2>3
  <1>2. DOMAIN c = DOMAIN E /\ c = [n \in DOMAIN c |-> c[n]] /\ ("enc" \in DOMAIN E => c.enc = E.enc)
    <2>1. CASE c = E
      BY <2>1
    <2>2. CASE c \in Changed(E)
      <3>1. \A n \in PublicEntries : \A x :
              /\ DOMAIN [E EXCEPT ![n] = x] = DOMAIN E
              /\ [E EXCEPT ![n] = x] = [m \in DOMAIN [E EXCEPT ![n] = x] |-> [E EXCEPT ![n] = x][m]]
              /\ "enc" \in DOMAIN E => [E EXCEPT ![n] = x].enc = E.enc
        <4>. TAKE n \in PublicEntries
        <4>. TAKE x
        <4>1. DOMAIN [E EXCEPT ![n] = x] = DOMAIN E
          OBVIOUS
        <4>2. [E EXCEPT ![n] = x] = [m \in DOMAIN [E EXCEPT ![n] = x] |-> [E EXCEPT ![n] = x][m]]
          OBVIOUS
        <4>3. ASSUME "enc" \in DOMAIN E PROVE [E EXCEPT ![n] = x].enc = E.enc
          <5>1. n # "enc"
            BY DEF PublicEntries
          <5>. QED BY <4>3, <5>1
        <4>. QED BY <4>1, <4>2, <4>3
      <3>2. \E n \in PublicEntries : \E x : c = [E EXCEPT ![n] = x]
        BY <2>2, OneChanged
      <3>. QED BY <3>1, <3>2
    <2>. QED BY <1>1, <2>1, <2>2
  <1>3. CASE "enc" \notin DOMAIN c
    <2>1. e = c
      BY <1>1, <1>3 DEF Vaults
    <2>. QED BY <1>1, <1>2, <1>3, <2>1
  <1>4. CASE "enc" \in DOMAIN c
    <2>1. PICK a : a = Binding(c)
      OBVIOUS
    <2>2. DOMAIN c.enc = {"key", "aad", "records"}
      BY <1>2, <1>4
    <2>3. \/ e = c \/ e = [n \in DOMAIN c \ {"enc", "meta"} |-> c[n]] \/ e = [n \in DOMAIN c \ {"meta"} |-> c[n]]
          \/ e = [c EXCEPT !.meta.aad = a] \/ e = [c EXCEPT !.meta.aad = a, !.enc.aad = a, !.enc.key = "other"]
      BY <1>1, <1>4, <2>1 DEF Vaults, WithoutVault
    <2>4. CASE e = [c EXCEPT !.meta.aad = a, !.enc.aad = a, !.enc.key = "other"]
      <3>1. e = [n \in DOMAIN e |-> e[n]]
        BY <2>4
      <3>2. e.enc.key = "other"
        BY <2>4, <1>4, <2>2
      <3>. QED BY <1>1, <1>2, <1>4, <3>1, <3>2
    <2>5. CASE e = [c EXCEPT !.meta.aad = a]
      BY <2>5, <1>1, <1>2, <1>4
    <2>6. CASE \/ e = c \/ e = [n \in DOMAIN c \ {"enc", "meta"} |-> c[n]]
               \/ e = [n \in DOMAIN c \ {"meta"} |-> c[n]]
      BY <2>6, <1>1, <1>2, <1>4
    <2>. QED BY <2>3, <2>4, <2>5, <2>6
  <1>. QED BY <1>3, <1>4

\* The entries of a verified archive are those its index names.
LEMMA VerifiedMeansIndexed ==
  ASSUME NEW a, Verify(a).ok
  PROVE  /\ Required \subseteq DOMAIN a.entries /\ DOMAIN a.entries = DOMAIN a.index
         /\ \A n \in DOMAIN a.entries : Hash(a.entries[n]) = a.index[n]
         /\ IndexErrors(a) = {} /\ ManifestErrors(a) = {} /\ LedgerErrors(a) = {} /\ VaultErrors(a) = {}
  <1>1. Verify(a).ok = ((IF ~(Required \subseteq DOMAIN a.entries) THEN {"missing required entry"}
                ELSE IndexErrors(a) \cup ManifestErrors(a) \cup LedgerErrors(a) \cup VaultErrors(a)) = {})
    BY DEF Verify
  <1>2. Required \subseteq DOMAIN a.entries
    BY <1>1
  <1>3. IndexErrors(a) = {} /\ ManifestErrors(a) = {} /\ LedgerErrors(a) = {} /\ VaultErrors(a) = {}
    BY <1>1, <1>2
  <1>4. /\ DOMAIN a.entries \ DOMAIN a.index = {} /\ DOMAIN a.index \ DOMAIN a.entries = {}
        /\ ~\E n \in DOMAIN a.entries \cap DOMAIN a.index : Hash(a.entries[n]) # a.index[n]
    BY <1>3 DEF IndexErrors, When
  <1>. QED BY <1>2, <1>3, <1>4

\* An unlocked vault was sealed with the passphrase and bound to the entries.
LEMMA UnlockedMeansBound ==
  ASSUME NEW a, NEW passphrase, Unlock(a, passphrase).ok
  PROVE  /\ Verify(a).ok /\ HasVault(a)
         /\ a.entries.enc.key = passphrase /\ a.entries.enc.aad = Binding(a.entries)
  <1>1. \A errors : Locked(errors).ok = FALSE
    BY DEF Locked
  <1>2. Verify(a).ok
    BY <1>1 DEF Unlock
  <1>3. Verify(a).replayability = "taped-replay"
    BY <1>1, <1>2 DEF Unlock
  <1>4. HasVault(a)
    <2>1. \/ Verify(a).replayability = "none"
          \/ Verify(a).replayability = IF HasVault(a) THEN "taped-replay" ELSE "playback-only"
      BY DEF Verify
    <2>. QED BY <1>3, <2>1
  <1>5. ~(\E f \in {"manifest", "events", "graph", "trace"} : a.entries.meta.aad[f] # Binding(a.entries)[f])
    BY <1>1, <1>2, <1>3 DEF Unlock
  <1>6. ~(a.entries.enc.key # passphrase \/ a.entries.enc.aad # Binding(a.entries))
    BY <1>1, <1>2, <1>3, <1>5 DEF Unlock
  <1>. QED BY <1>2, <1>4, <1>6

\* Digests are free of collisions.
LEMMA HashIsInjective == ASSUME NEW x, NEW y, Hash(x) = Hash(y) PROVE x = y
  <1>1. Hash(x).sha256 = x /\ Hash(y).sha256 = y
    BY DEF Hash
  <1>. QED BY <1>1

\* So is what a vault is bound to.
LEMMA BindingIsInjective ==
  ASSUME NEW d, NEW e, Binding(d) = Binding(e)
  PROVE  d.manifest = e.manifest /\ d.graph = e.graph /\ d.events = e.events
  <1>1. \A x : /\ Binding(x).manifest = Hash(x.manifest) /\ Binding(x).graph = Hash(x.graph)
               /\ Binding(x).events = Hash(x.events)
    BY DEF Binding
  <1>2. /\ Hash(d.manifest) = Hash(e.manifest) /\ Hash(d.graph) = Hash(e.graph)
        /\ Hash(d.events) = Hash(e.events)
    BY <1>1
  <1>. QED BY <1>2, HashIsInjective

\* Not re-indexed, rewritten entries that verify would be the recorded ones; re-indexed,
\* a vault that opens is the recorded one, and it is bound to the recorded entries.
LEMMA BindsRecord == ArchiveInv => VaultBindsRecord
  <1>. SUFFICES ASSUME ArchiveInv, outcome = "archived", held # archive
                PROVE  /\ held.index = archive.index => ~Verify(held).ok
                       /\ Unlock(held, Passphrase).ok =>
                            \A n \in {"manifest", "graph", "events", "enc"} : held.entries[n] = archive.entries[n]
    BY DEF VaultBindsRecord
  <1>1. PICK status \in Ended :
          archive = [entries |-> BuildEntries(rec, status), index |-> Index(BuildEntries(rec, status))]
    BY DEF ArchiveInv, Archived
  <1>3. PICK E : archive.entries = E /\ archive.index = Index(E) /\ IsBuilt(E, rec, status)
    BY <1>1, Built
  <1>4. /\ DOMAIN E = IF VaultEnabled(rec) THEN PublicEntries \cup {"enc", "meta"} ELSE PublicEntries
        /\ E = [n \in DOMAIN E |-> E[n]]
        /\ VaultEnabled(rec) => E.enc = [key |-> Passphrase, aad |-> Binding(E), records |-> SealedRecords(rec)]
    BY <1>3 DEF IsBuilt
  <1>5. "enc" \in DOMAIN E => /\ E.enc = [key |-> Passphrase, aad |-> E.enc.aad, records |-> E.enc.records]
                              /\ E.enc.aad = Binding(E)
    <2>1. "enc" \in DOMAIN E => VaultEnabled(rec)
      BY <1>4 DEF PublicEntries
    <2>. QED BY <1>4, <2>1
  <1>6. PICK e \in Forgeries(E) : held.entries = e
    BY <1>3 DEF ArchiveInv, HeldOrForged
  <1>7. /\ e = [n \in DOMAIN e |-> e[n]] /\ e # E /\ ("enc" \in DOMAIN e => "enc" \in DOMAIN E)
        /\ "enc" \in DOMAIN e /\ "meta" \in DOMAIN e => e.enc = E.enc \/ e.enc.key = "other"
    <2>1. PublicEntries \subseteq DOMAIN E
      BY <1>4
    <2>. QED BY <1>4, <1>5, <2>1, ForgedVault
  <1>8. ASSUME held.index = archive.index, Verify(held).ok PROVE FALSE
    <2>1. DOMAIN e = DOMAIN Index(E) /\ \A n \in DOMAIN e : Hash(e[n]) = Index(E)[n]
      BY <1>3, <1>6, <1>8, VerifiedMeansIndexed
    <2>2. DOMAIN Index(E) = DOMAIN E /\ \A n \in DOMAIN E : Index(E)[n] = Hash(E[n])
      BY DEF Index
    <2>3. \A n \in DOMAIN E : e[n] = E[n]
      BY <2>1, <2>2, HashIsInjective
    <2>4. DOMAIN e = DOMAIN E
      BY <2>1, <2>2
    <2>5. e = E
      BY <1>4, <1>7, <2>3, <2>4
    <2>. QED BY <1>7, <2>5
  <1>9. ASSUME Unlock(held, Passphrase).ok
        PROVE  \A n \in {"manifest", "graph", "events", "enc"} : held.entries[n] = archive.entries[n]
    <2>1. HasVault(held) /\ e.enc.key = Passphrase /\ e.enc.aad = Binding(e)
      BY <1>6, <1>9, UnlockedMeansBound
    <2>2. "enc" \in DOMAIN e /\ "meta" \in DOMAIN e
      BY <1>6, <2>1 DEF HasVault, Has
    <2>3. e.enc = E.enc
      BY <1>7, <2>1, <2>2 DEF Passphrase
    <2>4. "enc" \in DOMAIN E
      BY <1>7, <2>2
    <2>5. Binding(e) = Binding(E)
      BY <1>5, <2>1, <2>3, <2>4
    <2>6. e.manifest = E.manifest /\ e.graph = E.graph /\ e.events = E.events
      BY <2>5, BindingIsInjective
    <2>. QED BY <1>3, <1>6, <2>3, <2>6
  <1>. QED BY <1>8, <1>9

\* The ledger of a recorder that kept count is in order.
LEMMA SoundLedger ==
  ASSUME NEW a, NEW q \in Seq(SoundRecord), a.entries.events = q, Len(q) <= MaxEvents,
         a.entries.manifest.trace = TraceId
  PROVE  LedgerErrors(a) = {}
  <1>1. ~(Len(Events(a)) > MaxEvents)
    <2>1. Len(q) \in Nat
      BY LenProperties
    <2>. QED BY <2>1, LedgerAssumption DEF Events
  <1>2. ASSUME NEW e \in Ledger(a) PROVE PlacementErrors(a, e) \cup ContentErrors(e) = {}
    <2>1. e \in LedgerRecord /\ Placed(e) /\ Filled(e)
      BY DEF Ledger, Events, SoundRecord
    <2>2. /\ e.kind \in Kinds /\ e.run = TraceId /\ e.seq \in Nat /\ e.stage \in MaybeStage
      BY <2>1 DEF LedgerRecord
    <2>3. PlacementErrors(a, e) = {}
      <3>1. e.run = a.entries.manifest.trace
        BY <2>2
      <3>2. (e.kind = "annotation") <=> (e.seq = 0)
        BY <2>1 DEF Placed
      <3>3. e.kind \in StageKinds => e.stage # None /\ e.visit # 0
        BY <2>1, ScriptAssumption DEF Placed
      <3>. QED BY <2>2, <3>1, <3>2, <3>3 DEF PlacementErrors, When
    <2>4. ContentErrors(e) = {}
      <3>1. /\ e.kind \in ModelKinds => e.model # 0
            /\ e.kind \in ToolKinds => e.tool # 0
            /\ e.kind \in {"model_delta", "run_completed", "annotation"} => e.shown = "marker"
        BY <2>1 DEF Filled
      <3>2. e.kind = "transition_selected" => e.to # None
        <4>1. e.kind = "transition_selected" => e.to \in Edges[e.stage] /\ e.stage \in Stages
          BY <2>1 DEF Filled, Placed, StageKinds
        <4>. QED BY <4>1, ScriptAssumption
      <3>. QED BY <3>1, <3>2 DEF ContentErrors, When
    <2>. QED BY <2>3, <2>4
  <1>3. UNION {PlacementErrors(a, e) \cup ContentErrors(e) : e \in Ledger(a)} = {}
    BY <1>2
  <1>. QED BY <1>1, <1>3 DEF LedgerErrors, When

\* The path on record is a path of the graph.
LEMMA SoundPath ==
  ASSUME NEW a, NEW q \in Seq(SoundRecord), a.entries.events = q, a.entries.graph = Graph
  PROVE  PathNotes(a) = {} /\ ~\E e \in Ledger(a) : e.odd = "extra"
  <1>1. ASSUME NEW e \in Ledger(a)
        PROVE  /\ e.odd = "no"
               /\ e.kind \in StageKinds => e.stage \in Stages
               /\ e.kind = "transition_selected" => e.to \in Edges[e.stage]
    BY DEF Ledger, Events, SoundRecord, Placed, Filled, LedgerRecord
  <1>2. Graph.nodes = Stages /\ Graph.edges = UNION {{s} \X Edges[s] : s \in Stages}
    BY DEF Graph
  <1>3. \A s \in Stages : \A t \in Edges[s] : <<s, t>> \in Graph.edges
    BY <1>2
  <1>4. "stage_started" \in StageKinds /\ "transition_selected" \in StageKinds
    BY DEF StageKinds
  <1>5. ~\E e \in Ledger(a) : e.kind = "stage_started" /\ e.stage \notin a.entries.graph.nodes
    BY <1>1, <1>2, <1>4
  <1>6. ~\E e \in Ledger(a) : e.kind = "transition_selected" /\ <<e.stage, e.to>> \notin a.entries.graph.edges
    BY <1>1, <1>3, <1>4
  <1>. QED BY <1>1, <1>5, <1>6 DEF PathNotes, When

\* What the proofs below take from the invariants of an archive.
LEMMA ArchiveFacts ==
  ASSUME RunInv, ArchiveInv, outcome = "archived"
  PROVE  /\ \E status \in Ended : IsBuilt(archive.entries, rec, status) /\ archive.index = Index(archive.entries)
         /\ Well(rec) /\ rec.config \in Config /\ rec.events \in Seq(SoundRecord) /\ rec.vault \in Seq(KeptRecord)
         /\ Len(rec.events) <= MaxEvents
  <1>1. ~rec.exceeded /\ Len(rec.events) <= MaxEvents
    BY DEF ArchiveInv, Archived
  <1>2. PICK status \in Ended :
          archive = [entries |-> BuildEntries(rec, status), index |-> Index(BuildEntries(rec, status))]
    BY DEF ArchiveInv, Archived
  <1>3. IsBuilt(archive.entries, rec, status) /\ archive.index = Index(archive.entries)
    BY <1>2, Built
  <1>4. Well(rec)
    BY <1>1 DEF RunInv, InStep, Resting, LedgerInv
  <1>5. rec.config \in Config /\ rec.events \in Seq(SoundRecord) /\ rec.vault \in Seq(KeptRecord)
    BY <1>4 DEF Well, Typed
  <1>. QED BY <1>1, <1>3, <1>4, <1>5

\* An archive is built of a recorder that kept count: its own reader accepts it.
LEMMA Verifies == RunInv /\ ArchiveInv => FinishedVerifies
  <1>. SUFFICES ASSUME RunInv, ArchiveInv, outcome = "archived"
                PROVE  /\ Verify(archive).ok /\ Verify(archive).warnings = {}
                       /\ Verify(archive).replayability = IF VaultEnabled(rec) THEN "taped-replay" ELSE "playback-only"
    BY DEF FinishedVerifies
  <1>1. PICK status \in Ended : IsBuilt(archive.entries, rec, status) /\ archive.index = Index(archive.entries)
    BY ArchiveFacts
  <1>2. PICK E : E = archive.entries
    OBVIOUS
  <1>3. /\ DOMAIN E = IF VaultEnabled(rec) THEN PublicEntries \cup {"enc", "meta"} ELSE PublicEntries
        /\ E.manifest = Manifest(rec, status) /\ E.graph = Graph /\ E.events = rec.events
        /\ E.summary = Summary(rec.events, rec.dropped)
    BY <1>1, <1>2 DEF IsBuilt
  <1>4. /\ E.manifest.trace = TraceId /\ E.manifest.status = status /\ E.manifest.odd = "no"
        /\ E.manifest.profile = rec.config.profile /\ E.manifest.vault = VaultEnabled(rec)
    BY <1>3 DEF Manifest
  <1>5. rec.config.profile \in {"audit", "replay"}
    BY ArchiveFacts DEF Config
  <1>6. Required \subseteq DOMAIN archive.entries
    BY <1>2, <1>3 DEF Required, PublicEntries
  <1>7. IndexErrors(archive) = {}
    <2>1. DOMAIN archive.index = DOMAIN archive.entries
          /\ \A n \in DOMAIN archive.entries : archive.index[n] = Hash(archive.entries[n])
      BY <1>1 DEF Index
    <2>. QED BY <2>1 DEF IndexErrors, When
  <1>8. ManifestErrors(archive) = {}
    BY <1>2, <1>4, <1>5 DEF ManifestErrors, When, Ended
  <1>9. LedgerErrors(archive) = {}
    BY <1>2, <1>3, <1>4, ArchiveFacts, SoundLedger
  <1>10. Has(archive, "enc") = VaultEnabled(rec) /\ Has(archive, "meta") = VaultEnabled(rec)
    BY <1>2, <1>3 DEF Has, PublicEntries, VaultEnabled
  <1>11. HasVault(archive) = VaultEnabled(rec)
    <2>1. HasVault(archive) \in BOOLEAN /\ VaultEnabled(rec) \in BOOLEAN
      BY DEF HasVault, Has, VaultEnabled
    <2>2. HasVault(archive) <=> VaultEnabled(rec)
      <3>1. HasVault(archive) <=> (Has(archive, "enc") /\ Has(archive, "meta"))
        BY DEF HasVault
      <3>. QED BY <1>10, <3>1
    <2>. QED BY <2>1, <2>2
  <1>12. VaultErrors(archive) = {}
    BY <1>2, <1>4, <1>5, <1>10, <1>11 DEF VaultErrors, When, VaultEnabled
  <1>13. Verify(archive).ok /\ Verify(archive).warnings = Warnings(archive)
         /\ Verify(archive).replayability = IF HasVault(archive) THEN "taped-replay" ELSE "playback-only"
    BY <1>6, <1>7, <1>8, <1>9, <1>12 DEF Verify
  <1>14. SummaryNotes(archive) = {}
    <2>1. Summary(rec.events, rec.dropped).dropped = rec.dropped
      BY DEF Summary
    <2>2. E.summary.dropped = rec.dropped
      BY <1>3, <2>1
    <2>. QED BY <1>2, <1>3, <2>2 DEF SummaryNotes, When, Events
  <1>15. PathNotes(archive) = {} /\ ~\E e \in Ledger(archive) : e.odd = "extra"
    BY <1>2, <1>3, ArchiveFacts, SoundPath
  <1>16. Warnings(archive) = {}
    BY <1>2, <1>4, <1>14, <1>15 DEF Warnings, When
  <1>. QED BY <1>11, <1>13, <1>16

\* Sealing adds records, it takes none out.
LEMMA SealedKeeps ==
  ASSUME NEW r, r.vault \in Seq(KeptRecord)
  PROVE  \A i \in DOMAIN r.vault : r.vault[i] \in ToSet(SealedRecords(r))
  <1>1. PICK x : x = VaultRecord("full_workflow_ir")
    OBVIOUS
  <1>2. PICK v : v = r.vault
    OBVIOUS
  <1>3. v \in Seq(KeptRecord \cup {x})
    BY <1>2
  <1>4. /\ Append(v, x) \in Seq(KeptRecord \cup {x}) /\ Len(Append(v, x)) = Len(v) + 1
        /\ \A i \in 1..Len(v) : Append(v, x)[i] = v[i]
    BY <1>3, AppendProperties
  <1>5. \A i \in DOMAIN v : i \in DOMAIN Append(v, x) /\ Append(v, x)[i] = v[i]
    <2>1. DOMAIN v = 1..Len(v) /\ Len(v) \in Nat
      BY <1>3, LenProperties
    <2>2. DOMAIN Append(v, x) = 1..(Len(v) + 1)
      BY <1>4, LenProperties
    <2>. QED BY <1>4, <2>1, <2>2
  <1>6. SealedRecords(r) = v \/ SealedRecords(r) = Append(v, x)
    BY <1>1, <1>2 DEF SealedRecords
  <1>. QED BY <1>2, <1>5, <1>6 DEF ToSet

\* A vault that filed everything has the evidence checkVaultEvidence asks for.
LEMMA EvidenceKept ==
  ASSUME NEW a, NEW r, NEW records, Filed(r), a.entries.events = r.events,
         \A i \in DOMAIN r.vault : r.vault[i] \in ToSet(records)
  PROVE  EvidenceErrors(a, records) = {}
  <1>. DEFINE Of(types) == {v \in ToSet(records) : v.type \in types}
              models == {v.model : v \in Of({"model_request", "model_response"})}
              tools == {v.tool : v \in Of({"tool_result"})}
              visits == {v.visit : v \in Of({"transition_evaluation"})}
  <1>1. ModelsKept(r) \subseteq models
    BY DEF ModelsKept
  <1>2. ToolsKept(r) \subseteq tools
    BY DEF ToolsKept
  <1>3. VisitsKept(r) \subseteq visits
    BY DEF VisitsKept
  <1>4. \A e \in Ledger(a) : EventFiled(r, e)
    BY DEF Ledger, Events, Filed
  <1>5. EvidenceErrors(a, records) =
          When(\E e \in Ledger(a) : e.kind \in {"model_completed", "model_retry"} /\ e.model \notin models,
               "missing model evidence")
            \cup When(\E e \in Ledger(a) : e.kind \in {"tool_call_completed", "tool_call_failed"} /\ e.tool \notin tools,
                      "missing tool evidence")
            \cup When(\E e \in Ledger(a) : e.kind = "transition_selected" /\ e.visit \notin visits,
                      "missing transition evidence")
    BY Zenon DEF EvidenceErrors
  <1>. HIDE DEF models, tools, visits
  <1>6. ~\E e \in Ledger(a) : e.kind \in {"model_completed", "model_retry"} /\ e.model \notin models
    BY <1>1, <1>4 DEF EventFiled
  <1>7. ~\E e \in Ledger(a) : e.kind \in {"tool_call_completed", "tool_call_failed"} /\ e.tool \notin tools
    BY <1>2, <1>4 DEF EventFiled
  <1>8. ~\E e \in Ledger(a) : e.kind = "transition_selected" /\ e.visit \notin visits
    BY <1>3, <1>4 DEF EventFiled
  <1>. QED BY <1>5, <1>6, <1>7, <1>8 DEF When

\* A complete vault has the evidence of every record.
LEMMA Unlocks == RunInv /\ ArchiveInv => UnlockComplete
  <1>. SUFFICES ASSUME RunInv, ArchiveInv, outcome = "archived",
                       Taped.capture \subseteq rec.config.capture, VaultEnabled(rec)
                PROVE  Unlock(archive, Passphrase).ok
    BY DEF UnlockComplete
  <1>1. PICK status \in Ended : IsBuilt(archive.entries, rec, status)
    BY ArchiveFacts
  <1>2. /\ archive.entries.events = rec.events
        /\ archive.entries.enc = [key |-> Passphrase, aad |-> Binding(archive.entries), records |-> SealedRecords(rec)]
        /\ archive.entries.meta = [aad |-> Binding(archive.entries)]
    BY <1>1 DEF IsBuilt
  <1>3. Verify(archive).ok /\ Verify(archive).replayability = "taped-replay"
    BY Verifies DEF FinishedVerifies
  <1>4. Filed(rec)
    <2>1. Taped.capture = Captured
      BY DEF Taped, Audit
    <2>. QED BY <2>1, ArchiveFacts DEF Well, Complete
  <1>5. EvidenceErrors(archive, SealedRecords(rec)) = {}
    BY <1>2, <1>4, ArchiveFacts, SealedKeeps, EvidenceKept
  <1>6. /\ archive.entries.enc.key = Passphrase /\ archive.entries.enc.aad = Binding(archive.entries)
        /\ archive.entries.enc.records = SealedRecords(rec)
        /\ archive.entries.meta.aad = Binding(archive.entries)
    BY <1>2
  <1>. QED BY <1>3, <1>5, <1>6 DEF Unlock

-----------------------------------------------------------------------------
(* Publication *)

\* The fields of a manifest, and of a record that may have been rewritten.
ManifestFields == {"trace", "status", "profile", "vault", "bound", "names", "odd"}
LooseRecord ==
  [kind : Kinds, run : {TraceId, "other"}, seq : Nat, stage : MaybeStage, visit : Nat, model : Nat,
   tool : Nat, to : MaybeStage, denied : BOOLEAN, shown : Shows, name : {None, "tool"},
   masked : BOOLEAN, anchor : Nat, odd : {"no", "extra", "leak"}]

\* A manifest and a ledger with the fields they are written with.
Shaped(entries) == DOMAIN entries.manifest = ManifestFields /\ entries.events \in Seq(LooseRecord)

\* An archive as written has them.
LEMMA BuiltShaped ==
  ASSUME NEW b, NEW r, NEW status, IsBuilt(b, r, status), r.events \in Seq(SoundRecord)
  PROVE  Shaped(b)
  <1>1. b.manifest = Manifest(r, status) /\ b.events = r.events
    BY DEF IsBuilt
  <1>2. DOMAIN Manifest(r, status) = ManifestFields
    BY DEF Manifest, ManifestFields
  <1>3. SoundRecord \subseteq LooseRecord
    BY DEF SoundRecord, LooseRecord, LedgerRecord
  <1>4. r.events \in Seq(LooseRecord)
    <2>1. Seq(SoundRecord) \subseteq Seq(LooseRecord)
      BY <1>3
    <2>. QED BY <2>1
  <1>. QED BY <1>1, <1>2, <1>4 DEF Shaped

\* A change of one field of the first record, if there is one.
LEMMA FirstChanged ==
  ASSUME NEW q \in Seq(LooseRecord)
  PROVE  /\ \A x \in {"no", "extra", "leak"} : [q EXCEPT ![1].odd = x] \in Seq(LooseRecord)
         /\ \A x \in {TraceId, "other"} : [q EXCEPT ![1].run = x] \in Seq(LooseRecord)
         /\ Front(q) \in Seq(LooseRecord)
  <1>1. ASSUME NEW y, 1 \in DOMAIN q => y \in LooseRecord PROVE [q EXCEPT ![1] = y] \in Seq(LooseRecord)
    <2>1. Len(q) \in Nat /\ q \in [1..Len(q) -> LooseRecord]
      BY LenProperties
    <2>2. [q EXCEPT ![1] = y] \in [1..Len(q) -> LooseRecord]
      BY <1>1, <2>1
    <2>. QED BY <2>1, <2>2, SeqDef
  <1>2. 1 \in DOMAIN q => q[1] \in LooseRecord
    BY ElementOfSeq, LenProperties
  <1>3. \A x \in {"no", "extra", "leak"} : 1 \in DOMAIN q => [q[1] EXCEPT !.odd = x] \in LooseRecord
    BY <1>2 DEF LooseRecord
  <1>4. \A x \in {TraceId, "other"} : 1 \in DOMAIN q => [q[1] EXCEPT !.run = x] \in LooseRecord
    BY <1>2 DEF LooseRecord
  <1>5. Front(q) \in Seq(LooseRecord)
    <2>1. Len(q) \in Nat /\ \A i \in 1..(Len(q) - 1) : q[i] \in LooseRecord
      BY LenProperties
    <2>2. Len(q) - 1 \in Int /\ 1 \in Int
      BY <2>1
    <2>. QED BY <2>1, <2>2, SubSeqProperties DEF Front
  <1>. QED BY <1>1, <1>3, <1>4, <1>5

\* A change of an entry leaves them.
LEMMA ChangedShaped ==
  ASSUME NEW E, PublicEntries \subseteq DOMAIN E, Shaped(E), NEW c \in Changed(E)
  PROVE  Shaped(c)
  <1>1. E.events \in Seq(LooseRecord) /\ DOMAIN E.manifest = ManifestFields
    BY DEF Shaped
  <1>2. "events" \in DOMAIN E /\ "manifest" \in DOMAIN E /\ "graph" \in DOMAIN E /\ "summary" \in DOMAIN E
    BY DEF PublicEntries
  <1>3. ASSUME NEW q \in Seq(LooseRecord), c = [E EXCEPT !.events = q] PROVE Shaped(c)
    BY <1>1, <1>2, <1>3 DEF Shaped
  <1>4. ASSUME NEW m, DOMAIN m = ManifestFields, c = [E EXCEPT !.manifest = m] PROVE Shaped(c)
    BY <1>1, <1>2, <1>4 DEF Shaped
  <1>5. ASSUME NEW x, c = [E EXCEPT !.graph = x] \/ c = [E EXCEPT !.summary = x] PROVE Shaped(c)
    BY <1>1, <1>2, <1>5 DEF Shaped
  <1>6. \/ c = [E EXCEPT !.events = Front(E.events)]
        \/ \E x \in {"no", "extra", "leak"} : c = [E EXCEPT !.events = [E.events EXCEPT ![1].odd = x]]
        \/ \E x \in {TraceId, "other"} : c = [E EXCEPT !.events = [E.events EXCEPT ![1].run = x]]
        \/ \E x : c = [E EXCEPT !.manifest.status = x]
        \/ \E x : c = [E EXCEPT !.manifest.vault = x]
        \/ \E x : c = [E EXCEPT !.manifest.odd = x]
        \/ \E x : c = [E EXCEPT !.manifest.bound = x]
        \/ \E x : c = [E EXCEPT !.graph = x]
        \/ \E x : c = [E EXCEPT !.summary = x]
    BY Zenon DEF Changed
  <1>7. \A x, n : DOMAIN [E.manifest EXCEPT ![n] = x] = ManifestFields
    BY <1>1
  <1>8. CASE \/ c = [E EXCEPT !.events = Front(E.events)]
             \/ \E x \in {"no", "extra", "leak"} : c = [E EXCEPT !.events = [E.events EXCEPT ![1].odd = x]]
             \/ \E x \in {TraceId, "other"} : c = [E EXCEPT !.events = [E.events EXCEPT ![1].run = x]]
    BY <1>1, <1>3, <1>8, FirstChanged
  <1>9. CASE \/ \E x : c = [E EXCEPT !.manifest.status = x]
             \/ \E x : c = [E EXCEPT !.manifest.vault = x]
             \/ \E x : c = [E EXCEPT !.manifest.odd = x]
             \/ \E x : c = [E EXCEPT !.manifest.bound = x]
    BY <1>4, <1>7, <1>9
  <1>10. CASE (\E x : c = [E EXCEPT !.graph = x]) \/ (\E x : c = [E EXCEPT !.summary = x])
    BY <1>5, <1>10
  <1>. QED BY <1>6, <1>8, <1>9, <1>10

\* So does taking out or sealing a vault.
LEMMA ForgedShaped ==
  ASSUME NEW E, PublicEntries \subseteq DOMAIN E, Shaped(E), NEW e \in Forgeries(E)
  PROVE  Shaped(e)
  <1>1. PICK c \in Changed(E) \cup {E} : e \in Vaults(c)
    <2>1. e \in UNION {Vaults(x) : x \in Changed(E) \cup {E}}
      BY DEF Forgeries
    <2>2. PICK S \in {Vaults(x) : x \in Changed(E) \cup {E}} : e \in S
      BY <2>1
    <2>. QED BY <2>2
  <1>2. Shaped(c) /\ DOMAIN c = DOMAIN E
    <2>1. CASE c = E
      BY <2>1
    <2>2. CASE c \in Changed(E)
      <3>1. PICK n \in PublicEntries : \E x : c = [E EXCEPT ![n] = x]
        BY <2>2, OneChanged
      <3>. QED BY <2>2, <3>1, ChangedShaped
    <2>. QED BY <1>1, <2>1, <2>2
  <1>3. "events" \in DOMAIN c /\ "manifest" \in DOMAIN c
    BY <1>2 DEF PublicEntries
  <1>4. PICK a : a = Binding(c)
    OBVIOUS
  <1>5. \/ e = c \/ e = [n \in DOMAIN c \ {"enc", "meta"} |-> c[n]] \/ e = [n \in DOMAIN c \ {"meta"} |-> c[n]]
        \/ e = [c EXCEPT !.meta.aad = a] \/ e = [c EXCEPT !.meta.aad = a, !.enc.aad = a, !.enc.key = "other"]
    BY <1>1, <1>4 DEF Vaults, WithoutVault
  <1>6. e.manifest = c.manifest /\ e.events = c.events
    <2>1. CASE e = [c EXCEPT !.meta.aad = a, !.enc.aad = a, !.enc.key = "other"]
      BY <1>3, <2>1
    <2>2. CASE e = [c EXCEPT !.meta.aad = a]
      BY <1>3, <2>2
    <2>3. CASE \/ e = c \/ e = [n \in DOMAIN c \ {"enc", "meta"} |-> c[n]]
               \/ e = [n \in DOMAIN c \ {"meta"} |-> c[n]]
      BY <1>3, <2>3
    <2>. QED BY <1>5, <2>1, <2>2, <2>3
  <1>. QED BY <1>2, <1>6 DEF Shaped

\* An archive a projection is made of.
Publishable(a) == Shaped(a.entries) /\ ~Refused(a)

\* The index of an archive that verifies says what is projected from it.
LEMMA SameProjection ==
  ASSUME NEW a, NEW b, NEW options, Publishable(a), Publishable(b), a.index = b.index
  PROVE  PublishedEntries(a, options) = PublishedEntries(b, options)
  <1>1. Verify(a).ok /\ Verify(b).ok
    BY DEF Publishable, Refused
  <1>2. /\ Required \subseteq DOMAIN a.entries /\ DOMAIN a.entries = DOMAIN a.index
        /\ \A n \in DOMAIN a.entries : Hash(a.entries[n]) = a.index[n]
    BY <1>1, VerifiedMeansIndexed
  <1>3. /\ DOMAIN b.entries = DOMAIN b.index
        /\ \A n \in DOMAIN b.entries : Hash(b.entries[n]) = b.index[n]
    BY <1>1, VerifiedMeansIndexed
  <1>4. DOMAIN a.entries = DOMAIN b.entries /\ \A n \in DOMAIN a.entries : a.entries[n] = b.entries[n]
    BY <1>2, <1>3, HashIsInjective
  <1>5. a.entries.manifest = b.entries.manifest /\ a.entries.graph = b.entries.graph /\ Events(a) = Events(b)
    BY <1>2, <1>4 DEF Required, Events
  <1>6. (Has(a, "summary") <=> Has(b, "summary"))
        /\ (Has(a, "summary") => a.entries.summary = b.entries.summary)
    BY <1>4 DEF Has
  <1>7. \A q : PublishedSummary(a, q) = PublishedSummary(b, q)
    BY <1>6 DEF PublishedSummary
  <1>. QED BY <1>5, <1>7 DEF PublishedEntries

\* What projecting a record changes.
LEMMA ProjectedRecord ==
  ASSUME NEW e \in LooseRecord, NEW options, NEW t, NEW f, f = ProjectRecord(e, options, t)
  PROVE  /\ f.kind = e.kind /\ f.run = t /\ f.seq = e.seq /\ f.stage = e.stage /\ f.visit = e.visit
         /\ f.model = e.model /\ f.tool = e.tool /\ f.to = e.to
         /\ e.shown = "marker" => f.shown = "marker"
         /\ f.name # None => options.names
         /\ f.shown = "path" => options.paths
  BY DEF ProjectRecord, LooseRecord

\* What is projected, as an archive of its own.
ArchiveOf(entries) == [entries |-> entries, index |-> Index(entries)]

\* What is projected of a publishable archive verifies as a publication.
LEMMA ProjectedVerifies ==
  ASSUME NEW a, NEW options, Publishable(a), NEW p, p = PublishedEntries(a, options),
         NEW b, b.entries = p, b.index = Index(p)
  PROVE  /\ Verify(b).ok /\ p.manifest.profile = "publication" /\ ~HasVault(b)
         /\ a.entries.manifest.bound
         /\ \A e \in Ledger(b) : /\ e.run = p.manifest.trace /\ e.run # TraceId
                                 /\ e.name # None => options.names
                                 /\ e.shown = "path" => options.paths
  <1>1. PICK m : m = a.entries.manifest
    OBVIOUS
  <1>2. PICK q : q = Events(a)
    OBVIOUS
  <1>3. DOMAIN m = ManifestFields /\ q \in Seq(LooseRecord)
    BY <1>1, <1>2 DEF Publishable, Shaped, Events
  <1>4. /\ DOMAIN p = PublicEntries /\ p.manifest = PublishedManifest(m)
        /\ p.events = ProjectLedger(q, options, PublicId)
    BY <1>1, <1>2 DEF PublishedEntries, PublicEntries
  <1>5. Verify(a).ok /\ SourceErrors(a) = {}
    BY DEF Publishable, Refused
  <1>6. ManifestErrors(a) = {} /\ LedgerErrors(a) = {}
    BY <1>5, VerifiedMeansIndexed
  <1>7. m.bound /\ m.status \in {"complete", "failed"}
    BY <1>1, <1>5 DEF SourceErrors, When
  <1>8. /\ p.manifest.profile = "publication" /\ p.manifest.trace = PublicId
        /\ p.manifest.vault = FALSE /\ p.manifest.status = m.status
    BY <1>3, <1>4 DEF PublishedManifest, ManifestFields
  <1>9. ~Has(b, "enc") /\ ~Has(b, "meta") /\ ~HasVault(b)
    BY <1>4 DEF Has, HasVault, PublicEntries
  <1>10. DOMAIN p.events = DOMAIN q /\ \A i \in DOMAIN q : p.events[i] = ProjectRecord(q[i], options, PublicId)
    BY <1>4 DEF ProjectLedger
  <1>11. Len(p.events) = Len(q) /\ Len(q) <= MaxEvents /\ Len(q) \in Nat
    <2>1. Len(q) \in Nat /\ DOMAIN q = 1..Len(q)
      BY <1>3, LenProperties
    <2>2. ~(Len(q) > MaxEvents)
      <3>1. When(Len(Events(a)) > MaxEvents, "event count") = {}
        BY <1>6 DEF LedgerErrors
      <3>2. ~(Len(Events(a)) > MaxEvents)
        BY <3>1 DEF When
      <3>. QED BY <1>2, <3>2
    <2>3. DOMAIN p.events = 1..Len(q)
      BY <1>10, <2>1
    <2>4. p.events = [i \in 1..Len(q) |-> ProjectRecord(q[i], options, PublicId)]
      BY <1>4, <2>1 DEF ProjectLedger
    <2>5. Len(p.events) = Len(q)
      BY <2>1, <2>4
    <2>. QED BY <2>1, <2>2, <2>5, LedgerAssumption
  <1>12. ASSUME NEW e \in Ledger(b)
         PROVE  \E d \in Ledger(a) : d \in LooseRecord /\ e = ProjectRecord(d, options, PublicId)
    <2>1. PICK i \in DOMAIN p.events : e = p.events[i]
      BY DEF Ledger, Events
    <2>2. q[i] \in Ledger(a) /\ q[i] \in LooseRecord
      BY <1>2, <1>3, <1>10, <2>1, LenProperties, ElementOfSeq DEF Ledger
    <2>. QED BY <1>10, <2>1, <2>2
  <1>13. ASSUME NEW d \in Ledger(a) PROVE PlacementErrors(a, d) = {} /\ ContentErrors(d) = {}
    <2>1. UNION {PlacementErrors(a, e) \cup ContentErrors(e) : e \in Ledger(a)} = {}
      BY <1>6 DEF LedgerErrors
    <2>2. PlacementErrors(a, d) \cup ContentErrors(d) \in {PlacementErrors(a, e) \cup ContentErrors(e) : e \in Ledger(a)}
      OBVIOUS
    <2>. QED BY <2>1, <2>2
  <1>14. ASSUME NEW e \in Ledger(b) PROVE PlacementErrors(b, e) \cup ContentErrors(e) = {}
    <2>1. PICK d \in Ledger(a) : d \in LooseRecord /\ e = ProjectRecord(d, options, PublicId)
      BY <1>12
    <2>2. /\ e.kind = d.kind /\ e.run = PublicId /\ e.seq = d.seq /\ e.stage = d.stage /\ e.visit = d.visit
          /\ e.model = d.model /\ e.tool = d.tool /\ e.to = d.to
          /\ d.shown = "marker" => e.shown = "marker"
      BY <2>1, ProjectedRecord
    <2>3. /\ d.kind \in Kinds /\ (d.kind = "annotation") = (d.seq = 0)
          /\ ~(d.kind \in StageKinds /\ (d.stage = None \/ d.visit = 0))
      BY <1>13 DEF PlacementErrors, When
    <2>4. /\ ~(d.kind \in ModelKinds /\ d.model = 0) /\ ~(d.kind \in ToolKinds /\ d.tool = 0)
          /\ ~(d.kind \in {"model_delta", "run_completed", "annotation"} /\ d.shown # "marker")
          /\ ~(d.kind = "transition_selected" /\ d.to = None)
      BY <1>13 DEF ContentErrors, When
    <2>5. e.run = b.entries.manifest.trace
      BY <1>8, <2>2
    <2>6. PlacementErrors(b, e) = {}
      BY <2>2, <2>3, <2>5 DEF PlacementErrors, When
    <2>7. ContentErrors(e) = {}
      BY <2>2, <2>4 DEF ContentErrors, When
    <2>. QED BY <2>6, <2>7
  <1>15. LedgerErrors(b) = {}
    <2>1. UNION {PlacementErrors(b, e) \cup ContentErrors(e) : e \in Ledger(b)} = {}
      BY <1>14
    <2>2. ~(Len(Events(b)) > MaxEvents)
      BY <1>11, LedgerAssumption DEF Events
    <2>. QED BY <2>1, <2>2 DEF LedgerErrors, When
  <1>16. ManifestErrors(b) = {}
    BY <1>7, <1>8 DEF ManifestErrors, When
  <1>17. VaultErrors(b) = {}
    <2>1. Has(b, "enc") = FALSE /\ Has(b, "meta") = FALSE /\ HasVault(b) = FALSE
      BY <1>9 DEF Has, HasVault
    <2>. QED BY <1>8, <2>1 DEF VaultErrors, When
  <1>18. IndexErrors(b) = {}
    BY DEF Index, IndexErrors, When
  <1>19. Required \subseteq DOMAIN b.entries
    BY <1>4 DEF Required, PublicEntries
  <1>20. Verify(b).ok
    BY <1>15, <1>16, <1>17, <1>18, <1>19 DEF Verify
  <1>21. ASSUME NEW e \in Ledger(b)
         PROVE  /\ e.run = p.manifest.trace /\ e.run # TraceId
                /\ e.name # None => options.names
                /\ e.shown = "path" => options.paths
    <2>1. PICK d \in Ledger(a) : d \in LooseRecord /\ e = ProjectRecord(d, options, PublicId)
      BY <1>12
    <2>2. e.run = PublicId /\ (e.name # None => options.names) /\ (e.shown = "path" => options.paths)
      BY <2>1, ProjectedRecord
    <2>. QED BY <1>8, <2>2 DEF PublicId, TraceId
  <1>. QED BY <1>1, <1>7, <1>8, <1>9, <1>20, <1>21

\* What attestationFromReport takes over from a report.
AttestationOf(p) ==
  [present |-> TRUE, options |-> p.options, digest |-> p.digest, source |-> p.source, reviewed |-> p.entries]

\* A report is of a projection that was not refused.
ReportInv ==
  report.present => \E a, o : Publishable(a) /\ report = Projection(a, o)
\* So is an attestation.
AttestationInv ==
  attestation.present => \E a, o : Publishable(a) /\ attestation = AttestationOf(Projection(a, o))
\* What is published was projected from an archive with the index of the one attested,
\* under the same options.
PublishedInv ==
  published.present =>
    \E a, b, o :
      /\ Publishable(a) /\ Publishable(b) /\ a.index = b.index
      /\ attestation = AttestationOf(Projection(b, o))
      /\ published = [present |-> TRUE, options |-> o, source |-> a,
                      archive |-> ArchiveOf(PublishedEntries(a, o))]

\* The three steps of a publication.
PubInv == ReportInv /\ AttestationInv /\ PublishedInv

\* Nothing is scanned at first.
LEMMA PublicationInit == MCInit => PubInv
  BY DEF MCInit, PubInit, NoReport, PubInv, ReportInv, AttestationInv, PublishedInv

\* What is held of an archived run has the shape a publication reads.
LEMMA HeldShaped ==
  ASSUME RunInv, ArchiveInv, outcome = "archived"
  PROVE  Shaped(held.entries)
  <1>1. PICK status \in Ended : IsBuilt(archive.entries, rec, status)
    BY ArchiveFacts
  <1>2. Shaped(archive.entries)
    BY <1>1, ArchiveFacts, BuiltShaped
  <1>3. PublicEntries \subseteq DOMAIN archive.entries
    BY <1>1 DEF IsBuilt
  <1>4. CASE held = archive
    BY <1>2, <1>4
  <1>5. CASE \E e \in Forgeries(archive.entries) : held.entries = e
    BY <1>2, <1>3, <1>5, ForgedShaped
  <1>. QED BY <1>4, <1>5 DEF ArchiveInv, HeldOrForged

\* The three steps read only what the step before wrote and the archive held.
LEMMA PublicationNext == RunInv /\ ArchiveInv /\ PubInv /\ [MCNext]_mcVars => PubInv'
  <1>. SUFFICES ASSUME RunInv, ArchiveInv, PubInv, [MCNext]_mcVars PROVE PubInv'
    OBVIOUS
  <1>1. CASE UNCHANGED <<report, attestation, published>>
    BY <1>1 DEF PubInv, ReportInv, AttestationInv, PublishedInv
  <1>2. CASE Publishes
    <2>1. outcome = "archived" /\ ~published.present /\ Shaped(held.entries)
      BY <1>2, HeldShaped DEF Publishes
    <2>2. ASSUME NEW options, ScanPublication(held, options) PROVE PubInv'
      <3>1. /\ report' = Projection(held, options) /\ attestation' = attestation /\ published' = published
            /\ Publishable(held)
        BY <2>1, <2>2 DEF ScanPublication, Publishable
      <3>. QED BY <3>1 DEF PubInv, ReportInv, AttestationInv, PublishedInv
    <2>3. CASE Attest
      <3>1. report.present /\ attestation' = AttestationOf(report) /\ report' = report /\ published' = published
        BY <2>3 DEF Attest, AttestationOf
      <3>2. AttestationInv'
        BY <3>1 DEF PubInv, ReportInv, AttestationInv
      <3>3. ~published'.present
        BY <2>1, <3>1
      <3>. QED BY <3>1, <3>2, <3>3 DEF PubInv, ReportInv, PublishedInv
    <2>4. CASE PreparePublication(held)
      <3>1. PICK p : p = Projection(held, attestation.options)
        OBVIOUS
      <3>2. /\ attestation.present /\ Covers(p) /\ Publishable(held)
            /\ report' = report /\ attestation' = attestation
            /\ published' = [present |-> TRUE, options |-> p.options, source |-> held,
                             archive |-> [entries |-> p.entries, index |-> Index(p.entries)]]
        BY <2>1, <2>4, <3>1 DEF PreparePublication, Publishable
      <3>3. PICK b, o : Publishable(b) /\ attestation = AttestationOf(Projection(b, o))
        BY <3>2 DEF PubInv, AttestationInv
      <3>4. /\ attestation.options = o /\ attestation.source.identity = b.index
        BY <3>3 DEF AttestationOf, Projection
      <3>5. /\ p.options = o /\ p.source.identity = held.index /\ p.entries = PublishedEntries(held, o)
        BY <3>1, <3>4 DEF Projection
      <3>6. held.index = b.index
        BY <3>2, <3>4, <3>5 DEF Covers
      <3>7. published' = [present |-> TRUE, options |-> o, source |-> held,
                          archive |-> ArchiveOf(PublishedEntries(held, o))]
        BY <3>2, <3>5 DEF ArchiveOf
      <3>8. PublishedInv'
        BY <3>2, <3>3, <3>6, <3>7 DEF PublishedInv
      <3>. QED BY <3>2, <3>8 DEF PubInv, ReportInv, AttestationInv
    <2>. QED BY <1>2, <2>2, <2>3, <2>4 DEF Publishes
  <1>3. [MCNext]_mcVars => Publishes \/ UNCHANGED <<report, attestation, published>>
    BY DEF MCNext, mcVars, pubVars, RunBegins, RunVisits, RunAsks, RunIsGated, RunCalls, RunLeavesStage, RunFails,
           RunAborted, RunFinishes, Advance, Rewrite, Replays
  <1>. QED BY <1>1, <1>2, <1>3

\* The index stands for the entries, so what is published is what was attested.
LEMMA Reviewed == PubInv => PublishedIsReviewed
  <1>. SUFFICES ASSUME PubInv, published.present PROVE PublishedIsReviewed
    BY DEF PublishedIsReviewed
  <1>1. PICK a, b, o :
          /\ Publishable(a) /\ Publishable(b) /\ a.index = b.index
          /\ attestation = AttestationOf(Projection(b, o))
          /\ published = [present |-> TRUE, options |-> o, source |-> a,
                          archive |-> ArchiveOf(PublishedEntries(a, o))]
    BY DEF PubInv, PublishedInv
  <1>2. PICK p : p = PublishedEntries(a, o)
    OBVIOUS
  <1>3. /\ published.options = o /\ published.source = a /\ published.archive = ArchiveOf(p)
        /\ published.archive.entries = p /\ published.archive.index = Index(p)
    BY <1>1, <1>2 DEF ArchiveOf
  <1>4. attestation.reviewed = PublishedEntries(b, o)
    BY <1>1 DEF AttestationOf, Projection
  <1>5. p = attestation.reviewed
    BY <1>1, <1>2, <1>4, SameProjection
  <1>6. PICK c : c = published.archive
    OBVIOUS
  <1>7. c.entries = p /\ c.index = Index(p)
    BY <1>3, <1>6
  <1>8. /\ Verify(c).ok /\ p.manifest.profile = "publication" /\ ~HasVault(c)
        /\ a.entries.manifest.bound
        /\ \A e \in Ledger(c) : /\ e.run = p.manifest.trace /\ e.run # TraceId
                                /\ e.name # None => o.names
                                /\ e.shown = "path" => o.paths
    BY <1>1, <1>2, <1>7, ProjectedVerifies
  <1>. QED BY <1>3, <1>5, <1>6, <1>8 DEF PublishedIsReviewed

-----------------------------------------------------------------------------

\* The inductive invariant of the life of the evidence.
EvidenceInv == RunInv /\ ArchiveInv /\ PubInv

\* The invariant holds in every state, whatever the workflow, the bounds, the
\* configurations of the recorder and the limits are: the calls of a run, of any
\* length, leave a ledger in order, and the archive is made of it.
THEOREM RecordingSafe == MCSpec => []EvidenceInv
  <1>1. MCInit => EvidenceInv
    BY RunInit, ArchiveInit, PublicationInit DEF EvidenceInv
  <1>2. EvidenceInv /\ [MCNext]_mcVars => EvidenceInv'
    BY RunNext, ArchiveNext, PublicationNext DEF EvidenceInv
  <1>. QED BY <1>1, <1>2, PTL DEF MCSpec

\* Every archive finishRun returns verifies, without errors or warnings, and can be
\* replayed exactly when the replay profile asked for a vault (trace.ts: finishRun
\* and verifyArchive agree on what a ledger is).
THEOREM EveryArchiveVerifies == MCSpec => []FinishedVerifies
  <1>1. EvidenceInv => FinishedVerifies
    BY Verifies DEF EvidenceInv
  <1>. QED BY <1>1, RecordingSafe, PTL

\* A vault that captured everything opens with the run's passphrase and holds the
\* evidence of every attempt, tool call and transition the ledger reports (trace.ts:
\* the queues match events to calls, unlockArchive and checkVaultEvidence).
THEOREM VaultsAreComplete == MCSpec => []UnlockComplete
  <1>1. EvidenceInv => UnlockComplete
    BY Unlocks DEF EvidenceInv
  <1>. QED BY <1>1, RecordingSafe, PTL

\* A rewritten archive fails verification or, re-indexed, opens only with the manifest,
\* graph, ledger and vault that were recorded (trace.ts: expectedVaultAad).
THEOREM RewritingIsNoticed == MCSpec => []VaultBindsRecord
  <1>1. EvidenceInv => VaultBindsRecord
    BY BindsRecord DEF EvidenceInv
  <1>. QED BY <1>1, RecordingSafe, PTL

\* What is published is, entry by entry, what a reviewer attested, and it verifies as
\* a publication without vault or private run id, although the archive may be
\* rewritten between scan and publication (publication.ts: preparePublication).
THEOREM PublicationIsReviewed == MCSpec => []PublishedIsReviewed
  <1>1. EvidenceInv => PublishedIsReviewed
    BY Reviewed DEF EvidenceInv
  <1>. QED BY <1>1, RecordingSafe, PTL
=============================================================================

----------------------------- MODULE PolicyGate -----------------------------
(***************************************************************************)
(* The tool calls of one stage visit: WorkflowRuntime.enforceAndCall       *)
(* (runtime.ts) checks the stage's capabilities, runs the deny policies    *)
(* and the before policies the capability triggers, and only then calls    *)
(* the tool.  A before policy requires other tool calls, which go through  *)
(* the same gate one level down, with deny policies only.                  *)
(*                                                                         *)
(* `stack` holds the pending calls, the nested one last.  A frame is       *)
(* between two policies ("loop"), between two requirements ("requiring"),  *)
(* waiting for a nested call, or suspended at the await of an event's sink *)
(* or of the tool handler.                                                 *)
(***************************************************************************)
EXTENDS Naturals, Sequences

CONSTANTS
  Capabilities,
  Confirm,       \* user.confirm, whose result false denies
  Visible,       \* stage.requires
  Checked,       \* capabilities whose tool has a preflight
  Policies,      \* sequence of [kind, trigger, requires]
  Tapes,         \* policy tapes the recorder may hold; empty in a live run
  MaxCalls       \* bound on the calls one stage visit makes

Verdicts == {"allowed", "denied", "unavailable"}
Policy == [kind : {"deny", "before"}, trigger : Capabilities, requires : Seq(Capabilities)]
PolicyIds == DOMAIN Policies

ASSUME PolicyAssumption ==
  /\ Confirm \in Capabilities
  /\ Visible \subseteq Capabilities /\ Checked \subseteq Capabilities
  /\ Policies \in Seq(Policy)
  /\ Tapes \subseteq [PolicyIds -> Seq({"allowed", "denied"})]
  /\ MaxCalls \in Nat

VARIABLES
  stack,       \* the pending calls
  tape,        \* recorder.policyTape
  toolCount,   \* TraceRecorder.toolCount
  records,     \* the vault's policy_evaluation and tool_result records
  event,       \* the event emitted last
  result,      \* how the last outermost call settled
  calls,       \* counter for MaxCalls
  mark         \* history: Len(records) when the outermost call began

vars == <<stack, tape, toolCount, records, event, result, calls, mark>>

Results == {"value", "false"}
Errors == {"capability", "preflight", "evaluation", "denied", "tool", "sink"}

Init ==
  /\ stack = <<>> /\ records = <<>>
  /\ tape \in Tapes
  /\ toolCount = 0 /\ calls = 0 /\ mark = 0
  /\ event = "none"
  /\ result = "none"

-----------------------------------------------------------------------------
Top == stack[Len(stack)]
At(where) == stack # <<>> /\ Top.at = where
Goto(frame) == stack' = [stack EXCEPT ![Len(stack)] = frame]

\* Mutant: deny policies are checked for calls of the stage only.
PlanSkippingNested(cap, nested) == {p \in PolicyIds : Policies[p].trigger = cap /\ ~nested}

\* Mutant: before policies are enforced for required calls too.
PlanNesting(cap, nested) == {p \in PolicyIds : Policies[p].trigger = cap}

\* The policies a call passes: the deny policies of its capability and, unless it
\* is itself required by a policy, the before policies.
Plan(cap, nested) ==
  {p \in PolicyIds : Policies[p].trigger = cap /\ (Policies[p].kind = "deny" \/ ~nested)}

\* They come in two loops, first the deny policies, each in manifest order.
ComesBefore(p, q) ==
  IF Policies[p].kind = Policies[q].kind THEN p < q ELSE Policies[p].kind = "deny"
IsNext(p, left) == p \in left /\ \A q \in left \ {p} : ComesBefore(p, q)

Required(frame) == Policies[frame.policy].requires

\* An error leaves the nested call and the call that required it alike: neither
\* stands inside a try while policies are evaluated or a nested call is pending.
Throw(e) ==
  /\ stack' = <<>>
  /\ result' = e

PolicyRecord(p, outcome) == [type |-> "policy", subject |-> p, outcome |-> outcome]
ToolRecord(id, cap, outcome) == [type |-> "tool", subject |-> <<id, cap>>, outcome |-> outcome]
Record(r) == records' = Append(records, r)

Frame(cap, nested) ==
  [cap |-> cap, nested |-> nested, at |-> "loop", left |-> Plan(cap, nested), policy |-> 0,
   req |-> 0, verdict |-> "allowed", callId |-> 0]

\* The check of p is announced, with what it will come to; the call is done with
\* its policy and goes on to the next.
Announce(p, v) == Goto([Top EXCEPT !.at = "policy_checked", !.policy = p, !.verdict = v])
GoOn == Goto([Top EXCEPT !.at = "loop", !.left = @ \ {Top.policy}])

\* enforceAndCallWithPolicies up to its first policy: the tool's preflight.
Enter(cap, nested) ==
  \/ /\ stack' = Append(stack, Frame(cap, nested))
     /\ UNCHANGED result
  \/ cap \in Checked /\ Throw("preflight")

\* The tool settled: the call returns v to its caller, the stage or the policy
\* that required it.  A confirmation that is exactly false denies.
Return(v) ==
  IF Len(stack) = 1
    THEN stack' = <<>> /\ result' = v /\ UNCHANGED event
    ELSE LET outer == stack[1] IN
         /\ UNCHANGED result
         /\ IF Top.cap = Confirm /\ v = "false"
              THEN /\ stack' = <<[outer EXCEPT !.at = "policy_denied", !.verdict = "denied"]>>
                   /\ event' = "policy_denied"
              ELSE /\ stack' = <<[outer EXCEPT !.at = "requiring", !.req = @ + 1]>>
                   /\ UNCHANGED event

-----------------------------------------------------------------------------
(* Actions *)

\* ctx.callTool of a stage.
CallTool(cap) ==
  /\ stack = <<>> /\ calls < MaxCalls
  /\ calls' = calls + 1
  /\ mark' = Len(records)
  /\ IF cap \in Visible THEN Enter(cap, FALSE) ELSE Throw("capability")
  /\ UNCHANGED <<tape, toolCount, records, event>>

\* Binding the trigger's arguments fails, or the condition does for another
\* reason than data that is not available: no event.
CheckFails ==
  /\ At("loop") /\ Top.left # {}
  /\ Throw("evaluation")
  /\ UNCHANGED <<tape, toolCount, records, event, calls, mark>>

\* A deny policy takes its taped outcome or evaluates its condition; both kinds
\* of policy then announce the check.
CheckPolicy ==
  /\ At("loop")
  /\ \E p \in Top.left : IsNext(p, Top.left) /\
       \/ /\ Policies[p].kind = "before"
          /\ Announce(p, "allowed") /\ UNCHANGED tape
       \/ /\ Policies[p].kind = "deny" /\ tape[p] # <<>>
          /\ Announce(p, Head(tape[p])) /\ tape' = [tape EXCEPT ![p] = Tail(@)]
       \/ /\ Policies[p].kind = "deny" /\ tape[p] = <<>>
          /\ (\E v \in Verdicts : Announce(p, v)) /\ UNCHANGED tape
  /\ event' = "policy_checked"
  /\ UNCHANGED <<toolCount, records, result, calls, mark>>

\* Mutant: the outcome is recorded after policy_denied, not before.
DenyCheckedUnrecorded ==
  /\ At("policy_checked") /\ Policies[Top.policy].kind = "deny"
  /\ CASE Top.verdict = "allowed" ->
            /\ Record(PolicyRecord(Top.policy, "allowed"))
            /\ GoOn /\ UNCHANGED <<event, result>>
       [] Top.verdict = "denied" ->
            /\ Goto([Top EXCEPT !.at = "policy_denied"]) /\ event' = "policy_denied"
            /\ UNCHANGED <<result, records>>
       [] OTHER -> Throw("evaluation") /\ UNCHANGED <<event, records>>
  /\ UNCHANGED <<tape, toolCount, calls, mark>>

\* policy_checked of a deny policy is delivered: record the outcome and go on,
\* deny, or, when the condition's data is not available, fail.
DenyChecked ==
  /\ At("policy_checked") /\ Policies[Top.policy].kind = "deny"
  /\ Record(PolicyRecord(Top.policy, IF Top.verdict = "allowed" THEN "allowed" ELSE "denied"))
  /\ CASE Top.verdict = "allowed" ->
            GoOn /\ UNCHANGED <<event, result>>
       [] Top.verdict = "denied" ->
            /\ Goto([Top EXCEPT !.at = "policy_denied"]) /\ event' = "policy_denied"
            /\ UNCHANGED result
       [] Top.verdict = "unavailable" -> Throw("evaluation") /\ UNCHANGED event
  /\ UNCHANGED <<tape, toolCount, calls, mark>>

BeforeChecked ==
  /\ At("policy_checked") /\ Policies[Top.policy].kind = "before"
  /\ Goto([Top EXCEPT !.at = "requiring", !.req = 1])
  /\ UNCHANGED <<tape, toolCount, records, event, result, calls, mark>>

\* The next required call; its arguments may not resolve or not be complete.
Require ==
  /\ At("requiring") /\ Top.req <= Len(Required(Top))
  /\ \/ Enter(Required(Top)[Top.req], TRUE)
     \/ Throw("evaluation")
  /\ UNCHANGED <<tape, toolCount, records, event, calls, mark>>

\* Mutant: a policy that requires nothing is never met.
RequirementsMetIfAny ==
  /\ At("requiring") /\ Top.req > Len(Required(Top)) /\ Top.req > 1
  /\ Record(PolicyRecord(Top.policy, "allowed"))
  /\ GoOn
  /\ UNCHANGED <<tape, toolCount, event, result, calls, mark>>

RequirementsMet ==
  /\ At("requiring") /\ Top.req > Len(Required(Top))
  /\ Record(PolicyRecord(Top.policy, "allowed"))
  /\ GoOn
  /\ UNCHANGED <<tape, toolCount, event, result, calls, mark>>

\* policy_denied is delivered.  A refused confirmation is recorded only now.
Denied ==
  /\ At("policy_denied")
  /\ IF Policies[Top.policy].kind = "before"
       THEN Record(PolicyRecord(Top.policy, "denied")) ELSE UNCHANGED records
  /\ Throw("denied")
  /\ UNCHANGED <<tape, toolCount, event, calls, mark>>

\* Every policy passed: the call gets its id and is announced.
StartTool ==
  /\ At("loop") /\ Top.left = {}
  /\ toolCount' = toolCount + 1
  /\ Goto([Top EXCEPT !.at = "tool_call_started", !.callId = toolCount + 1])
  /\ event' = "tool_call_started"
  /\ UNCHANGED <<tape, records, result, calls, mark>>

CallHandler ==
  /\ At("tool_call_started")
  /\ Goto([Top EXCEPT !.at = "handler"])
  /\ UNCHANGED <<tape, toolCount, records, event, result, calls, mark>>

HandlerReturns(v) ==
  /\ At("handler")
  /\ Record(ToolRecord(Top.callId, Top.cap, v))
  /\ Goto([Top EXCEPT !.at = "tool_call_completed", !.verdict = v])
  /\ event' = "tool_call_completed"
  /\ UNCHANGED <<tape, toolCount, result, calls, mark>>

\* Mutant: the error of a tool goes to the caller as it is.
ToolFailsUnrecorded(e) ==
  /\ Goto([Top EXCEPT !.at = "tool_call_failed", !.verdict = e])
  /\ event' = "tool_call_failed"
  /\ UNCHANGED <<tape, toolCount, records, result, calls, mark>>

\* The catch clause around the tool call.
ToolFails(e) ==
  /\ Record(ToolRecord(Top.callId, Top.cap, "error"))
  /\ Goto([Top EXCEPT !.at = "tool_call_failed", !.verdict = e])
  /\ event' = "tool_call_failed"
  /\ UNCHANGED <<tape, toolCount, result, calls, mark>>

HandlerThrows == At("handler") /\ ToolFails("tool")

Completed ==
  /\ At("tool_call_completed")
  /\ Return(Top.verdict)
  /\ UNCHANGED <<tape, toolCount, records, calls, mark>>

Failed ==
  /\ At("tool_call_failed")
  /\ Throw(Top.verdict)
  /\ UNCHANGED <<tape, toolCount, records, event, calls, mark>>

\* A sink failure is an error of the call; on tool_call_completed it still falls
\* into the catch clause, after the tool has run and its result was recorded.
SinkFails ==
  \/ At("tool_call_completed") /\ ToolFails("sink")
  \/ /\ stack # <<>>
     /\ Top.at \in {"policy_checked", "policy_denied", "tool_call_started", "tool_call_failed"}
     /\ Throw("sink")
     /\ UNCHANGED <<tape, toolCount, records, event, calls, mark>>

GateStep ==
  \/ CheckFails \/ CheckPolicy \/ DenyChecked \/ BeforeChecked
  \/ Require \/ RequirementsMet \/ Denied
  \/ StartTool \/ CallHandler \/ (\E v \in Results : HandlerReturns(v)) \/ HandlerThrows
  \/ Completed \/ Failed \/ SinkFails

Next == GateStep \/ (\E cap \in Capabilities : CallTool(cap))

\* Handlers and sinks settle; a stage need not call tools.
Spec == Init /\ [][Next]_vars /\ WF_vars(GateStep)

-----------------------------------------------------------------------------
(* Properties *)

GateTypeOK ==
  /\ Len(stack) <= 2
  /\ \A d \in DOMAIN stack :
       /\ stack[d].cap \in Capabilities
       /\ stack[d].nested = (d = 2)
       /\ stack[d].left \subseteq Plan(stack[d].cap, stack[d].nested)
       /\ stack[d].at \in {"loop", "requiring", "policy_checked", "policy_denied", "handler",
                           "tool_call_started", "tool_call_completed", "tool_call_failed"}
  /\ DOMAIN tape = PolicyIds
  /\ toolCount \in Nat /\ calls \in 0..MaxCalls /\ mark \in 0..Len(records)
  /\ result \in Results \cup Errors \cup {"none"}

\* What the vault holds of the outermost call so far.
Since == {i \in DOMAIN records : i > mark}

\* A tool handler runs only after every policy on it was found to allow the call
\* in this very call: its deny policies, also when a policy requires it; and its
\* before policies, whose required tools have all answered, none of them a
\* confirmation that was refused.
HandlerAuthorized ==
  At("handler") =>
    \A p \in PolicyIds : Policies[p].trigger = Top.cap =>
      \/ Top.nested /\ Policies[p].kind = "before"
      \/ /\ \E i \in Since : records[i] = PolicyRecord(p, "allowed")
         /\ Policies[p].kind = "before" => \A r \in DOMAIN Policies[p].requires :
              \E i \in Since :
                /\ records[i].type = "tool"
                /\ records[i].subject[2] = Policies[p].requires[r]
                /\ records[i].outcome = "value"
                     \/ (Policies[p].requires[r] # Confirm /\ records[i].outcome = "false")

\* A denied call was announced as denied and is on record as denied.
DenialOnRecord ==
  result = "denied" /\ stack = <<>> =>
    /\ event = "policy_denied"
    /\ mark < Len(records)
    /\ \E p \in PolicyIds : records[Len(records)] = PolicyRecord(p, "denied")

\* When the call of a stage returns or throws what its tool did, each tool that
\* ran for it, required ones included, is on record once, and its own outcome is
\* the last one on record.
OutcomeOnRecord ==
  stack = <<>> /\ result \in Results \cup {"tool"} =>
    /\ mark < Len(records)
    /\ records[Len(records)].type = "tool"
    /\ records[Len(records)].outcome = IF result = "tool" THEN "error" ELSE result
    /\ \A i, j \in Since :
         records[i].type = "tool" /\ records[j].type = "tool"
           /\ records[i].subject = records[j].subject => i = j

\* Every call settles.
CallSettles == stack # <<>> ~> stack = <<>>
=============================================================================

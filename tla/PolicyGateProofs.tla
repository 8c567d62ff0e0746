-------------------------- MODULE PolicyGateProofs --------------------------
(***************************************************************************)
(* Proofs about PolicyGate for every set of capabilities, every list of    *)
(* policies, every replay tape and any number of calls.  The invariant     *)
(* comes in three layers: the shape of the pending calls, what the last    *)
(* record says, and what the records say of the policies already passed.   *)
(***************************************************************************)
EXTENDS PolicyGate, SequenceTheorems, TLAPS

Points == {"loop", "requiring", "policy_checked", "policy_denied", "handler",
           "tool_call_started", "tool_call_completed", "tool_call_failed"}

FrameType ==
  [cap : Capabilities, nested : BOOLEAN, at : Points, left : SUBSET PolicyIds,
   policy : PolicyIds \cup {0}, req : Nat,
   verdict : Verdicts \cup Results \cup {"tool", "sink"}, callId : Nat]

RecordType ==
  [type : {"policy", "tool"}, subject : PolicyIds \cup (Nat \X Capabilities),
   outcome : {"allowed", "denied", "error"} \cup Results]

\* A pending call between two awaits.  A call that is between the check of a
\* policy and its outcome has that policy still to pass; one whose tool was
\* started has none left.
FrameOK(f, nested) ==
  /\ f \in FrameType /\ f.nested = nested
  /\ f.left \subseteq Plan(f.cap, nested)
  /\ f.at \in {"policy_checked", "policy_denied", "requiring"} => f.policy \in f.left
  /\ f.at = "requiring" => Policies[f.policy].kind = "before" /\ f.req # 0
  /\ f.at = "policy_checked" => f.verdict \in Verdicts
  /\ f.at \in {"tool_call_started", "handler", "tool_call_completed", "tool_call_failed"} =>
       f.left = {}
  /\ f.at = "tool_call_completed" => f.verdict \in Results
  /\ f.at = "tool_call_failed" => f.verdict \in {"tool", "sink"}

\* The call that required another one waits for it.
Waits(outer, inner) ==
  /\ outer.at = "requiring"
  /\ outer.req <= Len(Required(outer))
  /\ inner.cap = Required(outer)[outer.req]

StackOK ==
  /\ stack \in Seq(FrameType)
  /\ Len(stack) <= 2
  /\ \A d \in 1..Len(stack) : FrameOK(stack[d], d = 2)
  /\ Len(stack) = 2 => Waits(stack[1], stack[2])

CountersOK ==
  /\ tape \in [PolicyIds -> Seq({"allowed", "denied"})]
  /\ records \in Seq(RecordType)
  /\ toolCount \in Nat /\ calls \in 0..MaxCalls /\ mark \in 0..Len(records)
  /\ result \in Results \cup Errors \cup {"none"}

ShapeInv == StackOK /\ CountersOK

-----------------------------------------------------------------------------
(* What the operators on the stack do *)

\* Each policy has a kind, a trigger and the list of what it requires.
LEMMA PolicyTypes ==
  ASSUME NEW p \in PolicyIds
  PROVE  /\ Policies[p].kind \in {"deny", "before"}
         /\ Policies[p].trigger \in Capabilities
         /\ Policies[p].requires \in Seq(Capabilities)
         /\ p # 0
  <1>1. Policies \in Seq(Policy) /\ p \in 1..Len(Policies)
    BY PolicyAssumption, LenProperties DEF PolicyIds
  <1>2. Policies[p] \in Policy /\ Len(Policies) \in Nat
    BY <1>1, ElementOfSeq, LenProperties
  <1>. QED BY <1>1, <1>2 DEF Policy

\* A required call has no before policy to pass.
LEMMA NestedPlan ==
  ASSUME NEW cap, NEW p \in Plan(cap, TRUE)
  PROVE  Policies[p].kind = "deny"
  BY DEF Plan

LEMMA NewFrameOK ==
  ASSUME NEW cap \in Capabilities, NEW nested \in BOOLEAN
  PROVE  FrameOK(Frame(cap, nested), nested)
  <1>1. Plan(cap, nested) \subseteq PolicyIds
    BY DEF Plan
  <1>. HIDE DEF Plan
  <1>2. Frame(cap, nested) \in FrameType
    BY <1>1 DEF Frame, FrameType, Points, Verdicts
  <1>. QED BY <1>2 DEF Frame, FrameOK

\* The pending call at the top.
LEMMA TopOK ==
  ASSUME StackOK, stack # <<>>
  PROVE  /\ Len(stack) \in {1, 2}
         /\ FrameOK(Top, Len(stack) = 2)
         /\ Top \in FrameType
  <1>1. Len(stack) \in Nat \ {0}
    BY EmptySeq DEF StackOK
  <1>2. Len(stack) \in {1, 2}
    <2>1. \A n \in Nat \ {0} : n <= 2 => n \in {1, 2}
      OBVIOUS
    <2>2. Len(stack) <= 2
      BY DEF StackOK
    <2>. QED BY <1>1, <2>1, <2>2
  <1>3. FrameOK(stack[Len(stack)], Len(stack) = 2)
    BY <1>2 DEF StackOK
  <1>. QED BY <1>2, <1>3 DEF Top, FrameOK

\* Only a call of the stage waits for required ones.
LEMMA RequiringIsOuter ==
  ASSUME StackOK, At("requiring")
  PROVE  /\ Len(stack) = 1 /\ Top = stack[1]
         /\ Top.policy \in PolicyIds /\ Top.req \in Nat \ {0}
  <1>1. /\ Len(stack) \in {1, 2} /\ FrameOK(Top, Len(stack) = 2) /\ Top \in FrameType
        /\ Top.at = "requiring"
    BY TopOK DEF At
  <1>2. Top.policy \in Plan(Top.cap, Len(stack) = 2) /\ Policies[Top.policy].kind = "before"
    BY <1>1 DEF FrameOK
  <1>3. Len(stack) # 2
    BY <1>2, NestedPlan
  <1>. QED BY <1>1, <1>2, <1>3 DEF Top, Plan, FrameOK, FrameType

\* Replacing the frame at the top by one that is no longer, or still, waited for.
LEMMA GotoStack ==
  ASSUME StackOK, stack # <<>>, NEW f, Goto(f), FrameOK(f, Len(stack) = 2), f.cap = Top.cap
  PROVE  /\ StackOK' /\ stack' # <<>> /\ Len(stack') = Len(stack) /\ Top' = f
         /\ \A d \in 1..Len(stack) : d # Len(stack) => stack'[d] = stack[d]
  <1>1. Len(stack) \in {1, 2}
    BY TopOK
  <1>2. f \in FrameType
    BY DEF FrameOK
  <1>3. /\ stack' \in Seq(FrameType) /\ Len(stack') = Len(stack)
        /\ \A d \in 1..Len(stack) : stack'[d] = IF d = Len(stack) THEN f ELSE stack[d]
    BY <1>1, <1>2, ExceptSeq DEF StackOK, Goto
  <1>4. stack' # <<>> /\ Top' = f
    BY <1>1, <1>3, EmptySeq DEF Top
  <1>5. \A d \in 1..Len(stack') : FrameOK(stack'[d], d = 2)
    BY <1>1, <1>3 DEF StackOK
  <1>6. Len(stack') = 2 => Waits(stack'[1], stack'[2])
    BY <1>1, <1>3 DEF StackOK, Waits, Top
  <1>. QED BY <1>1, <1>3, <1>4, <1>5, <1>6 DEF StackOK

\* A call settles by an error: nothing is pending.
LEMMA EmptyStack ==
  ASSUME stack' = <<>>
  PROVE  StackOK'
  BY EmptySeq DEF StackOK

\* One pending call.
LEMMA SingleStack ==
  ASSUME NEW f, FrameOK(f, FALSE), stack' = <<f>>
  PROVE  StackOK' /\ Len(stack') = 1 /\ stack'[1] = f /\ Top' = f /\ stack' # <<>>
  <1>1. f \in FrameType
    BY DEF FrameOK
  <1>2. stack' \in Seq(FrameType) /\ Len(stack') = 1 /\ stack'[1] = f
    BY <1>1
  <1>3. stack' # <<>> /\ Top' = f
    BY <1>2, EmptySeq DEF Top
  <1>4. \A d \in 1..Len(stack') : FrameOK(stack'[d], d = 2)
    <2>1. ASSUME NEW d \in 1..Len(stack') PROVE FrameOK(stack'[d], d = 2)
      <3>1. d = 1
        BY <1>2
      <3>2. (d = 2) = FALSE
        BY <3>1
      <3>. QED BY <1>2, <3>1, <3>2
    <2>. QED BY <2>1
  <1>. QED BY <1>2, <1>3, <1>4 DEF StackOK

\* A call of the stage that now waits for another one.
LEMMA NestedStack ==
  ASSUME StackOK, Len(stack) = 1, NEW f, FrameOK(f, TRUE), Waits(stack[1], f),
         stack' = Append(stack, f)
  PROVE  /\ StackOK' /\ Len(stack') = 2 /\ stack'[1] = stack[1] /\ stack'[2] = f
         /\ Top' = f /\ stack' # <<>>
  <1>1. f \in FrameType /\ stack \in Seq(FrameType)
    BY DEF FrameOK, StackOK
  <1>2. /\ stack' \in Seq(FrameType) /\ stack' # <<>> /\ Len(stack') = 2
        /\ stack'[1] = stack[1] /\ stack'[2] = f
    <2>. HIDE DEF FrameType
    <2>1. stack' \in Seq(FrameType)
      BY <1>1, AppendProperties
    <2>2. Len(stack') = Len(stack) + 1
      BY <1>1, AppendProperties
    <2>3. stack'[Len(stack) + 1] = f
      BY <1>1, AppendProperties
    <2>4. \A i \in 1..Len(stack) : stack'[i] = stack[i]
      BY <1>1, AppendProperties
    <2>5. Len(stack) + 1 = 2 /\ 1 \in 1..Len(stack)
      OBVIOUS
    <2>. QED BY <2>1, <2>2, <2>3, <2>4, <2>5, EmptySeq
  <1>3. Top' = f
    BY <1>2 DEF Top
  <1>4. ASSUME NEW d \in 1..Len(stack') PROVE FrameOK(stack'[d], d = 2)
    <2>1. CASE d = 1
      <3>1. (d = 2) = FALSE /\ FrameOK(stack[1], 1 = 2)
        BY <2>1 DEF StackOK
      <3>. QED BY <1>2, <2>1, <3>1
    <2>2. CASE d = 2
      BY <1>2, <2>2
    <2>. QED BY <1>2, <2>1, <2>2
  <1>. QED BY <1>2, <1>3, <1>4 DEF StackOK

LEMMA RecordTypes ==
  /\ \A p \in PolicyIds, o \in {"allowed", "denied"} : PolicyRecord(p, o) \in RecordType
  /\ \A id \in Nat, cap \in Capabilities, o \in Results \cup {"error"} :
       ToolRecord(id, cap, o) \in RecordType
  BY DEF PolicyRecord, ToolRecord, RecordType

\* Adding a record to the vault.
LEMMA RecordGrows ==
  ASSUME CountersOK, NEW r \in RecordType, Record(r)
  PROVE  /\ records' \in Seq(RecordType) /\ Len(records') = Len(records) + 1
         /\ Len(records) \in Nat /\ mark \in 0..Len(records')
         /\ \A i \in 1..Len(records) : records'[i] = records[i]
         /\ records'[Len(records')] = r
  BY AppendProperties, LenProperties DEF CountersOK, Record

-----------------------------------------------------------------------------
(* The shape of the pending calls *)

LEMMA ShapeInit == Init => ShapeInv
  <1>. SUFFICES ASSUME Init PROVE ShapeInv
    OBVIOUS
  <1>1. StackOK
    BY EmptySeq DEF Init, StackOK
  <1>2. records \in Seq(RecordType) /\ Len(records) = 0
    BY EmptySeq DEF Init
  <1>3. mark \in 0..Len(records)
    BY <1>2 DEF Init
  <1>4. /\ tape \in [PolicyIds -> Seq({"allowed", "denied"})]
        /\ toolCount \in Nat /\ calls \in 0..MaxCalls
        /\ result \in Results \cup Errors \cup {"none"}
    BY PolicyAssumption DEF Init
  <1>. QED BY <1>1, <1>2, <1>3, <1>4 DEF ShapeInv, CountersOK

\* A call enters the gate at its first policy, unless its preflight refuses it.
LEMMA EnterShape ==
  ASSUME StackOK, NEW cap \in Capabilities, NEW nested \in BOOLEAN, Enter(cap, nested),
         \/ stack = <<>> /\ nested = FALSE
         \/ /\ Len(stack) = 1 /\ nested = TRUE
            /\ Waits(stack[1], Frame(cap, nested))
  PROVE  StackOK'
  <1>1. CASE stack' = <<>>
    BY <1>1, EmptyStack
  <1>2. CASE stack' = Append(stack, Frame(cap, nested))
    <2>1. FrameOK(Frame(cap, nested), nested)
      BY NewFrameOK
    <2>2. CASE stack = <<>> /\ nested = FALSE
      <3>1. stack' = <<Frame(cap, nested)>>
        BY <1>2, <2>2
      <3>. QED BY <2>1, <2>2, <3>1, SingleStack
    <2>3. CASE Len(stack) = 1 /\ nested = TRUE /\ Waits(stack[1], Frame(cap, nested))
      BY <1>2, <2>1, <2>3, NestedStack
    <2>. QED BY <2>2, <2>3
  <1>. QED BY <1>1, <1>2 DEF Enter, Throw

\* A handler's answer ends the call, or the wait of the one that required it.
LEMMA ReturnShape ==
  ASSUME StackOK, stack # <<>>, NEW v, Return(v)
  PROVE  StackOK'
  <1>1. Len(stack) \in {1, 2}
    BY TopOK
  <1>2. CASE Len(stack) = 1
    BY <1>2, EmptyStack DEF Return
  <1>3. CASE Len(stack) = 2
    <2>1. FrameOK(stack[1], FALSE)
      <3>1. FrameOK(stack[1], 1 = 2) /\ (1 = 2) = FALSE
        BY <1>3 DEF StackOK
      <3>. QED BY <3>1
    <2>2. stack[1].at = "requiring"
      BY <1>3 DEF StackOK, Waits
    <2>3. \/ stack' = <<[stack[1] EXCEPT !.at = "policy_denied", !.verdict = "denied"]>>
          \/ stack' = <<[stack[1] EXCEPT !.at = "requiring", !.req = @ + 1]>>
      BY <1>3 DEF Return
    <2>4. FrameOK([stack[1] EXCEPT !.at = "policy_denied", !.verdict = "denied"], FALSE)
      BY <2>1, <2>2 DEF FrameOK, FrameType, Points, Verdicts
    <2>5. FrameOK([stack[1] EXCEPT !.at = "requiring", !.req = @ + 1], FALSE)
      <3>1. stack[1] \in FrameType /\ stack[1].req \in Nat
        BY <2>1 DEF FrameOK, FrameType
      <3>2. stack[1].req + 1 \in Nat \ {0}
        BY <3>1
      <3>. QED BY <2>1, <2>2, <3>1, <3>2 DEF FrameOK, FrameType
    <2>. QED BY <2>3, <2>4, <2>5, SingleStack
  <1>. QED BY <1>1, <1>2, <1>3

\* The same call, at another point.
LEMMA TopGoes ==
  ASSUME StackOK, stack # <<>>, NEW f, Goto(f), FrameOK(f, Len(stack) = 2), f.cap = Top.cap
  PROVE  StackOK'
  BY GotoStack

LEMMA StackNext == ShapeInv /\ [Next]_vars => StackOK'
  <1>. SUFFICES ASSUME StackOK, CountersOK, [Next]_vars PROVE StackOK'
    BY DEF ShapeInv
  <1>0. stack # <<>> =>
          /\ Len(stack) \in {1, 2} /\ FrameOK(Top, Len(stack) = 2) /\ Top \in FrameType
          /\ (Len(stack) = 2) \in BOOLEAN
    BY TopOK
  <1>1. ASSUME NEW cap \in Capabilities, CallTool(cap) PROVE StackOK'
    BY <1>1, EnterShape, EmptyStack DEF CallTool, Throw
  <1>2. CASE CheckFails \/ Denied \/ Failed
    BY <1>2, EmptyStack DEF CheckFails, Denied, Failed, Throw
  <1>3. CASE CheckPolicy
    <2>1. PICK p \in Top.left, v \in Verdicts : Announce(p, v)
      <3>1. PICK p \in Top.left :
              \/ Announce(p, "allowed")
              \/ tape[p] # <<>> /\ Announce(p, Head(tape[p]))
              \/ \E v \in Verdicts : Announce(p, v)
        BY <1>3 DEF CheckPolicy
      <3>2. p \in PolicyIds
        BY <1>0, <1>3 DEF CheckPolicy, At, FrameType
      <3>3. tape[p] # <<>> => Head(tape[p]) \in Verdicts
        BY <3>2, HeadTailProperties DEF CountersOK, Verdicts
      <3>. QED BY <3>1, <3>3 DEF Verdicts
    <2>2. stack # <<>> /\ Top.at = "loop"
      BY <1>3 DEF CheckPolicy, At
    <2>3. p \in PolicyIds
      BY <1>0, <2>2 DEF FrameType
    <2>4. FrameOK([Top EXCEPT !.at = "policy_checked", !.policy = p, !.verdict = v], Len(stack) = 2)
      BY <1>0, <2>1, <2>2, <2>3 DEF FrameOK, FrameType, Points
    <2>. QED BY <1>0, <2>1, <2>2, <2>4, TopGoes DEF Announce, FrameType
  <1>4. CASE GoOn /\ stack # <<>>
    <2>1. FrameOK([Top EXCEPT !.at = "loop", !.left = @ \ {Top.policy}], Len(stack) = 2)
      BY <1>0, <1>4 DEF FrameOK, FrameType, Points
    <2>. QED BY <1>0, <1>4, <2>1, TopGoes DEF GoOn, FrameType
  <1>5. CASE DenyChecked
    <2>1. stack # <<>> /\ Top.at = "policy_checked" /\ Top.verdict \in Verdicts
      BY <1>0, <1>5 DEF DenyChecked, At, FrameOK
    <2>2. CASE Top.verdict = "allowed"
      BY <1>4, <1>5, <2>1, <2>2 DEF DenyChecked
    <2>3. CASE Top.verdict = "denied"
      <3>1. FrameOK([Top EXCEPT !.at = "policy_denied"], Len(stack) = 2)
        BY <1>0, <2>1 DEF FrameOK, FrameType, Points
      <3>2. Goto([Top EXCEPT !.at = "policy_denied"])
        BY <1>5, <2>3 DEF DenyChecked
      <3>. QED BY <1>0, <2>1, <3>1, <3>2, TopGoes DEF FrameType
    <2>4. CASE Top.verdict = "unavailable"
      BY <1>5, <2>4, EmptyStack DEF DenyChecked, Throw
    <2>. QED BY <2>1, <2>2, <2>3, <2>4 DEF Verdicts
  <1>6. CASE BeforeChecked
    <2>1. FrameOK([Top EXCEPT !.at = "requiring", !.req = 1], Len(stack) = 2)
      <3>1. /\ Top.at = "policy_checked" /\ Policies[Top.policy].kind = "before"
            /\ Top \in FrameType /\ FrameOK(Top, Len(stack) = 2)
        BY <1>0, <1>6 DEF BeforeChecked, At
      <3>2. [Top EXCEPT !.at = "requiring", !.req = 1] \in FrameType
        BY <3>1 DEF FrameType, Points
      <3>3. Top.policy \in Top.left
        BY <3>1 DEF FrameOK
      <3>. QED BY <3>1, <3>2, <3>3 DEF FrameOK, FrameType
    <2>. QED BY <1>0, <1>6, <2>1, TopGoes DEF BeforeChecked, At, FrameType
  <1>7. CASE Require
    <2>1. Len(stack) = 1 /\ Top = stack[1] /\ Top.policy \in PolicyIds /\ Top.req \in Nat \ {0}
      BY <1>7, RequiringIsOuter DEF Require
    <2>2. Required(Top)[Top.req] \in Capabilities
      <3>1. Required(Top) \in Seq(Capabilities) /\ Len(Required(Top)) \in Nat
        BY <2>1, PolicyTypes, LenProperties DEF Required
      <3>2. Top.req \in 1..Len(Required(Top))
        BY <1>7, <2>1, <3>1 DEF Require
      <3>. QED BY <3>1, <3>2, ElementOfSeq
    <2>3. Waits(stack[1], Frame(Required(Top)[Top.req], TRUE))
      BY <1>7, <2>1 DEF Require, Waits, Frame, At
    <2>. QED BY <1>7, <2>1, <2>2, <2>3, EnterShape, EmptyStack DEF Require, Throw
  <1>8. CASE RequirementsMet
    BY <1>4, <1>8 DEF RequirementsMet, At
  <1>9. CASE StartTool
    <2>1. toolCount + 1 \in Nat
      BY DEF CountersOK
    <2>2. FrameOK([Top EXCEPT !.at = "tool_call_started", !.callId = toolCount + 1], Len(stack) = 2)
      BY <1>0, <1>9, <2>1 DEF StartTool, At, FrameOK, FrameType, Points
    <2>. QED BY <1>0, <1>9, <2>2, TopGoes DEF StartTool, At, FrameType
  <1>10. CASE CallHandler
    <2>1. FrameOK([Top EXCEPT !.at = "handler"], Len(stack) = 2)
      BY <1>0, <1>10 DEF CallHandler, At, FrameOK, FrameType, Points
    <2>. QED BY <1>0, <1>10, <2>1, TopGoes DEF CallHandler, At, FrameType
  <1>11. ASSUME NEW v \in Results, HandlerReturns(v) PROVE StackOK'
    <2>1. FrameOK([Top EXCEPT !.at = "tool_call_completed", !.verdict = v], Len(stack) = 2)
      BY <1>0, <1>11 DEF HandlerReturns, At, FrameOK, FrameType, Points
    <2>. QED BY <1>0, <1>11, <2>1, TopGoes DEF HandlerReturns, At, FrameType
  <1>12. ASSUME NEW e \in {"tool", "sink"}, ToolFails(e),
                At("handler") \/ At("tool_call_completed")
         PROVE  StackOK'
    <2>1. FrameOK([Top EXCEPT !.at = "tool_call_failed", !.verdict = e], Len(stack) = 2)
      BY <1>0, <1>12 DEF At, FrameOK, FrameType, Points
    <2>. QED BY <1>0, <1>12, <2>1, TopGoes DEF ToolFails, At, FrameType
  <1>13. CASE HandlerThrows
    BY <1>12, <1>13 DEF HandlerThrows
  <1>14. CASE Completed
    BY <1>14, ReturnShape DEF Completed, At
  <1>15. CASE SinkFails
    BY <1>12, <1>15, EmptyStack DEF SinkFails, Throw
  <1>16. CASE UNCHANGED vars
    BY <1>16 DEF vars, StackOK
  <1>. QED BY <1>1, <1>2, <1>3, <1>5, <1>6, <1>7, <1>8, <1>9, <1>10, <1>11, <1>13, <1>14, <1>15,
              <1>16 DEF Next, GateStep


\* While a call of the stage is pending the vault only gains records.
Adds == mark' = mark /\ (records' = records \/ \E r \in RecordType : Record(r))

LEMMA GateAdds ==
  ASSUME ShapeInv, GateStep
  PROVE  Adds
  <1>0. stack # <<>> => /\ FrameOK(Top, Len(stack) = 2) /\ Top \in FrameType
    BY TopOK DEF ShapeInv
  <1>1. CASE DenyChecked
    <2>1. Top.policy \in PolicyIds
      <3>1. FrameOK(Top, Len(stack) = 2) /\ Top.at = "policy_checked"
        BY <1>0, <1>1 DEF DenyChecked, At
      <3>. QED BY <3>1 DEF FrameOK, Plan
    <2>. QED BY <1>1, <2>1, RecordTypes DEF DenyChecked, Adds
  <1>2. CASE RequirementsMet
    BY <1>2, RequiringIsOuter, RecordTypes DEF RequirementsMet, Adds, ShapeInv
  <1>3. CASE Denied
    <2>1. Top.policy \in PolicyIds
      <3>1. FrameOK(Top, Len(stack) = 2) /\ Top.at = "policy_denied"
        BY <1>0, <1>3 DEF Denied, At
      <3>. QED BY <3>1 DEF FrameOK, Plan
    <2>. QED BY <1>3, <2>1, RecordTypes DEF Denied, Adds
  <1>4. ASSUME NEW v \in Results, HandlerReturns(v) PROVE Adds
    <2>1. ToolRecord(Top.callId, Top.cap, v) \in RecordType
      BY <1>0, <1>4, RecordTypes DEF HandlerReturns, At, FrameType
    <2>. QED BY <1>4, <2>1 DEF HandlerReturns, Adds
  <1>5. ASSUME NEW e, stack # <<>>, ToolFails(e) PROVE Adds
    <2>1. ToolRecord(Top.callId, Top.cap, "error") \in RecordType
      BY <1>0, <1>5, RecordTypes DEF FrameType
    <2>. QED BY <1>5, <2>1 DEF ToolFails, Adds
  <1>6. CASE HandlerThrows
    BY <1>5, <1>6 DEF HandlerThrows, At
  <1>7. CASE SinkFails
    BY <1>5, <1>7 DEF SinkFails, At, Adds
  <1>8. CASE CheckFails \/ CheckPolicy \/ BeforeChecked \/ Require \/ StartTool \/ CallHandler
                \/ Completed \/ Failed
    BY <1>8 DEF CheckFails, CheckPolicy, BeforeChecked, Require, StartTool, CallHandler, Completed,
                Failed, Adds
  <1>. QED BY <1>1, <1>2, <1>3, <1>4, <1>6, <1>7, <1>8 DEF GateStep

\* What a call settles with.
LEMMA ResultNext ==
  ASSUME ShapeInv, [Next]_vars
  PROVE  result' \in Results \cup Errors \cup {"none"}
  <1>0. result \in Results \cup Errors \cup {"none"}
    BY DEF ShapeInv, CountersOK
  <1>00. stack # <<>> => FrameOK(Top, Len(stack) = 2)
    BY TopOK DEF ShapeInv
  <1>1. ASSUME NEW cap \in Capabilities, CallTool(cap) PROVE result' \in Results \cup Errors \cup {"none"}
    BY <1>0, <1>1 DEF CallTool, Enter, Throw, Errors
  <1>2. CASE CheckFails \/ Require \/ Denied
    BY <1>0, <1>2 DEF CheckFails, Require, Enter, Denied, Throw, Errors
  <1>3. CASE DenyChecked
    <2>1. Top.verdict \in Verdicts
      BY <1>00, <1>3 DEF DenyChecked, At, FrameOK
    <2>. QED BY <1>0, <1>3, <2>1 DEF DenyChecked, Throw, Errors, Verdicts
  <1>4. CASE Completed
    <2>1. Top.verdict \in Results
      BY <1>00, <1>4 DEF Completed, At, FrameOK
    <2>. QED BY <1>0, <1>4, <2>1 DEF Completed, Return
  <1>5. CASE Failed
    <2>1. Top.verdict \in {"tool", "sink"}
      BY <1>00, <1>5 DEF Failed, At, FrameOK
    <2>. QED BY <1>5, <2>1 DEF Failed, Throw, Errors
  <1>6. CASE SinkFails \/ HandlerThrows
    BY <1>0, <1>6 DEF SinkFails, HandlerThrows, ToolFails, Throw, Errors
  <1>7. CASE \/ CheckPolicy \/ BeforeChecked \/ RequirementsMet \/ StartTool \/ CallHandler
             \/ (\E v \in Results : HandlerReturns(v)) \/ UNCHANGED vars
    BY <1>0, <1>7 DEF CheckPolicy, BeforeChecked, RequirementsMet, StartTool, CallHandler,
                      HandlerReturns, vars
  <1>. QED BY <1>1, <1>2, <1>3, <1>4, <1>5, <1>6, <1>7 DEF Next, GateStep

\* A taped outcome is used once.
LEMMA TapeNext ==
  ASSUME ShapeInv, [Next]_vars
  PROVE  tape' \in [PolicyIds -> Seq({"allowed", "denied"})]
  <1>0. tape \in [PolicyIds -> Seq({"allowed", "denied"})]
    BY DEF ShapeInv, CountersOK
  <1>1. CASE CheckPolicy
    <2>1. PICK p : tape' = tape \/ (tape[p] # <<>> /\ p \in Top.left /\ tape' = [tape EXCEPT ![p] = Tail(@)])
      BY <1>1 DEF CheckPolicy
    <2>2. Top.left \subseteq PolicyIds
      <3>1. stack # <<>>
        BY <1>1 DEF CheckPolicy, At
      <3>. QED BY <3>1, TopOK DEF ShapeInv, FrameType
    <2>3. CASE tape[p] # <<>> /\ p \in Top.left /\ tape' = [tape EXCEPT ![p] = Tail(@)]
      <3>1. Tail(tape[p]) \in Seq({"allowed", "denied"})
        BY <1>0, <2>2, <2>3, HeadTailProperties
      <3>. QED BY <1>0, <2>3, <3>1
    <2>. QED BY <1>0, <2>1, <2>3
  <1>2. CASE UNCHANGED tape
    BY <1>0, <1>2
  <1>3. CASE DenyChecked
    BY <1>2, <1>3 DEF DenyChecked
  <1>. QED BY <1>1, <1>2, <1>3 DEF Next, GateStep, CheckFails, BeforeChecked, Require, RequirementsMet,
              Denied, StartTool, CallHandler, HandlerReturns, HandlerThrows, ToolFails, Completed,
              Failed, SinkFails, CallTool, vars

LEMMA CountersNext == ShapeInv /\ [Next]_vars => CountersOK'
  <1>. SUFFICES ASSUME ShapeInv, [Next]_vars PROVE CountersOK'
    OBVIOUS
  <1>0. records \in Seq(RecordType) /\ Len(records) \in Nat
        /\ toolCount \in Nat /\ calls \in 0..MaxCalls /\ mark \in 0..Len(records)
    BY LenProperties DEF ShapeInv, CountersOK
  <1>1. records' \in Seq(RecordType) /\ mark' \in 0..Len(records')
    <2>1. CASE Adds
      BY <1>0, <2>1, RecordGrows DEF Adds, ShapeInv
    <2>2. ASSUME NEW cap \in Capabilities, CallTool(cap)
          PROVE  records' \in Seq(RecordType) /\ mark' \in 0..Len(records')
      BY <1>0, <2>2 DEF CallTool
    <2>3. CASE UNCHANGED vars
      BY <1>0, <2>3 DEF vars
    <2>. QED BY <2>1, <2>2, <2>3, GateAdds DEF Next
  <1>2. toolCount' \in Nat
    <2>1. toolCount' = toolCount \/ toolCount' = toolCount + 1
      BY DEF Next, GateStep, CheckFails, CheckPolicy, DenyChecked, BeforeChecked, Require,
             RequirementsMet, Denied, StartTool, CallHandler, HandlerReturns, HandlerThrows,
             ToolFails, Completed, Failed, SinkFails, CallTool, vars
    <2>. QED BY <1>0, <2>1
  <1>3. calls' \in 0..MaxCalls
    <2>1. calls' = calls \/ (calls < MaxCalls /\ calls' = calls + 1)
      BY DEF Next, GateStep, CheckFails, CheckPolicy, DenyChecked, BeforeChecked, Require,
             RequirementsMet, Denied, StartTool, CallHandler, HandlerReturns, HandlerThrows,
             ToolFails, Completed, Failed, SinkFails, CallTool, vars
    <2>. QED BY <1>0, <2>1, PolicyAssumption
  <1>. QED BY <1>1, <1>2, <1>3, ResultNext, TapeNext DEF CountersOK

LEMMA ShapeNext == ShapeInv /\ [Next]_vars => ShapeInv'
  BY StackNext, CountersNext DEF ShapeInv

\* The gate's state is what the code can hold: at most a call and one it
\* requires, each with policies of its own capability still to pass.
THEOREM GateTypeCorrect == Spec => []GateTypeOK
  <1>1. ShapeInv => GateTypeOK
    <2>. SUFFICES ASSUME ShapeInv PROVE GateTypeOK
      OBVIOUS
    <2>1. ASSUME NEW d \in DOMAIN stack
          PROVE  /\ stack[d].cap \in Capabilities
                 /\ stack[d].nested = (d = 2)
                 /\ stack[d].left \subseteq Plan(stack[d].cap, stack[d].nested)
                 /\ stack[d].at \in Points
      <3>1. d \in 1..Len(stack)
        BY LenProperties DEF ShapeInv, StackOK
      <3>2. FrameOK(stack[d], d = 2)
        BY <3>1 DEF ShapeInv, StackOK
      <3>. QED BY <3>2 DEF FrameOK, FrameType
    <2>2. DOMAIN tape = PolicyIds
      BY DEF ShapeInv, CountersOK
    <2>. QED BY <2>1, <2>2 DEF GateTypeOK, ShapeInv, StackOK, CountersOK, Points
  <1>. QED BY <1>1, ShapeInit, ShapeNext, PTL DEF Spec

-----------------------------------------------------------------------------
(* What the vault's records say *)

\* The last record, made since the stage's call began.
LastIs(r) == mark < Len(records) /\ records[Len(records)] = r

IsTool(i) == records[i].type = "tool"

\* No tool call is on record twice in the stage's call.
UniqueTools ==
  \A i, j \in Since : IsTool(i) /\ IsTool(j) /\ records[i].subject = records[j].subject => i = j

\* A tool's id is on record only after it was given out.
IdsGivenOut ==
  \A i \in 1..Len(records) : IsTool(i) =>
    records[i].subject \in Nat \X Capabilities /\ records[i].subject[1] <= toolCount

\* The id of the tool that runs now is not on record yet.
IdIsNew ==
  At("tool_call_started") \/ At("handler") =>
    /\ Top.callId = toolCount
    /\ \A i \in 1..Len(records) : IsTool(i) => records[i].subject[1] # toolCount

\* Only the catch clause that a sink's failure takes after the tool has run
\* records a tool a second time, and its call throws.
TwiceOnRecord == At("tool_call_failed") /\ Top.verdict = "sink"

\* What the last record is at each await that follows a record.
LastOK ==
  /\ At("tool_call_completed") => LastIs(ToolRecord(Top.callId, Top.cap, Top.verdict))
  /\ At("tool_call_failed") => LastIs(ToolRecord(Top.callId, Top.cap, "error"))
  /\ At("policy_denied") =>
       /\ event = "policy_denied"
       /\ Policies[Top.policy].kind = "deny" => LastIs(PolicyRecord(Top.policy, "denied"))

RecordInv ==
  /\ IdsGivenOut /\ IdIsNew /\ LastOK
  /\ stack # <<>> /\ ~TwiceOnRecord => UniqueTools
  /\ DenialOnRecord /\ OutcomeOnRecord

\* A frame put in the place of the one at the top.
LEMMA GotoTop ==
  ASSUME ShapeInv, stack # <<>>, NEW f, Goto(f)
  PROVE  stack' # <<>> /\ Top' = f /\ Len(stack') = Len(stack)
  <1>1. stack \in Seq(FrameType) /\ Len(stack) \in {1, 2}
    BY TopOK DEF ShapeInv, StackOK
  <1>2. /\ Len([stack EXCEPT ![Len(stack)] = f]) = Len(stack)
        /\ [stack EXCEPT ![Len(stack)] = f][Len(stack)] = f
    BY <1>1
  <1>3. [stack EXCEPT ![Len(stack)] = f] # <<>>
    BY <1>1, <1>2, EmptySeq
  <1>. QED BY <1>2, <1>3 DEF Goto, Top

\* How the vault looks after a step within a call of the stage.
LEMMA SinceKept ==
  ASSUME ShapeInv, Adds
  PROVE  /\ Since = (mark + 1)..Len(records) /\ Since \subseteq 1..Len(records)
         /\ Since \subseteq Since'
         /\ \A i \in 1..Len(records) : records'[i] = records[i]
         /\ records' = records => Since' = Since
         /\ \A r : Record(r) /\ r \in RecordType =>
              /\ Len(records') = Len(records) + 1
              /\ Since' = Since \cup {Len(records')} /\ Len(records') \notin 1..Len(records)
              /\ records'[Len(records')] = r /\ mark' < Len(records')
  <1>1. /\ records \in Seq(RecordType) /\ Len(records) \in Nat /\ mark \in 0..Len(records)
        /\ DOMAIN records = 1..Len(records) /\ mark' = mark
    BY LenProperties DEF ShapeInv, CountersOK, Adds
  <1>2. Since = (mark + 1)..Len(records)
    <2>1. \A m, n \in Nat : {i \in 1..n : i > m} = (m + 1)..n
      OBVIOUS
    <2>. QED BY <1>1, <2>1 DEF Since
  <1>3. Since \subseteq 1..Len(records)
    BY <1>1 DEF Since
  <1>4. records' = records => Since' = Since
    BY <1>1 DEF Since
  <1>5. ASSUME NEW r \in RecordType, Record(r)
        PROVE  /\ Len(records') = Len(records) + 1
               /\ Since' = Since \cup {Len(records')} /\ Len(records') \notin 1..Len(records)
               /\ records'[Len(records')] = r /\ mark' < Len(records')
               /\ \A i \in 1..Len(records) : records'[i] = records[i]
    <2>1. /\ records' \in Seq(RecordType) /\ Len(records') = Len(records) + 1
          /\ \A i \in 1..Len(records) : records'[i] = records[i]
          /\ records'[Len(records')] = r
      BY <1>5, RecordGrows DEF ShapeInv
    <2>2. DOMAIN records' = 1..(Len(records) + 1)
      BY <2>1, LenProperties
    <2>3. \A m, n \in Nat : m <= n => /\ {i \in 1..(n + 1) : i > m} = {i \in 1..n : i > m} \cup {n + 1}
                                      /\ m < n + 1 /\ n + 1 \notin 1..n
      OBVIOUS
    <2>. QED BY <1>1, <2>1, <2>2, <2>3 DEF Since
  <1>. QED BY <1>2, <1>3, <1>4, <1>5 DEF Adds

\* A step that records no tool.
LEMMA NoToolAdded ==
  ASSUME ShapeInv, IdsGivenOut, Adds, toolCount' \in {toolCount, toolCount + 1},
         \/ records' = records
         \/ \E p \in PolicyIds, o \in {"allowed", "denied"} : Record(PolicyRecord(p, o))
  PROVE  IdsGivenOut' /\ (UniqueTools => UniqueTools')
  <1>1. CASE records' = records
    <2>1. \A i, t \in Nat : i <= t => i <= t + 1
      OBVIOUS
    <2>2. \A i \in 1..Len(records) : IsTool(i) => records[i].subject[1] \in Nat
      BY DEF IdsGivenOut
    <2>3. toolCount \in Nat
      BY DEF ShapeInv, CountersOK
    <2>4. IdsGivenOut'
      BY <1>1, <2>1, <2>2, <2>3 DEF IdsGivenOut, IsTool
    <2>. QED BY <1>1, <2>4, SinceKept DEF UniqueTools, IsTool
  <1>2. CASE \E p \in PolicyIds, o \in {"allowed", "denied"} : Record(PolicyRecord(p, o))
    <2>1. PICK p \in PolicyIds, o \in {"allowed", "denied"} : Record(PolicyRecord(p, o))
      BY <1>2
    <2>2. PolicyRecord(p, o) \in RecordType /\ PolicyRecord(p, o).type = "policy"
      BY RecordTypes DEF PolicyRecord
    <2>3. /\ Len(records') = Len(records) + 1
          /\ Since' = Since \cup {Len(records')} /\ Since \subseteq 1..Len(records)
          /\ records'[Len(records')].type = "policy"
          /\ \A i \in 1..Len(records) : records'[i] = records[i]
      BY <2>1, <2>2, SinceKept
    <2>4. \A i \in 1..Len(records') : IsTool(i)' => i \in 1..Len(records) /\ IsTool(i)
      <3>1. \A i \in 1..Len(records') : i # Len(records') => i \in 1..Len(records)
        BY <2>3, LenProperties DEF ShapeInv, CountersOK
      <3>. QED BY <2>3, <3>1 DEF IsTool
    <2>5. \A i, t \in Nat : i <= t => i <= t + 1
      OBVIOUS
    <2>6. IdsGivenOut'
      <3>1. toolCount \in Nat
        BY DEF ShapeInv, CountersOK
      <3>2. ASSUME NEW i \in 1..Len(records'), IsTool(i)'
            PROVE  records'[i].subject \in Nat \X Capabilities /\ records'[i].subject[1] <= toolCount'
        <4>1. records[i].subject \in Nat \X Capabilities /\ records[i].subject[1] <= toolCount
          BY <2>4, <3>2 DEF IdsGivenOut
        <4>2. records'[i] = records[i]
          BY <2>3, <2>4, <3>2
        <4>3. records[i].subject[1] <= toolCount + 1
          BY <2>5, <3>1, <4>1
        <4>. QED BY <4>1, <4>2, <4>3
      <3>. QED BY <3>2 DEF IdsGivenOut
    <2>7. ASSUME UniqueTools PROVE UniqueTools'
      <3>1. \A i \in Since' : IsTool(i)' => i \in Since /\ IsTool(i) /\ records'[i] = records[i]
        <4>1. \A i \in Since' : IsTool(i)' => i \in Since
          BY <2>3 DEF IsTool
        <4>. QED BY <2>3, <4>1 DEF IsTool
      <3>. QED BY <2>7, <3>1 DEF UniqueTools
    <2>. QED BY <2>6, <2>7
  <1>. QED BY <1>1, <1>2

\* The outcome of a tool is recorded.
LEMMA ToolAdded ==
  ASSUME ShapeInv, IdsGivenOut, Adds, toolCount' = toolCount,
         NEW id \in Nat, NEW cap \in Capabilities, NEW o \in Results \cup {"error"},
         Record(ToolRecord(id, cap, o)), id <= toolCount
  PROVE  /\ IdsGivenOut' /\ LastIs(ToolRecord(id, cap, o))'
         /\ (\A i \in 1..Len(records) : IsTool(i) => records[i].subject[1] # id) =>
              (UniqueTools => UniqueTools')
  <1>1. /\ ToolRecord(id, cap, o) \in RecordType /\ ToolRecord(id, cap, o).type = "tool"
        /\ ToolRecord(id, cap, o).subject = <<id, cap>>
    BY RecordTypes DEF ToolRecord
  <1>2. /\ Len(records') = Len(records) + 1
        /\ Since' = Since \cup {Len(records')} /\ Since \subseteq 1..Len(records)
        /\ records'[Len(records')] = ToolRecord(id, cap, o) /\ mark' < Len(records')
        /\ \A i \in 1..Len(records) : records'[i] = records[i]
    BY <1>1, SinceKept
  <1>3. \A i \in 1..Len(records') : i # Len(records') => i \in 1..Len(records)
    BY <1>2, LenProperties DEF ShapeInv, CountersOK
  <1>4. IdsGivenOut'
    <2>1. ASSUME NEW i \in 1..Len(records'), IsTool(i)'
          PROVE  records'[i].subject \in Nat \X Capabilities /\ records'[i].subject[1] <= toolCount'
      <3>1. CASE i = Len(records')
        <4>1. records'[i].subject = <<id, cap>>
          BY <1>1, <1>2, <3>1
        <4>2. <<id, cap>> \in Nat \X Capabilities /\ <<id, cap>>[1] = id
          OBVIOUS
        <4>. QED BY <4>1, <4>2
      <3>2. CASE i \in 1..Len(records)
        BY <1>2, <2>1, <3>2 DEF IdsGivenOut, IsTool
      <3>. QED BY <1>3, <3>1, <3>2
    <2>. QED BY <2>1 DEF IdsGivenOut
  <1>5. ASSUME \A i \in 1..Len(records) : IsTool(i) => records[i].subject[1] # id, UniqueTools
        PROVE  UniqueTools'
    <2>1. \A i \in Since : IsTool(i)' => IsTool(i) /\ records'[i] = records[i]
                                           /\ records'[i].subject # <<id, cap>>
      BY <1>2, <1>5 DEF IsTool
    <2>2. records'[Len(records')].subject = <<id, cap>>
      BY <1>1, <1>2
    <2>. QED BY <1>2, <1>5, <2>1, <2>2 DEF UniqueTools
  <1>. QED BY <1>2, <1>4, <1>5 DEF LastIs

\* Of what a call settles with, only a denial and the tool's own outcome say
\* something of the records.
LEMMA SettlesAside ==
  ASSUME stack' = <<>>, result' \in Errors \ {"denied", "tool"}, IdsGivenOut'
  PROVE  RecordInv'
  BY DEF RecordInv, IdIsNew, LastOK, DenialOnRecord, OutcomeOnRecord, At, Results, Errors

\* So does of a pending call's points only those after a record.
LEMMA PendsAside ==
  ASSUME stack' # <<>>, Top'.at \in {"loop", "requiring", "policy_checked"}, IdsGivenOut', UniqueTools'
  PROVE  RecordInv'
  BY DEF RecordInv, IdIsNew, LastOK, DenialOnRecord, OutcomeOnRecord, At

LEMMA RecordInit == Init => RecordInv
  <1>. SUFFICES ASSUME Init PROVE RecordInv
    OBVIOUS
  <1>1. 1..Len(records) = {}
    BY EmptySeq DEF Init
  <1>. QED BY <1>1 DEF Init, RecordInv, IdsGivenOut, IdIsNew, LastOK, DenialOnRecord, OutcomeOnRecord,
                       At, Results

LEMMA RecordNext == ShapeInv /\ RecordInv /\ [Next]_vars => RecordInv'
  <1>. SUFFICES ASSUME ShapeInv, RecordInv, [Next]_vars PROVE RecordInv'
    OBVIOUS
  <1>0. /\ toolCount \in Nat /\ IdsGivenOut /\ IdIsNew /\ LastOK
        /\ stack # <<>> /\ ~TwiceOnRecord => UniqueTools
    BY DEF ShapeInv, CountersOK, RecordInv
  <1>00. stack # <<>> => /\ FrameOK(Top, Len(stack) = 2) /\ Top \in FrameType
                         /\ Top.callId \in Nat /\ Top.cap \in Capabilities
    BY TopOK DEF ShapeInv, FrameType
  <1>1. ASSUME NEW cap \in Capabilities, CallTool(cap) PROVE RecordInv'
    <2>1. IdsGivenOut'
      BY <1>0, <1>1 DEF CallTool, IdsGivenOut, IsTool
    <2>2. CASE stack' = <<>> /\ result' \in {"capability", "preflight"}
      BY <2>1, <2>2, SettlesAside DEF Errors
    <2>3. CASE stack' = Append(stack, Frame(cap, FALSE))
      <3>1. stack' = <<Frame(cap, FALSE)>>
        BY <1>1, <2>3 DEF CallTool
      <3>2. stack' # <<>> /\ Top' = Frame(cap, FALSE)
        BY <3>1, EmptySeq DEF Top
      <3>3. UniqueTools'
        <4>1. Since' = {}
          <5>1. mark' = Len(records') /\ DOMAIN records' = 1..Len(records') /\ Len(records') \in Nat
            BY <1>1, LenProperties DEF CallTool, ShapeInv, CountersOK
          <5>. QED BY <5>1 DEF Since
        <4>. QED BY <4>1 DEF UniqueTools
      <3>. QED BY <2>1, <3>2, <3>3, PendsAside DEF Frame
    <2>. QED BY <1>1, <2>2, <2>3 DEF CallTool, Enter, Throw
  <1>2. CASE CheckFails \/ (stack # <<>> /\ Throw("sink") /\ UNCHANGED <<tape, toolCount, records, event, calls, mark>>)
    BY <1>0, <1>2, NoToolAdded, SettlesAside DEF CheckFails, Throw, Errors, Adds
  <1>3. CASE CheckPolicy
    <2>1. PICK p, v : Announce(p, v)
      BY <1>3 DEF CheckPolicy
    <2>2. stack' # <<>> /\ Top'.at = "policy_checked"
      <3>1. stack' # <<>> /\ Top' = [Top EXCEPT !.at = "policy_checked", !.policy = p, !.verdict = v]
        BY <1>3, <2>1, GotoTop DEF CheckPolicy, At, Announce
      <3>. QED BY <1>00, <1>3, <3>1 DEF CheckPolicy, At, FrameType
    <2>3. IdsGivenOut' /\ UniqueTools'
      BY <1>0, <1>3, NoToolAdded DEF CheckPolicy, Adds, At, TwiceOnRecord
    <2>. QED BY <2>2, <2>3, PendsAside
  <1>4. CASE BeforeChecked
    <2>1. stack' # <<>> /\ Top'.at = "requiring"
      <3>1. stack' # <<>> /\ Top' = [Top EXCEPT !.at = "requiring", !.req = 1]
        BY <1>4, GotoTop DEF BeforeChecked, At
      <3>. QED BY <1>00, <1>4, <3>1 DEF BeforeChecked, At, FrameType
    <2>2. IdsGivenOut' /\ UniqueTools'
      BY <1>0, <1>4, NoToolAdded DEF BeforeChecked, Adds, At, TwiceOnRecord
    <2>. QED BY <2>1, <2>2, PendsAside
  <1>5. ASSUME NEW p \in PolicyIds, NEW o \in {"allowed", "denied"}, Record(PolicyRecord(p, o)),
               stack # <<>>, Top.at # "tool_call_failed", toolCount' = toolCount, mark' = mark
        PROVE  /\ IdsGivenOut' /\ UniqueTools'
               /\ mark' < Len(records') /\ records'[Len(records')] = PolicyRecord(p, o)
    <2>1. Adds /\ PolicyRecord(p, o) \in RecordType
      BY <1>5, RecordTypes DEF Adds
    <2>2. mark' < Len(records') /\ records'[Len(records')] = PolicyRecord(p, o)
      BY <1>5, <2>1, SinceKept
    <2>. QED BY <1>0, <1>5, <2>1, <2>2, NoToolAdded DEF At, TwiceOnRecord
  <1>6. CASE GoOn /\ stack # <<>> /\ IdsGivenOut' /\ UniqueTools'
    <2>1. stack' # <<>> /\ Top'.at = "loop"
      <3>1. stack' # <<>> /\ Top' = [Top EXCEPT !.at = "loop", !.left = @ \ {Top.policy}]
        BY <1>6, GotoTop DEF GoOn
      <3>. QED BY <1>00, <1>6, <3>1 DEF FrameType
    <2>. QED BY <1>6, <2>1, PendsAside
  <1>7. CASE DenyChecked
    <2>1. /\ stack # <<>> /\ Top.at = "policy_checked" /\ Policies[Top.policy].kind = "deny"
          /\ Top.verdict \in Verdicts /\ Top.policy \in PolicyIds
      BY <1>00, <1>7 DEF DenyChecked, At, FrameOK, Plan
    <2>2. /\ IdsGivenOut' /\ UniqueTools'
          /\ Top.verdict # "allowed" =>
               mark' < Len(records') /\ records'[Len(records')] = PolicyRecord(Top.policy, "denied")
      <3>1. /\ Record(PolicyRecord(Top.policy, IF Top.verdict = "allowed" THEN "allowed" ELSE "denied"))
            /\ toolCount' = toolCount /\ mark' = mark
        BY <1>7 DEF DenyChecked
      <3>. QED BY <1>5, <2>1, <3>1
    <2>3. CASE Top.verdict = "allowed"
      BY <1>6, <1>7, <2>1, <2>2, <2>3 DEF DenyChecked
    <2>4. CASE Top.verdict = "unavailable"
      BY <1>7, <2>2, <2>4, SettlesAside DEF DenyChecked, Throw, Errors
    <2>5. CASE Top.verdict = "denied"
      <3>1. Goto([Top EXCEPT !.at = "policy_denied"]) /\ event' = "policy_denied"
        BY <1>7, <2>5 DEF DenyChecked
      <3>2. stack' # <<>> /\ Top'.at = "policy_denied" /\ Top'.policy = Top.policy
        BY <1>00, <2>1, <3>1, GotoTop DEF FrameType
      <3>3. mark' < Len(records') /\ records'[Len(records')] = PolicyRecord(Top.policy, "denied")
        BY <2>2, <2>5
      <3>4. LastOK'
        BY <3>1, <3>2, <3>3 DEF LastOK, At, LastIs
      <3>. QED BY <2>2, <3>2, <3>4 DEF RecordInv, IdIsNew, DenialOnRecord, OutcomeOnRecord, At
    <2>. QED BY <2>1, <2>3, <2>4, <2>5 DEF Verdicts
  <1>8. CASE RequirementsMet
    <2>1. stack # <<>> /\ Top.at = "requiring" /\ Top.policy \in PolicyIds
      BY <1>8, RequiringIsOuter DEF RequirementsMet, ShapeInv, At
    <2>. QED BY <1>5, <1>6, <1>8, <2>1 DEF RequirementsMet
  <1>9. CASE Require
    <2>1. IdsGivenOut' /\ UniqueTools'
      BY <1>0, <1>9, NoToolAdded DEF Require, Adds, At, TwiceOnRecord
    <2>2. CASE stack' = <<>> /\ result' \in {"preflight", "evaluation"}
      BY <2>1, <2>2, SettlesAside DEF Errors
    <2>3. CASE stack' = Append(stack, Frame(Required(Top)[Top.req], TRUE))
      <3>1. stack' # <<>> /\ Top' = Frame(Required(Top)[Top.req], TRUE)
        <4>1. stack \in Seq(FrameType) /\ Frame(Required(Top)[Top.req], TRUE) \in FrameType
          <5>1. Required(Top)[Top.req] \in Capabilities
            <6>1. Top.policy \in PolicyIds /\ Top.req \in Nat \ {0}
              BY <1>9, RequiringIsOuter DEF Require, ShapeInv
            <6>2. Required(Top) \in Seq(Capabilities) /\ Len(Required(Top)) \in Nat
              BY <6>1, PolicyTypes, LenProperties DEF Required
            <6>3. Top.req \in 1..Len(Required(Top))
              BY <1>9, <6>1, <6>2 DEF Require
            <6>. QED BY <6>2, <6>3, ElementOfSeq
          <5>. QED BY <5>1, NewFrameOK DEF FrameOK, ShapeInv, StackOK
        <4>. HIDE DEF Frame
        <4>. DEFINE f == Frame(Required(Top)[Top.req], TRUE)
        <4>. HIDE DEF f
        <4>2. /\ Append(stack, f) # <<>>
              /\ Append(stack, f)[Len(stack) + 1] = f /\ Len(Append(stack, f)) = Len(stack) + 1
          BY <4>1, AppendProperties DEF f
        <4>. QED BY <2>3, <4>2 DEF Top, f
      <3>. QED BY <2>1, <3>1, PendsAside DEF Frame
    <2>. QED BY <1>9, <2>2, <2>3 DEF Require, Enter, Throw
  <1>10. CASE Denied
    <2>1. stack # <<>> /\ Top.at = "policy_denied" /\ Top.policy \in PolicyIds
          /\ Policies[Top.policy].kind \in {"deny", "before"}
      <3>1. stack # <<>> /\ Top.at = "policy_denied" /\ Top.policy \in PolicyIds
        BY <1>00, <1>10 DEF Denied, At, FrameOK, Plan
      <3>. QED BY <3>1, PolicyTypes
    <2>2. event' = "policy_denied"
      BY <1>0, <1>10, <2>1 DEF Denied, LastOK, At
    <2>3. /\ mark' < Len(records') /\ records'[Len(records')] = PolicyRecord(Top.policy, "denied")
          /\ IdsGivenOut'
      <3>1. CASE Policies[Top.policy].kind = "before"
        <4>1. Record(PolicyRecord(Top.policy, "denied")) /\ toolCount' = toolCount /\ mark' = mark
          BY <1>10, <3>1 DEF Denied
        <4>. QED BY <1>5, <2>1, <4>1
      <3>2. CASE Policies[Top.policy].kind = "deny"
        <4>1. records' = records /\ mark' = mark /\ toolCount' = toolCount
          BY <1>10, <3>2 DEF Denied
        <4>2. LastIs(PolicyRecord(Top.policy, "denied"))
          BY <1>0, <2>1, <3>2 DEF LastOK, At
        <4>. QED BY <1>0, <4>1, <4>2 DEF LastIs, IdsGivenOut, IsTool
      <3>. QED BY <2>1, <3>1, <3>2
    <2>4. stack' = <<>> /\ result' = "denied"
      BY <1>10 DEF Denied, Throw
    <2>5. DenialOnRecord'
      BY <2>1, <2>2, <2>3 DEF DenialOnRecord
    <2>. QED BY <2>3, <2>4, <2>5 DEF RecordInv, IdIsNew, LastOK, OutcomeOnRecord, At, Results
  <1>11. CASE StartTool
    <2>1. stack # <<>> /\ Top.at = "loop" /\ UniqueTools
      BY <1>0, <1>11 DEF StartTool, At, TwiceOnRecord
    <2>2. IdsGivenOut' /\ UniqueTools'
      BY <1>0, <1>11, <2>1, NoToolAdded DEF StartTool, Adds
    <2>3. stack' # <<>> /\ Top' = [Top EXCEPT !.at = "tool_call_started", !.callId = toolCount + 1]
      BY <1>11, <2>1, GotoTop DEF StartTool
    <2>4. Top'.at = "tool_call_started" /\ Top'.callId = toolCount'
      BY <1>00, <1>11, <2>1, <2>3 DEF StartTool, FrameType
    <2>5. \A i \in 1..Len(records') : IsTool(i)' => records'[i].subject[1] # toolCount'
      <3>1. \A i \in 1..Len(records) : IsTool(i) => records[i].subject[1] \in Nat
        BY <1>0 DEF IdsGivenOut
      <3>2. \A i, n \in Nat : i <= n => i # n + 1
        OBVIOUS
      <3>. QED BY <1>0, <1>11, <3>1, <3>2 DEF StartTool, IdsGivenOut, IsTool
    <2>6. IdIsNew'
      BY <2>4, <2>5 DEF IdIsNew, IsTool
    <2>. QED BY <2>2, <2>3, <2>4, <2>6 DEF RecordInv, LastOK, DenialOnRecord, OutcomeOnRecord, At
  <1>12. CASE CallHandler
    <2>1. stack # <<>> /\ Top.at = "tool_call_started" /\ UniqueTools
      BY <1>0, <1>12 DEF CallHandler, At, TwiceOnRecord
    <2>2. IdsGivenOut' /\ UniqueTools'
      BY <1>0, <1>12, <2>1, NoToolAdded DEF CallHandler, Adds
    <2>3. stack' # <<>> /\ Top' = [Top EXCEPT !.at = "handler"]
      BY <1>12, <2>1, GotoTop DEF CallHandler
    <2>4. Top'.at = "handler" /\ Top'.callId = Top.callId
      BY <1>00, <2>1, <2>3 DEF FrameType
    <2>5. IdIsNew'
      BY <1>0, <1>12, <2>1, <2>4 DEF IdIsNew, CallHandler, At, IsTool
    <2>. QED BY <2>2, <2>3, <2>4, <2>5 DEF RecordInv, LastOK, DenialOnRecord, OutcomeOnRecord, At
  <1>13. ASSUME NEW v \in Results, HandlerReturns(v) PROVE RecordInv'
    <2>1. /\ stack # <<>> /\ Top.at = "handler" /\ UniqueTools
          /\ Top.callId = toolCount /\ \A i \in 1..Len(records) : IsTool(i) => records[i].subject[1] # Top.callId
      BY <1>0, <1>13 DEF HandlerReturns, At, TwiceOnRecord, IdIsNew
    <2>2. ToolRecord(Top.callId, Top.cap, v) \in RecordType /\ Top.callId <= toolCount
      BY <1>0, <1>00, <2>1, RecordTypes
    <2>3. Record(ToolRecord(Top.callId, Top.cap, v)) /\ Adds /\ toolCount' = toolCount
      BY <1>13, <2>2 DEF HandlerReturns, Adds
    <2>4. /\ IdsGivenOut' /\ UniqueTools'
          /\ mark' < Len(records') /\ records'[Len(records')] = ToolRecord(Top.callId, Top.cap, v)
      <3>1. ASSUME NEW id, NEW cap, id = Top.callId, cap = Top.cap
            PROVE  /\ IdsGivenOut' /\ UniqueTools'
                   /\ mark' < Len(records') /\ records'[Len(records')] = ToolRecord(id, cap, v)
        BY <1>0, <1>00, <2>1, <2>2, <2>3, <3>1, ToolAdded DEF LastIs
      <3>. QED BY <3>1
    <2>5. stack' # <<>> /\ Top' = [Top EXCEPT !.at = "tool_call_completed", !.verdict = v]
      BY <1>13, <2>1, GotoTop DEF HandlerReturns
    <2>6. Top'.at = "tool_call_completed" /\ Top'.callId = Top.callId /\ Top'.cap = Top.cap /\ Top'.verdict = v
      BY <1>00, <2>1, <2>5 DEF FrameType
    <2>7. LastOK'
      <3>1. mark' < Len(records') /\ records'[Len(records')] = ToolRecord(Top'.callId, Top'.cap, Top'.verdict)
        BY <2>4, <2>6
      <3>. QED BY <2>6, <3>1 DEF LastOK, LastIs, At, ToolRecord
    <2>. QED BY <2>4, <2>5, <2>6, <2>7 DEF RecordInv, IdIsNew, DenialOnRecord, OutcomeOnRecord, At
  <1>14. ASSUME NEW e \in {"tool", "sink"}, ToolFails(e), stack # <<>>, Top.callId <= toolCount,
                e = "tool" => /\ UniqueTools
                              /\ \A i \in 1..Len(records) : IsTool(i) => records[i].subject[1] # Top.callId
         PROVE  RecordInv'
    <2>1. ToolRecord(Top.callId, Top.cap, "error") \in RecordType
      BY <1>00, <1>14, RecordTypes
    <2>2. Record(ToolRecord(Top.callId, Top.cap, "error")) /\ Adds /\ toolCount' = toolCount
      BY <1>14, <2>1 DEF ToolFails, Adds
    <2>3. /\ IdsGivenOut' /\ (e = "tool" => UniqueTools')
          /\ mark' < Len(records') /\ records'[Len(records')] = ToolRecord(Top.callId, Top.cap, "error")
      <3>1. ASSUME NEW id, NEW cap, id = Top.callId, cap = Top.cap
            PROVE  /\ IdsGivenOut' /\ (e = "tool" => UniqueTools')
                   /\ mark' < Len(records') /\ records'[Len(records')] = ToolRecord(id, cap, "error")
        BY <1>0, <1>00, <1>14, <2>1, <2>2, <3>1, ToolAdded DEF LastIs
      <3>. QED BY <3>1
    <2>5. stack' # <<>> /\ Top' = [Top EXCEPT !.at = "tool_call_failed", !.verdict = e]
      BY <1>14, GotoTop DEF ToolFails
    <2>6. Top'.at = "tool_call_failed" /\ Top'.callId = Top.callId /\ Top'.cap = Top.cap /\ Top'.verdict = e
      BY <1>00, <1>14, <2>5 DEF FrameType
    <2>7. LastOK'
      <3>1. mark' < Len(records') /\ records'[Len(records')] = ToolRecord(Top'.callId, Top'.cap, "error")
        BY <2>3, <2>6
      <3>. QED BY <2>6, <3>1 DEF LastOK, LastIs, At, ToolRecord
    <2>8. ~TwiceOnRecord' => UniqueTools'
      BY <1>14, <2>3, <2>5, <2>6 DEF TwiceOnRecord, At
    <2>. QED BY <2>3, <2>5, <2>6, <2>7, <2>8 DEF RecordInv, IdIsNew, DenialOnRecord, OutcomeOnRecord, At
  <1>15. CASE HandlerThrows
    <2>1. /\ stack # <<>> /\ Top.at = "handler" /\ UniqueTools
          /\ Top.callId = toolCount /\ \A i \in 1..Len(records) : IsTool(i) => records[i].subject[1] # Top.callId
      BY <1>0, <1>15 DEF HandlerThrows, At, TwiceOnRecord, IdIsNew
    <2>. QED BY <1>0, <1>14, <1>15, <2>1 DEF HandlerThrows
  <1>16. CASE At("tool_call_completed") /\ ToolFails("sink")
    <2>1. Top.callId <= toolCount
      <3>1. mark < Len(records) /\ records[Len(records)] = ToolRecord(Top.callId, Top.cap, Top.verdict)
        BY <1>0, <1>16 DEF LastOK, LastIs
      <3>2. Len(records) \in 1..Len(records)
        BY <3>1, LenProperties DEF ShapeInv, CountersOK
      <3>3. IsTool(Len(records)) /\ records[Len(records)].subject[1] = Top.callId
        BY <3>1 DEF IsTool, ToolRecord
      <3>. QED BY <1>0, <3>2, <3>3 DEF IdsGivenOut
    <2>. QED BY <1>14, <1>16, <2>1 DEF At
  <1>17. CASE Completed
    <2>1. /\ stack # <<>> /\ Top.at = "tool_call_completed" /\ UniqueTools
          /\ mark < Len(records) /\ records[Len(records)] = ToolRecord(Top.callId, Top.cap, Top.verdict)
          /\ Top.verdict \in Results /\ Len(stack) \in {1, 2}
      BY <1>0, <1>00, <1>17, TopOK DEF Completed, At, TwiceOnRecord, LastOK, LastIs, FrameOK, ShapeInv
    <2>2. records' = records /\ mark' = mark /\ toolCount' = toolCount /\ Return(Top.verdict)
      BY <1>17 DEF Completed
    <2>3. IdsGivenOut' /\ UniqueTools'
      BY <1>0, <2>1, <2>2, NoToolAdded DEF Adds
    <2>4. CASE Len(stack) = 1
      <3>1. stack' = <<>> /\ result' = Top.verdict
        BY <2>2, <2>4 DEF Return
      <3>2. /\ records[Len(records)].type = "tool" /\ records[Len(records)].outcome = Top.verdict
            /\ Top.verdict \notin {"tool", "denied"}
        BY <2>1 DEF ToolRecord, Results
      <3>3. OutcomeOnRecord'
        BY <2>1, <2>2, <2>3, <3>1, <3>2 DEF OutcomeOnRecord, UniqueTools, IsTool
      <3>. QED BY <2>3, <3>1, <3>2, <3>3 DEF RecordInv, IdIsNew, LastOK, DenialOnRecord, At
    <2>5. CASE Len(stack) = 2
      <3>1. FrameOK(stack[1], 1 = 2) /\ stack[1].at = "requiring"
        BY <2>5 DEF ShapeInv, StackOK, Waits
      <3>2. stack[1] \in FrameType /\ Policies[stack[1].policy].kind = "before"
        BY <3>1 DEF FrameOK
      <3>3. CASE Top.cap = Confirm /\ Top.verdict = "false"
        <4>1. stack' = <<[stack[1] EXCEPT !.at = "policy_denied", !.verdict = "denied"]>> /\ event' = "policy_denied"
          BY <2>2, <2>5, <3>3 DEF Return
        <4>2. stack' # <<>> /\ Top' = [stack[1] EXCEPT !.at = "policy_denied", !.verdict = "denied"]
          BY <4>1, EmptySeq DEF Top
        <4>3. Top'.at = "policy_denied" /\ Policies[Top'.policy].kind = "before"
          BY <3>2, <4>2 DEF FrameType
        <4>. QED BY <2>3, <4>1, <4>2, <4>3 DEF RecordInv, IdIsNew, LastOK, DenialOnRecord, OutcomeOnRecord, At
      <3>4. CASE ~(Top.cap = Confirm /\ Top.verdict = "false")
        <4>1. stack' = <<[stack[1] EXCEPT !.at = "requiring", !.req = @ + 1]>>
          BY <2>2, <2>5, <3>4 DEF Return
        <4>2. stack' # <<>> /\ Top' = [stack[1] EXCEPT !.at = "requiring", !.req = @ + 1]
          BY <4>1, EmptySeq DEF Top
        <4>3. Top'.at = "requiring"
          BY <3>2, <4>2 DEF FrameType
        <4>. QED BY <2>3, <4>2, <4>3, PendsAside
      <3>. QED BY <3>3, <3>4
    <2>. QED BY <2>1, <2>4, <2>5
  <1>18. CASE Failed
    <2>1. /\ stack # <<>> /\ Top.at = "tool_call_failed" /\ Top.verdict \in {"tool", "sink"}
          /\ mark < Len(records) /\ records[Len(records)] = ToolRecord(Top.callId, Top.cap, "error")
      BY <1>0, <1>00, <1>18 DEF Failed, At, LastOK, LastIs, FrameOK
    <2>2. /\ records' = records /\ mark' = mark /\ toolCount' = toolCount
          /\ stack' = <<>> /\ result' = Top.verdict
      BY <1>18 DEF Failed, Throw
    <2>3. IdsGivenOut' /\ (UniqueTools => UniqueTools')
      BY <1>0, <2>2, NoToolAdded DEF Adds
    <2>4. CASE Top.verdict = "sink"
      BY <2>2, <2>3, <2>4, SettlesAside DEF Errors
    <2>5. CASE Top.verdict = "tool"
      <3>1. UniqueTools'
        BY <1>0, <2>1, <2>3, <2>5 DEF TwiceOnRecord
      <3>2. records[Len(records)].type = "tool" /\ records[Len(records)].outcome = "error"
        BY <2>1 DEF ToolRecord
      <3>3. OutcomeOnRecord'
        BY <2>1, <2>2, <2>5, <3>1, <3>2 DEF OutcomeOnRecord, UniqueTools, IsTool
      <3>. QED BY <2>2, <2>3, <2>5, <3>3 DEF RecordInv, IdIsNew, LastOK, DenialOnRecord, At
    <2>. QED BY <2>1, <2>4, <2>5
  <1>19. CASE UNCHANGED vars
    BY <1>19 DEF RecordInv, IdsGivenOut, IdIsNew, LastOK, LastIs, IsTool, UniqueTools, TwiceOnRecord, Since,
                 DenialOnRecord, OutcomeOnRecord, At, Top, vars, ToolRecord, PolicyRecord
  <1>20. CASE SinkFails
    BY <1>2, <1>16, <1>20 DEF SinkFails
  <1>. QED BY <1>1, <1>2, <1>3, <1>4, <1>7, <1>8, <1>9, <1>10, <1>11, <1>12, <1>13, <1>15, <1>17,
              <1>18, <1>19, <1>20 DEF Next, GateStep

\* A call of the stage that throws a denial was announced as denied, and the
\* vault's last record names the policy that denied it.
THEOREM DenialCorrect == Spec => []DenialOnRecord
  <1>. QED BY ShapeInit, ShapeNext, RecordInit, RecordNext, PTL DEF Spec, RecordInv

\* When a call returns a tool's value or throws its error, that is the last thing
\* on record and no tool of the call is on record twice.
THEOREM OutcomeCorrect == Spec => []OutcomeOnRecord
  <1>. QED BY ShapeInit, ShapeNext, RecordInit, RecordNext, PTL DEF Spec, RecordInv

-----------------------------------------------------------------------------
(* What the records say of the policies *)

\* The capabilities whose tool has answered in this call of the stage, the
\* confirmation only if it was not refused.
Answered ==
  {c \in Capabilities : \E i \in Since :
     /\ IsTool(i) /\ records[i].subject[2] = c
     /\ records[i].outcome = "value" \/ (c # Confirm /\ records[i].outcome = "false")}

\* The policies that have let this call of the stage pass.
Passed ==
  {p \in PolicyIds :
     /\ \E i \in Since : records[i] = PolicyRecord(p, "allowed")
     /\ Policies[p].kind = "before" =>
          \A r \in 1..Len(Policies[p].requires) : Policies[p].requires[r] \in Answered}

\* A pending call has passed the policies it has no more to pass, and one that
\* goes through requirements had all those before the present one met.
AuthOK(f) ==
  /\ Plan(f.cap, f.nested) \ f.left \subseteq Passed
  /\ f.at = "requiring" =>
       \A r \in 1..Len(Required(f)) : r < f.req => Required(f)[r] \in Answered

AuthInv == \A d \in 1..Len(stack) : AuthOK(stack[d])

\* What is on record stays there while the stage's call is pending.
LEMMA AnswersStay ==
  ASSUME ShapeInv, Adds
  PROVE  Answered \subseteq Answered' /\ Passed \subseteq Passed'
  <1>1. \A i \in Since : i \in Since' /\ records'[i] = records[i]
    BY SinceKept
  <1>2. Answered \subseteq Answered'
    BY <1>1 DEF Answered, IsTool
  <1>3. ASSUME NEW p \in Passed PROVE p \in Passed'
    <2>1. \E i \in Since' : records'[i] = PolicyRecord(p, "allowed")
      BY <1>1, <1>3 DEF Passed
    <2>. QED BY <1>2, <1>3, <2>1 DEF Passed, PolicyRecord
  <1>. QED BY <1>2, <1>3

\* A pending call stays authorized while it keeps its policies and requirement.
LEMMA AuthStays ==
  ASSUME ShapeInv, Adds, NEW f, AuthOK(f), NEW g,
         g.cap = f.cap, g.nested = f.nested, g.left = f.left,
         g.at = "requiring" => f.at = "requiring" /\ g.policy = f.policy /\ g.req = f.req
  PROVE  AuthOK(g)'
  BY AnswersStay DEF AuthOK, Plan, Required

\* A new pending call has all its policies still to pass.
LEMMA NewAuthOK ==
  ASSUME NEW cap, NEW nested
  PROVE  AuthOK(Frame(cap, nested))'
  BY DEF AuthOK, Frame, Plan

\* A step of the call at the top leaves the others authorized.
LEMMA AuthGoto ==
  ASSUME ShapeInv, AuthInv, Adds, stack # <<>>, NEW f, Goto(f), AuthOK(f)'
  PROVE  AuthInv'
  <1>1. /\ stack \in Seq(FrameType) /\ Len(stack) \in {1, 2}
    BY TopOK DEF ShapeInv, StackOK
  <1>2. /\ Len(stack') = Len(stack)
        /\ \A d \in 1..Len(stack) : stack'[d] = IF d = Len(stack) THEN f ELSE stack[d]
    BY <1>1 DEF Goto
  <1>3. ASSUME NEW d \in 1..Len(stack), NEW g, g = stack'[d] PROVE AuthOK(g)'
    <2>1. CASE d = Len(stack)
      BY <1>2, <1>3, <2>1
    <2>2. CASE d # Len(stack)
      <3>1. g = stack[d] /\ AuthOK(stack[d])
        BY <1>2, <1>3, <2>2 DEF AuthInv
      <3>. QED BY <3>1, AuthStays
    <2>. QED BY <2>1, <2>2
  <1>. QED BY <1>2, <1>3 DEF AuthInv, AuthOK, Plan, Required

LEMMA AuthInit == Init => AuthInv
  <1>. SUFFICES ASSUME Init PROVE AuthInv
    OBVIOUS
  <1>1. 1..Len(stack) = {}
    BY EmptySeq DEF Init
  <1>. QED BY <1>1 DEF AuthInv

\* The call of a stage or a required call enters.
LEMMA AuthEnter ==
  ASSUME ShapeInv, AuthInv, NEW cap, NEW nested, Frame(cap, nested) \in FrameType,
         stack' = Append(stack, Frame(cap, nested)), stack = <<>> \/ Adds
  PROVE  AuthInv'
  <1>1. AuthOK(Frame(cap, nested))'
    BY NewAuthOK
  <1>2. PICK f \in FrameType : f = Frame(cap, nested)
    OBVIOUS
  <1>. HIDE DEF Frame
  <1>3. stack \in Seq(FrameType) /\ Len(stack) \in Nat
    BY LenProperties DEF ShapeInv, StackOK
  <1>4. Len(stack') = Len(stack) + 1
    BY <1>2, <1>3, AppendProperties
  <1>5. stack'[Len(stack) + 1] = f
    BY <1>2, <1>3, AppendProperties
  <1>6. \A d \in 1..Len(stack) : stack'[d] = stack[d]
    BY <1>2, <1>3, AppendProperties
  <1>7. AuthOK(f)'
    BY <1>1, <1>2
  <1>8. ASSUME NEW d \in 1..Len(stack'), NEW g, g = stack'[d] PROVE AuthOK(g)'
    <2>1. d = Len(stack) + 1 \/ d \in 1..Len(stack)
      BY <1>3, <1>4
    <2>2. CASE d = Len(stack) + 1
      BY <1>5, <1>7, <1>8, <2>2
    <2>3. CASE d \in 1..Len(stack)
      <3>1. stack # <<>>
        BY <2>3, EmptySeq
      <3>2. g = stack[d] /\ AuthOK(stack[d])
        BY <1>6, <1>8, <2>3 DEF AuthInv
      <3>. QED BY <3>1, <3>2, AuthStays
    <2>. QED BY <2>1, <2>2, <2>3
  <1>. QED BY <1>8 DEF AuthInv, AuthOK, Plan, Required

\* The call at the top has met its policy and goes on to the next one.
LEMMA AuthGoOn ==
  ASSUME ShapeInv, AuthInv, Adds, stack # <<>>, GoOn, Top.policy \in Passed'
  PROVE  AuthInv'
  <1>1. Top \in FrameType /\ AuthOK(Top)
    BY TopOK DEF ShapeInv, AuthInv, Top
  <1>2. PICK f : f = [Top EXCEPT !.at = "loop", !.left = @ \ {Top.policy}]
    OBVIOUS
  <1>3. /\ f.at = "loop" /\ f.cap = Top.cap /\ f.nested = Top.nested
        /\ f.left = Top.left \ {Top.policy}
    BY <1>1, <1>2 DEF FrameType
  <1>4. Plan(f.cap, f.nested) \ f.left \subseteq Passed'
    BY <1>1, <1>3, AnswersStay DEF AuthOK
  <1>5. AuthOK(f)'
    BY <1>3, <1>4 DEF AuthOK, Plan
  <1>. QED BY <1>2, <1>5, AuthGoto DEF GoOn

\* The call at the top moves on with the policies it has still to pass.
LEMMA AuthMoves ==
  ASSUME ShapeInv, AuthInv, Adds, stack # <<>>, NEW f, Goto(f),
         f.cap = Top.cap, f.nested = Top.nested, f.left = Top.left, f.at # "requiring"
  PROVE  AuthInv'
  <1>1. AuthOK(Top)
    BY TopOK DEF ShapeInv, AuthInv, Top
  <1>2. AuthOK(f)'
    BY <1>1, AuthStays
  <1>. QED BY <1>2, AuthGoto

LEMMA AuthNext == ShapeInv /\ RecordInv /\ AuthInv /\ [Next]_vars => AuthInv'
  <1>. SUFFICES ASSUME ShapeInv, RecordInv, AuthInv, [Next]_vars PROVE AuthInv'
    OBVIOUS
  <1>0. stack # <<>> => /\ FrameOK(Top, Len(stack) = 2) /\ Top \in FrameType /\ AuthOK(Top)
                        /\ Len(stack) \in {1, 2}
    BY TopOK DEF ShapeInv, AuthInv, Top
  <1>00. CASE stack' = <<>>
    <2>1. 1..Len(stack') = {}
      BY <1>00, EmptySeq
    <2>. QED BY <2>1 DEF AuthInv
  <1>1. ASSUME NEW cap \in Capabilities, CallTool(cap) PROVE AuthInv'
    <2>1. Frame(cap, FALSE) \in FrameType
      BY NewFrameOK DEF FrameOK
    <2>. QED BY <1>1, <1>00, <2>1, AuthEnter DEF CallTool, Enter, Throw
  <1>2. CASE CheckPolicy
    <2>1. PICK p, v : Announce(p, v)
      BY <1>2 DEF CheckPolicy
    <2>2. Adds /\ stack # <<>>
      BY <1>2, GateAdds DEF GateStep, CheckPolicy, At
    <2>3. PICK f : f = [Top EXCEPT !.at = "policy_checked", !.policy = p, !.verdict = v]
      OBVIOUS
    <2>4. f.cap = Top.cap /\ f.nested = Top.nested /\ f.left = Top.left /\ f.at # "requiring"
      BY <1>0, <2>2, <2>3 DEF FrameType
    <2>. QED BY <2>1, <2>2, <2>3, <2>4, AuthMoves DEF Announce
  <1>3. CASE DenyChecked
    <2>1. /\ Adds /\ stack # <<>> /\ Policies[Top.policy].kind = "deny" /\ Top.verdict \in Verdicts
          /\ Top.policy \in PolicyIds
      BY <1>0, <1>3, GateAdds DEF GateStep, DenyChecked, At, FrameOK, Plan
    <2>2. CASE Top.verdict = "allowed"
      <3>1. Record(PolicyRecord(Top.policy, "allowed")) /\ GoOn
        BY <1>3, <2>2 DEF DenyChecked
      <3>2. PolicyRecord(Top.policy, "allowed") \in RecordType
        BY <2>1, RecordTypes
      <3>3. Len(records') \in Since' /\ records'[Len(records')] = PolicyRecord(Top.policy, "allowed")
        BY <2>1, <3>1, <3>2, SinceKept
      <3>4. PICK p \in PolicyIds : p = Top.policy
        BY <2>1
      <3>5. Policies[p].kind # "before"
        BY <2>1, <3>4
      <3>6. p \in Passed'
        BY <3>3, <3>4, <3>5 DEF Passed, PolicyRecord
      <3>. QED BY <2>1, <3>1, <3>4, <3>6, AuthGoOn
    <2>3. CASE Top.verdict = "unavailable"
      BY <1>3, <1>00, <2>3 DEF DenyChecked, Throw
    <2>4. CASE Top.verdict = "denied"
      <3>1. Goto([Top EXCEPT !.at = "policy_denied"])
        BY <1>3, <2>4 DEF DenyChecked
      <3>2. PICK f : f = [Top EXCEPT !.at = "policy_denied"]
        OBVIOUS
      <3>3. f.cap = Top.cap /\ f.nested = Top.nested /\ f.left = Top.left /\ f.at # "requiring"
        BY <1>0, <2>1, <3>2 DEF FrameType
      <3>. QED BY <2>1, <3>1, <3>2, <3>3, AuthMoves
    <2>. QED BY <2>1, <2>2, <2>3, <2>4 DEF Verdicts
  <1>4. CASE BeforeChecked
    <2>1. Adds /\ stack # <<>> /\ Goto([Top EXCEPT !.at = "requiring", !.req = 1])
      BY <1>4, GateAdds DEF GateStep, BeforeChecked, At
    <2>2. PICK f : f = [Top EXCEPT !.at = "requiring", !.req = 1]
      OBVIOUS
    <2>3. f.cap = Top.cap /\ f.nested = Top.nested /\ f.left = Top.left /\ f.req = 1
      BY <1>0, <2>1, <2>2 DEF FrameType
    <2>4. Plan(f.cap, f.nested) \ f.left \subseteq Passed'
      BY <1>0, <2>1, <2>3, AnswersStay DEF AuthOK
    <2>5. \A r \in 1..Len(Required(f)) : ~(r < 1)
      <3>1. \A n : \A r \in 1..n : ~(r < 1)
        OBVIOUS
      <3>. QED BY <3>1
    <2>6. AuthOK(f)'
      BY <2>3, <2>4, <2>5 DEF AuthOK, Plan, Required
    <2>. QED BY <2>1, <2>2, <2>6, AuthGoto
  <1>5. CASE Require
    <2>1. Adds /\ stack # <<>>
      BY <1>5, GateAdds DEF GateStep, Require, At
    <2>2. Frame(Required(Top)[Top.req], TRUE) \in FrameType
      <3>1. Required(Top)[Top.req] \in Capabilities
        <4>1. Top.policy \in PolicyIds /\ Top.req \in Nat \ {0}
          BY <1>5, RequiringIsOuter DEF Require, ShapeInv
        <4>2. Required(Top) \in Seq(Capabilities) /\ Len(Required(Top)) \in Nat
          BY <4>1, PolicyTypes, LenProperties DEF Required
        <4>3. Top.req \in 1..Len(Required(Top))
          BY <1>5, <4>1, <4>2 DEF Require
        <4>. QED BY <4>2, <4>3, ElementOfSeq
      <3>. QED BY <3>1, NewFrameOK DEF FrameOK
    <2>. QED BY <1>00, <1>5, <2>1, <2>2, AuthEnter DEF Require, Enter, Throw
  <1>6. CASE RequirementsMet
    <2>1. /\ Adds /\ stack # <<>> /\ Top.at = "requiring" /\ Top.policy \in PolicyIds
          /\ Record(PolicyRecord(Top.policy, "allowed")) /\ GoOn /\ Top.req > Len(Required(Top))
          /\ Top.req \in Nat
      BY <1>6, GateAdds, RequiringIsOuter DEF GateStep, RequirementsMet, At, ShapeInv
    <2>2. PolicyRecord(Top.policy, "allowed") \in RecordType
      BY <2>1, RecordTypes
    <2>3. Len(records') \in Since' /\ records'[Len(records')] = PolicyRecord(Top.policy, "allowed")
      BY <2>1, <2>2, SinceKept
    <2>4. PICK p \in PolicyIds : p = Top.policy
      BY <2>1
    <2>5. \A r \in 1..Len(Policies[p].requires) : Policies[p].requires[r] \in Answered'
      <3>1. Len(Required(Top)) \in Nat
        BY <2>1, PolicyTypes, LenProperties DEF Required
      <3>2. \A m, n \in Nat : m > n => \A r \in 1..n : r < m
        OBVIOUS
      <3>3. \A r \in 1..Len(Required(Top)) : Required(Top)[r] \in Answered
        BY <1>0, <2>1, <3>1, <3>2 DEF AuthOK
      <3>. QED BY <2>1, <2>4, <3>3, AnswersStay DEF Required
    <2>6. p \in Passed'
      BY <2>3, <2>4, <2>5 DEF Passed, PolicyRecord
    <2>. QED BY <2>1, <2>4, <2>6, AuthGoOn
  <1>7. CASE StartTool
    <2>1. Adds /\ stack # <<>> /\ Goto([Top EXCEPT !.at = "tool_call_started", !.callId = toolCount + 1])
      BY <1>7, GateAdds DEF GateStep, StartTool, At
    <2>2. PICK f : f = [Top EXCEPT !.at = "tool_call_started", !.callId = toolCount + 1]
      OBVIOUS
    <2>3. f.cap = Top.cap /\ f.nested = Top.nested /\ f.left = Top.left /\ f.at # "requiring"
      BY <1>0, <2>1, <2>2 DEF FrameType
    <2>. QED BY <2>1, <2>2, <2>3, AuthMoves
  <1>8. CASE CallHandler
    <2>1. Adds /\ stack # <<>> /\ Goto([Top EXCEPT !.at = "handler"])
      BY <1>8, GateAdds DEF GateStep, CallHandler, At
    <2>2. PICK f : f = [Top EXCEPT !.at = "handler"]
      OBVIOUS
    <2>3. f.cap = Top.cap /\ f.nested = Top.nested /\ f.left = Top.left /\ f.at # "requiring"
      BY <1>0, <2>1, <2>2 DEF FrameType
    <2>. QED BY <2>1, <2>2, <2>3, AuthMoves
  <1>9. ASSUME NEW v \in Results, HandlerReturns(v) PROVE AuthInv'
    <2>1. Adds /\ stack # <<>> /\ Goto([Top EXCEPT !.at = "tool_call_completed", !.verdict = v])
      BY <1>9, GateAdds DEF GateStep, HandlerReturns, At
    <2>2. PICK f : f = [Top EXCEPT !.at = "tool_call_completed", !.verdict = v]
      OBVIOUS
    <2>3. f.cap = Top.cap /\ f.nested = Top.nested /\ f.left = Top.left /\ f.at # "requiring"
      BY <1>0, <2>1, <2>2 DEF FrameType
    <2>. QED BY <2>1, <2>2, <2>3, AuthMoves
  <1>10. ASSUME NEW e, ToolFails(e), stack # <<>>, Adds PROVE AuthInv'
    <2>1. Goto([Top EXCEPT !.at = "tool_call_failed", !.verdict = e])
      BY <1>10 DEF ToolFails
    <2>2. PICK f : f = [Top EXCEPT !.at = "tool_call_failed", !.verdict = e]
      OBVIOUS
    <2>3. f.cap = Top.cap /\ f.nested = Top.nested /\ f.left = Top.left /\ f.at # "requiring"
      BY <1>0, <1>10, <2>2 DEF FrameType
    <2>. QED BY <1>10, <2>1, <2>2, <2>3, AuthMoves
  <1>11. CASE HandlerThrows \/ SinkFails
    BY <1>00, <1>10, <1>11, GateAdds DEF GateStep, HandlerThrows, SinkFails, At, Throw
  <1>12. CASE Completed
    <2>1. /\ Adds /\ stack # <<>> /\ Top.at = "tool_call_completed" /\ Return(Top.verdict)
          /\ records' = records /\ mark' = mark
      BY <1>12, GateAdds DEF GateStep, Completed, At
    <2>2. /\ Len(records) \in Since
          /\ records[Len(records)] = ToolRecord(Top.callId, Top.cap, Top.verdict)
          /\ Top.verdict \in Results /\ Top.cap \in Capabilities
      <3>1. mark < Len(records) /\ records[Len(records)] = ToolRecord(Top.callId, Top.cap, Top.verdict)
        BY <2>1 DEF RecordInv, LastOK, LastIs, At
      <3>2. Len(records) \in (mark + 1)..Len(records)
        BY <3>1, LenProperties DEF ShapeInv, CountersOK
      <3>. QED BY <1>0, <2>1, <3>1, <3>2, SinceKept DEF FrameOK, FrameType
    <2>3. CASE Len(stack) = 1
      BY <1>00, <2>1, <2>3 DEF Return
    <2>4. CASE Len(stack) = 2
      <3>1. /\ AuthOK(stack[1]) /\ stack[1] \in FrameType /\ Waits(stack[1], Top)
            /\ stack[1].at = "requiring" /\ stack[1].req \in Nat
        BY <2>4 DEF AuthInv, ShapeInv, StackOK, FrameOK, Waits, Top, FrameType
      <3>2. ASSUME NEW f, stack' = <<f>>, AuthOK(f)' PROVE AuthInv'
        <4>1. \A d \in 1..Len(stack') : stack'[d] = f
          BY <3>2
        <4>. QED BY <3>2, <4>1 DEF AuthInv, AuthOK, Plan, Required
      <3>3. CASE Top.cap = Confirm /\ Top.verdict = "false"
        <4>1. PICK f : f = [stack[1] EXCEPT !.at = "policy_denied", !.verdict = "denied"]
          OBVIOUS
        <4>2. stack' = <<f>>
          BY <2>1, <2>4, <3>3, <4>1 DEF Return
        <4>3. /\ f.cap = stack[1].cap /\ f.nested = stack[1].nested /\ f.left = stack[1].left
              /\ f.at # "requiring"
          BY <3>1, <4>1 DEF FrameType
        <4>. QED BY <2>1, <3>1, <3>2, <4>2, <4>3, AuthStays
      <3>4. CASE ~(Top.cap = Confirm /\ Top.verdict = "false")
        <4>1. PICK f : f = [stack[1] EXCEPT !.at = "requiring", !.req = @ + 1]
          OBVIOUS
        <4>2. stack' = <<f>>
          BY <2>1, <2>4, <3>4, <4>1 DEF Return
        <4>3. /\ f.cap = stack[1].cap /\ f.nested = stack[1].nested /\ f.left = stack[1].left
              /\ f.policy = stack[1].policy /\ f.req = stack[1].req + 1
          BY <3>1, <4>1 DEF FrameType
        <4>4. Top.cap \in Answered
          BY <2>2, <3>4 DEF Answered, IsTool, ToolRecord, Results
        <4>5. Required(f) = Required(stack[1])
          BY <4>3 DEF Required
        <4>6. \A r \in 1..Len(Required(f)) : r < f.req => Required(f)[r] \in Answered
          <5>1. \A r, n \in Nat : r < n + 1 => r < n \/ r = n
            OBVIOUS
          <5>2. \A n : \A r \in 1..n : r \in Nat
            OBVIOUS
          <5>. QED BY <3>1, <4>3, <4>4, <4>5, <5>1, <5>2 DEF AuthOK, Waits
        <4>7. Plan(f.cap, f.nested) \ f.left \subseteq Passed
          BY <3>1, <4>3 DEF AuthOK
        <4>8. AuthOK(f)'
          BY <2>1, <4>6, <4>7, AnswersStay DEF AuthOK, Plan, Required
        <4>. QED BY <3>2, <4>2, <4>8
      <3>. QED BY <3>3, <3>4
    <2>. QED BY <1>0, <2>1, <2>3, <2>4
  <1>13. CASE CheckFails \/ Denied \/ Failed
    BY <1>00, <1>13 DEF CheckFails, Denied, Failed, Throw
  <1>14. CASE UNCHANGED vars
    <2>1. stack' = stack /\ records' = records /\ mark' = mark
      BY <1>14 DEF vars
    <2>2. Answered' = Answered
      BY <2>1 DEF Answered, Since, IsTool
    <2>3. Passed' = Passed
      BY <2>1, <2>2 DEF Passed, Since
    <2>. QED BY <2>1, <2>2, <2>3 DEF AuthInv, AuthOK
  <1>. QED BY <1>1, <1>2, <1>3, <1>4, <1>5, <1>6, <1>7, <1>8, <1>9, <1>11, <1>12, <1>13, <1>14
           DEF Next, GateStep

\* A handler runs only when every policy on its capability has let this very call
\* of the stage pass, whatever the policies, the tape and the number of calls.
THEOREM AuthorizationCorrect == Spec => []HandlerAuthorized
  <1>1. ShapeInv /\ AuthInv => HandlerAuthorized
    <2>. SUFFICES ASSUME ShapeInv, AuthInv, At("handler"),
                         NEW p \in PolicyIds, Policies[p].trigger = Top.cap,
                         ~(Top.nested /\ Policies[p].kind = "before")
                  PROVE  /\ \E i \in Since : records[i] = PolicyRecord(p, "allowed")
                         /\ Policies[p].kind = "before" => \A r \in DOMAIN Policies[p].requires :
                              \E i \in Since :
                                /\ records[i].type = "tool"
                                /\ records[i].subject[2] = Policies[p].requires[r]
                                /\ records[i].outcome = "value"
                                     \/ (Policies[p].requires[r] # Confirm /\ records[i].outcome = "false")
      BY DEF HandlerAuthorized
    <2>1. Top.left = {} /\ AuthOK(Top) /\ Top.nested \in BOOLEAN
      BY TopOK DEF ShapeInv, AuthInv, Top, At, FrameOK, FrameType
    <2>2. p \in Plan(Top.cap, Top.nested)
      <3>1. Policies[p].kind \in {"deny", "before"}
        BY PolicyTypes
      <3>. QED BY <2>1, <3>1 DEF Plan
    <2>3. p \in Passed
      BY <2>1, <2>2 DEF AuthOK
    <2>4. DOMAIN Policies[p].requires = 1..Len(Policies[p].requires)
      BY PolicyTypes, LenProperties
    <2>. QED BY <2>3, <2>4 DEF Passed, Answered, IsTool
  <1>. QED BY <1>1, ShapeInit, ShapeNext, RecordInit, RecordNext, AuthInit, AuthNext, PTL DEF Spec

=============================================================================

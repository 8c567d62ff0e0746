----------------------------- MODULE ModelStage -----------------------------
(***************************************************************************)
(* ModelStageExecutor.execute (models.ts), one model stage: ask the model, *)
(* run the tools it asks for, correct it when its output is wrong, until   *)
(* an output passes or a budget is used up; together with the part of the  *)
(* trace recorder (trace.ts) that names the attempts in the event ledger.  *)
(*                                                                         *)
(* What the model answers is one word for what execute tells apart.  The   *)
(* tagged protocol reads the content only, so an answer that holds native  *)
(* tool calls and no content is an empty one there.                        *)
(***************************************************************************)
EXTENDS Naturals, Sequences, FiniteSets

CONSTANTS
  MaxModelRetries,     \* options.maxModelRetries
  MaxToolRounds,       \* options.maxToolRounds, or Unlimited (null)
  DefaultToolRounds,   \* the value `??` puts in place of null
  Unlimited,
  Protocols            \* action protocols to start from, of "native" and "tagged"

ASSUME BudgetAssumption ==
  /\ MaxModelRetries \in Nat /\ DefaultToolRounds \in Nat
  /\ MaxToolRounds \in Nat \cup {Unlimited}
  /\ Protocols \subseteq {"native", "tagged"}

\* One or two native tool calls; no content; content that does not parse; a
\* tagged tool call; an object of the wrong shape, one the semantic validator
\* refuses, and a good one.
Answers == {"call", "two_calls", "empty", "garbled", "envelope", "misshapen", "refused", "good"}

VARIABLES
  protocol,
  streaming,       \* a live sink is attached and the adapter can stream
  at,              \* where execute is suspended, or how it settled
  answer,          \* the response of the current attempt
  retryCount,
  toolRounds,
  callsLeft,       \* tool calls of the answer still to run
  hadToolError,
  messages,        \* the conversation, as the kinds of its messages
  attempts,        \* the attempts made, the current one included
  modelCount,      \* TraceRecorder.modelCount
  pendingModels,   \* TraceRecorder.pendingModels of this visit
  lastModelId,     \* TraceRecorder.lastModelId of this visit
  evidence,        \* ids of the vault's model_request records
  ledger           \* the last model event in the ledger

recorder == <<modelCount, pendingModels, lastModelId, evidence, ledger>>
vars == <<protocol, streaming, at, answer, retryCount, toolRounds, callsLeft,
          hadToolError, messages, attempts, recorder>>

Entry(kind, id) == [kind |-> kind, id |-> id]

\* createRuntime and the executor's constructor both apply `?? 32`.
ToolRoundLimit == IF MaxToolRounds = Unlimited THEN DefaultToolRounds ELSE MaxToolRounds

-----------------------------------------------------------------------------
(* The recorder *)

\* beginModelCall and recordModelRequest.
BeginModelCall ==
  /\ modelCount' = modelCount + 1
  /\ pendingModels' = Append(pendingModels, modelCount + 1)
  /\ evidence' = evidence \cup {modelCount + 1}
  /\ UNCHANGED <<lastModelId, ledger>>

\* Mutant: a retry goes by the oldest pending id.
NewestIdOldest == IF pendingModels # <<>> THEN Head(pendingModels) ELSE lastModelId

\* The id of a delta, and of a retry: the newest pending one.  A retry after
\* model_completed took the pending id goes by the id that was taken last.
NewestId == IF pendingModels # <<>> THEN pendingModels[Len(pendingModels)] ELSE lastModelId

\* Mutant: the id that was taken is not remembered, a retry makes up a new one.
RetryIdForgetful == IF pendingModels # <<>> THEN pendingModels[Len(pendingModels)] ELSE modelCount + 1

RetryId == NewestId

\* projectModelRetry
ObserveRetry ==
  /\ ledger' = Entry("model_retry", RetryId)
  /\ UNCHANGED <<modelCount, pendingModels, lastModelId, evidence>>

\* projectModelCompleted takes the oldest pending id.
ObserveCompleted ==
  LET id == IF pendingModels # <<>> THEN Head(pendingModels) ELSE modelCount + 1 IN
  /\ modelCount' = IF pendingModels # <<>> THEN modelCount ELSE id
  /\ pendingModels' = IF pendingModels # <<>> THEN Tail(pendingModels) ELSE <<>>
  /\ lastModelId' = id
  /\ ledger' = Entry("model_completed", id)
  /\ UNCHANGED evidence

-----------------------------------------------------------------------------
Init ==
  /\ protocol \in Protocols /\ streaming \in BOOLEAN
  /\ at = "attempt" /\ answer = "none"
  /\ retryCount = 0 /\ toolRounds = 0 /\ callsLeft = 0 /\ attempts = 0
  /\ hadToolError = FALSE
  /\ messages = <<"system", "user">>
  /\ modelCount = 0 /\ pendingModels = <<>> /\ lastModelId = 0
  /\ evidence = {} /\ ledger = Entry("none", 0)

Fatal(why) == at' = why

\* Mutant: a repeated correction is not counted.
CorrectUncounted(correction) ==
  IF retryCount >= MaxModelRetries
    THEN Fatal("invalid_output") /\ UNCHANGED <<retryCount, messages, recorder>>
    ELSE /\ messages' = Append(messages, correction)
         /\ retryCount' = IF messages[Len(messages)] = correction THEN retryCount ELSE retryCount + 1
         /\ at' = "model_retry" /\ ObserveRetry

\* A wrong output: out of retries the stage fails; otherwise the retry is
\* announced and the correction joins the conversation.
Correct(correction) ==
  IF retryCount >= MaxModelRetries
    THEN Fatal("invalid_output") /\ UNCHANGED <<retryCount, messages, recorder>>
    ELSE /\ retryCount' = retryCount + 1
         /\ messages' = Append(messages, correction)
         /\ at' = "model_retry" /\ ObserveRetry

-----------------------------------------------------------------------------
(* Actions *)

\* The top of the loop: a new attempt.
Ask ==
  /\ at = "attempt"
  /\ at' = "generating"
  /\ attempts' = attempts + 1
  /\ BeginModelCall
  /\ UNCHANGED <<protocol, streaming, answer, retryCount, toolRounds, callsLeft,
                 hadToolError, messages>>

\* A streamed delta; its sink is awaited before the next chunk.
Delta ==
  /\ at = "generating" /\ streaming
  /\ ledger' = Entry("model_delta", NewestId)
  /\ UNCHANGED <<protocol, streaming, at, answer, retryCount, toolRounds, callsLeft,
                 hadToolError, messages, attempts, modelCount, pendingModels,
                 lastModelId, evidence>>

\* The response is complete and recorded; model_completed is emitted.  A stream's
\* completed chunk may hold no response.
Complete ==
  /\ at = "generating"
  /\ answer' \in Answers \cup (IF streaming THEN {"none"} ELSE {})
  /\ at' = "model_completed"
  /\ ObserveCompleted
  /\ UNCHANGED <<protocol, streaming, retryCount, toolRounds, callsLeft, hadToolError,
                 messages, attempts>>

\* The adapter rejects its model's output before there is a response, or a
\* stream ends without a completed chunk or with one that holds no response.
RejectOutput ==
  /\ at = "generating" \/ (at = "model_completed" /\ answer = "none")
  /\ Correct("correction")
  /\ UNCHANGED <<protocol, streaming, answer, toolRounds, callsLeft, hadToolError, attempts>>

\* The adapter fails or is interrupted, or the sink of an event fails.
AttemptFails ==
  /\ at \in {"generating", "model_completed", "model_retry"}
  /\ Fatal("failed")
  /\ UNCHANGED <<protocol, streaming, answer, retryCount, toolRounds, callsLeft,
                 hadToolError, messages, attempts, recorder>>

\* The answer asks for tools, in the protocol's way.
WantsTools(a, p) == IF p = "native" THEN a \in {"call", "two_calls"} ELSE a = "envelope"

\* The model asks for tools: the round is refused when the budget is used up.
ToolRound ==
  /\ at = "model_completed" /\ WantsTools(answer, protocol)
  /\ IF toolRounds >= ToolRoundLimit
       THEN Fatal("tool_rounds") /\ UNCHANGED <<toolRounds, callsLeft, messages, hadToolError>>
       ELSE /\ toolRounds' = toolRounds + 1
            /\ callsLeft' = IF answer = "two_calls" THEN 2 ELSE 1
            /\ messages' = Append(messages, IF protocol = "native" THEN answer ELSE "assistant")
            /\ hadToolError' = FALSE
            /\ at' = "tool"
  /\ UNCHANGED <<protocol, streaming, answer, retryCount, attempts, recorder>>

\* Mutant: a tool that failed gets no answer in the conversation.
ToolAnswersUnlessFailed(ok) ==
  /\ at = "tool" /\ callsLeft > 0
  /\ callsLeft' = callsLeft - 1
  /\ hadToolError' = (hadToolError \/ ~ok)
  /\ messages' = IF ok THEN Append(messages, IF protocol = "native" THEN "tool" ELSE "feedback") ELSE messages
  /\ UNCHANGED <<protocol, streaming, at, answer, retryCount, toolRounds, attempts, recorder>>

\* One tool call of the round settles.  An unknown tool or argument, a failing
\* tool and a denied one are told to the model; every other error ends the stage.
ToolAnswers(ok) ==
  /\ at = "tool" /\ callsLeft > 0
  /\ callsLeft' = callsLeft - 1
  /\ hadToolError' = (hadToolError \/ ~ok)
  /\ messages' = Append(messages, IF protocol = "native" THEN "tool" ELSE "feedback")
  /\ UNCHANGED <<protocol, streaming, at, answer, retryCount, toolRounds, attempts, recorder>>

ToolFails ==
  /\ at = "tool" /\ callsLeft > 0
  /\ Fatal("failed")
  /\ UNCHANGED <<protocol, streaming, answer, retryCount, toolRounds, callsLeft,
                 hadToolError, messages, attempts, recorder>>

\* Mutant: only a round with an error goes on to the next attempt.
RoundOverIfFailed ==
  /\ at = "tool" /\ callsLeft = 0 /\ hadToolError
  /\ at' = "model_retry" /\ ObserveRetry
  /\ UNCHANGED <<protocol, streaming, answer, retryCount, toolRounds, callsLeft,
                 hadToolError, messages, attempts>>

\* The round is over; one with an error is announced as a retry.
RoundOver ==
  /\ at = "tool" /\ callsLeft = 0
  /\ IF hadToolError THEN at' = "model_retry" /\ ObserveRetry
                     ELSE at' = "attempt" /\ UNCHANGED recorder
  /\ UNCHANGED <<protocol, streaming, answer, retryCount, toolRounds, callsLeft,
                 hadToolError, messages, attempts>>

\* What execute makes of an answer that asks for no tool.
Reading ==
  CASE answer = "empty" \/ (protocol = "tagged" /\ answer \in {"call", "two_calls"}) -> "empty"
    [] answer \in {"misshapen", "refused", "good"} -> answer
    [] OTHER -> "garbled"

\* An empty answer is a provider failure and is not retried; one that does not
\* parse or normalize is; a normalized one goes to the semantic validator.
Read ==
  /\ at = "model_completed" /\ answer # "none" /\ ~WantsTools(answer, protocol)
  /\ CASE Reading = "empty" -> Fatal("failed") /\ UNCHANGED <<retryCount, messages, recorder>>
       [] Reading \in {"garbled", "misshapen"} -> Correct("correction")
       [] OTHER -> at' = "validating" /\ UNCHANGED <<retryCount, messages, recorder>>
  /\ UNCHANGED <<protocol, streaming, answer, toolRounds, callsLeft, hadToolError, attempts>>

\* The validator settles; it may itself fail.
Validated ==
  /\ at = "validating"
  /\ \/ answer = "good" /\ at' = "returned" /\ UNCHANGED <<retryCount, messages, recorder>>
     \/ answer = "refused" /\ Correct("correction")
     \/ Fatal("failed") /\ UNCHANGED <<retryCount, messages, recorder>>
  /\ UNCHANGED <<protocol, streaming, answer, toolRounds, callsLeft, hadToolError, attempts>>

\* model_retry is delivered.
RetryAnnounced ==
  /\ at = "model_retry"
  /\ at' = "attempt"
  /\ UNCHANGED <<protocol, streaming, answer, retryCount, toolRounds, callsLeft,
                 hadToolError, messages, attempts, recorder>>

Settling ==
  \/ Ask \/ Complete \/ RejectOutput \/ AttemptFails
  \/ ToolRound \/ (\E ok \in BOOLEAN : ToolAnswers(ok)) \/ ToolFails \/ RoundOver
  \/ Read \/ Validated \/ RetryAnnounced

Next == Settling \/ Delta

\* Adapters, tools, validators and sinks settle; deltas may come or not.
Spec == Init /\ [][Next]_vars /\ WF_vars(Settling)

-----------------------------------------------------------------------------
(* Properties *)

Settled == {"returned", "failed", "invalid_output", "tool_rounds"}

\* The two budgets bound the attempts: each one beyond the first is paid for by
\* a retry or by a round of tools, and neither budget is ever overdrawn.
AttemptsPaidFor ==
  /\ retryCount <= MaxModelRetries /\ toolRounds <= ToolRoundLimit
  /\ at = "generating" => attempts = 1 + retryCount + toolRounds
  /\ attempts <= 1 + MaxModelRetries + ToolRoundLimit

\* The tool calls a message holds, and the places of a kind of message.
CallCount(m) == CASE m = "call" -> 1 [] m = "two_calls" -> 2 [] OTHER -> 0
Places(what) == {k \in DOMAIN messages : messages[k] = what}

\* The conversation sent to the model is well formed: every native message with
\* tool calls is followed by as many tool results, and there is one correction
\* for every retry.
ConversationWellFormed ==
  at = "generating" =>
    /\ \A k \in Places("tool") : CallCount(messages[k - 1]) >= 1 \/ CallCount(messages[k - 2]) = 2
    /\ \A k \in DOMAIN messages : \A d \in 1..CallCount(messages[k]) :
         k + d \in DOMAIN messages /\ messages[k + d] = "tool"
    /\ Cardinality(Places("correction")) = retryCount

\* A retry and a delta are in the ledger under the id of the attempt they belong
\* to, also when earlier attempts left their ids pending.
EventsNameTheirAttempt ==
  at = "model_retry" \/ ledger.kind = "model_delta" => ledger.id = attempts

\* Whatever id the ledger gives a model event, the vault holds that attempt's
\* request: otherwise the archive would not verify.
LedgerHasEvidence == ledger.kind \in {"model_completed", "model_retry"} => ledger.id \in evidence

\* The stage settles: no sequence of wrong answers keeps it going.
StageSettles == <>(at \in Settled)

\* The comment on beginModelCall in execute: each attempt gets its own trace
\* model-call id.  A completed model call would then be in the ledger under the
\* id of the attempt that completed.
CompletionNamesItsAttempt ==
  at = "model_completed" /\ ledger.kind = "model_completed" => ledger.id = attempts
=============================================================================

-------------------------- MODULE ModelStageProofs --------------------------
(***************************************************************************)
(* Proofs about ModelStage for every pair of budgets, in both protocols    *)
(* and for any sequence of answers.  The invariant has three parts: what   *)
(* the budgets have paid for, which attempt the recorder's ids belong to,  *)
(* and which tool results the conversation still owes.                     *)
(***************************************************************************)
EXTENDS ModelStage, SequenceTheorems, FiniteSetTheorems, TLAPS

Points == {"attempt", "generating", "model_completed", "model_retry", "tool", "validating"} \cup Settled

Kinds == {"system", "user", "correction", "assistant", "feedback", "tool", "call", "two_calls"}

TypeInv ==
  /\ protocol \in {"native", "tagged"} /\ at \in Points
  /\ answer \in Answers \cup {"none"}
  /\ retryCount \in Nat /\ toolRounds \in Nat /\ callsLeft \in Nat /\ attempts \in Nat
  /\ messages \in Seq(Kinds)
  /\ modelCount \in Nat /\ pendingModels \in Seq(Nat) /\ lastModelId \in Nat

\* What an attempt costs is booked after it: a retry or a round of tools follows
\* each attempt but the last.
BudgetInv ==
  /\ retryCount <= MaxModelRetries /\ toolRounds <= ToolRoundLimit
  /\ at \in {"attempt", "tool", "model_retry"} => attempts = retryCount + toolRounds
  /\ at \in {"generating", "model_completed", "validating"} => attempts = 1 + retryCount + toolRounds
  /\ at \in Settled => attempts <= 1 + retryCount + toolRounds
  /\ at = "tool" => toolRounds >= 1

\* The recorder has given out one id per attempt, the newest to the present one,
\* whichever older ids are still pending.
IdInv ==
  /\ modelCount = attempts /\ evidence = 1..attempts
  /\ NewestId = attempts
  /\ \A i \in 1..Len(pendingModels) : pendingModels[i] \in 1..attempts
  /\ at = "generating" => pendingModels # <<>>
  /\ ledger.kind \in {"model_completed", "model_retry"} => ledger.id \in evidence
  /\ ledger.kind = "model_delta" => ledger.id = attempts /\ at \in {"generating"} \cup Settled
  /\ at = "model_retry" => ledger.id = attempts

-----------------------------------------------------------------------------
(* The steps by what they do to these parts *)

unmoved == <<protocol, streaming, answer, toolRounds, callsLeft, hadToolError, attempts>>

\* The stage settles; within a round of tools it can only fail.
Ends ==
  /\ at \notin Settled /\ at' \in Settled /\ (at = "tool" => at' = "failed")
  /\ UNCHANGED <<unmoved, retryCount, messages, recorder>>

\* A wrong output is answered by a correction.
Corrects ==
  /\ at \in {"generating", "model_completed", "validating"}
  /\ retryCount < MaxModelRetries
  /\ retryCount' = retryCount + 1 /\ messages' = Append(messages, "correction")
  /\ at' = "model_retry" /\ ObserveRetry
  /\ UNCHANGED unmoved

\* A round of tools begins.
TakesRound ==
  /\ at = "model_completed" /\ at' = "tool"
  /\ toolRounds < ToolRoundLimit /\ toolRounds' = toolRounds + 1
  /\ IF protocol = "native"
       THEN /\ answer \in {"call", "two_calls"}
            /\ callsLeft' = CallCount(answer) /\ messages' = Append(messages, answer)
       ELSE callsLeft' = 1 /\ messages' = Append(messages, "assistant")
  /\ UNCHANGED <<protocol, streaming, answer, retryCount, attempts, recorder>>

Validates ==
  /\ at = "model_completed" /\ at' = "validating"
  /\ UNCHANGED <<unmoved, retryCount, messages, recorder>>

LEMMA LimitType == ToolRoundLimit \in Nat /\ MaxModelRetries \in Nat
  BY BudgetAssumption DEF ToolRoundLimit

LEMMA CorrectKinds ==
  ASSUME TypeInv, Correct("correction"), UNCHANGED unmoved,
         at \in {"generating", "model_completed", "validating"}
  PROVE  Ends \/ Corrects
  <1>1. at \notin Settled
    BY DEF Settled
  <1>2. CASE retryCount >= MaxModelRetries
    BY <1>1, <1>2 DEF Correct, Fatal, Ends, Settled
  <1>3. CASE ~(retryCount >= MaxModelRetries)
    <2>1. retryCount < MaxModelRetries
      BY <1>3, LimitType DEF TypeInv
    <2>. QED BY <1>3, <2>1 DEF Correct, Corrects
  <1>. QED BY <1>2, <1>3

LEMMA StepKinds ==
  ASSUME TypeInv, [Next]_vars
  PROVE  \/ Ends \/ Corrects \/ Ask \/ Delta \/ Complete \/ TakesRound
         \/ (\E ok \in BOOLEAN : ToolAnswers(ok)) \/ RoundOver \/ Validates \/ RetryAnnounced
         \/ UNCHANGED vars
  <1>1. CASE RejectOutput
    BY <1>1, CorrectKinds DEF RejectOutput, unmoved
  <1>2. CASE AttemptFails \/ ToolFails
    BY <1>2 DEF AttemptFails, ToolFails, Fatal, Ends, Settled, unmoved
  <1>3. CASE ToolRound
    <2>1. CASE toolRounds >= ToolRoundLimit
      BY <1>3, <2>1 DEF ToolRound, Fatal, Ends, Settled, unmoved
    <2>2. CASE ~(toolRounds >= ToolRoundLimit)
      <3>1. toolRounds < ToolRoundLimit
        BY <2>2, LimitType DEF TypeInv
      <3>2. protocol = "native" =>
              answer \in {"call", "two_calls"} /\ (IF answer = "two_calls" THEN 2 ELSE 1) = CallCount(answer)
        BY <1>3 DEF ToolRound, WantsTools, CallCount
      <3>3. protocol # "native" => (IF answer = "two_calls" THEN 2 ELSE 1) = 1
        BY <1>3 DEF ToolRound, WantsTools
      <3>. QED BY <1>3, <2>2, <3>1, <3>2, <3>3 DEF ToolRound, TakesRound
    <2>. QED BY <2>1, <2>2
  <1>4. CASE Read
    <2>1. CASE Reading = "empty"
      BY <1>4, <2>1 DEF Read, Fatal, Ends, Settled, unmoved
    <2>2. CASE Reading \in {"garbled", "misshapen"}
      BY <1>4, <2>2, CorrectKinds DEF Read, unmoved
    <2>3. CASE Reading \notin {"empty", "garbled", "misshapen"}
      BY <1>4, <2>3 DEF Read, Validates, unmoved
    <2>. QED BY <2>1, <2>2, <2>3
  <1>5. CASE Validated
    <2>1. CASE Correct("correction")
      BY <1>5, <2>1, CorrectKinds DEF Validated, unmoved
    <2>2. CASE ~Correct("correction")
      BY <1>5, <2>2 DEF Validated, Fatal, Ends, Settled, unmoved
    <2>. QED BY <2>1, <2>2
  <1>. QED BY <1>1, <1>2, <1>3, <1>4, <1>5 DEF Next, Settling

-----------------------------------------------------------------------------
(* Types *)

LEMMA MessageKinds ==
  ASSUME TypeInv, NEW m \in Kinds
  PROVE  Append(messages, m) \in Seq(Kinds)
  BY AppendProperties DEF TypeInv

LEMMA TypeInit == Init => TypeInv
  <1>. SUFFICES ASSUME Init PROVE TypeInv
    OBVIOUS
  <1>1. messages \in Seq(Kinds)
    <2>1. "system" \in Kinds /\ "user" \in Kinds
      BY DEF Kinds
    <2>. QED BY <2>1 DEF Init
  <1>2. pendingModels \in Seq(Nat)
    BY EmptySeq DEF Init
  <1>. QED BY <1>1, <1>2, BudgetAssumption DEF Init, TypeInv, Points

LEMMA TypeNext == TypeInv /\ [Next]_vars => TypeInv'
  <1>. SUFFICES ASSUME TypeInv, [Next]_vars PROVE TypeInv'
    OBVIOUS
  <1>1. CASE Ends \/ Validates
    BY <1>1 DEF Ends, Validates, TypeInv, Points, Settled, unmoved, recorder
  <1>2. CASE Corrects
    <2>1. messages' \in Seq(Kinds)
      BY <1>2, MessageKinds DEF Corrects, Kinds
    <2>. QED BY <1>2, <2>1 DEF Corrects, ObserveRetry, TypeInv, Points, unmoved
  <1>3. CASE Ask
    <2>1. pendingModels' \in Seq(Nat) /\ modelCount' \in Nat
      <3>1. modelCount + 1 \in Nat /\ pendingModels \in Seq(Nat)
        BY DEF TypeInv
      <3>. QED BY <1>3, <3>1, AppendProperties DEF Ask, BeginModelCall
    <2>. QED BY <1>3, <2>1 DEF Ask, BeginModelCall, TypeInv, Points
  <1>4. CASE Delta \/ RetryAnnounced
    BY <1>4 DEF Delta, RetryAnnounced, recorder, TypeInv, Points
  <1>5. CASE Complete
    <2>1. /\ pendingModels' \in Seq(Nat)
          /\ modelCount' \in Nat /\ lastModelId' \in Nat
      <3>1. CASE pendingModels # <<>>
        BY <1>5, <3>1, HeadTailProperties DEF Complete, ObserveCompleted, TypeInv
      <3>2. CASE pendingModels = <<>>
        BY <1>5, <3>2, EmptySeq DEF Complete, ObserveCompleted, TypeInv
      <3>. QED BY <3>1, <3>2
    <2>2. answer' \in Answers \cup {"none"}
      BY <1>5 DEF Complete
    <2>. QED BY <1>5, <2>1, <2>2 DEF Complete, TypeInv, Points
  <1>6. CASE TakesRound
    <2>1. messages' \in Seq(Kinds) /\ callsLeft' \in Nat
      BY <1>6, MessageKinds DEF TakesRound, Kinds, CallCount
    <2>. QED BY <1>6, <2>1 DEF TakesRound, recorder, TypeInv, Points
  <1>7. ASSUME NEW ok \in BOOLEAN, ToolAnswers(ok) PROVE TypeInv'
    <2>1. messages' \in Seq(Kinds) /\ callsLeft' \in Nat
      BY <1>7, MessageKinds DEF ToolAnswers, Kinds, TypeInv
    <2>. QED BY <1>7, <2>1 DEF ToolAnswers, recorder, TypeInv, Points
  <1>8. CASE RoundOver
    BY <1>8 DEF RoundOver, ObserveRetry, recorder, TypeInv, Points
  <1>9. CASE UNCHANGED vars
    BY <1>9 DEF vars, recorder, TypeInv
  <1>. QED BY <1>1, <1>2, <1>3, <1>4, <1>5, <1>6, <1>7, <1>8, <1>9, StepKinds

-----------------------------------------------------------------------------
(* The budgets *)

LEMMA BudgetInit == Init => BudgetInv
  BY LimitType DEF Init, BudgetInv, Settled

LEMMA BudgetNext == TypeInv /\ BudgetInv /\ [Next]_vars => BudgetInv'
  <1>. SUFFICES ASSUME TypeInv, BudgetInv, [Next]_vars PROVE BudgetInv'
    OBVIOUS
  <1>0. retryCount \in Nat /\ toolRounds \in Nat /\ attempts \in Nat /\ at \in Points
    BY DEF TypeInv
  <1>1. CASE Ends
    <2>1. attempts <= 1 + retryCount + toolRounds
      BY <1>0, <1>1 DEF Ends, BudgetInv, Points
    <2>. QED BY <1>0, <1>1, <2>1 DEF Ends, BudgetInv, unmoved, Settled
  <1>2. CASE Corrects
    BY <1>0, <1>2, LimitType DEF Corrects, BudgetInv, unmoved, Settled
  <1>3. CASE Ask
    BY <1>0, <1>3 DEF Ask, BudgetInv, Settled
  <1>4. CASE Delta \/ RetryAnnounced \/ Validates
    BY <1>0, <1>4 DEF Delta, RetryAnnounced, Validates, BudgetInv, unmoved, Settled
  <1>5. CASE Complete
    BY <1>0, <1>5 DEF Complete, BudgetInv, Settled
  <1>6. CASE TakesRound
    BY <1>0, <1>6, LimitType DEF TakesRound, BudgetInv, Settled
  <1>7. ASSUME NEW ok \in BOOLEAN, ToolAnswers(ok) PROVE BudgetInv'
    BY <1>0, <1>7 DEF ToolAnswers, BudgetInv, Settled
  <1>8. CASE RoundOver
    BY <1>0, <1>8 DEF RoundOver, BudgetInv, Settled
  <1>9. CASE UNCHANGED vars
    BY <1>9 DEF vars, BudgetInv
  <1>. QED BY <1>1, <1>2, <1>3, <1>4, <1>5, <1>6, <1>7, <1>8, <1>9, StepKinds

\* Each attempt after the first was paid for by a retry or by a round of tools,
\* and neither budget is overdrawn.
THEOREM BudgetCorrect == Spec => []AttemptsPaidFor
  <1>1. TypeInv /\ BudgetInv => AttemptsPaidFor
    <2>. SUFFICES ASSUME TypeInv, BudgetInv PROVE AttemptsPaidFor
      OBVIOUS
    <2>1. retryCount \in Nat /\ toolRounds \in Nat /\ attempts \in Nat /\ at \in Points
      BY DEF TypeInv
    <2>2. attempts <= 1 + retryCount + toolRounds
      BY <2>1 DEF BudgetInv, Points
    <2>3. \A a, r, t, m, n \in Nat : a <= 1 + r + t /\ r <= m /\ t <= n => a <= 1 + m + n
      OBVIOUS
    <2>4. attempts <= 1 + MaxModelRetries + ToolRoundLimit
      BY <2>1, <2>2, <2>3, LimitType DEF BudgetInv
    <2>. QED BY <2>4 DEF BudgetInv, AttemptsPaidFor
  <1>. QED BY <1>1, TypeInit, TypeNext, BudgetInit, BudgetNext, PTL DEF Spec

-----------------------------------------------------------------------------
(* The ids *)

LEMMA IdInit == Init => IdInv
  <1>. SUFFICES ASSUME Init PROVE IdInv
    OBVIOUS
  <1>1. 1..attempts = {} /\ 1..Len(pendingModels) = {}
    BY EmptySeq DEF Init
  <1>. QED BY <1>1 DEF Init, IdInv, NewestId, Entry

\* Taking the oldest of the pending ids leaves the newest one, or it was that one.
LEMMA OldestTaken ==
  ASSUME NEW s \in Seq(Nat), s # <<>>
  PROVE  /\ Head(s) = s[1] /\ 1 \in 1..Len(s)
         /\ Tail(s) # <<>> => Tail(s)[Len(Tail(s))] = s[Len(s)]
         /\ Tail(s) = <<>> => Head(s) = s[Len(s)]
         /\ \A i \in 1..Len(Tail(s)) : i + 1 \in 1..Len(s) /\ Tail(s)[i] = s[i + 1]
  <1>1. /\ Len(s) \in Nat \ {0} /\ Tail(s) \in Seq(Nat) /\ Len(Tail(s)) = Len(s) - 1
        /\ \A i \in 1..Len(Tail(s)) : Tail(s)[i] = s[i + 1]
    BY HeadTailProperties, EmptySeq, LenProperties
  <1>2. Head(s) = s[1]
    OBVIOUS
  <1>3. \A n \in Nat \ {0} : 1 \in 1..n /\ (\A i \in 1..(n - 1) : i + 1 \in 1..n)
                             /\ (n - 1 # 0 => n - 1 \in 1..(n - 1) /\ (n - 1) + 1 = n)
    OBVIOUS
  <1>4. Tail(s) # <<>> => Len(Tail(s)) # 0
    BY <1>1, EmptySeq
  <1>5. Tail(s) = <<>> => Len(s) = 1
    <2>1. Tail(s) = <<>> => Len(s) - 1 = 0
      BY <1>1, EmptySeq
    <2>2. \A n \in Nat \ {0} : n - 1 = 0 => n = 1
      OBVIOUS
    <2>. QED BY <1>1, <2>1, <2>2
  <1>6. Tail(s) # <<>> => Tail(s)[Len(Tail(s))] = s[Len(s)]
    BY <1>1, <1>3, <1>4
  <1>. QED BY <1>1, <1>2, <1>3, <1>5, <1>6

LEMMA IdNext == TypeInv /\ BudgetInv /\ IdInv /\ [Next]_vars => IdInv'
  <1>. SUFFICES ASSUME TypeInv, BudgetInv, IdInv, [Next]_vars PROVE IdInv'
    OBVIOUS
  <1>0. /\ attempts \in Nat /\ at \in Points /\ pendingModels \in Seq(Nat) /\ Len(pendingModels) \in Nat
        /\ lastModelId \in Nat /\ modelCount = attempts /\ evidence = 1..attempts /\ NewestId = attempts
    BY LenProperties DEF TypeInv, IdInv
  <1>00. at \in {"generating", "model_completed", "validating"} => attempts \in 1..attempts
    <2>1. at \in {"generating", "model_completed", "validating"} => attempts >= 1
      BY DEF TypeInv, BudgetInv
    <2>. QED BY <1>0, <2>1
  <1>1. CASE Ends \/ Validates
    BY <1>0, <1>1 DEF Ends, Validates, unmoved, recorder, IdInv, NewestId, Settled
  <1>2. CASE Corrects
    <2>1. /\ ledger' = Entry("model_retry", attempts) /\ attempts' = attempts /\ at' = "model_retry"
          /\ UNCHANGED <<modelCount, pendingModels, lastModelId, evidence>>
      BY <1>0, <1>2 DEF Corrects, ObserveRetry, RetryId, unmoved
    <2>2. ledger'.id \in evidence'
      BY <1>0, <1>00, <1>2, <2>1 DEF Corrects, Entry
    <2>3. NewestId' = attempts'
      BY <1>0, <2>1 DEF NewestId
    <2>. QED BY <1>0, <2>1, <2>2, <2>3 DEF IdInv, Entry
  <1>3. CASE Ask
    <2>1. /\ at = "attempt" /\ at' = "generating" /\ attempts' = attempts + 1
          /\ modelCount' = attempts + 1 /\ pendingModels' = Append(pendingModels, attempts + 1)
          /\ evidence' = evidence \cup {attempts + 1} /\ UNCHANGED <<lastModelId, ledger>>
      BY <1>0, <1>3 DEF Ask, BeginModelCall
    <2>2. attempts + 1 \in Nat
      BY <1>0
    <2>3. Len(pendingModels') = Len(pendingModels) + 1
      BY <1>0, <2>1, <2>2, AppendProperties
    <2>4. pendingModels'[Len(pendingModels) + 1] = attempts + 1
      BY <1>0, <2>1, <2>2, AppendProperties
    <2>5. \A i \in 1..Len(pendingModels) : pendingModels'[i] = pendingModels[i]
      BY <1>0, <2>1, <2>2, AppendProperties
    <2>6. pendingModels' # <<>>
      BY <1>0, <2>3, EmptySeq
    <2>7. NewestId' = attempts'
      BY <2>1, <2>3, <2>4, <2>6 DEF NewestId
    <2>8. evidence' = 1..attempts' /\ attempts' \in 1..attempts' /\ 1..attempts \subseteq 1..attempts'
      BY <1>0, <2>1
    <2>9. ASSUME NEW i \in 1..Len(pendingModels') PROVE pendingModels'[i] \in 1..attempts'
      <3>1. i = Len(pendingModels) + 1 \/ i \in 1..Len(pendingModels)
        BY <1>0, <2>3
      <3>. QED BY <2>1, <2>4, <2>5, <2>8, <3>1 DEF IdInv
    <2>10. ledger.kind # "model_delta"
      BY <2>1 DEF IdInv, Settled
    <2>. QED BY <1>0, <2>1, <2>6, <2>7, <2>8, <2>9, <2>10 DEF IdInv
  <1>4. CASE Delta
    <2>1. /\ at = "generating" /\ at' = at /\ ledger' = Entry("model_delta", attempts)
          /\ UNCHANGED <<attempts, modelCount, pendingModels, lastModelId, evidence>>
      BY <1>0, <1>4 DEF Delta
    <2>. QED BY <1>0, <2>1 DEF IdInv, NewestId, Entry
  <1>5. CASE Complete
    <2>1. /\ pendingModels # <<>> /\ at' = "model_completed" /\ attempts' = attempts
          /\ modelCount' = modelCount /\ evidence' = evidence
          /\ pendingModels' = Tail(pendingModels) /\ lastModelId' = Head(pendingModels)
          /\ ledger' = Entry("model_completed", Head(pendingModels))
      BY <1>5 DEF Complete, ObserveCompleted, IdInv
    <2>2. /\ Head(pendingModels) = pendingModels[1] /\ 1 \in 1..Len(pendingModels)
          /\ Tail(pendingModels) # <<>> =>
               Tail(pendingModels)[Len(Tail(pendingModels))] = pendingModels[Len(pendingModels)]
          /\ Tail(pendingModels) = <<>> => Head(pendingModels) = pendingModels[Len(pendingModels)]
          /\ \A i \in 1..Len(Tail(pendingModels)) :
               i + 1 \in 1..Len(pendingModels) /\ Tail(pendingModels)[i] = pendingModels[i + 1]
      BY <1>0, <2>1, OldestTaken
    <2>3. pendingModels[Len(pendingModels)] = attempts
      BY <1>0, <2>1 DEF NewestId
    <2>4. NewestId' = attempts'
      BY <2>1, <2>2, <2>3 DEF NewestId
    <2>5. \A i \in 1..Len(pendingModels') : pendingModels'[i] \in 1..attempts'
      BY <2>1, <2>2 DEF IdInv
    <2>6. ledger'.kind = "model_completed" /\ ledger'.id \in evidence'
      BY <1>0, <2>1, <2>2 DEF IdInv, Entry
    <2>. QED BY <1>0, <2>1, <2>4, <2>5, <2>6 DEF IdInv
  <1>6. CASE TakesRound
    BY <1>0, <1>6 DEF TakesRound, recorder, IdInv, NewestId, Settled
  <1>7. ASSUME NEW ok \in BOOLEAN, ToolAnswers(ok) PROVE IdInv'
    BY <1>0, <1>7 DEF ToolAnswers, recorder, IdInv, NewestId, Settled
  <1>8. CASE RoundOver
    <2>1. CASE at' = "attempt" /\ UNCHANGED recorder
      BY <1>0, <1>8, <2>1 DEF RoundOver, recorder, IdInv, NewestId, Settled
    <2>2. CASE at' = "model_retry" /\ ObserveRetry
      <3>1. /\ ledger' = Entry("model_retry", attempts) /\ attempts' = attempts
            /\ UNCHANGED <<modelCount, pendingModels, lastModelId, evidence>>
        BY <1>0, <1>8, <2>2 DEF RoundOver, ObserveRetry, RetryId
      <3>2. attempts \in 1..attempts
        <4>1. toolRounds >= 1 /\ attempts = retryCount + toolRounds
          BY <1>8 DEF RoundOver, BudgetInv
        <4>. QED BY <1>0, <4>1 DEF TypeInv
      <3>3. NewestId' = attempts'
        BY <1>0, <3>1 DEF NewestId
      <3>. QED BY <1>0, <2>2, <3>1, <3>2, <3>3 DEF IdInv, Entry
    <2>. QED BY <1>8, <2>1, <2>2 DEF RoundOver
  <1>9. CASE RetryAnnounced
    BY <1>0, <1>9 DEF RetryAnnounced, recorder, IdInv, NewestId, Settled
  <1>10. CASE UNCHANGED vars
    BY <1>10 DEF vars, recorder, IdInv, NewestId
  <1>. QED BY <1>1, <1>2, <1>3, <1>4, <1>5, <1>6, <1>7, <1>8, <1>9, <1>10, StepKinds

\* A retry and a delta are in the ledger under the id of their own attempt, also
\* when attempts that failed before them left their ids pending.
THEOREM EventIdsCorrect == Spec => []EventsNameTheirAttempt
  <1>1. IdInv => EventsNameTheirAttempt
    BY DEF IdInv, EventsNameTheirAttempt
  <1>. QED BY <1>1, TypeInit, TypeNext, BudgetInit, BudgetNext, IdInit, IdNext, PTL DEF Spec

\* Every id the ledger gives a completion or a retry has its request in the vault.
THEOREM EvidenceCorrect == Spec => []LedgerHasEvidence
  <1>1. IdInv => LedgerHasEvidence
    BY DEF IdInv, LedgerHasEvidence
  <1>. QED BY <1>1, TypeInit, TypeNext, BudgetInit, BudgetNext, IdInit, IdNext, PTL DEF Spec

-----------------------------------------------------------------------------
(* The conversation *)

\* The place after the last tool result a message calls for.
Due(s, k) == k + CallCount(s[k])

\* Only the message that began the present round may wait for results, and then
\* for as many as there are calls left; a stage that failed in a round stays so.
ConvInv ==
  /\ \A k \in 1..Len(messages) : messages[k] = "tool" =>
       \/ k - 1 \in 1..Len(messages) /\ CallCount(messages[k - 1]) >= 1
       \/ k - 2 \in 1..Len(messages) /\ CallCount(messages[k - 2]) = 2
  /\ \A k \in 1..Len(messages) : \A d \in 1..CallCount(messages[k]) :
       k + d <= Len(messages) => messages[k + d] = "tool"
  /\ \A k \in 1..Len(messages) : Due(messages, k) > Len(messages) =>
       at \in {"tool", "failed"} /\ protocol = "native" /\ Due(messages, k) = Len(messages) + callsLeft
  /\ at = "tool" /\ protocol = "native" =>
       \E k \in 1..Len(messages) : CallCount(messages[k]) # 0 /\ Due(messages, k) = Len(messages) + callsLeft
  /\ Cardinality(Places("correction")) = retryCount

LEMMA CallCounts ==
  /\ \A m : CallCount(m) \in 0..2
  /\ CallCount("call") = 1 /\ CallCount("two_calls") = 2
  /\ \A m : m \notin {"call", "two_calls"} => CallCount(m) = 0
  BY DEF CallCount

LEMMA ConvInit == Init => ConvInv
  <1>. SUFFICES ASSUME Init PROVE ConvInv
    OBVIOUS
  <1>1. messages = <<"system", "user">> /\ Len(messages) = 2 /\ DOMAIN messages = {1, 2}
    BY DEF Init
  <1>2. \A k \in 1..Len(messages) : messages[k] \in {"system", "user"} /\ CallCount(messages[k]) = 0
    BY <1>1, CallCounts
  <1>3. Places("correction") = {}
    BY <1>1 DEF Places
  <1>4. Cardinality(Places("correction")) = retryCount
    BY <1>3, FS_EmptySet DEF Init
  <1>5. at # "tool"
    BY DEF Init
  <1>6. \A k \in 1..Len(messages) : ~(Due(messages, k) > Len(messages)) /\ 1..CallCount(messages[k]) = {}
    BY <1>1, <1>2 DEF Due
  <1>. QED BY <1>2, <1>4, <1>5, <1>6 DEF ConvInv

\* A message that is added leaves the others in their places.
LEMMA MessageAdded ==
  ASSUME TypeInv, NEW m \in Kinds, messages' = Append(messages, m)
  PROVE  /\ Len(messages) \in Nat /\ Len(messages') = Len(messages) + 1
         /\ \A k \in 1..Len(messages) : messages'[k] = messages[k] /\ Due(messages', k) = Due(messages, k)
         /\ messages'[Len(messages) + 1] = m
         /\ \A k \in 1..Len(messages') : k = Len(messages) + 1 \/ k \in 1..Len(messages)
         /\ Cardinality(Places("correction")) \in Nat
         /\ Cardinality(Places("correction"))' =
              Cardinality(Places("correction")) + (IF m = "correction" THEN 1 ELSE 0)
  <1>1. messages \in Seq(Kinds) /\ Len(messages) \in Nat /\ DOMAIN messages = 1..Len(messages)
    BY LenProperties DEF TypeInv
  <1>2. Len(messages') = Len(messages) + 1
    BY <1>1, AppendProperties
  <1>3. \A k \in 1..Len(messages) : messages'[k] = messages[k]
    BY <1>1, AppendProperties
  <1>4. messages'[Len(messages) + 1] = m
    BY <1>1, AppendProperties
  <1>5. \A k \in 1..Len(messages') : k = Len(messages) + 1 \/ k \in 1..Len(messages)
    BY <1>1, <1>2
  <1>6. DOMAIN messages' = 1..(Len(messages) + 1)
    <2>1. messages' \in Seq(Kinds)
      BY <1>1, AppendProperties
    <2>. QED BY <1>2, <2>1, LenProperties
  <1>7. IsFiniteSet(Places("correction")) /\ Len(messages) + 1 \notin Places("correction")
    <2>1. IsFiniteSet(1..Len(messages))
      BY <1>1, FS_Interval
    <2>2. Places("correction") \subseteq 1..Len(messages) /\ Len(messages) + 1 \notin 1..Len(messages)
      BY <1>1 DEF Places
    <2>. QED BY <2>1, <2>2, FS_Subset
  <1>8. Places("correction")' =
          IF m = "correction" THEN Places("correction") \cup {Len(messages) + 1} ELSE Places("correction")
    <2>1. 1..(Len(messages) + 1) = 1..Len(messages) \cup {Len(messages) + 1}
      BY <1>1
    <2>. QED BY <1>1, <1>3, <1>4, <1>6, <2>1 DEF Places
  <1>9. Cardinality(Places("correction")) \in Nat
    BY <1>7, FS_CardinalityType
  <1>10. Cardinality(Places("correction"))' =
           Cardinality(Places("correction")) + (IF m = "correction" THEN 1 ELSE 0)
    BY <1>7, <1>8, <1>9, FS_AddElement
  <1>11. \A k \in 1..Len(messages) : Due(messages', k) = Due(messages, k)
    BY <1>3 DEF Due, CallCount
  <1>. QED BY <1>1, <1>2, <1>3, <1>4, <1>5, <1>9, <1>10, <1>11

\* Between rounds nothing is owed, and any message but a tool result may follow.
LEMMA ConvExtended ==
  ASSUME TypeInv, ConvInv, NEW m \in Kinds \ {"tool"}, messages' = Append(messages, m),
         at \notin {"tool", "failed"} \/ protocol # "native", protocol' = protocol,
         retryCount' = retryCount + (IF m = "correction" THEN 1 ELSE 0),
         m \in {"call", "two_calls"} =>
           at' = "tool" /\ protocol = "native" /\ callsLeft' = CallCount(m),
         at' = "tool" /\ protocol = "native" => m \in {"call", "two_calls"}
  PROVE  ConvInv'
  <1>. DEFINE n == Len(messages)
  <1>0. /\ n \in Nat /\ Len(messages') = n + 1
        /\ \A k \in 1..n : messages'[k] = messages[k] /\ Due(messages', k) = Due(messages, k)
        /\ messages'[n + 1] = m
        /\ \A k \in 1..Len(messages') : k = n + 1 \/ k \in 1..n
    BY MessageAdded
  <1>1. \A k \in 1..n : Due(messages, k) <= n /\ CallCount(messages[k]) \in 0..2
    BY <1>0, CallCounts DEF ConvInv, Due
  <1>2. ASSUME NEW k \in 1..Len(messages'), messages'[k] = "tool"
        PROVE  \/ k - 1 \in 1..Len(messages') /\ CallCount(messages'[k - 1]) >= 1
               \/ k - 2 \in 1..Len(messages') /\ CallCount(messages'[k - 2]) = 2
    <2>1. k \in 1..n /\ messages[k] = "tool"
      BY <1>0, <1>2
    <2>2. \A j \in 1..n : j \in 1..Len(messages')
      BY <1>0
    <2>. QED BY <1>0, <2>1, <2>2 DEF ConvInv
  <1>3. ASSUME NEW k \in 1..Len(messages'), NEW d \in 1..CallCount(messages'[k]), k + d <= Len(messages')
        PROVE  messages'[k + d] = "tool"
    <2>1. CASE k = n + 1
      <3>1. d \in Nat \ {0}
        BY CallCounts
      <3>. QED BY <1>0, <1>3, <2>1, <3>1
    <2>2. CASE k \in 1..n
      <3>1. d \in 1..CallCount(messages[k])
        BY <1>0, <2>2
      <3>2. k + d <= n /\ k + d \in 1..n
        BY <1>0, <1>1, <2>2, <3>1 DEF Due
      <3>. QED BY <1>0, <2>2, <3>1, <3>2 DEF ConvInv
    <2>. QED BY <1>0, <2>1, <2>2
  <1>4. Due(messages', n + 1) = n + 1 + CallCount(m)
    BY <1>0 DEF Due, CallCount
  <1>5. ASSUME NEW k \in 1..Len(messages'), Due(messages', k) > Len(messages')
        PROVE  /\ at' \in {"tool", "failed"} /\ protocol' = "native"
               /\ Due(messages', k) = Len(messages') + callsLeft'
    <2>1. CASE k \in 1..n
      <3>1. Due(messages', k) <= n /\ Due(messages', k) \in Nat
        BY <1>0, <1>1, <2>1 DEF Due
      <3>. QED BY <1>0, <1>5, <3>1
    <2>2. CASE k = n + 1
      <3>1. CallCount(m) # 0
        BY <1>0, <1>4, <1>5, <2>2
      <3>2. m \in {"call", "two_calls"}
        BY <3>1, CallCounts
      <3>. QED BY <1>0, <1>4, <2>2, <3>2
    <2>. QED BY <1>0, <2>1, <2>2
  <1>6. ASSUME at' = "tool", protocol' = "native"
        PROVE  \E k \in 1..Len(messages') : CallCount(messages'[k]) # 0 /\ Due(messages', k) = Len(messages') + callsLeft'
    <2>1. m \in {"call", "two_calls"} /\ callsLeft' = CallCount(m) /\ CallCount(m) # 0
      BY <1>6, CallCounts
    <2>2. n + 1 \in 1..Len(messages')
      BY <1>0
    <2>3. CallCount(messages'[n + 1]) # 0 /\ Due(messages', n + 1) = Len(messages') + callsLeft'
      BY <1>0, <1>4, <2>1
    <2>. QED BY <2>2, <2>3
  <1>7. Cardinality(Places("correction"))' = retryCount'
    BY MessageAdded DEF ConvInv
  <1>. QED BY <1>2, <1>3, <1>5, <1>6, <1>7 DEF ConvInv, Due

\* A step that leaves the conversation alone, and a round only when it is over.
LEMMA ConvKept ==
  ASSUME TypeInv, ConvInv, UNCHANGED <<messages, retryCount, protocol, callsLeft>>,
         at' = "tool" => at = "tool",
         at' \in {"tool", "failed"} \/ at \notin {"tool", "failed"} \/ callsLeft = 0
  PROVE  ConvInv'
  <1>1. Len(messages) \in Nat /\ callsLeft \in Nat
    BY LenProperties DEF TypeInv
  <1>2. ASSUME NEW k \in 1..Len(messages), Due(messages, k) > Len(messages)
        PROVE  at' \in {"tool", "failed"}
    <2>1. at \in {"tool", "failed"} /\ Due(messages, k) = Len(messages) + callsLeft
      BY <1>2 DEF ConvInv
    <2>2. callsLeft # 0
      BY <1>1, <1>2, <2>1
    <2>. QED BY <2>1, <2>2
  <1>3. Places("correction")' = Places("correction")
    BY DEF Places
  <1>. QED BY <1>2, <1>3 DEF ConvInv, Due

\* A tool call of a native round is answered.
LEMMA ConvAnswered ==
  ASSUME TypeInv, ConvInv, at = "tool", at' = "tool", protocol = "native", protocol' = protocol,
         callsLeft > 0, callsLeft' = callsLeft - 1, retryCount' = retryCount,
         messages' = Append(messages, "tool")
  PROVE  ConvInv'
  <1>. DEFINE n == Len(messages)
  <1>0. /\ n \in Nat /\ Len(messages') = n + 1 /\ callsLeft \in Nat
        /\ \A k \in 1..n : messages'[k] = messages[k] /\ Due(messages', k) = Due(messages, k)
        /\ messages'[n + 1] = "tool"
        /\ \A k \in 1..Len(messages') : k = n + 1 \/ k \in 1..n
    <2>1. "tool" \in Kinds
      BY DEF Kinds
    <2>. QED BY <2>1, MessageAdded DEF Due, TypeInv
  <1>1. PICK k0 \in 1..n : CallCount(messages[k0]) # 0 /\ Due(messages, k0) = n + callsLeft
    BY DEF ConvInv
  <1>2. CallCount(messages[k0]) \in {1, 2}
    BY <1>1, CallCounts
  <1>3. \A j, c, l \in Nat : j <= n /\ c \in {1, 2} /\ l > 0 /\ j + c = n + l =>
          j = n \/ (j = n - 1 /\ c = 2)
    BY <1>0
  <1>4. k0 = n \/ (k0 = n - 1 /\ CallCount(messages[k0]) = 2)
    BY <1>0, <1>1, <1>2, <1>3 DEF Due
  <1>5. ASSUME NEW k \in 1..Len(messages'), messages'[k] = "tool"
        PROVE  \/ k - 1 \in 1..Len(messages') /\ CallCount(messages'[k - 1]) >= 1
               \/ k - 2 \in 1..Len(messages') /\ CallCount(messages'[k - 2]) = 2
    <2>1. \A j \in 1..n : j \in 1..Len(messages') /\ messages'[j] = messages[j]
      BY <1>0
    <2>2. CASE k \in 1..n
      BY <1>5, <2>1, <2>2 DEF ConvInv
    <2>3. CASE k = n + 1
      <3>1. CASE k0 = n
        <4>1. k - 1 = k0
          BY <1>0, <2>3, <3>1
        <4>2. CallCount(messages[k0]) >= 1
          BY <1>2
        <4>. QED BY <1>1, <2>1, <4>1, <4>2
      <3>2. CASE k0 = n - 1 /\ CallCount(messages[k0]) = 2
        <4>1. k - 2 = k0
          BY <1>0, <2>3, <3>2
        <4>. QED BY <1>1, <2>1, <3>2, <4>1
      <3>. QED BY <1>4, <3>1, <3>2
    <2>. QED BY <1>0, <2>2, <2>3
  <1>6. ASSUME NEW k \in 1..Len(messages'), NEW d \in 1..CallCount(messages'[k]), k + d <= Len(messages')
        PROVE  messages'[k + d] = "tool"
    <2>1. CASE k = n + 1
      <3>1. CallCount(messages'[k]) = 0
        BY <1>0, <2>1, CallCounts
      <3>. QED BY <3>1
    <2>2. CASE k \in 1..n
      <3>1. d \in 1..CallCount(messages[k]) /\ CallCount(messages[k]) \in 0..2
        BY <1>0, <2>2, CallCounts
      <3>2. CASE k + d <= n
        <4>1. k + d \in 1..n
          BY <1>0, <2>2, <3>1, <3>2
        <4>. QED BY <1>0, <2>2, <3>1, <3>2, <4>1 DEF ConvInv
      <3>3. CASE k + d = n + 1
        BY <1>0, <3>3
      <3>. QED BY <1>0, <1>6, <2>2, <3>1, <3>2, <3>3
    <2>. QED BY <1>0, <2>1, <2>2
  <1>7. ASSUME NEW k \in 1..Len(messages'), Due(messages', k) > Len(messages')
        PROVE  Due(messages', k) = Len(messages') + callsLeft'
    <2>1. CASE k = n + 1
      <3>1. Due(messages', k) = n + 1
        BY <1>0, <2>1, CallCounts DEF Due
      <3>. QED BY <1>0, <1>7, <3>1
    <2>2. CASE k \in 1..n
      <3>1. Due(messages', k) = Due(messages, k) /\ Due(messages, k) \in Nat
        BY <1>0, <2>2, CallCounts DEF Due
      <3>2. Due(messages, k) > n
        BY <1>0, <1>7, <3>1
      <3>3. Due(messages, k) = n + callsLeft
        BY <2>2, <3>2 DEF ConvInv
      <3>. QED BY <1>0, <3>1, <3>3
    <2>. QED BY <1>0, <2>1, <2>2
  <1>8. \E k \in 1..Len(messages') :
          CallCount(messages'[k]) # 0 /\ Due(messages', k) = Len(messages') + callsLeft'
    <2>1. k0 \in 1..Len(messages') /\ messages'[k0] = messages[k0] /\ Due(messages', k0) = Due(messages, k0)
      BY <1>0, <1>1
    <2>2. n + callsLeft = Len(messages') + callsLeft'
      BY <1>0
    <2>. QED BY <1>1, <2>1, <2>2
  <1>9. Cardinality(Places("correction"))' = retryCount'
    <2>1. "tool" \in Kinds
      BY DEF Kinds
    <2>2. Cardinality(Places("correction"))' = Cardinality(Places("correction")) + 0
          /\ Cardinality(Places("correction")) \in Nat
      BY <2>1, MessageAdded
    <2>. QED BY <2>2 DEF ConvInv
  <1>. QED BY <1>5, <1>6, <1>7, <1>8, <1>9 DEF ConvInv

LEMMA ConvNext == TypeInv /\ ConvInv /\ [Next]_vars => ConvInv'
  <1>. SUFFICES ASSUME TypeInv, ConvInv, [Next]_vars PROVE ConvInv'
    OBVIOUS
  <1>0. retryCount \in Nat /\ protocol \in {"native", "tagged"}
    BY DEF TypeInv
  <1>1. CASE Ends \/ Validates
    BY <1>1, ConvKept DEF Ends, Validates, unmoved, Settled
  <1>2. CASE Corrects
    <2>1. "correction" \in Kinds \ {"tool"}
      BY DEF Kinds
    <2>. QED BY <1>2, <2>1, ConvExtended DEF Corrects, unmoved
  <1>3. CASE Ask \/ Delta \/ Complete \/ RetryAnnounced
    BY <1>3, ConvKept DEF Ask, Delta, Complete, RetryAnnounced
  <1>4. CASE TakesRound
    <2>1. CASE protocol = "native"
      <3>1. answer \in Kinds \ {"tool"} /\ answer \in {"call", "two_calls"}
        BY <1>4, <2>1 DEF TakesRound, Kinds
      <3>. QED BY <1>0, <1>4, <2>1, <3>1, ConvExtended DEF TakesRound
    <2>2. CASE protocol = "tagged"
      <3>1. "assistant" \in Kinds \ {"tool"}
        BY DEF Kinds
      <3>. QED BY <1>0, <1>4, <2>2, <3>1, ConvExtended DEF TakesRound
    <2>. QED BY <1>0, <2>1, <2>2
  <1>5. ASSUME NEW ok \in BOOLEAN, ToolAnswers(ok) PROVE ConvInv'
    <2>1. CASE protocol = "native"
      BY <1>5, <2>1, ConvAnswered DEF ToolAnswers
    <2>2. CASE protocol = "tagged"
      <3>1. "feedback" \in Kinds \ {"tool"}
        BY DEF Kinds
      <3>. QED BY <1>0, <1>5, <2>2, <3>1, ConvExtended DEF ToolAnswers
    <2>. QED BY <1>0, <2>1, <2>2
  <1>6. CASE RoundOver
    BY <1>6, ConvKept DEF RoundOver
  <1>7. CASE UNCHANGED vars
    BY <1>7, ConvKept DEF vars
  <1>. QED BY <1>1, <1>2, <1>3, <1>4, <1>5, <1>6, <1>7, StepKinds

\* Every request that is sent holds, after each message with tool calls, as many
\* tool results, and a correction for every retry.
THEOREM ConversationCorrect == Spec => []ConversationWellFormed
  <1>1. ASSUME TypeInv, ConvInv PROVE ConversationWellFormed
    <2>. SUFFICES ASSUME at = "generating"
         PROVE /\ \A k \in Places("tool") : CallCount(messages[k - 1]) >= 1 \/ CallCount(messages[k - 2]) = 2
               /\ \A k \in DOMAIN messages : \A d \in 1..CallCount(messages[k]) :
                    k + d \in DOMAIN messages /\ messages[k + d] = "tool"
               /\ Cardinality(Places("correction")) = retryCount
      BY DEF ConversationWellFormed
    <2>1. DOMAIN messages = 1..Len(messages) /\ Len(messages) \in Nat
      BY <1>1, LenProperties DEF TypeInv
    <2>2. \A k \in Places("tool") : CallCount(messages[k - 1]) >= 1 \/ CallCount(messages[k - 2]) = 2
      BY <1>1, <2>1 DEF Places, ConvInv
    <2>3. ASSUME NEW k \in DOMAIN messages, NEW d \in 1..CallCount(messages[k])
          PROVE  k + d \in DOMAIN messages /\ messages[k + d] = "tool"
      <3>1. CallCount(messages[k]) \in 0..2 /\ Due(messages, k) <= Len(messages)
        BY <1>1, <2>1, CallCounts DEF ConvInv, Due
      <3>2. k + d \in 1..Len(messages)
        BY <2>1, <3>1 DEF Due
      <3>. QED BY <1>1, <2>1, <3>2 DEF ConvInv
    <2>. QED BY <1>1, <2>2, <2>3 DEF ConvInv
  <1>. QED BY <1>1, TypeInit, TypeNext, ConvInit, ConvNext, PTL DEF Spec

=============================================================================

-------------------------- MODULE SandboxRunProofs --------------------------
(***************************************************************************)
(* Proofs about one call of OpaqueOriginJsSandbox.run, for runs of any     *)
(* length.  A pending call is in one of six phases of the exchange with    *)
(* the frame, told apart by which message is under way; a call that is not *)
(* pending holds nothing of the page.                                      *)
(***************************************************************************)
EXTENDS SandboxRun, SequenceTheorems, TLAPS

\* The exchange of a pending call: the frame loads; init is on its way; ready is;
\* run is; the worker runs; its answer is on its way.
Silent == worker = "none" /\ posts = <<>> /\ ~answered

Loading == frame = "loading" /\ toFrame = <<>> /\ toHost = <<>> /\ ~bound /\ Silent

Initializing == frame = "loaded" /\ toFrame = <<"init">> /\ toHost = <<>> /\ ~bound /\ Silent

Ready == frame = "loaded" /\ toFrame = <<>> /\ toHost = <<"ready">> /\ bound /\ Silent

Running == frame = "loaded" /\ toFrame = <<"run">> /\ toHost = <<>> /\ bound /\ Silent

Working ==
  /\ frame = "loaded" /\ toFrame = <<>> /\ toHost = <<>> /\ bound
  /\ worker = "running" /\ ~answered

Answering ==
  /\ frame = "loaded" /\ toFrame = <<>> /\ bound
  /\ worker \in {"none", "terminated"} /\ answered
  /\ \E m \in Returned : toHost = <<m>>

Exchange == Loading \/ Initializing \/ Ready \/ Running \/ Working \/ Answering

\* What the frame and the host have of each other and of the page.
NothingHeld ==
  /\ frame \notin {"loading", "loaded"} /\ ~port /\ ~timer /\ ~listening
  /\ worker # "running" /\ toFrame = <<>> /\ toHost = <<>> /\ posts = <<>>

TypeInv ==
  /\ port \in BOOLEAN /\ timer \in BOOLEAN /\ listening \in BOOLEAN
  /\ bound \in BOOLEAN /\ answered \in BOOLEAN /\ aborted \in BOOLEAN
  /\ posts \in Seq(Returned)

CallInv ==
  \/ call = "idle" /\ NothingHeld /\ Silent /\ ~bound /\ outcome = "none" /\ frame = "none"
  \/ call = "pending" /\ Exchange /\ port /\ timer /\ listening /\ ~aborted /\ outcome = "none"
  \/ call = "settled" /\ NothingHeld

SandboxInv == TypeInv /\ CallInv

-----------------------------------------------------------------------------
LEMMA SandboxInit == Init => SandboxInv
  BY EmptySeq DEF Init, SandboxInv, TypeInv, CallInv, NothingHeld, Silent

\* A call that settles gives back everything it holds.
LEMMA CleanedUp ==
  ASSUME SandboxInv, call = "pending", NEW o, Settle(o)
  PROVE  /\ call' = "settled" /\ outcome' = o /\ NothingHeld'
         /\ timer' = FALSE /\ listening' = FALSE /\ port' = FALSE /\ posts' = <<>>
         /\ bound' = bound /\ answered' = answered
  <1>1. call # "settled"
    OBVIOUS
  <1>2. call' = "settled" /\ outcome' = o /\ Cleanup
    BY <1>1 DEF Settle
  <1>3. worker' # "running"
    BY <1>2 DEF Cleanup
  <1>4. frame' = "removed" /\ timer' = FALSE /\ listening' = FALSE /\ port' = FALSE
        /\ toHost' = <<>> /\ toFrame' = <<>> /\ posts' = <<>> /\ UNCHANGED <<bound, answered>>
    BY <1>2 DEF Cleanup
  <1>. QED BY <1>2, <1>3, <1>4 DEF NothingHeld

\* So after any step that settles a pending call the invariant holds again.
LEMMA SettledInv ==
  ASSUME SandboxInv, call = "pending", NEW o, Settle(o), aborted' \in BOOLEAN
  PROVE  SandboxInv'
  <1>1. TypeInv'
    <2>1. posts' \in Seq(Returned)
      BY CleanedUp, EmptySeq
    <2>2. timer' \in BOOLEAN /\ listening' \in BOOLEAN /\ port' \in BOOLEAN
      BY CleanedUp
    <2>3. bound' \in BOOLEAN /\ answered' \in BOOLEAN
      BY CleanedUp DEF TypeInv, SandboxInv
    <2>. QED BY <2>1, <2>2, <2>3 DEF TypeInv
  <1>2. CallInv'
    BY CleanedUp DEF CallInv
  <1>. QED BY <1>1, <1>2 DEF SandboxInv

LEMMA SandboxNext == SandboxInv /\ [Next]_vars => SandboxInv'
  <1>. SUFFICES ASSUME SandboxInv, [Next]_vars PROVE SandboxInv'
    OBVIOUS
  <1>0. /\ call # "pending" => NothingHeld
        /\ call = "pending" => Exchange /\ port /\ timer /\ listening /\ ~aborted /\ outcome = "none"
    BY DEF SandboxInv, CallInv
  <1>1. ASSUME NEW valid \in BOOLEAN, NEW page \in BOOLEAN, Run(valid, page) PROVE SandboxInv'
    <2>1. call = "idle" /\ NothingHeld /\ Silent /\ ~bound /\ outcome = "none" /\ frame = "none"
      BY <1>1 DEF Run, SandboxInv, CallInv
    <2>2. TypeInv'
      BY <1>1 DEF Run, Refuse, frameVars, SandboxInv, TypeInv
    <2>3. CallInv'
      BY <1>1, <2>1 DEF Run, Refuse, frameVars, CallInv, NothingHeld, Exchange, Loading, Silent
    <2>. QED BY <2>2, <2>3 DEF SandboxInv
  <1>2. ASSUME NEW m \in Messages, HostHears(m) PROVE SandboxInv'
    <2>1. call = "pending" /\ aborted' \in BOOLEAN
      BY <1>0, <1>2 DEF HostHears, NothingHeld, SandboxInv, TypeInv
    <2>2. CASE m = "ready"
      <3>1. Ready
        BY <1>0, <1>2, <2>1, <2>2
           DEF HostHears, Exchange, Loading, Initializing, Ready, Running, Working, Answering, Returned
      <3>2. toHost' = <<>> /\ toFrame' = <<"run">>
        BY <1>2, <2>2, <3>1 DEF HostHears, Ready
      <3>3. Running'
        BY <1>2, <2>2, <3>1, <3>2 DEF HostHears, Ready, Running, Silent, hostVars, frameVars
      <3>. QED BY <1>0, <1>2, <2>1, <2>2, <3>3
               DEF HostHears, hostVars, frameVars, SandboxInv, TypeInv, CallInv, Exchange
    <2>3. CASE m # "ready"
      BY <1>2, <2>1, <2>3, SettledInv DEF HostHears
    <2>. QED BY <2>2, <2>3
  <1>3. CASE Loads
    <2>1. call = "pending" /\ aborted' \in BOOLEAN
      BY <1>0, <1>3 DEF Loads, NothingHeld, SandboxInv, TypeInv
    <2>2. CASE Settle("frame_error")
      BY <2>1, <2>2, SettledInv
    <2>3. CASE /\ frame' = "loaded" /\ toFrame' = Append(toFrame, "init")
               /\ UNCHANGED <<call, outcome, port, timer, listening, frameVars, toHost>>
      <3>1. Loading
        BY <1>0, <1>3, <2>1
           DEF Loads, Exchange, Loading, Initializing, Ready, Running, Working, Answering
      <3>2. Initializing'
        BY <2>3, <3>1 DEF Loading, Initializing, Silent, frameVars
      <3>. QED BY <1>0, <1>3, <2>1, <2>3, <3>2 DEF Loads, frameVars, SandboxInv, TypeInv, CallInv, Exchange
    <2>. QED BY <1>3, <2>2, <2>3 DEF Loads
  <1>4. CASE FrameErrors \/ TimesOut
    <2>1. call = "pending" /\ aborted' \in BOOLEAN
      BY <1>0, <1>4 DEF FrameErrors, TimesOut, NothingHeld, SandboxInv, TypeInv
    <2>. QED BY <1>4, <2>1, SettledInv DEF FrameErrors, TimesOut
  <1>5. CASE Abort
    <2>1. aborted' \in BOOLEAN
      BY <1>5 DEF Abort
    <2>2. CASE call = "pending"
      BY <1>0, <1>5, <2>1, <2>2, SettledInv DEF Abort
    <2>3. CASE call # "pending"
      BY <1>0, <1>5, <2>3 DEF Abort, NothingHeld, Silent, hostVars, frameVars, SandboxInv, TypeInv, CallInv
    <2>. QED BY <2>2, <2>3
  <1>6. CASE FrameHears
    <2>1. call = "pending"
      BY <1>0, <1>6 DEF FrameHears, NothingHeld
    <2>2. Initializing \/ Running
      BY <1>0, <1>6, <2>1
         DEF FrameHears, Exchange, Loading, Initializing, Ready, Running, Working, Answering
    <2>3. /\ UNCHANGED <<call, outcome, frame, port, timer, listening, posts, aborted>>
          /\ toFrame' = <<>>
      BY <1>6, <2>2 DEF FrameHears, hostVars, Initializing, Running
    <2>4. CASE Initializing
      <3>1. bound' = TRUE /\ toHost' = <<"ready">> /\ UNCHANGED <<worker, answered>>
        BY <1>6, <2>4 DEF FrameHears, Initializing
      <3>2. Ready'
        BY <2>3, <2>4, <3>1 DEF Ready, Initializing, Silent
      <3>. QED BY <1>0, <2>1, <2>3, <3>1, <3>2 DEF SandboxInv, TypeInv, CallInv, Exchange
    <2>5. CASE Running
      <3>1. /\ UNCHANGED bound
            /\ \/ worker' = "running" /\ UNCHANGED <<answered, toHost>>
               \/ Finish("error")
        BY <1>6, <2>5 DEF FrameHears, Running
      <3>2. CASE worker' = "running" /\ UNCHANGED <<answered, toHost>>
        <4>1. Working'
          BY <2>3, <2>5, <3>1, <3>2 DEF Running, Working, Silent
        <4>. QED BY <1>0, <2>1, <2>3, <3>1, <3>2, <4>1 DEF SandboxInv, TypeInv, CallInv, Exchange
      <3>3. CASE Finish("error")
        <4>1. answered' = TRUE /\ worker' = "none" /\ toHost' = <<"error">>
          BY <2>5, <3>3 DEF Finish, Running, Silent
        <4>2. Answering'
          BY <2>3, <2>5, <3>1, <4>1 DEF Running, Answering, Returned
        <4>. QED BY <1>0, <2>1, <2>3, <3>1, <4>1, <4>2 DEF SandboxInv, TypeInv, CallInv, Exchange
      <3>. QED BY <3>1, <3>2, <3>3
    <2>. QED BY <2>2, <2>4, <2>5
  <1>7. CASE FrameHearsWorker
    <2>1. call = "pending"
      BY <1>0, <1>7 DEF FrameHearsWorker, NothingHeld
    <2>2. Working \/ Answering
      BY <1>0, <1>7, <2>1
         DEF FrameHearsWorker, Exchange, Loading, Initializing, Ready, Running, Silent
    <2>3. /\ posts' \in Seq(Returned) /\ Head(posts) \in Returned
          /\ UNCHANGED <<call, outcome, frame, port, timer, listening, toFrame, bound, aborted>>
      BY <1>7, HeadTailProperties DEF FrameHearsWorker, hostVars, SandboxInv, TypeInv
    <2>4. CASE Working
      <3>1. answered' = TRUE /\ worker' = "terminated" /\ toHost' = <<Head(posts)>>
        BY <1>7, <2>4 DEF FrameHearsWorker, Finish, Working
      <3>2. Answering'
        BY <2>3, <2>4, <3>1 DEF Working, Answering
      <3>. QED BY <1>0, <2>1, <2>3, <3>1, <3>2 DEF SandboxInv, TypeInv, CallInv, Exchange
    <2>5. CASE Answering
      <3>1. UNCHANGED <<worker, answered, toHost>>
        BY <1>7, <2>5 DEF FrameHearsWorker, Finish, Answering
      <3>2. Answering'
        BY <2>3, <2>5, <3>1 DEF Answering
      <3>. QED BY <1>0, <2>1, <2>3, <3>1, <3>2 DEF SandboxInv, TypeInv, CallInv, Exchange
    <2>. QED BY <2>2, <2>4, <2>5
  <1>8. ASSUME NEW m \in Returned, WorkerSays(m) PROVE SandboxInv'
    <2>1. call = "pending"
      BY <1>0, <1>8 DEF WorkerSays, NothingHeld
    <2>2. Working
      BY <1>0, <1>8, <2>1
         DEF WorkerSays, Exchange, Loading, Initializing, Ready, Running, Answering, Silent
    <2>3. posts' \in Seq(Returned)
      BY <1>8, AppendProperties DEF WorkerSays, SandboxInv, TypeInv
    <2>4. Working'
      BY <1>8, <2>2 DEF WorkerSays, Working, hostVars
    <2>. QED BY <1>0, <1>8, <2>1, <2>3, <2>4 DEF WorkerSays, hostVars, SandboxInv, TypeInv, CallInv, Exchange
  <1>9. CASE UNCHANGED vars
    BY <1>9 DEF vars, hostVars, frameVars, SandboxInv, TypeInv, CallInv, NothingHeld, Exchange, Loading,
                Initializing, Ready, Running, Working, Answering, Silent
  <1>. QED BY <1>1, <1>2, <1>3, <1>4, <1>5, <1>6, <1>7, <1>8, <1>9 DEF Next, Step, FrameStep

\* Neither before the call nor after it is anything held.
LEMMA AbortSafe == SandboxInv => NothingOutlivesAbort
  BY DEF SandboxInv, CallInv, NothingHeld, NothingOutlivesAbort, Holds

\* The host can only settle on what the frame answered when it has answered.
LEMMA AnswerStep ==
  SandboxInv /\ [Next]_vars =>
    [call' = "settled" /\ call = "pending" /\ toHost # <<>> /\ Head(toHost) # "ready" =>
       /\ Len(toHost) = 1 /\ answered /\ worker # "running"
       /\ outcome' = "result" => toHost = <<"object">>]_vars
  <1>. SUFFICES ASSUME SandboxInv, Next, call' = "settled", call = "pending", toHost # <<>>,
                       Head(toHost) # "ready"
                PROVE  /\ Len(toHost) = 1 /\ answered /\ worker # "running"
                       /\ outcome' = "result" => toHost = <<"object">>
    OBVIOUS
  <1>1. Answering
    BY DEF SandboxInv, CallInv, Exchange, Loading, Initializing, Ready, Running, Working
  <1>2. PICK m \in Returned : toHost = <<m>>
    BY <1>1 DEF Answering
  <1>3. outcome' = "result" => m = "object"
    <2>1. ASSUME NEW o, Settle(o), o # "result" PROVE outcome' # "result"
      BY <2>1 DEF Settle
    <2>2. CASE Loads \/ FrameErrors
      BY <1>1, <2>2 DEF Loads, FrameErrors, Answering
    <2>3. CASE TimesOut
      BY <2>1, <2>3 DEF TimesOut
    <2>4. CASE Abort
      BY <2>1, <2>4 DEF Abort, hostVars
    <2>5. ASSUME NEW n \in Messages, HostHears(n) PROVE outcome' = "result" => m = "object"
      <3>1. n = m
        BY <1>2, <2>5 DEF HostHears
      <3>. QED BY <1>2, <2>1, <2>5, <3>1 DEF HostHears, Returned
    <2>6. CASE FrameStep \/ \E valid, page \in BOOLEAN : Run(valid, page)
      BY <2>6 DEF FrameStep, FrameHears, FrameHearsWorker, WorkerSays, Run, hostVars
    <2>. QED BY <2>2, <2>3, <2>4, <2>5, <2>6 DEF Next, Step
  <1>4. Len(toHost) = 1
    BY <1>2
  <1>. QED BY <1>1, <1>2, <1>3, <1>4 DEF Answering

\* Holding something of the page is being pending, so each step is the promise's.
LEMMA OneShotStep == SandboxInv /\ SandboxInv' /\ [Next]_vars => [Promise!Next]_(Promise!vars)
  <1>. SUFFICES ASSUME SandboxInv, SandboxInv', [Next]_vars, ~UNCHANGED Promise!vars
                PROVE  Promise!Next
    OBVIOUS
  <1>0. /\ call \in {"idle", "settled"} => Holds = FALSE
        /\ call = "pending" => Holds = TRUE
    BY DEF SandboxInv, CallInv, NothingHeld, Holds
  <1>00. /\ call' \in {"idle", "settled"} => Holds' = FALSE
         /\ call' = "pending" => Holds' = TRUE
    BY DEF SandboxInv, CallInv, NothingHeld, Holds
  <1>1. call \in {"idle", "pending", "settled"} /\ (call = "idle" => outcome = "none")
    BY DEF SandboxInv, CallInv
  <1>2. CASE call' = call /\ outcome' = outcome
    <2>1. Holds' = Holds
      <3>1. CASE call = "pending"
        BY <1>0, <1>00, <1>2, <3>1
      <3>2. CASE call \in {"idle", "settled"}
        BY <1>0, <1>00, <1>2, <3>2
      <3>. QED BY <1>1, <3>1, <3>2
    <2>. QED BY <1>2, <2>1 DEF Promise!vars
  <1>3. CASE ~(call' = call /\ outcome' = outcome)
    <2>1. ASSUME NEW o, Settle(o)
          PROVE  call # "settled" /\ call' = "settled" /\ outcome' = o
      BY <1>3, <2>1 DEF Settle, hostVars
    <2>2. ASSUME NEW valid \in BOOLEAN, NEW page \in BOOLEAN, Run(valid, page) PROVE Promise!Start
      <3>1. \/ call' = "settled" /\ outcome' \in Outcomes
            \/ call' = "pending" /\ outcome' = outcome
        BY <2>2 DEF Run, Refuse, Outcomes
      <3>. QED BY <1>00, <2>2, <3>1 DEF Run, Promise!Start
    <2>3. CASE \E o \in Outcomes : Settle(o) /\ call = "pending"
      BY <1>00, <2>1, <2>3 DEF Promise!Settle, Promise!Next
    <2>4. ASSUME NEW o \in Outcomes, Settle(o), frame = "loading" \/ port \/ timer \/ listening
          PROVE  Promise!Next
      <3>1. call = "pending"
        BY <2>4 DEF SandboxInv, CallInv, NothingHeld
      <3>. QED BY <2>3, <2>4, <3>1 DEF Promise!Next
    <2>5. CASE Loads \/ FrameErrors \/ TimesOut \/ Abort
      BY <1>3, <2>4, <2>5 DEF Loads, FrameErrors, TimesOut, Abort, Outcomes, hostVars
    <2>6. ASSUME NEW m \in Messages, HostHears(m) PROVE Promise!Next
      <3>1. m # "ready" /\ m \in Returned
        BY <1>3, <2>6 DEF HostHears, Messages, hostVars
      <3>2. PICK o \in Outcomes : Settle(o)
        BY <2>6, <3>1 DEF HostHears, Returned, Outcomes
      <3>. QED BY <2>4, <2>6, <3>2 DEF HostHears
    <2>7. CASE FrameStep \/ UNCHANGED vars
      BY <1>3, <2>7 DEF FrameStep, FrameHears, FrameHearsWorker, WorkerSays, vars, hostVars
    <2>. QED BY <2>2, <2>5, <2>6, <2>7 DEF Next, Step, Promise!Next
  <1>. QED BY <1>2, <1>3

LEMMA OneShotInit == Init => Promise!Init
  BY DEF Init, Promise!Init, Holds

-----------------------------------------------------------------------------
(* Theorems *)

\* Wherever the signal fires, before the call or at any point in it, no call is
\* pending afterwards and nothing of one is left in the page.
THEOREM AbortCorrect == Spec => []NothingOutlivesAbort
  <1>. QED BY AbortSafe, SandboxInit, SandboxNext, PTL DEF Spec

\* The host settles on the one answer the frame has forwarded, and takes it for a
\* result only if the code gave back an object within the limit.
THEOREM AnswerCorrect == Spec => OneAnswerDecides
  <1>. QED BY AnswerStep, SandboxInit, SandboxNext, PTL DEF Spec, OneAnswerDecides

\* Every step of the call is a step of the one-shot promise or none: it settles
\* once, with one of its outcomes, and holds something exactly while it is pending.
THEOREM SandboxImplementsOneShot == Spec => Promise!Init /\ [][Promise!Next]_(Promise!vars)
  <1>. QED BY OneShotInit, OneShotStep, SandboxInit, SandboxNext, PTL DEF Spec

=============================================================================

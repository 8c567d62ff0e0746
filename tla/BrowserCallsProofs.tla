------------------------- MODULE BrowserCallsProofs -------------------------
(***************************************************************************)
(* Proofs about the two calls of MCBrowserCalls that share a signal.  Each *)
(* step of the pair is a step of the sandbox call or leaves it as it is,   *)
(* so what SandboxRunProofs shows of the one call holds beside the other;  *)
(* the same way the call of browser.js.run is a one-shot promise beside    *)
(* the sandbox.                                                            *)
(***************************************************************************)
EXTENDS MCBrowserCalls, TLAPS

\* The sandbox call, with what is proved of it.
Proved == INSTANCE SandboxRunProofs

-----------------------------------------------------------------------------
(* The steps of the pair seen by the sandbox call *)

LEMMA SameStart == Init => Proved!SandboxInv
  BY Proved!SandboxInit DEF Init, Sandbox!Init, Proved!Init

LEMMA SameActions == [Next]_vars => [Proved!Next]_(Proved!vars)
  <1>1. Sandbox!Abort => Proved!Abort
    BY DEF Sandbox!Abort, Sandbox!Settle, Sandbox!Cleanup, Sandbox!hostVars, Sandbox!frameVars,
           Proved!Abort, Proved!Settle, Proved!Cleanup, Proved!hostVars, Proved!frameVars
  <1>2. ASSUME NEW valid \in BOOLEAN, NEW page \in BOOLEAN, Sandbox!Run(valid, page)
        PROVE  Proved!Run(valid, page)
    BY <1>2 DEF Sandbox!Run, Sandbox!Refuse, Sandbox!hostVars, Sandbox!frameVars,
                Proved!Run, Proved!Refuse, Proved!hostVars, Proved!frameVars
  <1>3. ASSUME NEW m, Sandbox!HostHears(m) PROVE Proved!HostHears(m)
    BY <1>3 DEF Sandbox!HostHears, Sandbox!Settle, Sandbox!Cleanup, Sandbox!hostVars, Sandbox!frameVars,
                Proved!HostHears, Proved!Settle, Proved!Cleanup, Proved!hostVars, Proved!frameVars
  <1>4. Sandbox!Loads \/ Sandbox!FrameErrors \/ Sandbox!TimesOut =>
          Proved!Loads \/ Proved!FrameErrors \/ Proved!TimesOut
    BY DEF Sandbox!Loads, Sandbox!FrameErrors, Sandbox!TimesOut, Sandbox!Settle, Sandbox!Cleanup,
           Sandbox!hostVars, Sandbox!frameVars,
           Proved!Loads, Proved!FrameErrors, Proved!TimesOut, Proved!Settle, Proved!Cleanup,
           Proved!hostVars, Proved!frameVars
  <1>5. Sandbox!FrameHears => Proved!FrameHears
    BY DEF Sandbox!FrameHears, Sandbox!Finish, Sandbox!hostVars,
           Proved!FrameHears, Proved!Finish, Proved!hostVars
  <1>6. Sandbox!FrameHearsWorker => Proved!FrameHearsWorker
    BY DEF Sandbox!FrameHearsWorker, Sandbox!Finish, Sandbox!hostVars,
           Proved!FrameHearsWorker, Proved!Finish, Proved!hostVars
  <1>7. ASSUME NEW m, Sandbox!WorkerSays(m) PROVE Proved!WorkerSays(m)
    BY <1>7 DEF Sandbox!WorkerSays, Sandbox!hostVars, Proved!WorkerSays, Proved!hostVars
  <1>8. Sandbox!Step => Proved!Step
    BY <1>2, <1>3, <1>4, <1>5, <1>6, <1>7
       DEF Sandbox!Step, Sandbox!FrameStep, Sandbox!Messages, Sandbox!Returned,
           Proved!Step, Proved!FrameStep, Proved!Messages, Proved!Returned
  <1>9. Js!Step => UNCHANGED aborted
    BY DEF Js!Step, Js!Start, Js!Refuse, Js!PostFails, Js!WorkerSays, Js!Hears, Js!TimesOut
  <1>10. UNCHANGED sandboxVars /\ UNCHANGED aborted => UNCHANGED Proved!vars
    BY DEF sandboxVars, Proved!vars, Proved!hostVars, Proved!frameVars
  <1>11. UNCHANGED vars => UNCHANGED sandboxVars /\ UNCHANGED aborted
    BY DEF vars
  <1>. QED BY <1>1, <1>8, <1>9, <1>10, <1>11 DEF Next, Proved!Next

LEMMA SandboxKeeps == Proved!SandboxInv /\ [Next]_vars => Proved!SandboxInv'
  BY SameActions, Proved!SandboxNext

-----------------------------------------------------------------------------
(* The call of browser.js.run *)

JsInv ==
  \/ /\ jsCall = "idle" /\ jsOutcome = "none"
     /\ jsWorker # "running" /\ jsSaid = <<>> /\ jsTimer = FALSE /\ jsListening = FALSE
  \/ /\ jsCall = "pending" /\ jsOutcome = "none"
     /\ jsWorker = "running" /\ jsTimer = TRUE /\ jsListening = TRUE
  \/ /\ jsCall = "settled" /\ jsSaid = <<>> /\ jsTimer = FALSE /\ jsListening = FALSE
     /\ jsWorker # "running" \/ jsOutcome = "unclonable"

LEMMA JsInit == Init => JsInv
  BY DEF Init, Js!Init, JsInv

\* A step of the pair is one of browser.js.run or leaves its call as it is.
LEMMA JsSteps == [Next]_vars => Js!Step \/ Js!Abort \/ UNCHANGED jsVars
  BY DEF Next, vars, jsVars

LEMMA JsKeeps == JsInv /\ [Next]_vars => JsInv'
  <1>. SUFFICES ASSUME JsInv, Js!Step \/ Js!Abort \/ UNCHANGED jsVars PROVE JsInv'
    BY JsSteps
  <1>1. ASSUME NEW o, Js!Settle(o) PROVE JsInv'
    BY <1>1 DEF Js!Settle, JsInv
  <1>2. CASE Js!Start \/ Js!Refuse \/ Js!PostFails
    BY <1>2 DEF Js!Start, Js!Refuse, Js!PostFails, JsInv
  <1>3. ASSUME NEW m \in Js!Said, Js!WorkerSays(m) PROVE JsInv'
    BY <1>3 DEF Js!WorkerSays, JsInv
  <1>4. ASSUME NEW m \in Js!Said, Js!Hears(m) PROVE JsInv'
    BY <1>1, <1>4 DEF Js!Hears
  <1>5. CASE Js!TimesOut \/ Js!Abort
    BY <1>1, <1>5 DEF Js!TimesOut, Js!Abort, JsInv
  <1>6. CASE UNCHANGED jsVars
    BY <1>6 DEF jsVars, JsInv
  <1>. QED BY <1>2, <1>3, <1>4, <1>5, <1>6 DEF Js!Step

LEMMA JsOneShotStep == JsInv /\ JsInv' /\ [Next]_vars => [Js!Promise!Next]_(Js!Promise!vars)
  <1>. SUFFICES ASSUME JsInv, JsInv', Js!Step \/ Js!Abort \/ UNCHANGED jsVars
                PROVE  [Js!Promise!Next]_(Js!Promise!vars)
    BY JsSteps
  <1>0. /\ jsCall \in {"idle", "settled"} => Js!Holds = FALSE
        /\ jsCall = "pending" => Js!Holds = TRUE
    BY DEF JsInv, Js!Holds
  <1>00. /\ jsCall' \in {"idle", "settled"} => Js!Holds' = FALSE
         /\ jsCall' = "pending" => Js!Holds' = TRUE
    BY DEF JsInv, Js!Holds
  <1>1. CASE jsCall' = jsCall /\ jsOutcome' = jsOutcome
    <2>1. CASE jsCall = "pending"
      BY <1>0, <1>00, <1>1, <2>1 DEF Js!Promise!vars
    <2>2. CASE jsCall \in {"idle", "settled"}
      BY <1>0, <1>00, <1>1, <2>2 DEF Js!Promise!vars
    <2>. QED BY <2>1, <2>2 DEF JsInv
  <1>2. ASSUME NEW o \in Js!Outcomes, Js!Settle(o), jsCall = "pending" PROVE Js!Promise!Next
    BY <1>00, <1>2 DEF Js!Settle, Js!Promise!Settle, Js!Promise!Next
  <1>3. CASE Js!Start \/ Js!Refuse \/ Js!PostFails
    BY <1>00, <1>3 DEF Js!Start, Js!Refuse, Js!PostFails, Js!Outcomes, Js!Promise!Start, Js!Promise!Next
  <1>4. ASSUME NEW m \in Js!Said, Js!Hears(m) PROVE Js!Promise!Next
    <2>1. PICK o \in Js!Outcomes : Js!Settle(o) /\ jsCall = "pending"
      BY <1>4 DEF Js!Hears, Js!Said, Js!Outcomes
    <2>. QED BY <1>2, <2>1
  <1>5. CASE Js!TimesOut
    BY <1>2, <1>5 DEF Js!TimesOut, Js!Outcomes, JsInv
  <1>6. CASE Js!Abort
    <2>1. CASE jsListening
      BY <1>2, <1>6, <2>1 DEF Js!Abort, Js!Outcomes, JsInv
    <2>2. CASE ~jsListening
      BY <1>1, <1>6, <2>2 DEF Js!Abort
    <2>. QED BY <2>1, <2>2
  <1>7. CASE (\E m \in Js!Said : Js!WorkerSays(m)) \/ UNCHANGED jsVars
    BY <1>1, <1>7 DEF Js!WorkerSays, jsVars
  <1>. QED BY <1>3, <1>4, <1>5, <1>6, <1>7 DEF Js!Step

-----------------------------------------------------------------------------
(* Theorems *)

\* Wherever the shared signal fires, no sandbox call is pending afterwards and
\* nothing of one is left in the page, whatever the other call does.
THEOREM AbortEndsSandbox == Spec => []NothingOutlivesAbort
  <1>1. Proved!SandboxInv => NothingOutlivesAbort
    BY Proved!AbortSafe DEF NothingOutlivesAbort, Sandbox!NothingOutlivesAbort, Sandbox!Holds,
                            Proved!NothingOutlivesAbort, Proved!Holds
  <1>. QED BY <1>1, SameStart, SandboxKeeps, PTL DEF Spec

\* The sandbox call settles on the one answer its frame has forwarded.
THEOREM AnswerDecidesSandbox == Spec => OneAnswerDecides
  <1>1. Proved!SandboxInv /\ [Next]_vars =>
          [call' = "settled" /\ call = "pending" /\ toHost # <<>> /\ Head(toHost) # "ready" =>
             /\ Len(toHost) = 1 /\ answered /\ worker # "running"
             /\ outcome' = "result" => toHost = <<"object">>]_(Sandbox!vars)
    BY SameActions, Proved!AnswerStep
       DEF Proved!vars, Proved!hostVars, Proved!frameVars, Sandbox!vars, Sandbox!hostVars, Sandbox!frameVars
  <1>. QED BY <1>1, SameStart, SandboxKeeps, PTL DEF Spec, OneAnswerDecides, Sandbox!OneAnswerDecides

\* Each step of the pair is a step of the sandbox call's promise or none.
THEOREM SandboxStaysOneShot ==
  Spec => Sandbox!Promise!Init /\ [][Sandbox!Promise!Next]_(Sandbox!Promise!vars)
  <1>1. Init => Sandbox!Promise!Init
    BY DEF Init, Sandbox!Init, Sandbox!Promise!Init, Sandbox!Holds
  <1>2. Proved!SandboxInv /\ Proved!SandboxInv' /\ [Next]_vars =>
          [Sandbox!Promise!Next]_(Sandbox!Promise!vars)
    BY SameActions, Proved!OneShotStep
       DEF Proved!Promise!Next, Proved!Promise!Start, Proved!Promise!Settle, Proved!Promise!vars,
           Proved!Holds, Proved!Outcomes,
           Sandbox!Promise!Next, Sandbox!Promise!Start, Sandbox!Promise!Settle, Sandbox!Promise!vars,
           Sandbox!Holds, Sandbox!Outcomes
  <1>. QED BY <1>1, <1>2, SameStart, SandboxKeeps, PTL DEF Spec

\* Each step of the pair is a step of the promise of browser.js.run or none, what
\* that promise holds being as in Js!Holds.
THEOREM JsRunStaysOneShot == Spec => Js!Promise!Init /\ [][Js!Promise!Next]_(Js!Promise!vars)
  <1>1. Init => Js!Promise!Init
    BY DEF Init, Js!Init, Js!Promise!Init, Js!Holds
  <1>. QED BY <1>1, JsOneShotStep, JsInit, JsKeeps, PTL DEF Spec
=============================================================================

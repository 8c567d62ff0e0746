-------------------------- MODULE MCBrowserCalls --------------------------
(***************************************************************************)
(* Two runs of one page share an abort signal; one of them executes        *)
(* browser.js.sandbox, the other browser.js.run.                           *)
(***************************************************************************)
EXTENDS Naturals, Sequences

VARIABLES
  aborted,
  call, outcome, frame, port, timer, listening, toFrame, toHost,
  bound, worker, posts, answered,
  jsCall, jsOutcome, jsWorker, jsSaid, jsTimer, jsListening

Sandbox == INSTANCE SandboxRun
Js == INSTANCE JsRun WITH call <- jsCall, outcome <- jsOutcome, worker <- jsWorker,
                          said <- jsSaid, timer <- jsTimer, listening <- jsListening

jsVars == <<jsCall, jsOutcome, jsWorker, jsSaid, jsTimer, jsListening>>
sandboxVars == <<call, outcome, frame, port, timer, listening, toFrame, toHost,
                 bound, worker, posts, answered>>
vars == <<sandboxVars, jsVars, aborted>>

Init == Sandbox!Init /\ Js!Init

\* A signal tells all its listeners in one step.
Next ==
  \/ Sandbox!Step /\ UNCHANGED jsVars
  \/ Js!Step /\ UNCHANGED sandboxVars
  \/ Sandbox!Abort /\ Js!Abort

Spec ==
  /\ Init /\ [][Next]_vars
  /\ WF_vars(Sandbox!TimesOut /\ UNCHANGED jsVars)
  /\ WF_vars(Js!TimesOut /\ UNCHANGED sandboxVars)

SandboxIsOneShot == Sandbox!SandboxIsOneShot
OneAnswerDecides == Sandbox!OneAnswerDecides
NothingOutlivesAbort == Sandbox!NothingOutlivesAbort
JsRunIsOneShot == Js!JsRunIsOneShot
WorkerEndsWithCall == Js!WorkerEndsWithCall
=============================================================================

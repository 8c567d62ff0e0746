----------------------------- MODULE SandboxRun -----------------------------
(***************************************************************************)
(* One call of OpaqueOriginJsSandbox.run (sandbox.ts).  Three parties work *)
(* on it: the host page, an iframe of opaque origin, and a worker inside   *)
(* the iframe that runs the code.  The host transfers a port to the iframe *)
(* once it has loaded (init), the iframe answers ready, the host sends the *)
(* code (run), the iframe starts the worker and forwards the first thing   *)
(* the worker says.  The answer, an error of the frame, the timeout and    *)
(* the caller's abort race to settle the call.                             *)
(***************************************************************************)
EXTENDS Naturals, Sequences

VARIABLES
  call,        \* "idle", "pending" or "settled": the promise of run
  outcome,     \* how it settled
  frame,       \* the iframe element: "none", "loading", "loaded", "removed"
  port,        \* hostPort is open
  timer,       \* the timeout is set
  listening,   \* onAbort listens to the signal
  toFrame,     \* messages the host posted, not yet received
  toHost,      \* messages the iframe posted, not yet received
  bound,       \* the iframe has its port (hostPort in the document)
  worker,      \* "none", "running" or "terminated"
  posts,       \* what the worker said and the iframe has not yet seen
  answered,    \* the iframe's settled
  aborted      \* the caller's signal

hostVars == <<call, outcome, frame, port, timer, listening>>
frameVars == <<bound, worker, posts, answered>>
vars == <<hostVars, frameVars, toFrame, toHost, aborted>>

\* What the code gives back: a plain object, one over the output limit, a value
\* that is none, an exception.
Returned == {"object", "large", "other", "error"}
Outcomes == {"result", "invalid", "code_error", "frame_error", "timeout", "abort", "refused"}

Init ==
  /\ call = "idle" /\ outcome = "none" /\ frame = "none"
  /\ port = FALSE /\ timer = FALSE /\ listening = FALSE
  /\ toFrame = <<>> /\ toHost = <<>>
  /\ bound = FALSE /\ worker = "none" /\ posts = <<>> /\ answered = FALSE
  /\ aborted \in BOOLEAN

-----------------------------------------------------------------------------
(* The host page *)

Refuse(o) ==
  /\ call' = "settled" /\ outcome' = o
  /\ UNCHANGED <<frame, port, timer, listening, frameVars, toFrame, toHost, aborted>>

\* run: the request's types, limits and sizes are checked, then the signal, then
\* that the page has a document and channels; then everything is taken at once.
Run(valid, page) ==
  /\ call = "idle"
  /\ IF ~valid THEN Refuse("refused")
     ELSE IF aborted THEN Refuse("abort")
     ELSE IF ~page THEN Refuse("refused")
     ELSE /\ call' = "pending" /\ frame' = "loading"
          /\ port' = TRUE /\ timer' = TRUE /\ listening' = TRUE
          /\ UNCHANGED <<outcome, frameVars, toFrame, toHost, aborted>>

\* Mutant: the frame stays in the page.
CleanupKeepingFrame ==
  /\ timer' = FALSE /\ listening' = FALSE /\ port' = FALSE
  /\ toHost' = <<>> /\ toFrame' = <<>>
  /\ UNCHANGED <<frame, bound, answered, worker, posts>>

\* cleanup: the timer, the listener and the port go, and with the frame its
\* document, the worker the document owns and every message to or from it.
Cleanup ==
  /\ timer' = FALSE /\ listening' = FALSE /\ port' = FALSE
  /\ frame' = "removed"
  /\ toHost' = <<>> /\ toFrame' = <<>>
  /\ worker' = (IF worker = "none" THEN "none" ELSE "terminated")
  /\ posts' = <<>>
  /\ UNCHANGED <<bound, answered>>

\* fail and succeed: the first to come wins.
Settle(o) ==
  IF call = "settled"
    THEN UNCHANGED <<hostVars, frameVars, toFrame, toHost>>
    ELSE /\ call' = "settled" /\ outcome' = o
         /\ Cleanup

\* hostPort.onmessage: ready is answered with the code; a result counts if it is
\* a plain object within the limit.
HostHears(m) ==
  /\ port /\ toHost # <<>> /\ Head(toHost) = m
  /\ UNCHANGED aborted
  /\ IF m = "ready"
       THEN /\ toHost' = Tail(toHost)
            /\ toFrame' = Append(toFrame, "run")
            /\ UNCHANGED <<hostVars, frameVars>>
       ELSE Settle(CASE m = "object" -> "result"
                     [] m = "error" -> "code_error"
                     [] m \in {"large", "other"} -> "invalid")

\* The load event of the frame: init goes out with the frame's port, or there is
\* no window to send it to.
Loads ==
  /\ frame = "loading"
  /\ UNCHANGED aborted
  /\ \/ /\ frame' = "loaded" /\ toFrame' = Append(toFrame, "init")
        /\ UNCHANGED <<call, outcome, port, timer, listening, frameVars, toHost>>
     \/ Settle("frame_error")

FrameErrors == frame = "loading" /\ Settle("frame_error") /\ UNCHANGED aborted

TimesOut == timer /\ Settle("timeout") /\ UNCHANGED aborted

\* Mutant: the listener is added only when the frame has loaded.
AbortIfLoaded ==
  /\ ~aborted /\ aborted' = TRUE
  /\ IF listening /\ frame = "loaded" THEN Settle("abort")
     ELSE UNCHANGED <<hostVars, frameVars, toFrame, toHost>>

Abort ==
  /\ ~aborted /\ aborted' = TRUE
  /\ IF listening THEN Settle("abort")
     ELSE UNCHANGED <<hostVars, frameVars, toFrame, toHost>>

-----------------------------------------------------------------------------
(* The document in the iframe *)

\* Mutant: everything the worker says is forwarded.
FinishAlways(m) ==
  /\ answered' = TRUE
  /\ worker' = (IF worker = "none" THEN "none" ELSE "terminated")
  /\ toHost' = Append(toHost, m)

\* finish: the worker ends, and what it said goes to the host.
Finish(m) ==
  IF answered
    THEN UNCHANGED <<worker, answered, toHost>>
    ELSE /\ answered' = TRUE
         /\ worker' = (IF worker = "none" THEN "none" ELSE "terminated")
         /\ toHost' = Append(toHost, m)

\* init binds the port once and is answered ready; run starts the worker, or
\* finds that the frame cannot have one.
FrameHears ==
  /\ frame = "loaded" /\ toFrame # <<>>
  /\ toFrame' = Tail(toFrame)
  /\ UNCHANGED <<hostVars, posts, aborted>>
  /\ CASE Head(toFrame) = "init" ->
            /\ bound' = TRUE
            /\ toHost' = (IF bound THEN toHost ELSE Append(toHost, "ready"))
            /\ UNCHANGED <<worker, answered>>
       [] Head(toFrame) = "run" ->
            /\ UNCHANGED bound
            /\ \/ worker' = "running" /\ UNCHANGED <<answered, toHost>>
               \/ Finish("error")

\* The worker answers on its port, or fails where the frame only sees its error
\* event; code that goes on after its answer may still fail.
WorkerSays(m) ==
  /\ worker = "running" /\ Len(posts) < 2
  /\ posts = <<>> \/ m = "error"
  /\ posts' = Append(posts, m)
  /\ UNCHANGED <<hostVars, bound, worker, answered, toFrame, toHost, aborted>>

FrameHearsWorker ==
  /\ frame = "loaded" /\ posts # <<>>
  /\ posts' = Tail(posts)
  /\ Finish(Head(posts))
  /\ UNCHANGED <<hostVars, bound, toFrame, aborted>>

-----------------------------------------------------------------------------
Messages == {"ready"} \cup Returned

FrameStep ==
  \/ FrameHears \/ FrameHearsWorker
  \/ \E m \in Returned : WorkerSays(m)

Step ==
  \/ \E valid, page \in BOOLEAN : Run(valid, page)
  \/ \E m \in Messages : HostHears(m)
  \/ Loads \/ FrameErrors \/ TimesOut
  \/ FrameStep

Next == Step \/ Abort

\* The timer of a browser fires; nothing else is owed by anyone.
Spec == Init /\ [][Next]_vars /\ WF_vars(TimesOut)

-----------------------------------------------------------------------------
(* Properties *)

\* The call is a one-shot promise: a fresh frame and worker are created for the
\* run and removed on every terminal path (OpaqueOriginJsSandbox), so it settles
\* once, in the end by its timeout, and holds nothing afterwards.
Holds ==
  \/ frame \in {"loading", "loaded"} \/ port \/ timer \/ listening
  \/ worker = "running" \/ toHost # <<>> \/ posts # <<>>

Promise == INSTANCE OneShot WITH holds <- Holds
SandboxIsOneShot == Promise!Spec

\* A result is what the code of this very call gave back, and the code's failure is
\* reported as such: the host settles on the one answer the frame forwards.
OneAnswerDecides ==
  [][call' = "settled" /\ call = "pending" /\ toHost # <<>> /\ Head(toHost) # "ready" =>
       /\ Len(toHost) = 1 /\ answered /\ worker # "running"
       /\ outcome' = "result" => toHost = <<"object">>]_vars

\* An abort is never late: no call is pending, and nothing of one is left in the
\* page, once the signal has fired, be it before the call or at any point in it.
NothingOutlivesAbort == aborted => call # "pending" /\ ~Holds
=============================================================================

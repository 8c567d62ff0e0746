------------------------------- MODULE JsRun -------------------------------
(***************************************************************************)
(* One call of browser.js.run (jsRunHandler in browser-tools.ts): trusted  *)
(* code in a fresh worker.  The worker's message, its error event, the     *)
(* timeout and the caller's abort race to settle the call; whatever wins,  *)
(* the finally clause runs before the next event of the page.              *)
(***************************************************************************)
EXTENDS Naturals, Sequences

VARIABLES
  call,        \* "idle", "pending" or "settled": the promise of the handler
  outcome,     \* how it settled
  worker,      \* "none", "running" or "terminated"
  said,        \* messages of the worker the page has not yet seen
  timer,       \* the timeout is set
  listening,   \* abortListener listens to the signal
  aborted      \* the caller's signal

vars == <<call, outcome, worker, said, timer, listening, aborted>>

\* What the worker may say: a plain object, an error wrapped by the worker, a
\* value that is no plain JSON object, an error event, a value the page cannot read.
Said == {"object", "wrapped", "other", "error", "unreadable"}
Outcomes == {"result", "code_error", "invalid", "timeout", "abort", "refused", "unclonable"}

Init ==
  /\ call = "idle" /\ outcome = "none"
  /\ worker = "none" /\ said = <<>>
  /\ timer = FALSE /\ listening = FALSE
  /\ aborted \in BOOLEAN

-----------------------------------------------------------------------------
\* The worker is created and given the code, then the timer and the listener are
\* installed.  A listener added to a signal that has fired is never called.
Start ==
  /\ call = "idle"
  /\ call' = "pending" /\ worker' = "running" /\ timer' = TRUE
  /\ listening' = TRUE
  /\ UNCHANGED <<outcome, said, aborted>>

\* There is no factory, or it throws.
Refuse ==
  /\ call = "idle"
  /\ call' = "settled" /\ outcome' = "refused"
  /\ UNCHANGED <<worker, said, timer, listening, aborted>>

\* postMessage throws on an input it cannot clone: the worker exists, the timer
\* does not yet, and no finally clause is entered.
PostFails ==
  /\ call = "idle"
  /\ call' = "settled" /\ outcome' = "unclonable" /\ worker' = "running"
  /\ UNCHANGED <<said, timer, listening, aborted>>

\* Only the first thing a worker says counts; two are enough to see that.  A
\* worker without code and input to run says nothing.
WorkerSays(m) ==
  /\ call = "pending"
  /\ worker = "running" /\ Len(said) < 2
  /\ said' = Append(said, m)
  /\ UNCHANGED <<call, outcome, worker, timer, listening, aborted>>

\* Mutant: the worker is terminated only by its timeout and by an abort.
SettleKeepingWorker(o) ==
  /\ call' = "settled" /\ outcome' = o
  /\ timer' = FALSE /\ listening' = FALSE
  /\ worker' = (IF o \in {"timeout", "abort"} THEN "terminated" ELSE worker)
  /\ said' = <<>>

\* The promise settles and the finally clause runs.
Settle(o) ==
  /\ call' = "settled" /\ outcome' = o
  /\ timer' = FALSE /\ listening' = FALSE
  /\ worker' = "terminated" /\ said' = <<>>

\* The first message or error of the worker decides; a message must be a plain
\* JSON object and not the worker's wrapped error.
Hears(m) ==
  /\ call = "pending" /\ said # <<>> /\ Head(said) = m
  /\ Settle(CASE m = "object" -> "result"
              [] m = "other" -> "invalid"
              [] m \in {"wrapped", "error", "unreadable"} -> "code_error")
  /\ UNCHANGED aborted

TimesOut == timer /\ Settle("timeout") /\ UNCHANGED aborted

Abort ==
  /\ ~aborted /\ aborted' = TRUE
  /\ IF listening THEN Settle("abort")
     ELSE UNCHANGED <<call, outcome, worker, said, timer, listening>>

Step ==
  \/ Start \/ Refuse \/ PostFails
  \/ \E m \in Said : WorkerSays(m) \/ Hears(m)
  \/ TimesOut

Next == Step \/ Abort

\* The timer of a browser fires; the code may run forever.
Spec == Init /\ [][Next]_vars /\ WF_vars(TimesOut)

-----------------------------------------------------------------------------
(* Properties *)

\* What a call has of the page.  The worker of a call whose input could not be
\* posted is left out: nothing ever ends it, which is what WorkerEndsWithCall finds.
Holds ==
  \/ worker = "running" /\ outcome # "unclonable"
  \/ said # <<>> \/ timer \/ listening

\* The call is a one-shot promise: whichever of message, error, timeout and abort
\* comes first settles it, once, and with it goes what the call holds.
Promise == INSTANCE OneShot WITH holds <- Holds
JsRunIsOneShot == Promise!Spec

\* "The worker is terminated on completion, timeout, or cancellation"
\* (browser-tools.ts:219): no worker outlives the call it was made for.
WorkerEndsWithCall == call = "settled" => worker # "running"
=============================================================================

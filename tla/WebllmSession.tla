---------------------------- MODULE WebllmSession ----------------------------
(***************************************************************************)
(* WebLlmSessionImpl (webllm.ts): one engine on one worker, shared by      *)
(* calls that load, switch, retry, delete and dispose, and that overlap at *)
(* every await.  There is no lock: the calls read and write the session's  *)
(* fields before and after each await.                                     *)
(*                                                                         *)
(* A worker answers the requests posted to it in order, each with success  *)
(* or failure.  A terminated worker never answers: a request it holds may  *)
(* be rejected, or stay pending for ever.                                  *)
(***************************************************************************)
EXTENDS Naturals, Sequences, FiniteSets, SequencesExt

CONSTANTS
  Calls,        \* the calls made on the session
  Models,
  None,         \* undefined
  Asks,         \* per call: the operations it may be, as <<operation, model>>
  Abortable     \* the calls with a signal that may be aborted

Workers == 1..Cardinality(Calls)      \* a call creates at most one
Loads == {"ensureLoaded", "switchModel", "retryLoad", "clean", "fresh"}
Ops == Loads \cup {"deleteAll", "dispose"}
Loading == {"refused", "importing", "releasing", "creating", "reloading"}
Settled == {"resolved", "rejected"}
Points == {"idle", "joining", "deleting", "listing", "unloading", "sweeping"} \cup Loading \cup Settled

ASSUME CallsAssumption ==
  /\ IsFiniteSet(Calls)
  /\ None \notin Calls \cup Models
  /\ Asks \in [Calls -> SUBSET (Ops \X (Models \cup {None}))]
  /\ Abortable \subseteq Calls

VARIABLES
  engine,        \* the worker this.engine talks to, 0 for none
  worker,        \* this.worker, 0 for none
  loadedModelId,
  unhealthy,
  loadPromise,   \* the call whose load it is
  module,        \* webllmModulePromise: "unset", "imported" or "failed"
  call,          \* per call: what it asks for, and where it is suspended
  aborted,       \* the calls whose signal is aborted
  live,          \* the workers created and not terminated
  spawned,       \* how many workers were created
  holds,         \* per worker: the model its engine holds, None or "broken"
  inbox          \* the requests posted to workers and not settled

fields == <<engine, worker, loadedModelId, unhealthy>>
external == <<live, spawned, holds, inbox>>
vars == <<fields, loadPromise, module, call, aborted, external>>

NoCall == [op |-> None, model |-> None, at |-> "idle", joined |-> None]

Init ==
  /\ engine = 0 /\ worker = 0
  /\ loadedModelId = None /\ loadPromise = None
  /\ unhealthy = FALSE
  /\ module = "unset"
  /\ call = [c \in Calls |-> NoCall]
  /\ aborted = {}
  /\ live = {} /\ spawned = 0 /\ inbox = <<>>
  /\ holds = [w \in Workers |-> None]

IsModelLoaded(m) == loadedModelId = m /\ ~unhealthy

-----------------------------------------------------------------------------
\* The worker's side of the engine proxies.

\* Mutant: an answer settles the oldest request, whosever it is.
WithoutOldest(c) == IF inbox = <<>> THEN inbox ELSE Tail(inbox)

\* The request of c, if there is one, and the inbox without it.
Posted(c) == \E i \in DOMAIN inbox : inbox[i].by = c
Place(c) == CHOOSE i \in DOMAIN inbox : inbox[i].by = c
Target(c) == inbox[Place(c)].to
Without(c) == IF Posted(c) THEN RemoveAt(inbox, Place(c)) ELSE inbox

\* c's request is the oldest one of a live worker, whose engine it leaves
\* holding `what`.
Answered(c, what) ==
  /\ Posted(c) /\ Target(c) \in live
  /\ \A i \in DOMAIN inbox : inbox[i].to = Target(c) => Place(c) <= i
  /\ holds' = [holds EXCEPT ![Target(c)] = what]

Dropped(c) == Posted(c) /\ Target(c) \notin live /\ UNCHANGED holds

-----------------------------------------------------------------------------
Becomes(c, request) == call' = [call EXCEPT ![c] = request]
At(request, where) == [request EXCEPT !.at = where]

\* Mutant: a failed load does not clear the shared promise.
EndUnlessRejected(c, how) ==
  /\ Becomes(c, At(call[c], how))
  /\ loadPromise' = IF how = "resolved" THEN None ELSE loadPromise

\* The load of c settles, and c with it: its `finally` clears loadPromise, be it
\* the promise of this load or of a later one.
End(c, how) == Becomes(c, At(call[c], how)) /\ loadPromise' = None

\* loadModel up to its first await.
Load(c, request) ==
  /\ loadPromise' = c
  /\ Becomes(c, At(request, IF c \in aborted THEN "refused" ELSE "importing"))

JoinOrLoad(c, request) ==
  \/ /\ loadPromise # None
     /\ Becomes(c, [request EXCEPT !.at = "joining", !.joined = loadPromise])
     /\ UNCHANGED loadPromise
  \/ loadPromise = None /\ Load(c, request)

-----------------------------------------------------------------------------
\* loadModel without a usable engine: a worker is created only if there is none.
CreateEngine(c, request) ==
  \/ /\ IF worker # 0
        THEN UNCHANGED <<worker, live, spawned>>
        ELSE worker' = spawned + 1 /\ live' = live \cup {spawned + 1} /\ spawned' = spawned + 1
     /\ inbox' = Append(Without(c), [by |-> c, to |-> worker'])
     /\ unhealthy' = FALSE
     /\ Becomes(c, At(request, "creating"))
     /\ UNCHANGED loadPromise
  \/ /\ worker = 0                   \* the worker factory throws
     /\ unhealthy' = TRUE
     /\ inbox' = Without(c)
     /\ Becomes(c, At(request, "rejected")) /\ loadPromise' = None
     /\ UNCHANGED <<worker, live, spawned>>

\* Mutant: the worker is forgotten, not terminated.
DropWorkerAlive(c) ==
  /\ worker' = 0
  /\ inbox' = Without(c)
  /\ UNCHANGED <<live, spawned>>

DropWorker(c) ==
  /\ worker' = 0 /\ live' = live \ {worker}
  /\ inbox' = Without(c)
  /\ UNCHANGED spawned

\* unloadCurrent is over: the model and the unhealthy mark are dropped, and the
\* caller goes on.
Unloaded(c, request) ==
  /\ loadedModelId' = None
  /\ \/ /\ request.at = "releasing"
        /\ CreateEngine(c, request)
        /\ UNCHANGED engine
     \/ /\ request.at = "unloading" /\ request.op = "switchModel"
        /\ unhealthy' = FALSE
        /\ inbox' = Without(c)
        /\ JoinOrLoad(c, request)
        /\ UNCHANGED <<engine, worker, live, spawned>>
     \/ /\ request.at = "unloading" /\ request.op \in {"clean", "fresh"}
        /\ DropWorker(c) /\ unhealthy' = TRUE
        /\ Load(c, request)
        /\ UNCHANGED engine
     \/ /\ request.at = "unloading" /\ request.op = "deleteAll"
        /\ DropWorker(c) /\ unhealthy' = TRUE
        /\ Becomes(c, At(request, "sweeping"))
        /\ UNCHANGED <<engine, loadPromise>>
     \/ /\ request.at = "unloading" /\ request.op = "dispose"
        /\ DropWorker(c) /\ unhealthy' = FALSE
        /\ engine' = 0
        /\ Becomes(c, At(request, "resolved"))
        /\ UNCHANGED loadPromise

\* unloadCurrent waits for the engine if there is one.
Unload(c, request) ==
  \/ /\ engine = 0
     /\ Unloaded(c, request)
     /\ UNCHANGED holds
  \/ /\ engine # 0
     /\ Becomes(c, request)
     /\ inbox' = Append(inbox, [by |-> c, to |-> engine])
     /\ UNCHANGED <<fields, loadPromise, live, spawned, holds>>

-----------------------------------------------------------------------------
\* The calls.

Asking(op, m) == [NoCall EXCEPT !.op = op, !.model = m]
Idle(c) == call[c].at = "idle"
MayAsk(c, op, m) == Idle(c) /\ <<op, m>> \in Asks[c]

\* A call that finds its model loaded returns at once.
FastPath(c, op, m) ==
  /\ IsModelLoaded(m)
  /\ Becomes(c, At(Asking(op, m), "resolved"))
  /\ UNCHANGED <<fields, loadPromise, external>>

EnsureLoaded(c, m) ==
  /\ MayAsk(c, "ensureLoaded", m)
  /\ \/ FastPath(c, "ensureLoaded", m)
     \/ /\ ~IsModelLoaded(m)
        /\ JoinOrLoad(c, Asking("ensureLoaded", m))
        /\ UNCHANGED <<fields, external>>
  /\ UNCHANGED <<module, aborted>>

SwitchModel(c, m) ==
  /\ MayAsk(c, "switchModel", m)
  /\ \/ FastPath(c, "switchModel", m)
     \/ ~IsModelLoaded(m) /\ Unload(c, At(Asking("switchModel", m), "unloading"))
  /\ UNCHANGED <<module, aborted>>

\* retryLoad without recovery loads again, even a loaded model.
RetryLoad(c, m) ==
  /\ MayAsk(c, "retryLoad", m)
  /\ JoinOrLoad(c, Asking("retryLoad", m))
  /\ UNCHANGED <<fields, external, module, aborted>>

RetryFresh(c, m) ==
  /\ MayAsk(c, "fresh", m)
  /\ Unload(c, At(Asking("fresh", m), "unloading"))
  /\ UNCHANGED <<module, aborted>>

RetryClean(c, m) ==
  /\ MayAsk(c, "clean", m)
  /\ Becomes(c, At(Asking("clean", m), "deleting"))
  /\ UNCHANGED <<fields, loadPromise, module, aborted, external>>

DeleteAll(c) ==
  /\ MayAsk(c, "deleteAll", None)
  /\ Becomes(c, At(Asking("deleteAll", None), "listing"))
  /\ UNCHANGED <<fields, loadPromise, module, aborted, external>>

Dispose(c) ==
  /\ MayAsk(c, "dispose", None)
  /\ Unload(c, At(Asking("dispose", None), "unloading"))
  /\ UNCHANGED <<module, aborted>>

Abort(c) ==
  /\ call[c].at \notin Settled
  /\ call[c].op \in Loads \cup {None}
  /\ c \in Abortable \ aborted
  /\ aborted' = aborted \cup {c}
  /\ UNCHANGED <<fields, loadPromise, module, call, external>>

-----------------------------------------------------------------------------
\* The calls resume.

\* The dynamic import happens once: its outcome, a failure too, is kept.
Import(outcome) == module \in {"unset", outcome} /\ module' = outcome

Refused(c) ==
  /\ call[c].at = "refused"
  /\ End(c, "rejected")
  /\ UNCHANGED <<fields, module, aborted, external>>

ImportReturns(c) ==
  /\ call[c].at = "importing"
  /\ Import("imported")
  /\ \/ (unhealthy \/ engine = 0) /\ Unload(c, At(call[c], "releasing"))
     \/ /\ ~unhealthy /\ engine # 0
        /\ Becomes(c, At(call[c], "reloading"))
        /\ inbox' = Append(inbox, [by |-> c, to |-> engine])
        /\ UNCHANGED <<fields, loadPromise, live, spawned, holds>>
  /\ UNCHANGED aborted

ImportFails(c) ==
  /\ call[c].at = "importing"
  /\ Import("failed")
  /\ End(c, "rejected")
  /\ UNCHANGED <<fields, aborted, external>>

\* Deleting the artifacts of the model may fail, which is ignored.
ArtifactsDeleted(c) ==
  /\ call[c].at = "deleting"
  /\ \E outcome \in {"imported", "failed"} : Import(outcome)
  /\ Unload(c, At(call[c], "unloading"))
  /\ UNCHANGED aborted

ModelsListed(c) ==
  /\ call[c].at = "listing"
  /\ \/ Import("imported") /\ Unload(c, At(call[c], "unloading"))
     \/ /\ Import("failed")
        /\ Becomes(c, At(call[c], "rejected"))
        /\ UNCHANGED <<fields, loadPromise, external>>
  /\ UNCHANGED aborted

Swept(c) ==
  /\ call[c].at = "sweeping"
  /\ Becomes(c, At(call[c], "resolved"))
  /\ UNCHANGED <<fields, loadPromise, module, aborted, external>>

\* Whether unload succeeds or not makes no difference to the caller.
UnloadReturns(c) ==
  /\ call[c].at \in {"unloading", "releasing"}
  /\ \/ \E what \in {None, "broken"} : Answered(c, what)
     \/ Dropped(c)
  /\ Unloaded(c, call[c])
  /\ UNCHANGED <<module, aborted>>

LoadReturns(c) ==
  /\ call[c].at \in {"creating", "reloading"}
  /\ Answered(c, call[c].model)
  /\ inbox' = Without(c)
  /\ engine' = IF call[c].at = "creating" THEN Target(c) ELSE engine
  /\ loadedModelId' = call[c].model
  /\ unhealthy' = (c \in aborted \/ (unhealthy /\ call[c].at # "creating"))
  /\ End(c, IF c \in aborted THEN "rejected" ELSE "resolved")
  /\ UNCHANGED <<worker, module, aborted, live, spawned>>

\* Mutant: a failed load leaves the session as it was.
LoadFailsQuietly(c) ==
  /\ call[c].at \in {"creating", "reloading"}
  /\ Answered(c, "broken") \/ Dropped(c)
  /\ inbox' = Without(c)
  /\ End(c, "rejected")
  /\ UNCHANGED <<fields, module, aborted, live, spawned>>

LoadFails(c) ==
  /\ call[c].at \in {"creating", "reloading"}
  /\ Answered(c, "broken") \/ Dropped(c)
  /\ inbox' = Without(c)
  /\ unhealthy' = TRUE
  /\ End(c, "rejected")
  /\ UNCHANGED <<engine, worker, loadedModelId, module, aborted, live, spawned>>

Joined(c) == call[call[c].joined].at

\* Mutant: a call trusts the load it joined.
JoinedResolvesTrusting(c) ==
  /\ call[c].at = "joining" /\ Joined(c) = "resolved"
  /\ Becomes(c, At(call[c], "resolved"))
  /\ UNCHANGED <<fields, loadPromise, module, aborted, external>>

\* After the load it joined, a call looks at the model but not at loadPromise.
JoinedResolves(c) ==
  /\ call[c].at = "joining" /\ Joined(c) = "resolved"
  /\ \/ /\ IsModelLoaded(call[c].model)
        /\ Becomes(c, At(call[c], "resolved"))
        /\ UNCHANGED loadPromise
     \/ ~IsModelLoaded(call[c].model) /\ Load(c, call[c])
  /\ UNCHANGED <<fields, module, aborted, external>>

\* Mutant: a rejection is passed on only while loadPromise is still set.
JoinedRejectsIfPending(c) ==
  /\ call[c].at = "joining" /\ Joined(c) = "rejected" /\ loadPromise # None
  /\ Becomes(c, At(call[c], "rejected"))
  /\ UNCHANGED <<fields, loadPromise, module, aborted, external>>

JoinedRejects(c) ==
  /\ call[c].at = "joining" /\ Joined(c) = "rejected"
  /\ Becomes(c, At(call[c], "rejected"))
  /\ UNCHANGED <<fields, loadPromise, module, aborted, external>>

-----------------------------------------------------------------------------
Resume(c) ==
  \/ Refused(c) \/ ImportReturns(c) \/ ImportFails(c)
  \/ ArtifactsDeleted(c) \/ ModelsListed(c) \/ Swept(c)
  \/ UnloadReturns(c) \/ LoadReturns(c) \/ LoadFails(c)
  \/ JoinedResolves(c) \/ JoinedRejects(c)

Next ==
  \/ \E c \in Calls, m \in Models :
       EnsureLoaded(c, m) \/ SwitchModel(c, m) \/ RetryLoad(c, m) \/ RetryFresh(c, m) \/ RetryClean(c, m)
  \/ \E c \in Calls : DeleteAll(c) \/ Dispose(c) \/ Abort(c) \/ Resume(c)

\* A request to a terminated worker need not be rejected.
OnDeadWorker(c) == Posted(c) /\ Target(c) \notin live

Fairness == \A c \in Calls : WF_vars(Resume(c) /\ ~OnDeadWorker(c))

Spec == Init /\ [][Next]_vars /\ Fairness

-----------------------------------------------------------------------------
Request == [op : Ops \cup {None}, model : Models \cup {None}, at : Points, joined : Calls \cup {None}]

\* The fields keep their types; a call has one request in the inbox exactly
\* while it waits for one.
SessionTypeOK ==
  /\ engine \in Workers \cup {0} /\ worker \in Workers \cup {0}
  /\ loadedModelId \in Models \cup {None} /\ unhealthy \in BOOLEAN
  /\ loadPromise \in Calls \cup {None}
  /\ module \in {"unset", "imported", "failed"}
  /\ call \in [Calls -> Request]
  /\ aborted \subseteq Calls
  /\ live \subseteq Workers /\ spawned \in Workers \cup {0}
  /\ holds \in [Workers -> Models \cup {None, "broken"}]
  /\ inbox \in Seq([by : Calls, to : Workers])
  /\ \A c \in Calls :
       Cardinality({i \in DOMAIN inbox : inbox[i].by = c}) =
         IF call[c].at \in {"unloading", "releasing", "creating", "reloading"} THEN 1 ELSE 0

\* Workers never pile up: however calls overlap, every worker but the current
\* one has been terminated.
NoLeakedWorker == live \subseteq {worker}

\* isModelLoaded tells the truth: the engine runs on the current, live worker,
\* which holds that model unless it has requests to answer.
LoadedIsReal ==
  \A m \in Models : IsModelLoaded(m) =>
    /\ engine = worker /\ worker \in live
    /\ (\A i \in DOMAIN inbox : inbox[i].to # worker) => holds[worker] = m

\* Calls only ever join a load that is under way.
LoadPromiseLive == loadPromise # None => call[loadPromise].at \in Loading

\* A call that was to load a model returns normally only when that model is the
\* session's current one and its engine, on the live worker, holds it.
ResolvedIsLoaded ==
  [][\A c \in Calls : call'[c].at = "resolved" /\ call[c].at # "resolved" /\ call'[c].op \in Loads
                        => /\ loadedModelId' = call'[c].model
                           /\ engine' = worker' /\ worker' \in live'
                           /\ holds'[worker'] = call'[c].model]_vars

\* A call waits for ever only on a terminated worker, its own request or that
\* of the load it joined.
Stuck(c) == OnDeadWorker(c) \/ (call[c].at = "joining" /\ OnDeadWorker(call[c].joined))
CallsSettle == \A c \in Calls : [](~Idle(c) => <>(call[c].at \in Settled \/ Stuck(c)))

\* "Unload and drop the worker ...; the next ensureLoaded() recreates a fresh
\* worker" (webllm.ts:887): no load is posted to a worker that is gone.
LoadsOntoLiveWorker ==
  [][\A c \in Calls : call[c].at # "reloading" /\ call'[c].at = "reloading" => engine \in live]_vars

\* "WebLLM cannot safely delete artifacts of a loaded model" (webllm.ts:887): a
\* clean retry deletes those of a model that is not loaded.
DeletesUnloaded ==
  \A c \in Calls : call[c].at = "deleting" => ~IsModelLoaded(call[c].model)
=============================================================================

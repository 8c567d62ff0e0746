------------------------ MODULE WebllmSessionProofs ------------------------
(***************************************************************************)
(* Proofs about WebllmSession for any number of calls, whatever each asks  *)
(* for and however they overlap.  A step of a call is classified by what   *)
(* it does to the session's fields and to the requests in the inbox; the   *)
(* invariants are proved of the classes.                                   *)
(***************************************************************************)
EXTENDS WebllmSession, SequenceTheorems, FiniteSetTheorems, TLAPS

Waiting == {"unloading", "releasing", "creating", "reloading"}
Requests == [by : Calls, to : Workers]
Req(c, w) == [by |-> c, to |-> w]
Holdings == [Workers -> Models \cup {None, "broken"}]
Sole(q) == \A i, j \in DOMAIN q : q[i].by = q[j].by => i = j

TypeInv ==
  /\ engine \in Workers \cup {0} /\ worker \in Workers \cup {0}
  /\ loadedModelId \in Models \cup {None} /\ unhealthy \in BOOLEAN
  /\ loadPromise \in Calls \cup {None}
  /\ module \in {"unset", "imported", "failed"}
  /\ call \in [Calls -> Request]
  /\ aborted \subseteq Calls
  /\ live \subseteq Workers /\ spawned \in Workers \cup {0}
  /\ holds \in Holdings
  /\ inbox \in Seq(Requests)

\* A call has one request, exactly while it waits for a worker, and to a worker
\* that was created.
QueueInv ==
  /\ Sole(inbox)
  /\ \A q \in Range(inbox) : call[q.by].at \in Waiting /\ q.to <= spawned
  /\ \A c \in Calls : call[c].at \in Waiting => \E q \in Range(inbox) : q.by = c

\* A call creates its worker, if any, before it gets to one of these points.
Spent == {"creating", "reloading"} \cup Settled

\* Only the current worker may be alive, and no call creates two.
WorkerInv ==
  /\ live \subseteq {worker} /\ live \subseteq 1..spawned
  /\ worker <= spawned /\ engine <= spawned
  /\ spawned <= Cardinality({c \in Calls : call[c].at \in Spent})

\* A healthy session has its model on its current worker; and a load that was
\* posted to the engine's worker finds, while that worker lives, the engine there.
HealthInv ==
  /\ loadedModelId \in Models /\ unhealthy = FALSE =>
       engine = worker /\ worker \in live /\ holds[worker] = loadedModelId
  /\ \A q \in Range(inbox) : call[q.by].at = "reloading" /\ q.to \in live => engine = q.to

\* A call that loads was asked for a model.
Sound(r) == r.op \in Loads => r.model \in Models
CallInv == \A c \in Calls : call[c].at # "idle" =>
             Sound(call[c]) /\ (call[c].at = "sweeping" => call[c].op = "deleteAll")

SessionInv == TypeInv /\ QueueInv /\ WorkerInv /\ HealthInv /\ CallInv /\ LoadPromiseLive

-----------------------------------------------------------------------------
(* The inbox *)

LEMMA RemoveAtFacts ==
  ASSUME NEW S, NEW s \in Seq(S), NEW p \in 1..Len(s)
  PROVE  /\ RemoveAt(s, p) \in Seq(S)
         /\ DOMAIN RemoveAt(s, p) = 1..(Len(s) - 1)
         /\ \A i \in 1..(Len(s) - 1) : RemoveAt(s, p)[i] = IF i < p THEN s[i] ELSE s[i + 1]
  <1>1. Len(s) \in Nat /\ DOMAIN s = 1..Len(s)
    BY LenProperties
  <1>. DEFINE f == SubSeq(s, 1, p - 1)
              b == SubSeq(s, p + 1, Len(s))
  <1>2. f \in Seq(S) /\ Len(f) = p - 1 /\ \A i \in 1..(p - 1) : f[i] = s[i]
    <2>1. 1 \in Int /\ p - 1 \in Int /\ \A i \in 1..(p - 1) : s[i] \in S
      BY <1>1
    <2>2. /\ f \in Seq(S) /\ Len(f) = (IF 1 <= p - 1 THEN p - 1 - 1 + 1 ELSE 0)
          /\ \A i \in 1..(p - 1 - 1 + 1) : f[i] = s[1 + i - 1]
      BY <2>1, SubSeqProperties
    <2>3. p - 1 - 1 + 1 = p - 1 /\ (p - 1 = 0 \/ 1 <= p - 1) /\ \A i \in 1..(p - 1) : 1 + i - 1 = i
      BY <1>1
    <2>. HIDE DEF f
    <2>4. f \in Seq(S) /\ Len(f) = p - 1
      BY <1>1, <2>2, <2>3
    <2>5. \A i \in 1..(p - 1) : f[i] = s[i]
      BY <1>1, <2>2, <2>3
    <2>. QED BY <2>4, <2>5
  <1>3. b \in Seq(S) /\ Len(b) = Len(s) - p /\ \A i \in 1..(Len(s) - p) : b[i] = s[p + i]
    <2>1. p + 1 \in Int /\ Len(s) \in Int /\ \A i \in (p + 1)..Len(s) : s[i] \in S
      BY <1>1
    <2>2. /\ b \in Seq(S) /\ Len(b) = (IF p + 1 <= Len(s) THEN Len(s) - (p + 1) + 1 ELSE 0)
          /\ \A i \in 1..(Len(s) - (p + 1) + 1) : b[i] = s[p + 1 + i - 1]
      BY <2>1, SubSeqProperties
    <2>3. Len(s) - (p + 1) + 1 = Len(s) - p /\ (Len(s) - p = 0 \/ p + 1 <= Len(s))
          /\ \A i \in 1..(Len(s) - p) : p + 1 + i - 1 = p + i
      <3>1. \A n \in Nat : \A m \in 1..n : n - (m + 1) + 1 = n - m /\ (n - m = 0 \/ m + 1 <= n)
        OBVIOUS
      <3>2. \A n \in Nat : \A m \in 1..n : \A i \in 1..(n - m) : m + 1 + i - 1 = m + i
        OBVIOUS
      <3>. QED BY <1>1, <3>1, <3>2
    <2>. HIDE DEF b
    <2>4. b \in Seq(S) /\ Len(b) = Len(s) - p
      <3>1. CASE p + 1 <= Len(s)
        BY <2>2, <2>3, <3>1
      <3>2. CASE ~(p + 1 <= Len(s))
        BY <2>2, <2>3, <3>2
      <3>. QED BY <3>1, <3>2
    <2>5. \A i \in 1..(Len(s) - p) : b[i] = s[p + 1 + i - 1]
      BY <2>2, <2>3
    <2>6. \A i \in 1..(Len(s) - p) : b[i] = s[p + i]
      BY <2>3, <2>5
    <2>. QED BY <2>4, <2>6
  <1>. HIDE DEF f, b
  <1>4. f \o b \in Seq(S) /\ Len(f \o b) = Len(s) - 1
    <2>1. f \o b \in Seq(S) /\ Len(f \o b) = Len(f) + Len(b)
      BY <1>2, <1>3, ConcatProperties
    <2>. QED BY <1>1, <1>2, <1>3, <2>1
  <1>5. \A i \in 1..(Len(s) - 1) : (f \o b)[i] = IF i < p THEN s[i] ELSE s[i + 1]
    <2>1. \A i \in 1..(Len(f) + Len(b)) : (f \o b)[i] = IF i <= Len(f) THEN f[i] ELSE b[i - Len(f)]
      BY <1>2, <1>3, ConcatProperties
    <2>. TAKE i \in 1..(Len(s) - 1)
    <2>2. (f \o b)[i] = IF i <= p - 1 THEN f[i] ELSE b[i - (p - 1)]
      BY <1>1, <1>2, <1>3, <2>1
    <2>3. CASE i < p
      <3>1. i <= p - 1 /\ i \in 1..(p - 1)
        BY <1>1, <2>3
      <3>. QED BY <1>2, <2>2, <2>3, <3>1
    <2>4. CASE ~(i < p)
      <3>1. ~(i <= p - 1) /\ i - (p - 1) \in 1..(Len(s) - p) /\ p + (i - (p - 1)) = i + 1
        BY <1>1, <2>4
      <3>. QED BY <1>3, <2>2, <2>4, <3>1
    <2>. QED BY <2>3, <2>4
  <1>6. RemoveAt(s, p) = f \o b
    BY DEF RemoveAt, f, b
  <1>7. DOMAIN (f \o b) = 1..(Len(s) - 1)
    BY <1>4, LenProperties
  <1>. QED BY <1>4, <1>5, <1>6, <1>7

\* Where a call's request is; a call that has none leaves the inbox as it is.
LEMMA PlaceFacts ==
  ASSUME NEW c, Posted(c)
  PROVE  Place(c) \in DOMAIN inbox /\ inbox[Place(c)].by = c
  BY DEF Posted, Place

\* What is left without the request of c: the requests of the other calls.
LEMMA WithoutFacts ==
  ASSUME inbox \in Seq(Requests), Sole(inbox), NEW c
  PROVE  /\ Without(c) \in Seq(Requests) /\ Sole(Without(c))
         /\ Range(Without(c)) = {q \in Range(inbox) : q.by # c}
  <1>1. Len(inbox) \in Nat /\ DOMAIN inbox = 1..Len(inbox)
    BY LenProperties
  <1>2. CASE ~Posted(c)
    BY <1>2 DEF Posted, Without, Range
  <1>3. CASE Posted(c)
    <2>. PICK p \in 1..Len(inbox) : p = Place(c) /\ inbox[p].by = c
      BY <1>1, <1>3, PlaceFacts
    <2>. PICK w : w = Without(c)
      OBVIOUS
    <2>1. /\ w \in Seq(Requests) /\ DOMAIN w = 1..(Len(inbox) - 1)
          /\ \A i \in 1..(Len(inbox) - 1) : w[i] = IF i < p THEN inbox[i] ELSE inbox[i + 1]
      BY <1>3, RemoveAtFacts DEF Without
    <2>2. \A j \in 1..Len(inbox) : inbox[j].by = c => j = p
      BY <1>1 DEF Sole
    <2>3. \A i \in 1..(Len(inbox) - 1) : \E j \in 1..Len(inbox) :
            j # p /\ j = (IF i < p THEN i ELSE i + 1) /\ w[i] = inbox[j]
      <3>. TAKE i \in 1..(Len(inbox) - 1)
      <3>1. CASE i < p
        <4>1. i \in 1..Len(inbox) /\ i # p
          BY <1>1, <3>1
        <4>. QED BY <2>1, <3>1, <4>1
      <3>2. CASE ~(i < p)
        <4>1. i + 1 \in 1..Len(inbox) /\ i + 1 # p
          BY <1>1, <3>2
        <4>. QED BY <2>1, <3>2, <4>1
      <3>. QED BY <3>1, <3>2
    <2>4. \A j \in 1..Len(inbox) : j # p => \E i \in 1..(Len(inbox) - 1) : w[i] = inbox[j]
      <3>. SUFFICES ASSUME NEW j \in 1..Len(inbox), j # p
           PROVE \E i \in 1..(Len(inbox) - 1) : w[i] = inbox[j]
        OBVIOUS
      <3>1. CASE j < p
        <4>1. j \in 1..(Len(inbox) - 1)
          BY <1>1, <3>1
        <4>. QED BY <2>1, <3>1, <4>1
      <3>2. CASE p < j
        <4>1. j - 1 \in 1..(Len(inbox) - 1) /\ ~(j - 1 < p) /\ j - 1 + 1 = j
          BY <1>1, <3>2
        <4>. QED BY <2>1, <4>1
      <3>. QED BY <1>1, <3>1, <3>2
    <2>5. Sole(w)
      <3>. SUFFICES ASSUME NEW i \in 1..(Len(inbox) - 1), NEW k \in 1..(Len(inbox) - 1), w[i].by = w[k].by
           PROVE  i = k
        BY <2>1 DEF Sole
      <3>1. PICK j \in 1..Len(inbox) : j = (IF i < p THEN i ELSE i + 1) /\ w[i] = inbox[j]
        BY <2>3
      <3>2. PICK l \in 1..Len(inbox) : l = (IF k < p THEN k ELSE k + 1) /\ w[k] = inbox[l]
        BY <2>3
      <3>3. j = l
        BY <1>1, <3>1, <3>2 DEF Sole
      <3>. QED BY <1>1, <3>1, <3>2, <3>3
    <2>6. Range(w) = {q \in Range(inbox) : q.by # c}
      <3>1. ASSUME NEW q \in Range(w) PROVE q \in Range(inbox) /\ q.by # c
        <4>1. PICK i \in 1..(Len(inbox) - 1) : q = w[i]
          BY <2>1 DEF Range
        <4>2. PICK j \in 1..Len(inbox) : j # p /\ q = inbox[j]
          BY <2>3, <4>1
        <4>. QED BY <1>1, <2>2, <4>2 DEF Range
      <3>2. ASSUME NEW q \in Range(inbox), q.by # c PROVE q \in Range(w)
        <4>1. PICK j \in 1..Len(inbox) : q = inbox[j] /\ j # p
          BY <1>1, <3>2 DEF Range
        <4>2. PICK i \in 1..(Len(inbox) - 1) : q = w[i]
          BY <2>4, <4>1
        <4>. QED BY <2>1, <4>2 DEF Range
      <3>. QED BY <3>1, <3>2
    <2>. QED BY <2>1, <2>5, <2>6
  <1>. QED BY <1>2, <1>3

\* A request that is posted by a call without one.
LEMMA AppendFacts ==
  ASSUME NEW s \in Seq(Requests), Sole(s), NEW r \in Requests,
         \A q \in Range(s) : q.by # r.by
  PROVE  /\ Append(s, r) \in Seq(Requests) /\ Sole(Append(s, r))
         /\ Range(Append(s, r)) = Range(s) \cup {r}
  <1>. PICK t : t = Append(s, r)
    OBVIOUS
  <1>1. Len(s) \in Nat /\ DOMAIN s = 1..Len(s)
    BY LenProperties
  <1>2. t \in Seq(Requests) /\ Len(t) = Len(s) + 1
    BY AppendProperties
  <1>3. \A i \in 1..Len(s) : t[i] = s[i]
    BY AppendProperties
  <1>4. t[Len(s) + 1] = r
    BY AppendProperties
  <1>5. DOMAIN t = 1..Len(s) \cup {Len(s) + 1}
    BY <1>1, <1>2, LenProperties
  <1>6. \A i \in 1..Len(s) : s[i].by # r.by
    BY <1>1 DEF Range
  <1>7. Sole(t)
    BY <1>1, <1>3, <1>4, <1>5, <1>6 DEF Sole
  <1>8. Range(t) = Range(s) \cup {r}
    BY <1>1, <1>3, <1>4, <1>5 DEF Range
  <1>. QED BY <1>2, <1>7, <1>8

-----------------------------------------------------------------------------
(* The steps by what they do to the fields and the inbox *)

\* The call c gets to r; the shared promise is cleared, made c's own or left alone.
Moves(c, r) ==
  /\ call' = [call EXCEPT ![c] = r]
  /\ r.at # "idle" /\ Sound(r) /\ (r.at = "sweeping" => r.op = "deleteAll")
  /\ call[c].at \in Spent => r.at \in Spent
  /\ \/ loadPromise' = None
     \/ loadPromise' = c /\ r.at \in Loading
     \/ loadPromise' = loadPromise /\ (call[c].at \in Loading => r.at \in Loading)
  /\ aborted' \subseteq Calls /\ module' \in {"unset", "imported", "failed"}

\* No worker is involved.
Quiet(c, r) ==
  /\ Moves(c, r) /\ r.at \notin Waiting
  /\ r.at = "resolved" /\ r.op \in Loads => IsModelLoaded(r.model)
  /\ inbox' = Without(c) /\ UNCHANGED <<fields, live, spawned, holds>>

\* A request is posted to the engine's worker.
Posts(c, r) ==
  /\ Moves(c, r) /\ r.at \in {"unloading", "releasing", "reloading"}
  /\ engine \in Workers /\ inbox' = Append(Without(c), Req(c, engine))
  /\ UNCHANGED <<fields, live, spawned, holds>>

\* The session has no model any more, and a new engine is asked for.
Creates(c, r) ==
  /\ Moves(c, r) /\ r.at = "creating" /\ call[c].at \notin Spent
  /\ loadedModelId' = None /\ unhealthy' = FALSE /\ engine' = engine /\ holds' \in Holdings
  /\ IF worker # 0
       THEN UNCHANGED <<worker, live, spawned>>
       ELSE worker' = spawned + 1 /\ live' = live \cup {spawned + 1} /\ spawned' = spawned + 1
  /\ inbox' = Append(Without(c), Req(c, worker'))

\* The session has no model any more, and perhaps no worker.
Frees(c, r) ==
  /\ Moves(c, r) /\ r.at \notin Waiting /\ ~(r.at = "resolved" /\ r.op \in Loads)
  /\ loadedModelId' = None /\ unhealthy' \in BOOLEAN /\ holds' \in Holdings /\ spawned' = spawned
  /\ \/ UNCHANGED <<engine, worker, live>>
     \/ worker' = 0 /\ live' = live \ {worker} /\ engine' \in {engine, 0}
  /\ inbox' = Without(c)

\* A live worker has loaded the model of c.
Returns(c, r) ==
  /\ Moves(c, r) /\ call[c].at \in {"creating", "reloading"} /\ r.at \in Settled
  /\ \E q \in Range(inbox) :
       /\ q.by = c /\ q.to \in live
       /\ holds' = [holds EXCEPT ![q.to] = r.model]
       /\ engine' = IF call[c].at = "creating" THEN q.to ELSE engine
  /\ loadedModelId' = r.model /\ unhealthy' \in BOOLEAN
  /\ inbox' = Without(c) /\ UNCHANGED <<worker, live, spawned>>

\* The load of c has failed.
Fails(c, r) ==
  /\ Moves(c, r) /\ r.at = "rejected" /\ unhealthy' = TRUE /\ holds' \in Holdings
  /\ inbox' = Without(c) /\ UNCHANGED <<engine, worker, loadedModelId, live, spawned>>

\* Nothing but a signal changes.
Still == aborted' \subseteq Calls /\ UNCHANGED <<fields, loadPromise, module, call, external>>

Kinds(c, r) == Quiet(c, r) \/ Posts(c, r) \/ Creates(c, r) \/ Frees(c, r) \/ Returns(c, r) \/ Fails(c, r)

LEMMA AtFields ==
  ASSUME NEW r \in Request, NEW where \in Points
  PROVE  /\ At(r, where) \in Request /\ At(r, where).at = where
         /\ At(r, where).op = r.op /\ At(r, where).model = r.model
  BY DEF At, Request

LEMMA AskingFields ==
  ASSUME NEW op \in Ops, NEW m \in Models \cup {None}
  PROVE  Asking(op, m) \in Request /\ Asking(op, m).op = op /\ Asking(op, m).model = m
  BY DEF Asking, NoCall, Request, Points

\* A call that waits for no worker has no request to take out of the inbox.
LEMMA NotPosted ==
  ASSUME TypeInv, QueueInv, NEW c \in Calls, call[c].at \notin Waiting
  PROVE  Without(c) = inbox
  <1>1. ~Posted(c)
    BY DEF Posted, QueueInv, Range
  <1>. QED BY <1>1 DEF Without

\* What a call that is to load goes on with when it has found no model loaded.
LEMMA LoadMoves ==
  ASSUME TypeInv, NEW c \in Calls, NEW request \in Request, Sound(request),
         Load(c, request), call[c].at \notin Spent,
         aborted' \subseteq Calls, module' \in {"unset", "imported", "failed"}
  PROVE  \E r \in Request : Moves(c, r) /\ r.at \in {"refused", "importing"}
  <1>. DEFINE where == IF c \in aborted THEN "refused" ELSE "importing"
              r == At(request, where)
  <1>1. where \in {"refused", "importing"} /\ where \in Points
    BY DEF Points, Loading
  <1>2. r \in Request /\ r.at = where /\ r.op = request.op /\ r.model = request.model
    BY <1>1, AtFields
  <1>3. call' = [call EXCEPT ![c] = r] /\ loadPromise' = c
    BY DEF Load, Becomes
  <1>. HIDE DEF r, where
  <1>4. Moves(c, r)
    BY <1>1, <1>2, <1>3 DEF Moves, Sound, Loading
  <1>. QED BY <1>1, <1>2, <1>4

LEMMA JoinOrLoadMoves ==
  ASSUME TypeInv, NEW c \in Calls, NEW request \in Request, Sound(request),
         JoinOrLoad(c, request), call[c].at \notin Spent \cup Loading,
         aborted' \subseteq Calls, module' \in {"unset", "imported", "failed"}
  PROVE  \E r \in Request : Moves(c, r) /\ r.at \in {"joining", "refused", "importing"}
  <1>1. CASE Load(c, request)
    BY <1>1, LoadMoves
  <1>2. CASE loadPromise # None /\ Becomes(c, [request EXCEPT !.at = "joining", !.joined = loadPromise])
             /\ loadPromise' = loadPromise
    <2>. DEFINE r == [request EXCEPT !.at = "joining", !.joined = loadPromise]
    <2>1. r \in Request /\ r.at = "joining" /\ r.op = request.op /\ r.model = request.model
      BY <1>2 DEF TypeInv, Request, Points
    <2>2. call' = [call EXCEPT ![c] = r] /\ loadPromise' = loadPromise
      BY <1>2 DEF Becomes
    <2>. HIDE DEF r
    <2>3. Moves(c, r)
      BY <2>1, <2>2 DEF Moves, Sound
    <2>. QED BY <2>1, <2>3
  <1>. QED BY <1>1, <1>2 DEF JoinOrLoad

\* What a call goes on with when there is nothing (more) to unload.
LEMMA UnloadedKinds ==
  ASSUME TypeInv, QueueInv, NEW c \in Calls, NEW request \in Request, Sound(request),
         Unloaded(c, request), call[c].at \notin Spent,
         call[c].at \in Loading => request.at = "releasing",
         aborted' \subseteq Calls, module' \in {"unset", "imported", "failed"}, holds' \in Holdings
  PROVE  \E r \in Request : Kinds(c, r)
  <1>0. loadedModelId' = None
    BY DEF Unloaded
  <1>1. CASE CreateEngine(c, request) /\ engine' = engine
    <2>1. CASE worker = 0 /\ unhealthy' = TRUE /\ inbox' = Without(c)
               /\ Becomes(c, At(request, "rejected")) /\ loadPromise' = None
               /\ UNCHANGED <<worker, live, spawned>>
      <3>. DEFINE r == At(request, "rejected")
      <3>1. r \in Request /\ r.at = "rejected" /\ r.op = request.op /\ r.model = request.model
        BY AtFields DEF Points, Settled
      <3>2. call' = [call EXCEPT ![c] = r]
        BY <2>1 DEF Becomes
      <3>. HIDE DEF r
      <3>3. Moves(c, r)
        BY <2>1, <3>1, <3>2 DEF Moves, Sound
      <3>4. Frees(c, r)
        BY <1>0, <1>1, <2>1, <3>1, <3>3 DEF Frees, Waiting
      <3>. QED BY <3>1, <3>4 DEF Kinds
    <2>2. CASE /\ IF worker # 0
                    THEN UNCHANGED <<worker, live, spawned>>
                    ELSE worker' = spawned + 1 /\ live' = live \cup {spawned + 1} /\ spawned' = spawned + 1
               /\ inbox' = Append(Without(c), [by |-> c, to |-> worker'])
               /\ unhealthy' = FALSE
               /\ Becomes(c, At(request, "creating"))
               /\ UNCHANGED loadPromise
      <3>. DEFINE r == At(request, "creating")
      <3>1. r \in Request /\ r.at = "creating" /\ r.op = request.op /\ r.model = request.model
        BY AtFields DEF Points, Loading
      <3>2. call' = [call EXCEPT ![c] = r]
        BY <2>2 DEF Becomes
      <3>. HIDE DEF r
      <3>3. Moves(c, r)
        BY <2>2, <3>1, <3>2 DEF Moves, Sound, Loading
      <3>4. Creates(c, r)
        BY <1>0, <1>1, <2>2, <3>1, <3>3 DEF Creates, Req
      <3>. QED BY <3>1, <3>4 DEF Kinds
    <2>. QED BY <1>1, <2>1, <2>2 DEF CreateEngine
  <1>2. CASE /\ request.at = "unloading" /\ request.op = "switchModel"
             /\ unhealthy' = FALSE /\ inbox' = Without(c) /\ JoinOrLoad(c, request)
             /\ UNCHANGED <<engine, worker, live, spawned>>
    <2>1. call[c].at \notin Spent \cup Loading
      BY <1>2
    <2>2. PICK r \in Request : Moves(c, r) /\ r.at \in {"joining", "refused", "importing"}
      BY <1>2, <2>1, JoinOrLoadMoves
    <2>3. Frees(c, r)
      BY <1>0, <1>2, <2>2 DEF Frees, Waiting
    <2>. QED BY <2>3 DEF Kinds
  <1>3. CASE /\ request.at = "unloading" /\ request.op \in {"clean", "fresh"}
             /\ DropWorker(c) /\ unhealthy' = TRUE /\ Load(c, request) /\ UNCHANGED engine
    <2>1. PICK r \in Request : Moves(c, r) /\ r.at \in {"refused", "importing"}
      BY <1>3, LoadMoves
    <2>2. Frees(c, r)
      BY <1>0, <1>3, <2>1 DEF Frees, Waiting, DropWorker
    <2>. QED BY <2>2 DEF Kinds
  <1>4. CASE /\ request.at = "unloading" /\ request.op = "deleteAll"
             /\ DropWorker(c) /\ unhealthy' = TRUE /\ Becomes(c, At(request, "sweeping"))
             /\ UNCHANGED <<engine, loadPromise>>
    <2>. DEFINE r == At(request, "sweeping")
    <2>1. r \in Request /\ r.at = "sweeping" /\ r.op = request.op /\ r.model = request.model
      BY AtFields DEF Points
    <2>2. call' = [call EXCEPT ![c] = r] /\ loadPromise' = loadPromise
      BY <1>4 DEF Becomes
    <2>. HIDE DEF r
    <2>3. Moves(c, r)
      BY <1>4, <2>1, <2>2 DEF Moves, Sound
    <2>4. Frees(c, r)
      BY <1>0, <1>4, <2>1, <2>3 DEF Frees, Waiting, DropWorker
    <2>. QED BY <2>1, <2>4 DEF Kinds
  <1>5. CASE /\ request.at = "unloading" /\ request.op = "dispose"
             /\ DropWorker(c) /\ unhealthy' = FALSE /\ engine' = 0
             /\ Becomes(c, At(request, "resolved")) /\ UNCHANGED loadPromise
    <2>. DEFINE r == At(request, "resolved")
    <2>1. r \in Request /\ r.at = "resolved" /\ r.op = "dispose" /\ r.op = request.op /\ r.model = request.model
      BY <1>5, AtFields DEF Points, Settled
    <2>2. call' = [call EXCEPT ![c] = r] /\ loadPromise' = loadPromise
      BY <1>5 DEF Becomes
    <2>. HIDE DEF r
    <2>3. Moves(c, r)
      BY <1>5, <2>1, <2>2 DEF Moves, Sound
    <2>4. Frees(c, r)
      BY <1>0, <1>5, <2>1, <2>3 DEF Frees, Waiting, DropWorker, Loads
    <2>. QED BY <2>1, <2>4 DEF Kinds
  <1>. QED BY <1>1, <1>2, <1>3, <1>4, <1>5 DEF Unloaded

\* A call that wants the model unloaded first.
LEMMA UnloadKinds ==
  ASSUME TypeInv, QueueInv, NEW c \in Calls, NEW request \in Request, Sound(request),
         Unload(c, request), call[c].at \notin Spent \cup Waiting,
         request.at \in {"unloading", "releasing"},
         call[c].at \in Loading => request.at = "releasing",
         aborted' \subseteq Calls, module' \in {"unset", "imported", "failed"}
  PROVE  \E r \in Request : Kinds(c, r)
  <1>1. CASE engine = 0 /\ Unloaded(c, request) /\ holds' = holds
    <2>1. holds' \in Holdings
      BY <1>1 DEF TypeInv
    <2>. QED BY <1>1, <2>1, UnloadedKinds
  <1>2. CASE /\ engine # 0 /\ Becomes(c, request)
             /\ inbox' = Append(inbox, [by |-> c, to |-> engine])
             /\ UNCHANGED <<fields, loadPromise, live, spawned, holds>>
    <2>1. Moves(c, request)
      BY <1>2 DEF Moves, Becomes, Loading
    <2>2. engine \in Workers /\ Without(c) = inbox
      BY <1>2, NotPosted DEF TypeInv
    <2>3. Posts(c, request)
      BY <1>2, <2>1, <2>2 DEF Posts, Req
    <2>. QED BY <2>3 DEF Kinds
  <1>. QED BY <1>1, <1>2 DEF Unload

\* A load that settles.
LEMMA EndMoves ==
  ASSUME TypeInv, NEW c \in Calls, NEW how \in Settled, End(c, how), Sound(call[c]),
         aborted' \subseteq Calls, module' \in {"unset", "imported", "failed"}
  PROVE  \E r \in Request : Moves(c, r) /\ r.at = how /\ r.op = call[c].op /\ r.model = call[c].model
  <1>. DEFINE r == At(call[c], how)
  <1>1. call[c] \in Request /\ how \in Points
    BY DEF TypeInv, Points
  <1>2. r \in Request /\ r.at = how /\ r.op = call[c].op /\ r.model = call[c].model
    BY <1>1, AtFields
  <1>3. call' = [call EXCEPT ![c] = r] /\ loadPromise' = None
    BY DEF End, Becomes
  <1>. HIDE DEF r
  <1>4. Moves(c, r)
    BY <1>2, <1>3 DEF Moves, Sound, Settled, Spent
  <1>. QED BY <1>2, <1>4

\* A call that begins.
LEMMA BeginKinds ==
  ASSUME TypeInv, QueueInv, NEW c \in Calls, Idle(c),
         \/ \E m \in Models : \/ EnsureLoaded(c, m) \/ SwitchModel(c, m) \/ RetryLoad(c, m)
                             \/ RetryFresh(c, m) \/ RetryClean(c, m)
         \/ DeleteAll(c) \/ Dispose(c)
  PROVE  \E r \in Request : Kinds(c, r)
  <1>1. call[c].at \notin Spent \cup Waiting \cup Loading
    BY DEF Idle, Spent, Waiting, Loading, Settled
  <1>2. Without(c) = inbox
    BY <1>1, NotPosted
  <1>3. ASSUME aborted' = aborted PROVE aborted' \subseteq Calls
    BY <1>3 DEF TypeInv
  <1>4. ASSUME module' = module PROVE module' \in {"unset", "imported", "failed"}
    BY <1>4 DEF TypeInv
  <1>5. ASSUME NEW op \in Ops, NEW model \in Models \cup {None}, NEW where \in Points,
               op \in Loads => model \in Models,
               Becomes(c, At(Asking(op, model), where)),
               where \in {"resolved", "deleting", "listing"},
               where = "resolved" /\ op \in Loads => IsModelLoaded(model),
               UNCHANGED <<fields, loadPromise, module, aborted, external>>
        PROVE  \E r \in Request : Kinds(c, r)
    <2>. DEFINE r == At(Asking(op, model), where)
    <2>1. r \in Request /\ r.at = where /\ r.op = op /\ r.model = model
      BY AskingFields, AtFields
    <2>2. call' = [call EXCEPT ![c] = r]
      BY <1>5 DEF Becomes
    <2>. HIDE DEF r
    <2>3. Moves(c, r)
      BY <1>1, <1>3, <1>4, <1>5, <2>1, <2>2 DEF Moves, Sound
    <2>4. Quiet(c, r)
      BY <1>2, <1>5, <2>1, <2>3 DEF Quiet, Waiting, external
    <2>. QED BY <2>1, <2>4 DEF Kinds
  <1>6. ASSUME NEW op \in Loads, NEW m \in Models, FastPath(c, op, m), UNCHANGED <<module, aborted>>
        PROVE  \E r \in Request : Kinds(c, r)
    BY <1>5, <1>6 DEF FastPath, Ops, Points, Settled
  <1>7. ASSUME NEW op \in Loads, NEW m \in Models, JoinOrLoad(c, Asking(op, m)),
               UNCHANGED <<fields, external, module, aborted>>
        PROVE  \E r \in Request : Kinds(c, r)
    <2>1. Asking(op, m) \in Request /\ Sound(Asking(op, m))
      BY AskingFields DEF Ops, Sound
    <2>2. PICK r \in Request : Moves(c, r) /\ r.at \in {"joining", "refused", "importing"}
      BY <1>1, <1>3, <1>4, <1>7, <2>1, JoinOrLoadMoves
    <2>3. Quiet(c, r)
      BY <1>2, <1>7, <2>2 DEF Quiet, Waiting, external
    <2>. QED BY <2>3 DEF Kinds
  <1>8. ASSUME NEW op \in Ops, NEW model \in Models \cup {None}, op \in Loads => model \in Models,
               Unload(c, At(Asking(op, model), "unloading")), UNCHANGED <<module, aborted>>
        PROVE  \E r \in Request : Kinds(c, r)
    <2>1. "unloading" \in Points
      BY DEF Points
    <2>2. /\ At(Asking(op, model), "unloading") \in Request
          /\ At(Asking(op, model), "unloading").at = "unloading"
          /\ Sound(At(Asking(op, model), "unloading"))
      BY <1>8, <2>1, AskingFields, AtFields DEF Sound
    <2>. QED BY <1>1, <1>3, <1>4, <1>8, <2>2, UnloadKinds
  <1>9. ASSUME NEW m \in Models, EnsureLoaded(c, m) PROVE \E r \in Request : Kinds(c, r)
    BY <1>6, <1>7, <1>9 DEF EnsureLoaded, Loads
  <1>10. ASSUME NEW m \in Models, SwitchModel(c, m) PROVE \E r \in Request : Kinds(c, r)
    BY <1>6, <1>8, <1>10 DEF SwitchModel, Loads, Ops
  <1>11. ASSUME NEW m \in Models, RetryLoad(c, m) PROVE \E r \in Request : Kinds(c, r)
    BY <1>7, <1>11 DEF RetryLoad, Loads
  <1>12. ASSUME NEW m \in Models, RetryFresh(c, m) PROVE \E r \in Request : Kinds(c, r)
    BY <1>8, <1>12 DEF RetryFresh, Loads, Ops
  <1>13. ASSUME NEW m \in Models, RetryClean(c, m) PROVE \E r \in Request : Kinds(c, r)
    BY <1>5, <1>13 DEF RetryClean, Loads, Ops, Points
  <1>14. CASE DeleteAll(c)
    BY <1>5, <1>14 DEF DeleteAll, Loads, Ops, Points
  <1>15. CASE Dispose(c)
    BY <1>8, <1>15 DEF Dispose, Loads, Ops
  <1>. QED BY <1>9, <1>10, <1>11, <1>12, <1>13, <1>14, <1>15

\* A call that resumes.
LEMMA ResumeKinds ==
  ASSUME TypeInv, QueueInv, CallInv, NEW c \in Calls, Resume(c)
  PROVE  \E r \in Request : Kinds(c, r)
  <1>0. /\ call[c] \in Request /\ aborted \subseteq Calls /\ holds \in Holdings /\ unhealthy \in BOOLEAN
        /\ module \in {"unset", "imported", "failed"}
    BY DEF TypeInv
  <1>1. call[c].at # "idle" => Sound(call[c])
    BY DEF CallInv
  <1>2. \A how \in {"imported", "failed"} : Import(how) => module' \in {"unset", "imported", "failed"}
    BY DEF Import
  <1>3. CASE Refused(c) \/ ImportFails(c)
    <2>1. End(c, "rejected") /\ call[c].at \in {"refused", "importing"} /\ Sound(call[c])
      BY <1>1, <1>3 DEF Refused, ImportFails
    <2>2. aborted' \subseteq Calls /\ module' \in {"unset", "imported", "failed"}
      BY <1>0, <1>2, <1>3 DEF Refused, ImportFails
    <2>3. PICK r \in Request : Moves(c, r) /\ r.at = "rejected"
      BY <2>1, <2>2, EndMoves DEF Settled
    <2>4. Without(c) = inbox
      BY <2>1, NotPosted DEF Waiting
    <2>5. Quiet(c, r)
      BY <1>3, <2>3, <2>4 DEF Quiet, Waiting, Refused, ImportFails, external
    <2>. QED BY <2>5 DEF Kinds
  <1>4. CASE ImportReturns(c)
    <2>0. call[c].at = "importing" /\ Sound(call[c]) /\ aborted' \subseteq Calls
          /\ module' \in {"unset", "imported", "failed"}
      BY <1>0, <1>1, <1>2, <1>4 DEF ImportReturns
    <2>1. CASE Unload(c, At(call[c], "releasing"))
      <3>1. "releasing" \in Points
        BY DEF Points, Loading
      <3>2. /\ At(call[c], "releasing") \in Request /\ At(call[c], "releasing").at = "releasing"
            /\ Sound(At(call[c], "releasing"))
        BY <1>0, <2>0, <3>1, AtFields DEF Sound
      <3>3. call[c].at \notin Spent \cup Waiting
        BY <2>0 DEF Spent, Waiting, Settled
      <3>. QED BY <2>0, <2>1, <3>2, <3>3, UnloadKinds
    <2>2. CASE /\ ~unhealthy /\ engine # 0
               /\ Becomes(c, At(call[c], "reloading"))
               /\ inbox' = Append(inbox, [by |-> c, to |-> engine])
               /\ UNCHANGED <<fields, loadPromise, live, spawned, holds>>
      <3>. DEFINE r == At(call[c], "reloading")
      <3>1. "reloading" \in Points
        BY DEF Points, Loading
      <3>2. r \in Request /\ r.at = "reloading" /\ r.op = call[c].op /\ r.model = call[c].model
        BY <1>0, <3>1, AtFields
      <3>3. call' = [call EXCEPT ![c] = r] /\ loadPromise' = loadPromise
        BY <2>2 DEF Becomes
      <3>. HIDE DEF r
      <3>4. Moves(c, r)
        BY <2>0, <3>2, <3>3 DEF Moves, Sound, Loading, Spent
      <3>5. engine \in Workers /\ Without(c) = inbox
        BY <2>0, <2>2, NotPosted DEF TypeInv, Waiting
      <3>6. Posts(c, r)
        BY <2>2, <3>2, <3>4, <3>5 DEF Posts, Req
      <3>. QED BY <3>2, <3>6 DEF Kinds
    <2>. QED BY <1>4, <2>1, <2>2 DEF ImportReturns
  <1>5. CASE ArtifactsDeleted(c) \/ (ModelsListed(c) /\ Unload(c, At(call[c], "unloading")))
    <2>0. /\ call[c].at \in {"deleting", "listing"} /\ Sound(call[c]) /\ aborted' \subseteq Calls
          /\ module' \in {"unset", "imported", "failed"}
          /\ Unload(c, At(call[c], "unloading"))
      BY <1>0, <1>1, <1>2, <1>5 DEF ArtifactsDeleted, ModelsListed
    <2>1. "unloading" \in Points
      BY DEF Points
    <2>2. /\ At(call[c], "unloading") \in Request /\ At(call[c], "unloading").at = "unloading"
          /\ Sound(At(call[c], "unloading"))
      BY <1>0, <2>0, <2>1, AtFields DEF Sound
    <2>3. call[c].at \notin Spent \cup Waiting \cup Loading
      BY <2>0 DEF Spent, Waiting, Settled, Loading
    <2>. QED BY <2>0, <2>2, <2>3, UnloadKinds
  <1>6. ASSUME NEW where \in Settled, Becomes(c, At(call[c], where)), call[c].at \in {"listing", "sweeping", "joining"},
               where = "resolved" /\ call[c].op \in Loads => IsModelLoaded(call[c].model),
               UNCHANGED <<fields, loadPromise, aborted, external>>, module' \in {"unset", "imported", "failed"}
        PROVE  \E r \in Request : Kinds(c, r)
    <2>. DEFINE r == At(call[c], where)
    <2>1. r \in Request /\ r.at = where /\ r.op = call[c].op /\ r.model = call[c].model
      BY <1>0, AtFields DEF Points
    <2>2. call' = [call EXCEPT ![c] = r]
      BY <1>6 DEF Becomes
    <2>3. Sound(call[c])
      BY <1>1, <1>6
    <2>4. Without(c) = inbox
      BY <1>6, NotPosted DEF Waiting
    <2>. HIDE DEF r
    <2>5. Moves(c, r)
      BY <1>0, <1>6, <2>1, <2>2, <2>3 DEF Moves, Sound, Settled, Spent, Loading
    <2>6. Quiet(c, r)
      BY <1>6, <2>1, <2>4, <2>5 DEF Quiet, Waiting, Settled, external
    <2>. QED BY <2>1, <2>6 DEF Kinds
  <1>7. CASE ModelsListed(c) /\ Becomes(c, At(call[c], "rejected")) /\ Import("failed")
             /\ UNCHANGED <<fields, loadPromise, external>>
    BY <1>2, <1>6, <1>7 DEF ModelsListed, Settled
  <1>8. CASE Swept(c)
    <2>1. call[c].op = "deleteAll" /\ call[c].at = "sweeping"
      BY <1>8 DEF Swept, CallInv
    <2>. QED BY <1>0, <1>6, <1>8, <2>1 DEF Swept, Settled, Loads
  <1>9. CASE JoinedRejects(c)
    BY <1>0, <1>6, <1>9 DEF JoinedRejects, Settled
  <1>10. CASE JoinedResolves(c)
    <2>1. CASE IsModelLoaded(call[c].model) /\ Becomes(c, At(call[c], "resolved")) /\ UNCHANGED loadPromise
      BY <1>0, <1>6, <1>10, <2>1 DEF JoinedResolves, Settled
    <2>2. CASE Load(c, call[c])
      <3>1. call[c].at = "joining" /\ Sound(call[c]) /\ aborted' \subseteq Calls
            /\ module' \in {"unset", "imported", "failed"}
        BY <1>0, <1>1, <1>10 DEF JoinedResolves
      <3>2. PICK r \in Request : Moves(c, r) /\ r.at \in {"refused", "importing"}
        BY <1>0, <2>2, <3>1, LoadMoves DEF Spent, Settled
      <3>3. Without(c) = inbox
        BY <3>1, NotPosted DEF Waiting
      <3>4. Quiet(c, r)
        BY <1>10, <3>2, <3>3 DEF Quiet, Waiting, JoinedResolves, external
      <3>. QED BY <3>4 DEF Kinds
    <2>. QED BY <1>10, <2>1, <2>2 DEF JoinedResolves
  <1>11. ASSUME NEW what \in Models \cup {None, "broken"}, Answered(c, what)
         PROVE  /\ holds' \in Holdings
                /\ \E q \in Range(inbox) : q.by = c /\ q.to \in live /\ holds' = [holds EXCEPT ![q.to] = what]
    <2>1. Place(c) \in DOMAIN inbox /\ inbox[Place(c)].by = c
      BY <1>11, PlaceFacts DEF Answered
    <2>2. holds' = [holds EXCEPT ![inbox[Place(c)].to] = what] /\ inbox[Place(c)].to \in live
      BY <1>11 DEF Answered, Target
    <2>3. holds' \in Holdings
      BY <1>0, <2>2 DEF Holdings
    <2>. QED BY <2>1, <2>2, <2>3 DEF Range
  <1>12. CASE UnloadReturns(c)
    <2>1. holds' \in Holdings
      BY <1>0, <1>11, <1>12 DEF UnloadReturns, Dropped
    <2>2. call[c].at \in {"unloading", "releasing"} /\ Sound(call[c]) /\ Unloaded(c, call[c])
      BY <1>1, <1>12 DEF UnloadReturns
    <2>3. call[c].at \notin Spent /\ (call[c].at \in Loading => call[c].at = "releasing")
      BY <2>2 DEF Spent, Settled, Loading
    <2>4. aborted' \subseteq Calls /\ module' \in {"unset", "imported", "failed"}
      BY <1>0, <1>12 DEF UnloadReturns
    <2>. QED BY <1>0, <2>1, <2>2, <2>3, <2>4, UnloadedKinds
  <1>13. CASE LoadReturns(c)
    <2>1. /\ call[c].at \in {"creating", "reloading"} /\ Sound(call[c])
          /\ aborted' \subseteq Calls /\ module' \in {"unset", "imported", "failed"}
          /\ Answered(c, call[c].model) /\ call[c].model \in Models \cup {None}
          /\ engine' = IF call[c].at = "creating" THEN Target(c) ELSE engine
      BY <1>0, <1>1, <1>13 DEF LoadReturns, Request
    <2>2. PICK how \in Settled : End(c, how)
      BY <1>13 DEF LoadReturns, Settled
    <2>3. PICK r \in Request : Moves(c, r) /\ r.at = how /\ r.op = call[c].op /\ r.model = call[c].model
      BY <2>1, <2>2, EndMoves
    <2>4. Place(c) \in DOMAIN inbox /\ inbox[Place(c)].by = c
      BY <2>1, PlaceFacts DEF Answered
    <2>5. /\ holds' = [holds EXCEPT ![inbox[Place(c)].to] = r.model] /\ inbox[Place(c)].to \in live
          /\ inbox[Place(c)] \in Range(inbox)
          /\ engine' = IF call[c].at = "creating" THEN inbox[Place(c)].to ELSE engine
      BY <2>1, <2>3, <2>4 DEF Answered, Target, Range
    <2>6. unhealthy' \in BOOLEAN
      BY <1>13 DEF LoadReturns
    <2>7. loadedModelId' = r.model /\ inbox' = Without(c) /\ UNCHANGED <<worker, live, spawned>>
      BY <1>13, <2>3 DEF LoadReturns
    <2>8. Returns(c, r)
      BY <2>1, <2>3, <2>4, <2>5, <2>6, <2>7 DEF Returns
    <2>. QED BY <2>8 DEF Kinds
  <1>14. CASE LoadFails(c)
    <2>1. call[c].at \in {"creating", "reloading"} /\ Sound(call[c]) /\ End(c, "rejected")
          /\ aborted' \subseteq Calls /\ module' \in {"unset", "imported", "failed"}
      BY <1>0, <1>1, <1>14 DEF LoadFails
    <2>2. PICK r \in Request : Moves(c, r) /\ r.at = "rejected"
      BY <2>1, EndMoves DEF Settled
    <2>3. holds' \in Holdings
      BY <1>0, <1>11, <1>14 DEF LoadFails, Dropped
    <2>4. Fails(c, r)
      BY <1>14, <2>2, <2>3 DEF Fails, LoadFails
    <2>. QED BY <2>4 DEF Kinds
  <1>. QED BY <1>3, <1>4, <1>5, <1>7, <1>8, <1>9, <1>10, <1>12, <1>13, <1>14 DEF Resume, ModelsListed

LEMMA StepKinds ==
  ASSUME SessionInv, [Next]_vars
  PROVE  Still \/ \E c \in Calls, r \in Request : Kinds(c, r)
  <1>1. CASE UNCHANGED vars
    BY <1>1 DEF Still, vars, SessionInv, TypeInv
  <1>2. ASSUME NEW c \in Calls, Abort(c) PROVE Still
    BY <1>2 DEF Abort, Still, SessionInv, TypeInv
  <1>3. ASSUME NEW c \in Calls, NEW m \in Models,
               \/ EnsureLoaded(c, m) \/ SwitchModel(c, m) \/ RetryLoad(c, m) \/ RetryFresh(c, m) \/ RetryClean(c, m)
        PROVE  \E r \in Request : Kinds(c, r)
    <2>1. Idle(c)
      BY <1>3 DEF EnsureLoaded, SwitchModel, RetryLoad, RetryFresh, RetryClean, MayAsk
    <2>. QED BY <1>3, <2>1, BeginKinds DEF SessionInv
  <1>4. ASSUME NEW c \in Calls, DeleteAll(c) \/ Dispose(c)
        PROVE  \E r \in Request : Kinds(c, r)
    <2>1. Idle(c)
      BY <1>4 DEF DeleteAll, Dispose, MayAsk
    <2>. QED BY <1>4, <2>1, BeginKinds DEF SessionInv
  <1>5. ASSUME NEW c \in Calls, Resume(c)
        PROVE  \E r \in Request : Kinds(c, r)
    BY <1>5, ResumeKinds DEF SessionInv
  <1>. QED BY <1>1, <1>2, <1>3, <1>4, <1>5 DEF Next

-----------------------------------------------------------------------------
(* The invariant *)

LEMMA SessionInit == Init => SessionInv
  <1>. SUFFICES ASSUME Init PROVE SessionInv
    OBVIOUS
  <1>1. /\ call \in [Calls -> Request] /\ \A c \in Calls : call[c].at = "idle"
    BY DEF Init, NoCall, Request, Points
  <1>2. inbox \in Seq(Requests) /\ DOMAIN inbox = {} /\ Range(inbox) = {}
    BY DEF Init, Range
  <1>3. {c \in Calls : call[c].at \in Spent} = {}
    BY <1>1 DEF Spent, Settled
  <1>4. Cardinality({c \in Calls : call[c].at \in Spent}) = 0
    BY <1>3, FS_EmptySet
  <1>5. TypeInv
    BY <1>1, <1>2 DEF Init, TypeInv, Holdings
  <1>6. QueueInv
    BY <1>1, <1>2 DEF QueueInv, Sole, Waiting
  <1>7. WorkerInv
    BY <1>4 DEF Init, WorkerInv
  <1>8. HealthInv
    BY <1>2, CallsAssumption DEF Init, HealthInv
  <1>9. CallInv /\ LoadPromiseLive
    BY <1>1 DEF Init, CallInv, LoadPromiseLive
  <1>. QED BY <1>5, <1>6, <1>7, <1>8, <1>9 DEF SessionInv

\* Only the call that moves changes its place.
LEMMA MovesFields ==
  ASSUME TypeInv, NEW c \in Calls, NEW r \in Request, Moves(c, r)
  PROVE  /\ call' \in [Calls -> Request] /\ call'[c] = r
         /\ \A d \in Calls \ {c} : call'[d] = call[d]
  BY DEF Moves, TypeInv

LEMMA CallNext ==
  ASSUME SessionInv, NEW c \in Calls, NEW r \in Request, Moves(c, r)
  PROVE  CallInv' /\ LoadPromiseLive'
  <1>1. /\ call'[c] = r /\ \A d \in Calls \ {c} : call'[d] = call[d]
        /\ loadPromise \in Calls \cup {None}
    BY MovesFields DEF SessionInv, TypeInv
  <1>2. CallInv'
    BY <1>1 DEF SessionInv, CallInv, Moves
  <1>3. LoadPromiseLive'
    BY <1>1 DEF SessionInv, LoadPromiseLive, Moves
  <1>. QED BY <1>2, <1>3

\* There is room for one more worker as long as a call has not had its own, and
\* the calls that have had it stay so.
LEMMA Room ==
  ASSUME SessionInv, NEW c \in Calls, NEW r \in Request, Moves(c, r)
  PROVE  /\ spawned <= Cardinality({d \in Calls : call'[d].at \in Spent})
         /\ Cardinality({d \in Calls : call'[d].at \in Spent}) \in Nat
         /\ call[c].at \notin Spent /\ r.at \in Spent =>
              /\ spawned + 1 <= Cardinality({d \in Calls : call'[d].at \in Spent})
              /\ spawned + 1 \in Workers
  <1>. DEFINE had == {d \in Calls : call[d].at \in Spent}
              have == {d \in Calls : call'[d].at \in Spent}
  <1>0. spawned \in Nat /\ spawned <= Cardinality(had)
    BY DEF SessionInv, WorkerInv, TypeInv, Workers
  <1>1. call'[c] = r /\ \A d \in Calls \ {c} : call'[d] = call[d]
    BY MovesFields DEF SessionInv
  <1>2. IsFiniteSet(Calls) /\ IsFiniteSet(had) /\ IsFiniteSet(have)
    BY FS_Subset, CallsAssumption
  <1>3. had \subseteq have /\ have \subseteq Calls
    BY <1>1 DEF Moves
  <1>4. /\ Cardinality(had) \in Nat /\ Cardinality(have) \in Nat /\ Cardinality(Calls) \in Nat
        /\ Cardinality(had) <= Cardinality(have) /\ Cardinality(have) <= Cardinality(Calls)
    BY <1>2, <1>3, FS_CardinalityType, FS_Subset
  <1>5. ASSUME call[c].at \notin Spent, r.at \in Spent
        PROVE  Cardinality(have) = Cardinality(had) + 1
    <2>1. have = had \cup {c} /\ c \notin had
      BY <1>1, <1>5
    <2>. QED BY <1>2, <2>1, FS_AddElement
  <1>. HIDE DEF had, have
  <1>6. spawned <= Cardinality(have)
    BY <1>0, <1>4
  <1>7. ASSUME call[c].at \notin Spent, r.at \in Spent
        PROVE  spawned + 1 <= Cardinality(have) /\ spawned + 1 \in Workers
    BY <1>0, <1>4, <1>5, <1>7 DEF Workers
  <1>. QED BY <1>4, <1>6, <1>7 DEF have

\* The requests after a step, and the queue they form.
LEMMA QueueNext ==
  ASSUME SessionInv, NEW c \in Calls, NEW r \in Request, Moves(c, r),
         spawned' \in Nat, spawned <= spawned',
         \/ inbox' = Without(c) /\ r.at \notin Waiting
         \/ \E w \in Workers : /\ inbox' = Append(Without(c), Req(c, w))
                              /\ r.at \in Waiting /\ w <= spawned'
  PROVE  /\ inbox' \in Seq(Requests) /\ QueueInv'
         /\ \A q \in Range(inbox)' : (q \in Range(inbox) /\ q.by # c) \/ q.by = c
         /\ \A q \in Range(inbox)' : q.by # c => call'[q.by] = call[q.by]
  <1>0. /\ inbox \in Seq(Requests) /\ Sole(inbox) /\ spawned \in Nat
        /\ \A q \in Range(inbox) : q \in Requests /\ call[q.by].at \in Waiting /\ q.to <= spawned
        /\ \A d \in Calls : call[d].at \in Waiting => \E q \in Range(inbox) : q.by = d
    <2>1. \A q \in Range(inbox) : q \in Requests
      BY LenProperties DEF SessionInv, TypeInv, Range
    <2>. QED BY <2>1 DEF SessionInv, TypeInv, QueueInv, Workers
  <1>1. call'[c] = r /\ \A d \in Calls \ {c} : call'[d] = call[d]
    BY MovesFields DEF SessionInv
  <1>. PICK w : w = Without(c)
    OBVIOUS
  <1>2. w \in Seq(Requests) /\ Sole(w) /\ Range(w) = {q \in Range(inbox) : q.by # c}
    BY <1>0, WithoutFacts
  <1>. PICK i : i = inbox'
    OBVIOUS
  <1>3. CASE i = w /\ r.at \notin Waiting
    <2>1. \A q \in Range(i) : q \in Range(inbox) /\ q.by # c /\ q.by \in Calls
      BY <1>0, <1>2, <1>3 DEF Requests
    <2>2. \A q \in Range(i) : call'[q.by].at \in Waiting /\ q.to <= spawned'
      BY <1>0, <1>1, <2>1 DEF Requests, Workers
    <2>3. \A d \in Calls : call'[d].at \in Waiting => \E q \in Range(i) : q.by = d
      BY <1>0, <1>1, <1>2, <1>3
    <2>. QED BY <1>1, <1>2, <1>3, <2>1, <2>2, <2>3 DEF QueueInv, Sole, Range
  <1>4. ASSUME NEW x \in Workers, i = Append(w, Req(c, x)), r.at \in Waiting, x <= spawned'
        PROVE  /\ inbox' \in Seq(Requests) /\ QueueInv'
               /\ \A q \in Range(inbox)' : (q \in Range(inbox) /\ q.by # c) \/ q.by = c
               /\ \A q \in Range(inbox)' : q.by # c => call'[q.by] = call[q.by]
    <2>1. Req(c, x) \in Requests /\ Req(c, x).by = c /\ Req(c, x).to = x
      BY DEF Req, Requests
    <2>2. i \in Seq(Requests) /\ Sole(i) /\ Range(i) = Range(w) \cup {Req(c, x)}
      BY <1>2, <1>4, <2>1, AppendFacts
    <2>3. \A q \in Range(i) : (q \in Range(inbox) /\ q.by # c /\ q.by \in Calls) \/ q = Req(c, x)
      BY <1>0, <1>2, <2>2 DEF Requests
    <2>4. \A q \in Range(i) : call'[q.by].at \in Waiting /\ q.to <= spawned'
      <3>. SUFFICES ASSUME NEW q \in Range(i)
                    PROVE  call'[q.by].at \in Waiting /\ q.to <= spawned'
        OBVIOUS
      <3>1. CASE q = Req(c, x)
        BY <1>1, <1>4, <2>1, <3>1
      <3>2. ASSUME q # Req(c, x)
            PROVE  call'[q.by].at \in Waiting /\ q.to <= spawned'
        <4>1. q \in Range(inbox) /\ q.by # c /\ q.by \in Calls
          BY <2>3, <3>2
        <4>2. call[q.by].at \in Waiting /\ call'[q.by] = call[q.by]
          BY <1>0, <1>1, <4>1
        <4>3. q.to \in Nat /\ q.to <= spawned
          BY <1>0, <4>1 DEF Requests, Workers
        <4>4. q.to <= spawned'
          BY <1>0, <4>3
        <4>. QED BY <4>2, <4>4
      <3>. QED BY <3>1, <3>2
    <2>5. \A d \in Calls : call'[d].at \in Waiting => \E q \in Range(i) : q.by = d
      BY <1>0, <1>1, <1>2, <2>1, <2>2
    <2>. QED BY <1>1, <2>1, <2>2, <2>3, <2>4, <2>5 DEF QueueInv, Sole, Range
  <1>. QED BY <1>3, <1>4

\* The parts that a step's kind makes a difference to.
LEMMA KindNext ==
  ASSUME SessionInv, NEW c \in Calls, NEW r \in Request, Kinds(c, r)
  PROVE  SessionInv'
  <1>0. /\ engine \in Workers \cup {0} /\ worker \in Workers \cup {0}
        /\ loadedModelId \in Models \cup {None} /\ unhealthy \in BOOLEAN
        /\ loadPromise \in Calls \cup {None}
        /\ live \subseteq Workers /\ spawned \in Workers \cup {0} /\ holds \in Holdings
        /\ live \subseteq {worker} /\ live \subseteq 1..spawned /\ worker <= spawned /\ engine <= spawned
        /\ spawned \in Nat /\ \A w \in Workers : w \in Nat /\ w # 0
    BY DEF SessionInv, TypeInv, WorkerInv, Workers
  <1>m. Moves(c, r)
    BY DEF Kinds, Quiet, Posts, Creates, Frees, Returns, Fails
  <1>1. CallInv' /\ LoadPromiseLive'
    BY <1>m, CallNext
  <1>2. /\ call' \in [Calls -> Request] /\ call'[c] = r
        /\ aborted' \subseteq Calls /\ module' \in {"unset", "imported", "failed"}
        /\ loadPromise' \in Calls \cup {None}
    BY <1>0, <1>m, MovesFields DEF Moves, SessionInv
  <1>3. /\ spawned <= Cardinality({d \in Calls : call'[d].at \in Spent})
        /\ call[c].at \notin Spent /\ r.at \in Spent =>
              /\ spawned + 1 <= Cardinality({d \in Calls : call'[d].at \in Spent})
              /\ spawned + 1 \in Workers
    BY <1>m, Room
  <1>4. ASSUME spawned' = spawned, inbox' = Without(c), r.at \notin Waiting
        PROVE  /\ inbox' \in Seq(Requests) /\ QueueInv'
               /\ \A q \in Range(inbox)' : (q \in Range(inbox) /\ q.by # c) \/ q.by = c
               /\ \A q \in Range(inbox)' : q.by # c => call'[q.by] = call[q.by]
    BY <1>0, <1>m, <1>4, QueueNext
  <1>5. ASSUME spawned' \in {spawned, spawned + 1}, NEW w \in Workers, w <= spawned',
               inbox' = Append(Without(c), Req(c, w)), r.at \in Waiting
        PROVE  /\ inbox' \in Seq(Requests) /\ QueueInv'
               /\ \A q \in Range(inbox)' : (q \in Range(inbox) /\ q.by # c) \/ q.by = c
               /\ \A q \in Range(inbox)' : q.by # c => call'[q.by] = call[q.by]
    <2>1. spawned' \in Nat /\ spawned <= spawned'
      BY <1>0, <1>5
    <2>. QED BY <1>m, <1>5, <2>1, QueueNext
  <1>6. \A q \in Range(inbox) : q.to <= spawned /\ q.to \in Workers
    <2>1. \A q \in Range(inbox) : q \in Requests
      BY LenProperties DEF SessionInv, TypeInv, Range
    <2>. QED BY <2>1 DEF SessionInv, QueueInv, Requests
  <1>7. \A q \in Range(inbox) : call[q.by].at = "reloading" /\ q.to \in live => engine = q.to
    BY DEF SessionInv, HealthInv
  <1>8. CASE Quiet(c, r)
    <2>1. /\ inbox' \in Seq(Requests) /\ QueueInv'
          /\ \A q \in Range(inbox)' : (q \in Range(inbox) /\ q.by # c) \/ q.by = c
          /\ \A q \in Range(inbox)' : q.by # c => call'[q.by] = call[q.by]
      BY <1>4, <1>8 DEF Quiet
    <2>2. UNCHANGED <<engine, worker, loadedModelId, unhealthy, live, spawned, holds>> /\ r.at # "reloading"
      BY <1>8 DEF Quiet, fields, Waiting
    <2>3. TypeInv'
      BY <1>0, <1>2, <2>1, <2>2 DEF TypeInv
    <2>4. WorkerInv'
      BY <1>0, <1>3, <2>2 DEF WorkerInv
    <2>5. HealthInv'
      BY <1>2, <1>7, <2>1, <2>2 DEF SessionInv, HealthInv
    <2>. QED BY <1>1, <2>1, <2>3, <2>4, <2>5 DEF SessionInv
  <1>9. CASE Posts(c, r)
    <2>0. /\ engine \in Workers /\ engine <= spawned' /\ inbox' = Append(Without(c), Req(c, engine))
          /\ r.at \in Waiting /\ spawned' = spawned
      BY <1>0, <1>9 DEF Posts, Waiting
    <2>1. /\ inbox' \in Seq(Requests) /\ QueueInv'
          /\ \A q \in Range(inbox)' : (q \in Range(inbox) /\ q.by # c) \/ q.by = c
          /\ \A q \in Range(inbox)' : q.by # c => call'[q.by] = call[q.by]
      BY <1>5, <2>0
    <2>2. UNCHANGED <<engine, worker, loadedModelId, unhealthy, live, spawned, holds>>
      BY <1>9 DEF Posts, fields
    <2>3. TypeInv'
      BY <1>0, <1>2, <2>1, <2>2 DEF TypeInv
    <2>4. WorkerInv'
      BY <1>0, <1>3, <2>2 DEF WorkerInv
    <2>5. \A q \in Range(inbox)' : q.by = c => q = Req(c, engine)
      <3>1. Without(c) \in Seq(Requests) /\ Sole(Without(c))
            /\ Range(Without(c)) = {q \in Range(inbox) : q.by # c}
        BY WithoutFacts DEF SessionInv, TypeInv, QueueInv
      <3>2. Req(c, engine) \in Requests /\ Req(c, engine).by = c
        BY <2>0 DEF Req, Requests
      <3>3. Range(inbox') = Range(Without(c)) \cup {Req(c, engine)}
        BY <2>0, <3>1, <3>2, AppendFacts
      <3>. QED BY <3>1, <3>3
    <2>6. \A q \in Range(inbox)' : q.by = c => q.to = engine
      BY <2>5 DEF Req
    <2>7. HealthInv'
      BY <1>7, <2>1, <2>2, <2>6 DEF SessionInv, HealthInv
    <2>. QED BY <1>1, <2>1, <2>3, <2>4, <2>7 DEF SessionInv
  <1>10. CASE Creates(c, r)
    <2>0. /\ r.at \in Waiting /\ r.at \in Spent /\ call[c].at \notin Spent /\ r.at # "reloading"
          /\ loadedModelId' = None /\ unhealthy' = FALSE /\ engine' = engine /\ holds' \in Holdings
          /\ inbox' = Append(Without(c), Req(c, worker'))
      BY <1>10 DEF Creates, Waiting, Spent
    <2>1. /\ worker' \in Workers /\ spawned' \in {spawned, spawned + 1} /\ worker' <= spawned'
          /\ live' \subseteq Workers /\ live' \subseteq {worker'} /\ live' \subseteq 1..spawned'
          /\ spawned' \in Workers \cup {0} /\ spawned <= spawned'
          /\ spawned' <= Cardinality({d \in Calls : call'[d].at \in Spent})
          /\ \A w \in 1..spawned : w \in live' => w \in live
      <3>1. CASE worker # 0
        <4>1. UNCHANGED <<worker, live, spawned>>
          BY <1>10, <3>1 DEF Creates
        <4>. QED BY <1>0, <1>3, <2>0, <3>1, <4>1
      <3>2. CASE worker = 0
        <4>1. worker' = spawned + 1 /\ live' = live \cup {spawned + 1} /\ spawned' = spawned + 1
          BY <1>10, <3>2 DEF Creates
        <4>2. live = {}
          BY <1>0, <3>2
        <4>3. spawned + 1 \in Workers /\ spawned + 1 \notin 1..spawned
          BY <1>0, <1>3, <2>0
        <4>. QED BY <1>0, <1>3, <2>0, <4>1, <4>2, <4>3
      <3>. QED BY <3>1, <3>2
    <2>2. /\ inbox' \in Seq(Requests) /\ QueueInv'
          /\ \A q \in Range(inbox)' : (q \in Range(inbox) /\ q.by # c) \/ q.by = c
          /\ \A q \in Range(inbox)' : q.by # c => call'[q.by] = call[q.by]
      BY <1>5, <2>0, <2>1
    <2>3. TypeInv'
      BY <1>0, <1>2, <2>0, <2>1, <2>2 DEF TypeInv
    <2>4. WorkerInv'
      BY <1>0, <2>0, <2>1 DEF WorkerInv
    <2>5. HealthInv'
      <3>1. loadedModelId' \notin Models
        BY <2>0, CallsAssumption
      <3>2. \A q \in Range(inbox) : q.to \in live' => q.to \in live
        <4>1. \A q \in Range(inbox) : q.to \in Nat /\ q.to # 0 /\ q.to <= spawned
          BY <1>0, <1>6
        <4>2. \A q \in Range(inbox) : q.to \in 1..spawned
          BY <1>0, <4>1
        <4>. QED BY <2>1, <4>2
      <3>. QED BY <1>2, <1>7, <2>0, <2>2, <3>1, <3>2 DEF HealthInv
    <2>. QED BY <1>1, <2>2, <2>3, <2>4, <2>5 DEF SessionInv
  <1>11. CASE Frees(c, r)
    <2>0. /\ r.at \notin Waiting /\ r.at # "reloading" /\ loadedModelId' = None /\ unhealthy' \in BOOLEAN
          /\ holds' \in Holdings /\ spawned' = spawned /\ inbox' = Without(c)
      BY <1>11 DEF Frees, Waiting
    <2>1. UNCHANGED <<engine, worker, live>> \/ (worker' = 0 /\ live' = {} /\ engine' \in {engine, 0})
      BY <1>0, <1>11 DEF Frees
    <2>2. /\ inbox' \in Seq(Requests) /\ QueueInv'
          /\ \A q \in Range(inbox)' : (q \in Range(inbox) /\ q.by # c) \/ q.by = c
          /\ \A q \in Range(inbox)' : q.by # c => call'[q.by] = call[q.by]
      BY <1>4, <2>0
    <2>3. TypeInv'
      BY <1>0, <1>2, <2>0, <2>1, <2>2 DEF TypeInv
    <2>4. WorkerInv'
      BY <1>0, <1>3, <2>0, <2>1 DEF WorkerInv
    <2>5. HealthInv'
      <3>1. loadedModelId' \notin Models
        BY <2>0, CallsAssumption
      <3>. QED BY <1>2, <1>7, <2>0, <2>1, <2>2, <3>1 DEF HealthInv
    <2>. QED BY <1>1, <2>2, <2>3, <2>4, <2>5 DEF SessionInv
  <1>12. CASE Returns(c, r)
    <2>0. /\ r.at \notin Waiting /\ r.at # "reloading" /\ spawned' = spawned /\ inbox' = Without(c)
          /\ loadedModelId' = r.model /\ unhealthy' \in BOOLEAN /\ UNCHANGED <<worker, live>>
          /\ r.model \in Models \cup {None}
      BY <1>12 DEF Returns, Settled, Waiting, Request
    <2>1. PICK q \in Range(inbox) :
             /\ q.by = c /\ q.to \in live
             /\ holds' = [holds EXCEPT ![q.to] = r.model]
             /\ engine' = IF call[c].at = "creating" THEN q.to ELSE engine
      BY <1>12 DEF Returns
    <2>2. q.to = worker /\ q.to \in Workers
      BY <1>0, <1>6, <2>1
    <2>3. engine' = worker
      BY <1>7, <1>12, <2>1, <2>2 DEF Returns
    <2>4. holds' \in Holdings /\ holds'[worker] = r.model
      BY <1>0, <2>0, <2>1, <2>2 DEF Holdings
    <2>5. /\ inbox' \in Seq(Requests) /\ QueueInv'
          /\ \A p \in Range(inbox)' : (p \in Range(inbox) /\ p.by # c) \/ p.by = c
          /\ \A p \in Range(inbox)' : p.by # c => call'[p.by] = call[p.by]
      BY <1>4, <2>0
    <2>6. TypeInv'
      BY <1>0, <1>2, <2>0, <2>3, <2>4, <2>5 DEF TypeInv
    <2>7. WorkerInv'
      BY <1>0, <1>3, <2>0, <2>3 DEF WorkerInv
    <2>8. HealthInv'
      <3>1. worker' \in live' /\ engine' = worker' /\ holds'[worker'] = loadedModelId'
        BY <2>0, <2>1, <2>2, <2>3, <2>4
      <3>2. \A p : p \in live' => p = engine'
        BY <1>0, <2>0, <2>3
      <3>. QED BY <3>1, <3>2 DEF HealthInv
    <2>. QED BY <1>1, <2>5, <2>6, <2>7, <2>8 DEF SessionInv
  <1>13. CASE Fails(c, r)
    <2>0. /\ r.at \notin Waiting /\ r.at # "reloading" /\ unhealthy' = TRUE /\ holds' \in Holdings
          /\ inbox' = Without(c) /\ UNCHANGED <<engine, worker, loadedModelId, live, spawned>>
      BY <1>13 DEF Fails, Waiting
    <2>1. /\ inbox' \in Seq(Requests) /\ QueueInv'
          /\ \A q \in Range(inbox)' : (q \in Range(inbox) /\ q.by # c) \/ q.by = c
          /\ \A q \in Range(inbox)' : q.by # c => call'[q.by] = call[q.by]
      BY <1>4, <2>0
    <2>2. TypeInv'
      BY <1>0, <1>2, <2>0, <2>1 DEF TypeInv
    <2>3. WorkerInv'
      BY <1>0, <1>3, <2>0 DEF WorkerInv
    <2>4. HealthInv'
      BY <1>2, <1>7, <2>0, <2>1 DEF HealthInv
    <2>. QED BY <1>1, <2>1, <2>2, <2>3, <2>4 DEF SessionInv
  <1>. QED BY <1>8, <1>9, <1>10, <1>11, <1>12, <1>13 DEF Kinds

LEMMA SessionNext == SessionInv /\ [Next]_vars => SessionInv'
  <1>. SUFFICES ASSUME SessionInv, [Next]_vars PROVE SessionInv'
    OBVIOUS
  <1>1. CASE Still
    <2>1. /\ aborted' \subseteq Calls
          /\ UNCHANGED <<engine, worker, loadedModelId, unhealthy, loadPromise, module, call,
                         live, spawned, holds, inbox>>
      BY <1>1 DEF Still, fields, external
    <2>2. TypeInv' /\ CallInv' /\ LoadPromiseLive'
      BY <2>1 DEF SessionInv, TypeInv, CallInv, LoadPromiseLive
    <2>3. QueueInv' /\ HealthInv'
      BY <2>1 DEF SessionInv, QueueInv, HealthInv, Sole, Range
    <2>4. WorkerInv'
      BY <2>1 DEF SessionInv, WorkerInv
    <2>. QED BY <2>2, <2>3, <2>4 DEF SessionInv
  <1>. QED BY <1>1, StepKinds, KindNext

LEMMA SessionHolds == Spec => []SessionInv
  BY SessionInit, SessionNext, PTL DEF Spec

-----------------------------------------------------------------------------
(* The results *)

\* Whatever calls overlap, the fields keep their types and the inbox holds one
\* request of a call exactly while that call waits for one.
THEOREM SessionTypeCorrect == Spec => []SessionTypeOK
  <1>1. ASSUME SessionInv PROVE SessionTypeOK
    <2>1. TypeInv /\ QueueInv
      BY <1>1 DEF SessionInv
    <2>2. ASSUME NEW c \in Calls
          PROVE  Cardinality({i \in DOMAIN inbox : inbox[i].by = c}) =
                   IF call[c].at \in {"unloading", "releasing", "creating", "reloading"} THEN 1 ELSE 0
      <3>1. CASE call[c].at \in Waiting
        <4>1. PICK i \in DOMAIN inbox : inbox[i].by = c
          BY <2>1, <3>1 DEF QueueInv, Range
        <4>2. {j \in DOMAIN inbox : inbox[j].by = c} = {i}
          BY <2>1, <4>1 DEF QueueInv, Sole
        <4>. QED BY <3>1, <4>2, FS_Singleton DEF Waiting
      <3>2. CASE call[c].at \notin Waiting
        <4>1. {j \in DOMAIN inbox : inbox[j].by = c} = {}
          BY <2>1, <3>2 DEF QueueInv, Range
        <4>. QED BY <3>2, <4>1, FS_EmptySet DEF Waiting
      <3>. QED BY <3>1, <3>2
    <2>. QED BY <2>1, <2>2 DEF SessionTypeOK, TypeInv, Requests, Holdings
  <1>. QED BY <1>1, SessionHolds, PTL

\* However calls overlap, every worker but the current one has been terminated.
THEOREM WorkersCorrect == Spec => []NoLeakedWorker
  <1>1. SessionInv => NoLeakedWorker
    BY DEF SessionInv, WorkerInv, NoLeakedWorker
  <1>. QED BY <1>1, SessionHolds, PTL

\* When isModelLoaded answers yes, the engine runs on the current, live worker,
\* and that worker holds the model.
THEOREM LoadedCorrect == Spec => []LoadedIsReal
  <1>1. SessionInv => LoadedIsReal
    BY DEF SessionInv, HealthInv, LoadedIsReal, IsModelLoaded
  <1>. QED BY <1>1, SessionHolds, PTL

\* A call that finds the shared promise set joins a load that is under way.
THEOREM PromiseCorrect == Spec => []LoadPromiseLive
  <1>1. SessionInv => LoadPromiseLive
    BY DEF SessionInv
  <1>. QED BY <1>1, SessionHolds, PTL

\* A call that was to load a model returns normally only in a state in which that
\* model is the current one, on a live worker.
THEOREM ResolveCorrect == Spec => ResolvedIsLoaded
  <1>1. ASSUME SessionInv, [Next]_vars, NEW d \in Calls,
               call'[d].at = "resolved", call[d].at # "resolved", call'[d].op \in Loads
        PROVE  /\ loadedModelId' = call'[d].model
               /\ engine' = worker' /\ worker' \in live'
               /\ holds'[worker'] = call'[d].model
    <2>1. PICK c \in Calls, r \in Request : Kinds(c, r)
      BY <1>1, StepKinds DEF Still
    <2>2. Moves(c, r)
      BY <2>1 DEF Kinds, Quiet, Posts, Creates, Frees, Returns, Fails
    <2>3. call'[c] = r /\ c = d /\ r.at = "resolved" /\ r.op \in Loads
      BY <1>1, <2>2, MovesFields DEF SessionInv
    <2>4. Quiet(c, r) \/ Returns(c, r)
      BY <2>1, <2>3 DEF Kinds, Posts, Creates, Frees, Fails
    <2>5. CASE Quiet(c, r)
      <3>1. IsModelLoaded(r.model) /\ r.model \in Models
        BY <2>2, <2>3, <2>5 DEF Quiet, Moves, Sound
      <3>2. loadedModelId = r.model /\ unhealthy = FALSE
        BY <1>1, <3>1 DEF IsModelLoaded, SessionInv, TypeInv
      <3>3. engine = worker /\ worker \in live /\ holds[worker] = r.model
        BY <1>1, <3>1, <3>2 DEF SessionInv, HealthInv
      <3>. QED BY <2>3, <2>5, <3>2, <3>3 DEF Quiet, fields
    <2>6. CASE Returns(c, r)
      <3>1. PICK q \in Range(inbox) :
               /\ q.by = c /\ q.to \in live
               /\ holds' = [holds EXCEPT ![q.to] = r.model]
               /\ engine' = IF call[c].at = "creating" THEN q.to ELSE engine
        BY <2>6 DEF Returns
      <3>2. q.to = worker /\ worker \in Workers /\ holds \in Holdings
        BY <1>1, <3>1 DEF SessionInv, WorkerInv, TypeInv
      <3>3. engine' = worker
        BY <1>1, <2>6, <3>1, <3>2 DEF SessionInv, HealthInv, Returns
      <3>4. holds'[worker] = r.model
        BY <3>1, <3>2 DEF Holdings
      <3>. QED BY <2>3, <2>6, <3>1, <3>2, <3>3, <3>4 DEF Returns
    <2>. QED BY <2>4, <2>5, <2>6
  <1>2. SessionInv /\ [Next]_vars =>
          [\A c \in Calls : call'[c].at = "resolved" /\ call[c].at # "resolved" /\ call'[c].op \in Loads
                           => /\ loadedModelId' = call'[c].model
                              /\ engine' = worker' /\ worker' \in live'
                              /\ holds'[worker'] = call'[c].model]_vars
    BY <1>1
  <1>. QED BY <1>2, SessionHolds, PTL DEF Spec, ResolvedIsLoaded

=============================================================================

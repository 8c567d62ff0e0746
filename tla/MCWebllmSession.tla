-------------------------- MODULE MCWebllmSession --------------------------
(***************************************************************************)
(* A first load of A, and two calls that overlap it and each other or      *)
(* follow it: every operation meets every other one.                       *)
(***************************************************************************)
EXTENDS WebllmSession, TLC

CONSTANTS First, Second, Third, A, B

MCAsks ==
  (First :> {<<"ensureLoaded", A>>}) @@
  (Second :> {<<"ensureLoaded", B>>, <<"switchModel", B>>, <<"retryLoad", A>>, <<"fresh", B>>,
              <<"clean", A>>, <<"deleteAll", None>>, <<"dispose", None>>}) @@
  (Third :> {<<"ensureLoaded", A>>, <<"ensureLoaded", B>>, <<"switchModel", B>>, <<"retryLoad", B>>,
             <<"fresh", A>>, <<"clean", B>>, <<"deleteAll", None>>, <<"dispose", None>>})

ReloadAsks ==
  (First :> {<<"ensureLoaded", A>>}) @@ (Second :> {<<"deleteAll", None>>}) @@
  (Third :> {<<"switchModel", B>>})

CleanAsks ==
  (First :> {<<"ensureLoaded", A>>}) @@ (Second :> {<<"clean", A>>}) @@
  (Third :> {<<"ensureLoaded", B>>})

\* A caller that awaits each call before it makes the next one.
Alone(c) == \A d \in Calls \ {c} : call[d].at \in {"idle"} \cup Settled

SequentialNext ==
  /\ Next
  /\ \A c \in Calls : Idle(c) /\ call'[c].at # "idle" => Alone(c)

SequentialSpec == Init /\ [][SequentialNext]_vars /\ Fairness
=============================================================================

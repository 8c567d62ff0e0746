------------------------------ MODULE OneShot ------------------------------
(***************************************************************************)
(* What a browser tool that runs code promises its caller: the call        *)
(* settles once, with one outcome, and from then on holds nothing of the   *)
(* page: no frame, no worker, no port, no timer, no listener.              *)
(***************************************************************************)
CONSTANT Outcomes

VARIABLES call, outcome, holds

vars == <<call, outcome, holds>>

Init == call = "idle" /\ outcome = "none" /\ holds = FALSE

\* The call is refused at once, or starts and takes what it needs.
Start ==
  /\ call = "idle"
  /\ \/ call' = "settled" /\ outcome' \in Outcomes /\ holds' = FALSE
     \/ call' = "pending" /\ holds' = TRUE /\ UNCHANGED outcome

Settle ==
  /\ call = "pending"
  /\ call' = "settled" /\ outcome' \in Outcomes /\ holds' = FALSE

Next == Start \/ Settle

Spec == Init /\ [][Next]_vars /\ WF_vars(Settle)
=============================================================================

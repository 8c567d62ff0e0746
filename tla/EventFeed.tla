----------------------------- MODULE EventFeed -----------------------------
(***************************************************************************)
(* What WorkflowRuntime.stream promises its consumer, without the queue,   *)
(* the wake-up and the background promise that implement it: the consumer  *)
(* takes the events of one run one by one, each once and in the order they *)
(* were produced; iteration ends only after the run is over and every      *)
(* event was taken, or when the consumer leaves, and leaving waits for the *)
(* run to be over.                                                         *)
(***************************************************************************)
EXTENDS Naturals, Sequences

CONSTANT Events

VARIABLES
  produced,   \* the events of the run so far
  taken,      \* how many of them the consumer has taken
  over,       \* the run has settled
  consumer    \* "reading", "leaving" or "gone"

vars == <<produced, taken, over, consumer>>

Init == produced = <<>> /\ taken = 0 /\ over = FALSE /\ consumer = "reading"

Produce == /\ ~over
           /\ \E e \in Events : produced' = Append(produced, e)
           /\ UNCHANGED <<taken, over, consumer>>

Finish == /\ ~over
          /\ over' = TRUE
          /\ UNCHANGED <<produced, taken, consumer>>

Take == /\ consumer = "reading"
        /\ taken < Len(produced)
        /\ taken' = taken + 1
        /\ UNCHANGED <<produced, over, consumer>>

Leave == /\ consumer = "reading"
         /\ consumer' = "leaving"
         /\ UNCHANGED <<produced, taken, over>>

End == /\ over
       /\ \/ consumer = "reading" /\ taken = Len(produced)
          \/ consumer = "leaving"
       /\ consumer' = "gone"
       /\ UNCHANGED <<produced, taken, over>>

Next == Produce \/ Finish \/ Take \/ Leave \/ End

\* The run finishes, and a consumer that goes on reading takes what there is.
Spec == Init /\ [][Next]_vars /\ WF_vars(Finish) /\ WF_vars(Take) /\ WF_vars(End)
=============================================================================

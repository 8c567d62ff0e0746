---------------------------- MODULE MCRunStream ----------------------------
(***************************************************************************)
(* A two-stage workflow with a retry loop, streamed: work -> work while it *)
(* reports no result, work -> done otherwise.                              *)
(***************************************************************************)
EXTENDS RunStream

MCStages == {"work", "done"}
MCFields == {"result"}
MCWrites == [work |-> [result |-> "string"], done |-> [result |-> "string"]]
MCOptional == [work |-> {"result"}, done |-> {"result"}]
MCReads == [work |-> {}, done |-> {[node |-> "work", field |-> "result"]}]

Result == [node |-> "work", field |-> "result"]
MCTransitions ==
  [work |-> <<[to |-> "done", priority |-> 0, guard |-> [kind |-> "has_value", ref |-> Result]],
              [to |-> "work", priority |-> 1, guard |-> [kind |-> "always", ref |-> Result]]>>,
   done |-> <<>>]

MCOutputs == [s \in MCStages |-> {[result |-> v] : v \in {"absent", "text"}}]
MCInputs == {[result |-> "absent"]}
=============================================================================

--------------------------- MODULE MCWorkflowRun ---------------------------
(***************************************************************************)
(* A writer/reviewer workflow: draft -> review, review -> draft while it   *)
(* has notes, review -> done when the verdict is the expected one.  It has *)
(* a cycle, an optional list, a json field (which may be null, or a number *)
(* that makes the eq guard throw), transitions out of priority order, and  *)
(* a review that no transition matches.                                    *)
(***************************************************************************)
EXTENDS WorkflowRun

MCStages == {"draft", "review", "done"}
MCFields == {"topic", "notes", "verdict"}

MCWrites ==
  [draft  |-> [topic |-> "string"],
   review |-> [notes |-> "string[]", verdict |-> "json"],
   done   |-> [topic |-> "string", notes |-> "string[]"]]

MCOptional == [draft |-> {}, review |-> {"notes"}, done |-> {"topic"}]

Ref(n, f) == [node |-> n, field |-> f]

MCReads == [draft  |-> {Ref("input", "topic")},
            review |-> {Ref("draft", "topic")},
            done   |-> {Ref("review", "verdict")}]

To(s, p, kind, ref) == [to |-> s, priority |-> p, guard |-> [kind |-> kind, ref |-> ref]]

MCTransitions ==
  [draft  |-> <<To("review", 0, "always", Ref("input", "topic"))>>,
   review |-> <<To("done", 1, "eq", Ref("review", "verdict")),
                To("draft", 0, "has_value", Ref("review", "notes")),
                To("done", 1, "missing", Ref("review", "verdict")),
                To("draft", 2, "if", Ref("review", "verdict"))>>,
   done   |-> <<>>]

\* An output as the fields it has.
With(given) == [f \in MCFields |-> IF f \in DOMAIN given THEN given[f] ELSE "absent"]

MCInputs == {With([topic |-> "text"]), With([topic |-> "null"])}

MCOutputs ==
  [draft  |-> {With([topic |-> v]) : v \in {"text", "blank", "null"}},
   review |-> {With([notes |-> n, verdict |-> v]) :
                 n \in {"absent", "null", "list", "no_items"},
                 v \in {"absent", "null", "text", "blank", "number"}},
   done   |-> {With([topic |-> v, notes |-> n]) :
                 v \in {"absent", "number"}, n \in {"list", "no_items"}}
              \cup {With([verdict |-> "text", notes |-> "list"])}]
=============================================================================

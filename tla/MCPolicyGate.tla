---------------------------- MODULE MCPolicyGate ----------------------------
(***************************************************************************)
(* A stage that may call write, lint and confirm.  Writing is denied by    *)
(* one policy and needs a confirmation and a lint by another; confirming   *)
(* has a deny policy, which also binds the required confirmation, and a    *)
(* before policy, which does not; lint has a before policy that requires   *)
(* nothing.                                                                *)
(***************************************************************************)
EXTENDS PolicyGate

MCPolicies ==
  <<[kind |-> "before", trigger |-> "write", requires |-> <<"confirm", "lint">>],
    [kind |-> "deny", trigger |-> "write", requires |-> <<>>],
    [kind |-> "deny", trigger |-> "confirm", requires |-> <<>>],
    [kind |-> "before", trigger |-> "confirm", requires |-> <<"audit">>],
    [kind |-> "before", trigger |-> "lint", requires |-> <<>>]>>

NoTape == [p \in 1..5 |-> <<>>]

\* A live run, and replays of a run whose first write was allowed and of one
\* whose second confirmation was denied.
MCTapes == {NoTape, [NoTape EXCEPT ![2] = <<"allowed">>],
            [NoTape EXCEPT ![2] = <<"allowed", "allowed">>, ![3] = <<"allowed", "denied">>]}
=============================================================================

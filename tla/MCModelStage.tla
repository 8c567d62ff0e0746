---------------------------- MODULE MCModelStage ----------------------------
(***************************************************************************)
(* A model stage with tools, in both protocols.                            *)
(***************************************************************************)
EXTENDS ModelStage

MCProtocols == {"native", "tagged"}
=============================================================================

---------------------------- MODULE MCToolRuntime ----------------------------
(***************************************************************************)
(* ToolRuntime for TLC: a proposal that runs an action of the ERP, and a    *)
(* direct call of the ERP.                                                  *)
(***************************************************************************)
EXTENDS ToolRuntime, TLC

\* Handlers are told apart only from each other.
Symmetry == Permutations(Callers)
==============================================================================

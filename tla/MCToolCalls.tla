---------------------------- MODULE MCToolCalls ----------------------------
(* ToolCalls with interchangeable tasks. *)
EXTENDS ToolCalls, TLC

Symmetry == Permutations(Tasks)

=============================================================================

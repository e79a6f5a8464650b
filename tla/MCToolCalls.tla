----------------------------- MODULE MCToolCalls -----------------------------
(* Model values and symmetry for the runs of ToolCalls. *)
EXTENDS ToolCalls, TLC

Symmetric == Permutations(Id) \cup Permutations(Handler)
=============================================================================

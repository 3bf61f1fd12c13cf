----------------------------- MODULE MCWorkspace -----------------------------
(* TLC instance of Workspace: case ids and task slots are interchangeable.  *)
EXTENDS Workspace, TLC

Symmetry == Permutations(Cases) \cup Permutations(Tasks)

=============================================================================

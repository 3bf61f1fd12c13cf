----------------------------- MODULE MCMockDrop -----------------------------
(* TLC instance of MockDropClients: the identities are interchangeable.     *)
EXTENDS MockDropClients, TLC

Symmetry == Permutations(Cases) \cup Permutations(Appeals) \cup Permutations(Calls)

=============================================================================

------------------------------ MODULE MCPaging ------------------------------
(* Instance of Paging for the model checker. *)
EXTENDS Paging, TLC

\* The listeners differ in nothing but their names.
Symmetry == Permutations(Listeners)
=============================================================================

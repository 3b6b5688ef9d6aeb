--------------------------- MODULE MCPolicyService ---------------------------
(***************************************************************************)
(* Constants for TLC.  Ids and requests are interchangeable: nothing       *)
(* orders them, and the code compares ids only for equality.               *)
(***************************************************************************)
EXTENDS PolicyService, TLC

Symmetry == Permutations(Known) \cup Permutations(Ids \ Known) \cup Permutations(Requests)

=============================================================================

-------------------------- MODULE MCPolicyRefinement --------------------------
EXTENDS PolicyRefinement, TLC

Symmetry == Permutations(Known) \cup Permutations(Ids \ Known) \cup Permutations(Requests)

=============================================================================

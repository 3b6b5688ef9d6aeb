------------------------- MODULE MCPolicyDistribution -------------------------
(***************************************************************************)
(* One NCFS endpoint that never changes, and an Adaption list that gains   *)
(* or loses an endpoint.  Endpoint lists are ordered, so only tasks are    *)
(* interchangeable.                                                        *)
(***************************************************************************)
EXTENDS PolicyDistribution, TLC

CONSTANTS n1, a1, a2

ListsDef ==
  [k \in Kinds |-> IF k = "ncfs" THEN {<<n1>>} ELSE {<<a1>>, <<a2, a1>>}]

Symmetry == Permutations(Tasks)

=============================================================================

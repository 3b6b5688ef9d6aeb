--------------------------- MODULE MCHistoryListing ---------------------------
(***************************************************************************)
(* Ints of four bits: pages that fit, the last one included, pages of size *)
(* zero and below, and indices whose product with the size wraps, to a     *)
(* bound below zero or back to one within the list.                        *)
(***************************************************************************)
EXTENDS HistoryListing

PagesDef ==
  {[index |-> 0, size |-> 2], [index |-> 1, size |-> 1], [index |-> 1, size |-> 2],
   [index |-> 0, size |-> 0], [index |-> 5, size |-> 3], [index |-> 1, size |-> -8],
   [index |-> -1, size |-> 2]}

=============================================================================

--------------------------- MODULE MCRoutePlanner ---------------------------
(* RoutePlanner on every request within the bounds. *)
EXTENDS RoutePlanner

MCMinQty == -1

Symmetry == Permutations(Sku) \cup Permutations(Warehouse \ {Origin})
=============================================================================

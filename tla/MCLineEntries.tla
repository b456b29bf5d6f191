--------------------------- MODULE MCLineEntries ---------------------------
(* LineEntries on two entries, three locations and two concurrent requests. *)
EXTENDS LineEntries, TLC

Symmetry == Permutations(Call) \cup Permutations(Location)
=============================================================================

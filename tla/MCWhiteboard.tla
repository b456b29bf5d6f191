---------------------------- MODULE MCWhiteboard ----------------------------
(* Small instances of Whiteboard: pages built beside concurrent requests. *)
EXTENDS Whiteboard, TLC

Symmetry == Permutations(Req) \cup Permutations(Driver) \cup Permutations(Unit)
=============================================================================

----------------------------- MODULE MCDispatch -----------------------------
(* Small instances of Dispatch; each .cfg names the operations it serves. *)
EXTENDS Dispatch, TLC

Symmetry == Permutations(Req) \cup Permutations(Driver) \cup Permutations(Unit)
=============================================================================

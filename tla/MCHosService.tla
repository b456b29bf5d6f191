---------------------------- MODULE MCHosService ----------------------------
(* HosService and DriverCards on one driver and two concurrent calls, with two
   cycles: one daily limit, two weekly ones. *)
EXTENDS DriverCards, TLC

MCLimits == {[daily |-> 3, weekly |-> k, rest |-> 1, reset |-> 2] : k \in {4, 5}}

Symmetry == Permutations(Call)
=============================================================================

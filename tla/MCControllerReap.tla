-------------------------- MODULE MCControllerReap --------------------------
(* ControllerReap on a small instance.  User ids are only compared, so they *)
(* may be permuted.                                                         *)
EXTENDS ControllerReap, TLC

UserIdSymmetry == Permutations(UserIds)

=============================================================================

---------------------------- MODULE MCSocketLock ----------------------------
(* Symmetry for the model checking of SocketLock. *)
EXTENDS SocketLock, TLC

HelperSymmetry == Permutations(Helper)
============================================================================

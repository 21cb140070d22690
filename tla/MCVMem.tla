------------------------------- MODULE MCVMem -------------------------------
(* Model values for VMem: the address spaces and the null space. *)
EXTENDS VMem, TLC

CONSTANTS p1, p2
=============================================================================

-------------------------- MODULE MCManagerService --------------------------
(***************************************************************************)
(* Instances of ManagerService: the first units of two applications, which *)
(* prefer the same port.                                                   *)
(***************************************************************************)
EXTENDS ManagerServiceProofs, TLC

SameBase == [u \in Units |-> 0]

(* Units with the same base are interchangeable.                           *)
Symmetry == Permutations(Units)
=============================================================================

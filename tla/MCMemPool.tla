------------------------------- MODULE MCMemPool -------------------------------
(* Addresses are interchangeable.                                           *)
EXTENDS MemPool, TLC

AddressSymmetry == Permutations(Addresses)
===============================================================================

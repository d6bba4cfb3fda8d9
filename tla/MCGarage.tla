------------------------------ MODULE MCGarage ------------------------------
(***************************************************************************)
(* A small instance of Garage for TLC.                                     *)
(***************************************************************************)
EXTENDS Garage, TLC

CONSTANTS p1, p2, upper, lower, other

\* "12345-A-1" and "12345a1" are one plate.
MCNormal == [x \in Spellings |-> IF x = other THEN p2 ELSE p1]

Symmetry == Permutations(Vehicles) \cup Permutations(Slots)
=============================================================================

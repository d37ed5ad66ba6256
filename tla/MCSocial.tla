------------------------------ MODULE MCSocial ------------------------------
(***************************************************************************)
(* Accounts are interchangeable.                                           *)
(***************************************************************************)
EXTENDS Social, TLC

CONSTANTS a1, a2, a3

MCTwo   == {a1, a2}
MCThree == {a1, a2, a3}

MCSymmetry == Permutations(MCThree)
MCSymmetryOfTwo == Permutations(MCTwo)
=============================================================================

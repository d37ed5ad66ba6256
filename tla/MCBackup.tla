------------------------------ MODULE MCBackup ------------------------------
(***************************************************************************)
(* Two users, who upload to each other and to themselves and back up at    *)
(* the same time, and one file name.                                       *)
(***************************************************************************)
EXTENDS Backup, TLC

CONSTANTS u1, u2, x

MCUsers     == {u1, u2}
MCFilenames == {x}

\* A file that can be there in part.
MCSizes     == {2}

MCSymmetry == Permutations(MCUsers)
=============================================================================

------------------------------ MODULE MCStrtok ------------------------------
(***************************************************************************)
(* Two users who are friends, and a third nickname to register under.      *)
(***************************************************************************)
EXTENDS Strtok

CONSTANTS a1, a2, n1, n2, n3, p1

MCAccounts     == {a1, a2}
MCNicknames    == {n1, n2, n3}
MCPasswords    == {p1}
MCInitialUsers == {<< <<a1, p1, n1>>, <<a2, p1, n2>> >>}
MCFriendships  == {<<a1, a2>>}
=============================================================================

----------------------------- MODULE MCSessions -----------------------------
(***************************************************************************)
(* Three descriptors over a table of two slots, so that the table gets     *)
(* full and that slots and descriptors are reused; one registered user and *)
(* one free account, so that users register while others log in.           *)
(***************************************************************************)
EXTENDS Sessions

CONSTANTS a1, a2, a3, n1, n2, p1, f1, f2, f3

MCAccounts  == {a1, a2}
MCNicknames == {n1, n2}
MCPasswords == {p1}
MCFds       == {f1, f2, f3}

\* Three accounts; one of the nicknames is the account of another user.
MCAccountsLive  == {a1, a2, a3}
MCNicknamesLive == {n1, n2, a1}

MCInitialUsers == {<<[account |-> a1, password |-> p1, nickname |-> n1]>>}
=============================================================================

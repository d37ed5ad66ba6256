-------------------------- MODULE MCNotifications --------------------------
(***************************************************************************)
(* Two threads on behalf of two accounts.                                  *)
(***************************************************************************)
EXTENDS Notifications

CONSTANTS a1, a2, t1, t2

MCAccounts == {a1, a2}
MCThreads  == {t1, t2}
=============================================================================

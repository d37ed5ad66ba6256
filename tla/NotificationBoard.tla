------------------------- MODULE NotificationBoard -------------------------
(***************************************************************************)
(* What the notification store promises: a board of notifications, each    *)
(* for one account, that are never lost, numbered apart, unread at first   *)
(* and read once their own account has said so.                            *)
(***************************************************************************)
EXTENDS Naturals

CONSTANTS
    Accounts,
    Ids             \* the numbers a notification may have

VARIABLE board      \* the set of notifications

Notification == [id : Ids, account : Accounts, read : BOOLEAN]

Init == board = {}

\* A notification for the account, numbered above all others.
Add(account) ==
    \E id \in Ids :
        /\ \A n \in board : n.id < id
        /\ board' = board \cup {[id |-> id, account |-> account, read |-> FALSE]}

\* The notifications of the account that are in ids are read from now on.
Read(account, ids) ==
    board' = {IF n.account = account /\ n.id \in ids
                THEN [n EXCEPT !.read = TRUE] ELSE n : n \in board}

ReadOne(account) == \E n \in board : n.account = account /\ Read(account, {n.id})

ReadAll(account) == Read(account, {n.id : n \in board})

Next == \E a \in Accounts : Add(a) \/ ReadOne(a) \/ ReadAll(a)

Spec == Init /\ [][Next]_board
=============================================================================

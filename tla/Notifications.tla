--------------------------- MODULE Notifications ---------------------------
(***************************************************************************)
(* The notification file (notification.c).                                 *)
(*                                                                         *)
(* notification_add reads the largest id and appends a row;                *)
(* notification_mark_read and notification_mark_all_read copy the file row *)
(* by row to a second one, with the rows in question marked, and rename it *)
(* over the first.  notification_mutex is held from the first step to the  *)
(* last, and every step may fail.  The server may be killed at any time:   *)
(* the two files stay as they are and the mutex is gone.                   *)
(*                                                                         *)
(* A row stands for its id, its account and its read flag.                 *)
(***************************************************************************)
EXTENDS Naturals, Sequences

CONSTANTS
    Accounts,
    Threads,        \* client threads
    NoThread,       \* the mutex is free
    NoAccount,      \* no command in progress
    MaxRows         \* bound: no row is appended beyond this many

VARIABLES
    rows,           \* the notification file, in file order
    copy,           \* the .tmp file; also <<>> when there is none
    mutex,          \* the thread that holds notification_mutex
    op,             \* what each thread is doing
    acked           \* notifications whose account was told that they are read

vars == <<rows, copy, mutex, op, acked>>

ASSUME NotificationsAssumption ==
    /\ MaxRows \in Nat
    /\ NoThread \notin Threads
    /\ NoAccount \notin Accounts

Row == [id : 1 .. MaxRows, account : Accounts, read : BOOLEAN]

\* Which rows a MARK_READ (one id) or a MARK_READ_ALL (0) is about.
All == 0

(* pc: "idle"    outside notification.c                                    *)
(*     "append"  notification_add, with the id of the new row              *)
(*     "copy"    rewrite_marked, with the id to mark or All                *)
Op == [pc : {"idle", "append", "copy"}, account : Accounts \cup {NoAccount}, id : 0 .. MaxRows]

Idle == [pc |-> "idle", account |-> NoAccount, id |-> 0]

Init ==
    /\ rows = <<>>
    /\ copy = <<>>
    /\ mutex = NoThread
    /\ op = [t \in Threads |-> Idle]
    /\ acked = {}

\* Fault: the function runs without the mutex.
AcquireAnyway(t) == mutex' = t

Acquire(t) ==
    /\ mutex = NoThread
    /\ mutex' = t

\* The thread unlocks the mutex and answers.
Release(t) ==
    /\ mutex' = NoThread
    /\ op' = [op EXCEPT ![t] = Idle]

-----------------------------------------------------------------------------
(* notification_add *)

\* Fault: the largest id is not incremented.
IsNextIdUnincremented(id) ==
    /\ \A i \in DOMAIN rows : rows[i].id <= id
    /\ id = 0 \/ \E i \in DOMAIN rows : rows[i].id = id

\* read_last_id finds the largest id, and the next one follows it.
IsNextId(id) ==
    /\ \A i \in DOMAIN rows : rows[i].id < id
    /\ id = 1 \/ \E i \in DOMAIN rows : rows[i].id + 1 = id

BeginAdd(t, account) ==
    /\ op[t].pc = "idle"
    /\ Acquire(t)
    /\ \E id \in 0 .. MaxRows :
            /\ IsNextId(id)
            /\ op' = [op EXCEPT ![t] = [pc |-> "append", account |-> account, id |-> id]]
    /\ UNCHANGED <<rows, copy, acked>>

AppendRow(t) ==
    /\ op[t].pc = "append"
    /\ rows' = Append(rows, [id |-> op[t].id, account |-> op[t].account, read |-> FALSE])
    /\ Release(t)
    /\ UNCHANGED <<copy, acked>>

\* The row cannot be written.
AppendRowFails(t) ==
    /\ op[t].pc = "append"
    /\ Release(t)
    /\ UNCHANGED <<rows, copy, acked>>

-----------------------------------------------------------------------------
(* notification_mark_read, notification_mark_all_read *)

\* The second file is opened for writing: what an earlier one left is gone.
BeginMark(t, account, id) ==
    /\ op[t].pc = "idle"
    /\ Acquire(t)
    /\ copy' = <<>>
    /\ op' = [op EXCEPT ![t] = [pc |-> "copy", account |-> account, id |-> id]]
    /\ UNCHANGED <<rows, acked>>

\* Fault: the row of any account is marked.
ConcernsAnybody(row, account, id) == id = All \/ row.id = id

\* The rows rewrite_marked marks.
Concerns(row, account, id) ==
    /\ row.account = account
    /\ id = All \/ row.id = id

Marked(row, account, id) ==
    IF Concerns(row, account, id) THEN [row EXCEPT !.read = TRUE] ELSE row

CopyRow(t) ==
    /\ op[t].pc = "copy"
    /\ Len(copy) < Len(rows)
    /\ copy' = Append(copy, Marked(rows[Len(copy) + 1], op[t].account, op[t].id))
    /\ UNCHANGED <<rows, mutex, op, acked>>

Found(t) == \E i \in DOMAIN rows : Concerns(rows[i], op[t].account, op[t].id)

Copied(t) == op[t].pc = "copy" /\ Len(copy) = Len(rows)

Acknowledged(t) ==
    {rows[i].id : i \in {i \in DOMAIN rows : Concerns(rows[i], op[t].account, op[t].id)}}

\* rename puts the second file in the place of the first; the reply is OK.
Rename(t) ==
    /\ Copied(t)
    /\ op[t].id = All \/ Found(t)
    /\ rows' = copy
    /\ copy' = <<>>
    /\ acked' = acked \cup Acknowledged(t)
    /\ Release(t)

\* Fault: the result of rename is not looked at.
RenameFailsUnnoticed(t) ==
    /\ Copied(t)
    /\ op[t].id = All \/ Found(t)
    /\ acked' = acked \cup Acknowledged(t)
    /\ Release(t)
    /\ UNCHANGED <<rows, copy>>

\* rename fails: the second file stays behind; the reply is ERR.
RenameFails(t) ==
    /\ Copied(t)
    /\ op[t].id = All \/ Found(t)
    /\ Release(t)
    /\ UNCHANGED <<rows, copy, acked>>

\* No row is concerned: the second file is unlinked; the reply is ERR.
NotFound(t) ==
    /\ Copied(t)
    /\ op[t].id # All /\ ~Found(t)
    /\ copy' = <<>>
    /\ Release(t)
    /\ UNCHANGED <<rows, acked>>

\* A read or a write fails on the way: the second file is unlinked.
CopyFails(t) ==
    /\ op[t].pc = "copy"
    /\ copy' = <<>>
    /\ Release(t)
    /\ UNCHANGED <<rows, acked>>

-----------------------------------------------------------------------------

\* The server is killed and started again.
Crash ==
    /\ mutex' = NoThread
    /\ op' = [t \in Threads |-> Idle]
    /\ UNCHANGED <<rows, copy, acked>>

AddStep(t) ==
    \/ \E a \in Accounts : BeginAdd(t, a)
    \/ AppendRow(t)
    \/ AppendRowFails(t)

MarkStep(t) ==
    \/ \E a \in Accounts, id \in 0 .. MaxRows : BeginMark(t, a, id)
    \/ CopyRow(t)
    \/ Rename(t)
    \/ RenameFails(t)
    \/ NotFound(t)
    \/ CopyFails(t)

Next == Crash \/ \E t \in Threads : AddStep(t) \/ MarkStep(t)

Spec == Init /\ [][Next]_vars

-----------------------------------------------------------------------------

TypeOK ==
    /\ rows \in Seq(Row)
    /\ copy \in Seq(Row)
    /\ mutex \in Threads \cup {NoThread}
    /\ op \in [Threads -> Op]
    /\ acked \subseteq 1 .. MaxRows

(* The thread that holds the mutex is the one inside notification.c, and   *)
(* nobody holds it when no thread is: none of the many error returns       *)
(* leaves it locked, or every later command would wait for ever.           *)
MutexHeldInside == \A t \in Threads : op[t].pc # "idle" <=> mutex = t

(* Ids grow along the file, so that MARK_READ names one notification: the  *)
(* id is read and the row appended in one critical section, and rewriting  *)
(* keeps the order.                                                        *)
IdsIncrease == \A i, j \in DOMAIN rows : i < j => rows[i].id < rows[j].id

(* A notification that its account was told is read is read, through later *)
(* additions, rewrites that fail, and kills of the server.                 *)
AcknowledgedStaysRead ==
    \A id \in acked : \E i \in DOMAIN rows : rows[i].id = id /\ rows[i].read

Board == INSTANCE NotificationBoard WITH
             Ids <- 1 .. MaxRows, board <- {rows[i] : i \in DOMAIN rows}

(* The file behaves as a board of notifications: none is ever lost, read   *)
(* flags are never taken back, and only its own account marks one read,    *)
(* although rows are copied one by one and the server may be killed        *)
(* between any two of them.                                                *)
ImplementsBoard == Board!Spec
=============================================================================

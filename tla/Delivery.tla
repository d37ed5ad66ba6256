------------------------------ MODULE Delivery ------------------------------
(***************************************************************************)
(* How threads write to sockets, their own and each other's, and which     *)
(* mutexes they hold meanwhile: GROUP_SEND, GROUP_CREATE, PRIVATE, the     *)
(* EVENTs of the BBS, FILE_READY, DOWNLOAD, the lists and plain answers    *)
(* (server.c), the visitors of social.c and notification.c, and the chat   *)
(* log (chat.c).                                                           *)
(*                                                                         *)
(* Four kinds of mutexes are held while something is written: social_mutex *)
(* over the visit of a group or of the rows of FRIENDS, REQUESTS,          *)
(* SENT_REQUESTS and GROUPS, notification_mutex over those of              *)
(* NOTIFICATIONS, clients_mutex over one slot or all of them, and the      *)
(* send_mutex of a slot over one line, or over the header and the bytes of *)
(* a file.  Under social_mutex the visitors also take users_file_mutex and *)
(* notification_mutex for a moment.  Scans and appends by threads that     *)
(* hold no other mutex and take no other are single actions, or left out:  *)
(* those of the BBS and of the log, and social_is_group_member and         *)
(* social_are_friends.                                                     *)
(* Sockets are blocking and hold a bounded number of items: a line, a      *)
(* header, or a chunk of a file.                                           *)
(*                                                                         *)
(* Every user is logged in on one slot (OneSessionPerAccount of Sessions), *)
(* and a thread and a slot are named by the user.  Slots stay logged in    *)
(* when their peer is gone, until their thread has noticed; what becomes   *)
(* of them then is in Sessions.  All users are members of one group, and   *)
(* of the groups that GROUP_CREATE makes.                                  *)
(***************************************************************************)
EXTENDS Naturals, Sequences, SequencesExt

CONSTANTS
    Slots,          \* the users in the order of their slots
    Members,        \* the users in the order of their rows in group_members.db
    Capacity,       \* what a socket holds
    FileChunks,     \* chunks of a file that is downloaded
    Rows,           \* bound: rows that a list has for its reader
    MaxMessages,    \* bound: commands that send a message to others
    MaxReads,       \* bound: commands that send something to their peer only
    Nobody          \* not a user: a mutex is free

VARIABLES
    messages,       \* who sent each message, and how, in the order of commands
    reads,          \* number of commands so far that send to their peer only
    thread,         \* the command each user's thread is running
    social,         \* the holder of social_mutex
    notification,   \* the holder of notification_mutex
    accounts,       \* the holder of users_file_mutex
    clients,        \* the holder of clients_mutex
    sending,        \* the holder of the send_mutex of each slot
    socket,         \* what each peer has yet to read
    expected,       \* chunks of a file each peer's reader expects next
    gone,           \* the users whose peer has hung up
    heard,          \* the messages written to each peer, in order
    log             \* the messages in chat.log, in order

locks   == <<social, notification, accounts, clients, sending>>
streams == <<socket, expected, gone>>
vars    == <<messages, reads, thread, locks, streams, heard, log>>

Users == ToSet(Slots)

ASSUME DeliveryAssumption ==
    /\ Slots \in Seq(Users)
    /\ Members \in Seq(Users) /\ ToSet(Members) = Users
    /\ Capacity \in Nat \ {0}
    /\ FileChunks \in Nat
    /\ Rows \in Nat
    /\ MaxMessages \in Nat
    /\ MaxReads \in Nat
    /\ Nobody \notin Users

Talk == {"group", "invite", "private", "event"}

Message == [from : Users, kind : Talk, to : SUBSET Users]

Item == {"line", "header", "chunk"}

Pc == {"line", "begin", "accounts", "found", "notify", "noted", "social", "member",
       "clients", "slot", "write", "log", "answer", "reply", "download", "header", "chunks",
       "open", "opening", "row", "item", "listing"}

Kind == {"none", "download", "list", "notifications"} \cup Talk

\* rest: the slots still to be written to.  chunks, rows: what is left of a
\* file, of a list.
Op == [pc : Pc, kind : Kind, msg : Nat, rest : Seq(Users), chunks : 0 .. FileChunks,
       rows : 0 .. Rows]

AtLine == [pc |-> "line", kind |-> "none", msg |-> 0, rest |-> <<>>, chunks |-> 0,
           rows |-> 0]

Init ==
    /\ messages = <<>>
    /\ reads = 0
    /\ thread = [u \in Users |-> AtLine]
    /\ social = Nobody
    /\ notification = Nobody
    /\ accounts = Nobody
    /\ clients = Nobody
    /\ sending = [u \in Users |-> Nobody]
    /\ socket = [u \in Users |-> <<>>]
    /\ expected = [u \in Users |-> 0]
    /\ gone = {}
    /\ heard = [u \in Users |-> <<>>]
    /\ log = <<>>

-----------------------------------------------------------------------------
(* The peers *)

\* A line arrives that makes the thread send a message to others.
SendMessage(u, kind, rest, to) ==
    /\ thread[u].pc = "line"
    /\ u \notin gone
    /\ Len(messages) < MaxMessages
    /\ messages' = Append(messages, [from |-> u, kind |-> kind, to |-> to])
    /\ thread' = [thread EXCEPT ![u] = [AtLine EXCEPT !.pc = "begin", !.kind = kind,
                                           !.msg = Len(messages) + 1, !.rest = rest]]
    /\ UNCHANGED <<reads, locks, streams, heard, log>>

GroupSend(u) == SendMessage(u, "group", Members, Users)

\* GROUP_CREATE: notify_group_invited; the group has the same members.
GroupCreate(u) == SendMessage(u, "invite", Members, Users \ {u})

Private(u, recipient) == SendMessage(u, "private", <<recipient>>, {recipient})

\* POST and REPLY: broadcast_to_logged_in_except.  FILE_READY of an UPLOAD takes
\* the mutexes that REPLY takes, for one slot.
Event(u) == SendMessage(u, "event", Slots, Users \ {u})

\* A line arrives that makes the thread send something to its own peer.
SendBack(u, kind) ==
    /\ thread[u].pc = "line"
    /\ u \notin gone
    /\ reads < MaxReads
    /\ reads' = reads + 1
    /\ thread' = [thread EXCEPT ![u] = [AtLine EXCEPT !.pc = "begin", !.kind = kind,
                                           !.rows = Rows]]
    /\ UNCHANGED <<messages, locks, streams, heard, log>>

Download(u) == SendBack(u, "download")

\* FRIENDS, REQUESTS, SENT_REQUESTS and GROUPS.
List(u) == SendBack(u, "list")

\* NOTIFICATIONS.
ListNotifications(u) == SendBack(u, "notifications")

\* The clients read all the time: the receiver_thread of client.c, and the
\* event loop or the reader thread of the others.
Read(u) ==
    /\ socket[u] # <<>>
    /\ socket' = [socket EXCEPT ![u] = Tail(@)]
    /\ expected' = [expected EXCEPT ![u] =
            CASE Head(socket[u]) = "header"        -> FileChunks
              [] Head(socket[u]) = "chunk" /\ @ > 0 -> @ - 1
              [] OTHER                              -> @]
    /\ UNCHANGED <<messages, reads, thread, locks, gone, heard, log>>

HangUp(u) ==
    /\ u \notin gone
    /\ gone' = gone \cup {u}
    /\ socket' = [socket EXCEPT ![u] = <<>>]
    /\ expected' = [expected EXCEPT ![u] = 0]
    /\ UNCHANGED <<messages, reads, thread, locks, heard, log>>

-----------------------------------------------------------------------------
(* The threads *)

Goes(u, pc) == thread' = [thread EXCEPT ![u].pc = pc]

\* send_all has put the item into the socket of v, or fails as the peer is gone.
\* Otherwise it blocks.
Puts(v, item) ==
    \/ v \in gone /\ UNCHANGED socket
    \/ /\ v \notin gone
       /\ Len(socket[v]) < Capacity
       /\ socket' = [socket EXCEPT ![v] = Append(@, item)]

\* Where a thread goes once it knows that its user is logged in: every command
\* that names a user looks for him, REPLY for the author of the post.
Begins(kind) ==
    CASE kind = "group"                  -> {"social"}
      [] kind \in {"invite", "private"} -> {"accounts"}
      [] kind = "event"                  -> {"accounts", "clients"}
      [] kind = "download"               -> {"download"}
      [] OTHER                           -> {"open"}

\* client_is_logged_in takes clients_mutex for a moment.
LoggedIn(u) ==
    /\ thread[u].pc = "begin"
    /\ clients = Nobody
    /\ \E pc \in Begins(thread[u].kind) : Goes(u, pc)
    /\ UNCHANGED <<messages, reads, locks, streams, heard, log>>

\* user_find, user_find_by_account.
LockAccounts(u) ==
    /\ thread[u].pc = "accounts"
    /\ accounts = Nobody
    /\ accounts' = u
    /\ Goes(u, "found")
    /\ UNCHANGED <<messages, reads, social, notification, clients, sending, streams,
                   heard, log>>

\* What follows: the author of a post may be who replies, and the visitors leave
\* a row out whose account they do not find.
Found(kind) ==
    CASE kind = "private" -> {"clients"}
      [] kind = "invite"  -> {"social"}
      [] kind = "event"   -> {"notify", "clients"}
      [] OTHER            -> {"item", "row"}

UnlockAccounts(u) ==
    /\ thread[u].pc = "found"
    /\ accounts' = Nobody
    /\ \E pc \in Found(thread[u].kind) : Goes(u, pc)
    /\ UNCHANGED <<messages, reads, social, notification, clients, sending, streams,
                   heard, log>>

Target(u) == Head(thread[u].rest)

\* The slot of who caused an EVENT, the row of who created the group.
Excepted(u) == thread[u].kind \in {"event", "invite"} /\ Target(u) = u

\* notification_add, which appends a row; notification_visit_for.
LockNotification(u) ==
    /\ \/ thread[u].pc = "notify"
       \/ thread[u].pc = "member" /\ thread[u].rest # <<>> /\ ~Excepted(u)
    /\ notification = Nobody
    /\ notification' = u
    /\ Goes(u, IF thread[u].kind = "notifications" THEN "row" ELSE "noted")
    /\ UNCHANGED <<messages, reads, social, accounts, clients, sending, streams, heard,
                   log>>

UnlockNotification(u) ==
    /\ thread[u].pc = "noted"
    /\ notification' = Nobody
    /\ Goes(u, "clients")
    /\ UNCHANGED <<messages, reads, social, accounts, clients, sending, streams, heard,
                   log>>

\* What is done under social_mutex.
Visits(kind) ==
    CASE kind = "group"  -> "clients"
      [] kind = "invite" -> "member"
      [] OTHER           -> "row"

\* Fault: the members are visited under no mutex.
LockSocialNever(u) ==
    /\ thread[u].pc = "social"
    /\ Goes(u, Visits(thread[u].kind))
    /\ UNCHANGED <<messages, reads, locks, streams, heard, log>>

\* social_visit_group_members, social_visit_friends, social_visit_groups_for.
LockSocial(u) ==
    /\ thread[u].pc = "social"
    /\ social = Nobody
    /\ social' = u
    /\ Goes(u, Visits(thread[u].kind))
    /\ UNCHANGED <<messages, reads, notification, accounts, clients, sending, streams,
                   heard, log>>

\* send_to_account, broadcast_to_logged_in_except.
LockClients(u) ==
    /\ thread[u].pc = "clients"
    /\ clients = Nobody
    /\ clients' = u
    /\ Goes(u, "slot")
    /\ UNCHANGED <<messages, reads, social, notification, accounts, sending, streams, heard,
                   log>>

SkipSlot(u) ==
    /\ thread[u].pc \in {"slot", "member"}
    /\ thread[u].rest # <<>>
    /\ Excepted(u)
    /\ thread' = [thread EXCEPT ![u].rest = Tail(@)]
    /\ UNCHANGED <<messages, reads, locks, streams, heard, log>>

\* Fault: the send_mutex of the slot is not waited for.
LockSlotAnyway(u) ==
    /\ thread[u].pc = "slot"
    /\ thread[u].rest # <<>>
    /\ ~Excepted(u)
    /\ sending' = [sending EXCEPT ![Target(u)] = u]
    /\ Goes(u, "write")
    /\ UNCHANGED <<messages, reads, social, notification, accounts, clients, streams, heard,
                   log>>

\* slot_send_line.
LockSlot(u) ==
    /\ thread[u].pc = "slot"
    /\ thread[u].rest # <<>>
    /\ ~Excepted(u)
    /\ sending[Target(u)] = Nobody
    /\ sending' = [sending EXCEPT ![Target(u)] = u]
    /\ Goes(u, "write")
    /\ UNCHANGED <<messages, reads, social, notification, accounts, clients, streams, heard,
                   log>>

\* What a thread does once a line is written: EVENTs go to the next slot under
\* the same clients_mutex, GMSGs and invitations to the next member under the
\* same social_mutex.
Written(u) ==
    LET rest == Tail(thread[u].rest)
        goes(pc) == thread' = [thread EXCEPT ![u].pc = pc, ![u].rest = rest] IN
    CASE thread[u].kind = "event"                      -> /\ goes("slot")
                                                          /\ UNCHANGED <<social, clients>>
      [] thread[u].kind = "group" /\ rest # <<>>       -> /\ goes("clients")
                                                          /\ clients' = Nobody
                                                          /\ UNCHANGED social
      [] thread[u].kind = "invite"                     -> /\ goes("member")
                                                          /\ clients' = Nobody
                                                          /\ UNCHANGED social
      [] OTHER -> /\ goes("log")
                  /\ clients' = Nobody
                  /\ social' = IF thread[u].kind = "group" THEN Nobody ELSE social

\* Fault: a socket that is full makes send_line fail, which nobody looks at.
WriteUnlessFull(u) ==
    LET v == Target(u) IN
    /\ thread[u].pc = "write"
    /\ IF v \in gone \/ Len(socket[v]) >= Capacity
       THEN UNCHANGED <<socket, heard>>
       ELSE /\ socket' = [socket EXCEPT ![v] = Append(@, "line")]
            /\ heard' = [heard EXCEPT ![v] = Append(@, thread[u].msg)]
    /\ sending' = [sending EXCEPT ![v] = Nobody]
    /\ Written(u)
    /\ UNCHANGED <<messages, reads, notification, accounts, expected, gone, log>>

\* send_line, and the mutexes are given back.  Nobody looks at the outcome of
\* send_line for a group; a private message that cannot be sent is not logged.
Write(u) ==
    LET v == Target(u) IN
    /\ thread[u].pc = "write"
    /\ Puts(v, "line")
    /\ heard' = IF v \in gone THEN heard
                ELSE [heard EXCEPT ![v] = Append(@, thread[u].msg)]
    /\ sending' = [sending EXCEPT ![v] = Nobody]
    /\ IF thread[u].kind = "private" /\ v \in gone
       THEN /\ Goes(u, "answer")
            /\ clients' = Nobody
            /\ UNCHANGED social
       ELSE Written(u)
    /\ UNCHANGED <<messages, reads, notification, accounts, expected, gone, log>>

\* The last slot has been written to.
EndEvent(u) ==
    /\ thread[u].pc = "slot"
    /\ thread[u].rest = <<>>
    /\ clients' = Nobody
    /\ Goes(u, "answer")
    /\ UNCHANGED <<messages, reads, social, notification, accounts, sending, streams, heard,
                   log>>

\* The last member has been invited.
EndInvite(u) ==
    /\ thread[u].pc = "member"
    /\ thread[u].rest = <<>>
    /\ social' = Nobody
    /\ Goes(u, "answer")
    /\ UNCHANGED <<messages, reads, notification, accounts, clients, sending, streams,
                   heard, log>>

\* write_log_entry.  GROUP_SEND has no answer when all went well.
Log(u) ==
    /\ thread[u].pc = "log"
    /\ log' = Append(log, thread[u].msg)
    /\ thread' = [thread EXCEPT ![u] = IF thread[u].kind = "group" THEN AtLine
                                       ELSE [@ EXCEPT !.pc = "answer"]]
    /\ UNCHANGED <<messages, reads, locks, streams, heard>>

\* "ERR group send failed", "ERR private message log failed".
LogFails(u) ==
    /\ thread[u].pc = "log"
    /\ Goes(u, "answer")
    /\ UNCHANGED <<messages, reads, locks, streams, heard, log>>

\* Fault: the visitor of NOTIFICATIONS asks whether a row is from a friend, for
\* which it needs social_mutex.
LockOwnAskingFriends(u) ==
    /\ thread[u].pc \in {"answer", "download", "open", "item"}
    /\ thread[u].pc = "item" /\ thread[u].kind = "notifications" => social = Nobody
    /\ sending[u] = Nobody
    /\ sending' = [sending EXCEPT ![u] = u]
    /\ Goes(u, CASE thread[u].pc = "answer"   -> "reply"
                 [] thread[u].pc = "download" -> "header"
                 [] thread[u].pc = "open"     -> "opening"
                 [] OTHER                     -> "listing")
    /\ UNCHANGED <<messages, reads, social, notification, accounts, clients, streams, heard,
                   log>>

\* slot_send_line and send_download take the thread's own send_mutex.
LockOwn(u) ==
    /\ thread[u].pc \in {"answer", "download", "open", "item"}
    /\ sending[u] = Nobody
    /\ sending' = [sending EXCEPT ![u] = u]
    /\ Goes(u, CASE thread[u].pc = "answer"   -> "reply"
                 [] thread[u].pc = "download" -> "header"
                 [] thread[u].pc = "open"     -> "opening"
                 [] OTHER                     -> "listing")
    /\ UNCHANGED <<messages, reads, social, notification, accounts, clients, streams, heard,
                   log>>

\* An answer, the END line of a list.
Reply(u) ==
    /\ thread[u].pc = "reply"
    /\ Puts(u, "line")
    /\ sending' = [sending EXCEPT ![u] = Nobody]
    /\ thread' = [thread EXCEPT ![u] = AtLine]
    /\ UNCHANGED <<messages, reads, social, notification, accounts, clients, expected, gone,
                   heard, log>>

\* The BEGIN line of a list, which is written before its mutex is taken.
Opening(u) ==
    /\ thread[u].pc = "opening"
    /\ Puts(u, "line")
    /\ sending' = [sending EXCEPT ![u] = Nobody]
    /\ IF u \in gone THEN thread' = [thread EXCEPT ![u] = AtLine]
       ELSE Goes(u, IF thread[u].kind = "notifications" THEN "notify" ELSE "social")
    /\ UNCHANGED <<messages, reads, social, notification, accounts, clients, expected, gone,
                   heard, log>>

\* The visitors read the next row that is for their reader: all of them look for
\* its account, but those of GROUPS and NOTIFICATIONS.
Row(u) ==
    /\ thread[u].pc = "row"
    /\ thread[u].rows > 0
    /\ \E pc \in IF thread[u].kind = "list" THEN {"accounts", "item"} ELSE {"item"} :
          thread' = [thread EXCEPT ![u].pc = pc, ![u].rows = @ - 1]
    /\ UNCHANGED <<messages, reads, locks, streams, heard, log>>

GivesListBack(u) ==
    IF thread[u].kind = "notifications" THEN notification' = Nobody /\ UNCHANGED social
    ELSE social' = Nobody /\ UNCHANGED notification

\* There are no more rows, which a list may have fewer of than its bound.
EndRows(u) ==
    /\ thread[u].pc = "row"
    /\ GivesListBack(u)
    /\ Goes(u, "answer")
    /\ UNCHANGED <<messages, reads, accounts, clients, sending, streams, heard, log>>

\* The line of a row.  When it cannot be sent, the visit ends and the connection
\* too.
Listing(u) ==
    /\ thread[u].pc = "listing"
    /\ Puts(u, "line")
    /\ sending' = [sending EXCEPT ![u] = Nobody]
    /\ IF u \in gone
       THEN /\ thread' = [thread EXCEPT ![u] = AtLine]
            /\ GivesListBack(u)
       ELSE /\ Goes(u, "row")
            /\ UNCHANGED <<social, notification>>
    /\ UNCHANGED <<messages, reads, accounts, clients, expected, gone, heard, log>>

\* The FILE line of send_download.
Header(u) ==
    /\ thread[u].pc = "header"
    /\ Puts(u, "header")
    /\ IF u \in gone
       THEN /\ thread' = [thread EXCEPT ![u] = AtLine]
            /\ sending' = [sending EXCEPT ![u] = Nobody]
       ELSE /\ thread' = [thread EXCEPT ![u].pc = "chunks", ![u].chunks = FileChunks]
            /\ UNCHANGED sending
    /\ UNCHANGED <<messages, reads, social, notification, accounts, clients, expected, gone,
                   heard, log>>

\* Fault: remaining is compared the wrong way round.
ChunkTooMany(u) ==
    /\ thread[u].pc = "chunks"
    /\ Puts(u, "chunk")
    /\ thread' = [thread EXCEPT ![u].chunks = @ - 1]
    /\ UNCHANGED <<messages, reads, locks, expected, gone, heard, log>>

\* file_send_contents.
Chunk(u) ==
    /\ thread[u].pc = "chunks"
    /\ thread[u].chunks > 0
    /\ Puts(u, "chunk")
    /\ thread' = [thread EXCEPT ![u].chunks = @ - 1]
    /\ UNCHANGED <<messages, reads, locks, expected, gone, heard, log>>

\* All has been sent, or the file came short and the connection ends.
EndDownload(u) ==
    /\ thread[u].pc = "chunks"
    /\ thread[u].chunks = 0
    /\ sending' = [sending EXCEPT ![u] = Nobody]
    /\ thread' = [thread EXCEPT ![u] = AtLine]
    /\ UNCHANGED <<messages, reads, social, notification, accounts, clients, streams, heard,
                   log>>

-----------------------------------------------------------------------------

PeerStep(u) ==
    \/ GroupSend(u)
    \/ GroupCreate(u)
    \/ \E recipient \in Users \ {u} : Private(u, recipient)
    \/ Event(u)
    \/ Download(u)
    \/ List(u)
    \/ ListNotifications(u)
    \/ HangUp(u)

ThreadStep(u) ==
    \/ LoggedIn(u)
    \/ LockAccounts(u)
    \/ UnlockAccounts(u)
    \/ LockNotification(u)
    \/ UnlockNotification(u)
    \/ LockSocial(u)
    \/ LockClients(u)
    \/ SkipSlot(u)
    \/ LockSlot(u)
    \/ Write(u)
    \/ EndEvent(u)
    \/ EndInvite(u)
    \/ Log(u)
    \/ LogFails(u)
    \/ LockOwn(u)
    \/ Reply(u)
    \/ Opening(u)
    \/ Row(u)
    \/ EndRows(u)
    \/ Listing(u)
    \/ Header(u)
    \/ Chunk(u)
    \/ EndDownload(u)

Next == \E u \in Users : PeerStep(u) \/ Read(u) \/ ThreadStep(u)

Spec == Init /\ [][Next]_vars

\* Threads run unless they wait for a mutex or for room in a socket; peers
\* read what they are sent.  Nothing is said of what peers send.
Fairness ==
    \A u \in Users : WF_vars(ThreadStep(u)) /\ WF_vars(Read(u))

FairSpec == Spec /\ Fairness

-----------------------------------------------------------------------------

TypeOK ==
    /\ messages \in Seq(Message)
    /\ reads \in Nat
    /\ thread \in [Users -> Op]
    /\ social \in Users \cup {Nobody}
    /\ notification \in Users \cup {Nobody}
    /\ accounts \in Users \cup {Nobody}
    /\ clients \in Users \cup {Nobody}
    /\ sending \in [Users -> Users \cup {Nobody}]
    /\ socket \in [Users -> Seq(Item)]
    /\ expected \in [Users -> 0 .. FileChunks]
    /\ gone \subseteq Users
    /\ heard \in [Users -> Seq(DOMAIN messages)]
    /\ log \in Seq(DOMAIN messages)

(* The bytes of a file follow its header and nothing comes between them,   *)
(* whoever writes to the same socket meanwhile: a peer never takes a line  *)
(* for a part of the file, nor a part of the file for a line.              *)
ReadersInStep ==
    \A u \in Users : socket[u] # <<>> => (expected[u] > 0 <=> Head(socket[u]) = "chunk")

GroupMessages == {m \in DOMAIN messages : messages[m].kind = "group"}

GroupHeard(u) == ToSet(heard[u]) \cap GroupMessages

(* All members get the messages of the group in one order, however many of *)
(* them send at the same time: what one has heard before some message, any *)
(* other who has that message had heard before it too.  And nobody misses  *)
(* one that others have, but for the latest ones and for who has hung up.  *)
(* A member whose row is repeated hears a message as many times.           *)
OneOrder ==
    \A u, v \in Users :
        /\ \A j \in DOMAIN heard[u], l \in DOMAIN heard[v] :
              heard[u][j] = heard[v][l] /\ heard[u][j] \in GroupMessages =>
                \A i \in 1 .. j - 1 : heard[u][i] \in GroupMessages =>
                    \E k \in 1 .. l : heard[v][k] = heard[u][i]
        /\ GroupHeard(u) \subseteq GroupHeard(v) \/ GroupHeard(v) \subseteq GroupHeard(u)

\* HISTORY_GROUP, and HISTORY_PRIVATE v of u: lines of chat.log, in its order.
GroupHistory == ToSet(log) \cap GroupMessages

PrivateHistory(u, v) ==
    {m \in ToSet(log) : /\ messages[m].kind = "private"
                        /\ {messages[m].from} \cup messages[m].to = {u, v}}

(* chat.log, which is written after all mutexes have been given back, has  *)
(* the messages of a sender in the order he sent them, each at most once.  *)
(* What a connected user finds there as sent to him has been sent to him.  *)
HistoryAgrees ==
    /\ \A i, j \in DOMAIN log :
            i < j /\ messages[log[i]].from = messages[log[j]].from => log[i] < log[j]
    /\ \A u \in Users \ gone :
            /\ GroupHistory \subseteq ToSet(heard[u])
            /\ \A v \in Users : \A m \in PrivateHistory(u, v) :
                    u \in messages[m].to => m \in ToSet(heard[u])

(* Every command comes to its end: nobody waits for ever for a mutex or    *)
(* for room in a socket, although threads wait for sockets while they hold *)
(* mutexes that all others need.                                           *)
CommandsEnd == \A u \in Users : thread[u].pc # "line" ~> thread[u].pc = "line"
=============================================================================

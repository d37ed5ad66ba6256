------------------------------ MODULE Sessions ------------------------------
(***************************************************************************)
(* Connections, client slots and logins (server.c).                        *)
(*                                                                         *)
(* run_server accepts a connection, gives it a slot of the table clients[] *)
(* and starts a detached thread for it.  The thread reads one command line *)
(* after the other and, when the connection ends, first clears the slot    *)
(* and then closes the descriptor.  The table is shared: a command of any  *)
(* thread may write to the sockets named in it, and clients_mutex is held  *)
(* for every read and write of it.  Descriptors and slots are reused, so a *)
(* write through a stale slot would reach somebody else's connection.      *)
(*                                                                         *)
(* A thread keeps its descriptor until it closes it: threads are named by  *)
(* their descriptor.  Each critical section is one action.                 *)
(***************************************************************************)
EXTENDS UserStore

CONSTANTS
    MaxClients,     \* the length of clients[]
    Fds,            \* descriptors accept() may return
    NoFd,           \* the descriptor of a free slot (-1 in the code)
    NoName,         \* the empty username or nickname
    NoUser,         \* no UserRecord: nobody has authenticated
    MaxSent         \* bound: command lines sent and not yet read

VARIABLES
    clients,        \* the slot table
    listener,       \* run_server: where it is, with which connection and slot
    conn,           \* the sockets: open, peer gone, lines not yet read
    thread,         \* client_thread of each descriptor
    wire            \* the account each connection was written a message for,
                    \* in the last step

sessionVars == <<clients, listener, conn, thread, wire>>
vars == <<users, sessionVars>>

Slots == 1 .. MaxClients
NoSlot == 0

ASSUME SessionsAssumption ==
    /\ MaxClients \in Nat \ {0}
    /\ MaxSent \in Nat
    /\ NoFd \notin Fds
    /\ NoName \notin Accounts \cup Nicknames
    /\ NoUser \notin User

Slot == [active   : BOOLEAN,
         sockfd   : Fds \cup {NoFd},
         loggedIn : BOOLEAN,
         username : Accounts \cup {NoName},
         nickname : Nicknames \cup {NoName}]

Socket == [open : BOOLEAN, gone : BOOLEAN, sent : 0 .. MaxSent]

(* pc: "none"     no thread                                                *)
(*     "command"  between two commands                                     *)
(*     "login"    LOGIN, after user_authenticate                           *)
(*     "leave"    out of the loop, before unregister_client                *)
(*     "close"    before close(sockfd)                                     *)
(* record is the UserRecord of the LOGIN in progress; it is kept, as a     *)
(* history, for as long as the peer is logged in.                          *)
Thread == [pc     : {"none", "command", "login", "leave", "close"},
           slot   : Slots \cup {NoSlot},
           record : User \cup {NoUser}]

Listener == [pc   : {"accept", "register", "create", "close"},
             fd   : Fds \cup {NoFd},
             slot : Slots \cup {NoSlot}]

FreeSlot   == [active |-> FALSE, sockfd |-> NoFd, loggedIn |-> FALSE,
               username |-> NoName, nickname |-> NoName]
NoThread   == [pc |-> "none", slot |-> NoSlot, record |-> NoUser]
Closed     == [open |-> FALSE, gone |-> FALSE, sent |-> 0]
Idle       == [pc |-> "accept", fd |-> NoFd, slot |-> NoSlot]
Silent     == [f \in Fds |-> {}]

Init ==
    /\ StoreInit
    /\ clients = [s \in Slots |-> FreeSlot]
    /\ listener = Idle
    /\ conn = [f \in Fds |-> Closed]
    /\ thread = [f \in Fds |-> NoThread]
    /\ wire = Silent

Online(s) == clients[s].active /\ clients[s].loggedIn
LoggedIn(f) == Online(thread[f].slot)

-----------------------------------------------------------------------------
(* The peers *)

\* A client sends a command line.
Send(f) ==
    /\ conn[f].open /\ ~conn[f].gone /\ conn[f].sent < MaxSent
    /\ conn' = [conn EXCEPT ![f].sent = @ + 1]
    /\ wire' = Silent
    /\ UNCHANGED <<users, clients, listener, thread>>

\* A client closes its end, or its host dies.
Hangup(f) ==
    /\ conn[f].open /\ ~conn[f].gone
    /\ conn' = [conn EXCEPT ![f].gone = TRUE]
    /\ wire' = Silent
    /\ UNCHANGED <<users, clients, listener, thread>>

-----------------------------------------------------------------------------
(* run_server *)

\* accept() returns a descriptor that is not in use.
Accept(f) ==
    /\ listener.pc = "accept"
    /\ ~conn[f].open
    /\ conn' = [conn EXCEPT ![f] = [Closed EXCEPT !.open = TRUE]]
    /\ listener' = [pc |-> "register", fd |-> f, slot |-> NoSlot]
    /\ wire' = Silent
    /\ UNCHANGED <<users, clients, thread>>

\* register_client takes the first slot that is not active.
FirstInactive(s) ==
    /\ ~clients[s].active
    /\ \A r \in 1 .. (s - 1) : clients[r].active

RegisterClient(s) ==
    /\ listener.pc = "register"
    /\ FirstInactive(s)
    /\ clients' = [clients EXCEPT
                       ![s] = [FreeSlot EXCEPT !.active = TRUE,
                                               !.sockfd = listener.fd]]
    /\ listener' = [listener EXCEPT !.pc = "create", !.slot = s]
    /\ wire' = Silent
    /\ UNCHANGED <<users, conn, thread>>

\* register_client finds no slot: "ERR server full", then close.
ServerFull ==
    /\ listener.pc = "register"
    /\ \A s \in Slots : clients[s].active
    /\ listener' = [listener EXCEPT !.pc = "close"]
    /\ wire' = Silent
    /\ UNCHANGED <<users, clients, conn, thread>>

\* pthread_create succeeds.
StartThread ==
    /\ listener.pc = "create"
    /\ thread' = [thread EXCEPT ![listener.fd] =
                     [NoThread EXCEPT !.pc = "command", !.slot = listener.slot]]
    /\ listener' = Idle
    /\ wire' = Silent
    /\ UNCHANGED <<users, clients, conn>>

\* Fault: the error path forgets to unregister the slot.
StartThreadFailsKeepingSlot ==
    /\ listener.pc = "create"
    /\ listener' = [listener EXCEPT !.pc = "close"]
    /\ wire' = Silent
    /\ UNCHANGED <<users, clients, conn, thread>>

\* pthread_create fails: the slot is unregistered before the descriptor closes.
StartThreadFails ==
    /\ listener.pc = "create"
    /\ clients' = [clients EXCEPT ![listener.slot] = FreeSlot]
    /\ listener' = [listener EXCEPT !.pc = "close"]
    /\ wire' = Silent
    /\ UNCHANGED <<users, conn, thread>>

\* Fault: run_server goes back to accept() without closing the descriptor.
ListenerForgetsClose ==
    /\ listener.pc = "close"
    /\ listener' = Idle
    /\ wire' = Silent
    /\ UNCHANGED <<users, clients, conn, thread>>

ListenerCloses ==
    /\ listener.pc = "close"
    /\ conn' = [conn EXCEPT ![listener.fd] = Closed]
    /\ listener' = Idle
    /\ wire' = Silent
    /\ UNCHANGED <<users, clients, thread>>

-----------------------------------------------------------------------------
(* client_thread: the commands *)

\* Fault: a command is run although no line was received.
ReadsNothing(f) ==
    /\ thread[f].pc = "command"
    /\ conn' = [conn EXCEPT ![f].sent = @ - 1]

\* recv_line hands the thread a line its peer sent.
ReadsCommand(f) ==
    /\ thread[f].pc = "command"
    /\ conn[f].sent > 0
    /\ conn' = [conn EXCEPT ![f].sent = @ - 1]

\* The thread ends its command with a reply.  The write to a peer that is gone
\* may fail, and the thread then leaves its loop.
Replies(f, record) ==
    \E pc \in IF conn[f].gone THEN {"command", "leave"} ELSE {"command"} :
        thread' = [thread EXCEPT ![f].pc = pc, ![f].record = record]

\* A command that leaves users and sessions alone, or is refused.
Answer(f) ==
    /\ ReadsCommand(f)
    /\ Replies(f, thread[f].record)
    /\ wire' = Silent
    /\ UNCHANGED <<users, clients, listener>>

\* REGISTER, on a connection that is not logged in.
Register(f, account, password, nickname) ==
    /\ ReadsCommand(f)
    /\ ~LoggedIn(f)
    /\ RegisterStored(account, password, nickname)
    /\ Replies(f, thread[f].record)
    /\ wire' = Silent
    /\ UNCHANGED <<clients, listener>>

(* LOGIN, up to user_authenticate.  Only its own thread changes a slot's   *)
(* loggedIn, so client_is_logged_in and user_authenticate are one step.    *)
Authenticate(f, login, password) ==
    /\ ReadsCommand(f)
    /\ ~LoggedIn(f)
    /\ \E record \in Parsed :
            /\ AuthenticatedAs(login, password, record)
            /\ thread' = [thread EXCEPT ![f].pc = "login", ![f].record = record]
    /\ wire' = Silent
    /\ UNCHANGED <<users, clients, listener>>

\* Fault: login_client looks at its own slot only.
MayLogInUnscanned(s, account) == ~clients[s].loggedIn

\* The scan of login_client: this slot is not logged in and no other slot is
\* logged in as the account.
MayLogIn(s, account) ==
    /\ ~clients[s].loggedIn
    /\ \A r \in Slots \ {s} : Online(r) => clients[r].username # account

\* Fault: the slot is filled with the account, and with the nickname of
\* whoever registered first.
LoginClientWrongNickname(f) ==
    LET s == thread[f].slot  user == thread[f].record IN
    /\ thread[f].pc = "login"
    /\ MayLogIn(s, user.account)
    /\ clients' = [clients EXCEPT ![s].loggedIn = TRUE,
                                  ![s].username = user.account,
                                  ![s].nickname = users[1].nickname]
    /\ Replies(f, thread[f].record)
    /\ wire' = Silent
    /\ UNCHANGED <<users, listener, conn>>

\* login_client succeeds.
LoginClient(f) ==
    LET s == thread[f].slot  user == thread[f].record IN
    /\ thread[f].pc = "login"
    /\ MayLogIn(s, user.account)
    /\ clients' = [clients EXCEPT ![s].loggedIn = TRUE,
                                  ![s].username = user.account,
                                  ![s].nickname = user.nickname]
    /\ Replies(f, thread[f].record)
    /\ wire' = Silent
    /\ UNCHANGED <<users, listener, conn>>

\* "ERR user already logged in".
LoginClientRefused(f) ==
    /\ thread[f].pc = "login"
    /\ ~MayLogIn(thread[f].slot, thread[f].record.account)
    /\ Replies(f, NoUser)
    /\ wire' = Silent
    /\ UNCHANGED <<users, clients, listener, conn>>

\* Fault: a LOGOUT that blanks the names and leaves the slot logged in.
LogoutKeepingFlag(f) ==
    /\ ReadsCommand(f)
    /\ LoggedIn(f)
    /\ clients' = [clients EXCEPT ![thread[f].slot].username = NoName]
    /\ Replies(f, NoUser)
    /\ wire' = Silent
    /\ UNCHANGED <<users, listener>>

\* LOGOUT on a connection that is logged in.
Logout(f) ==
    /\ ReadsCommand(f)
    /\ LoggedIn(f)
    /\ clients' = [clients EXCEPT ![thread[f].slot].loggedIn = FALSE,
                                  ![thread[f].slot].username = NoName,
                                  ![thread[f].slot].nickname = NoName]
    /\ Replies(f, NoUser)
    /\ wire' = Silent
    /\ UNCHANGED <<users, listener>>

\* The test of send_to_account and notify_file_ready for the recipient's slot.
HoldsAccount(s, account) == Online(s) /\ clients[s].username = account

\* A command of a logged-in user that makes the server write to the account's
\* connection, if it has one: the first slot that matches.
Push(f, account) ==
    /\ ReadsCommand(f)
    /\ LoggedIn(f)
    /\ wire' = [g \in Fds |->
                   {account : s \in {s \in Slots :
                        /\ HoldsAccount(s, account)
                        /\ \A r \in 1 .. (s - 1) : ~HoldsAccount(r, account)
                        /\ clients[s].sockfd = g}}]
    /\ Replies(f, thread[f].record)
    /\ UNCHANGED <<users, clients, listener>>

\* A command whose event goes to every other logged-in user.
Broadcast(f) ==
    LET except == clients[thread[f].slot].username IN
    /\ ReadsCommand(f)
    /\ LoggedIn(f)
    /\ wire' = [g \in Fds |->
                   {clients[s].username : s \in {s \in Slots :
                        Online(s) /\ clients[s].username # except
                                  /\ clients[s].sockfd = g}}]
    /\ Replies(f, thread[f].record)
    /\ UNCHANGED <<users, clients, listener>>

-----------------------------------------------------------------------------
(* client_thread: the end *)

\* QUIT: "OK bye", and the loop is left.
Quit(f) ==
    /\ ReadsCommand(f)
    /\ thread' = [thread EXCEPT ![f].pc = "leave"]
    /\ wire' = Silent
    /\ UNCHANGED <<users, clients, listener>>

\* Fault: recv_line's 0 and -1 are taken for a blank line.
EndOfInputIgnored(f) ==
    /\ thread[f].pc = "command"
    /\ conn[f].gone
    /\ wire' = Silent
    /\ UNCHANGED <<users, clients, listener, conn, thread>>

\* recv_line returns 0 (end of file) or -1 (a reset drops what was not read).
EndOfInput(f) ==
    /\ thread[f].pc = "command"
    /\ conn[f].gone
    /\ thread' = [thread EXCEPT ![f].pc = "leave"]
    /\ wire' = Silent
    /\ UNCHANGED <<users, clients, listener, conn>>

\* unregister_client gives the slot back.
Unregister(f) ==
    /\ thread[f].pc = "leave"
    /\ clients' = [clients EXCEPT ![thread[f].slot] = FreeSlot]
    /\ thread' = [thread EXCEPT ![f].pc = "close", ![f].record = NoUser]
    /\ wire' = Silent
    /\ UNCHANGED <<users, listener, conn>>

\* shutdown and close of the thread's own copy of the descriptor.
Close(f) ==
    /\ thread[f].pc = "close"
    /\ conn' = [conn EXCEPT ![f] = Closed]
    /\ thread' = [thread EXCEPT ![f] = NoThread]
    /\ wire' = Silent
    /\ UNCHANGED <<users, clients, listener>>

-----------------------------------------------------------------------------

PeerStep(f) == Send(f) \/ Hangup(f)

ListenerStep ==
    \/ \E s \in Slots : RegisterClient(s)
    \/ ServerFull
    \/ StartThread
    \/ StartThreadFails
    \/ ListenerCloses

ThreadStep(f) ==
    \/ Answer(f)
    \/ \E a \in Accounts, p \in Passwords, n \in Nicknames : Register(f, a, p, n)
    \/ \E login \in Logins, p \in Passwords : Authenticate(f, login, p)
    \/ LoginClient(f)
    \/ LoginClientRefused(f)
    \/ Logout(f)
    \/ \E a \in Accounts : Push(f, a)
    \/ Broadcast(f)
    \/ Quit(f)
    \/ EndOfInput(f)
    \/ Unregister(f)
    \/ Close(f)

Next ==
    \/ ListenerStep
    \/ \E f \in Fds : Accept(f) \/ PeerStep(f) \/ ThreadStep(f)

Spec == Init /\ [][Next]_vars

(* Nothing is assumed of the peers.  A thread and the accepting loop run   *)
(* until they block, and with peers that read what they are sent they      *)
(* block in accept and recv only.                                          *)
Fairness == WF_vars(ListenerStep) /\ \A f \in Fds : WF_vars(ThreadStep(f))

FairSpec == Spec /\ Fairness

-----------------------------------------------------------------------------

TypeOK ==
    /\ users \in Seq(User)
    /\ clients \in [Slots -> Slot]
    /\ listener \in Listener
    /\ conn \in [Fds -> Socket]
    /\ thread \in [Fds -> Thread]
    /\ wire \in [Fds -> SUBSET (Accounts \cup {NoName})]

(* An account is logged in from one connection at most, however many       *)
(* connections authenticate as it at the same time: user_authenticate and  *)
(* login_client are two critical sections and the second one decides.      *)
OneSessionPerAccount ==
    \A r, s \in Slots :
        Online(r) /\ Online(s) /\ clients[r].username = clients[s].username
            => r = s

\* The connection that uses a slot: the one a running thread serves, or the one
\* run_server has registered and not yet handed to a thread.
Uses(f, s) ==
    \/ thread[f].pc \in {"command", "login", "leave"} /\ thread[f].slot = s
    \/ listener.pc = "create" /\ listener.fd = f /\ listener.slot = s

(* An active slot names the open descriptor of the one connection that     *)
(* uses it, and a connection that uses a slot finds it active and naming   *)
(* its own descriptor: a slot is given back before its descriptor is       *)
(* closed and can be reused, and no error path keeps one for ever.         *)
SlotsMatchConnections ==
    \A s \in Slots :
        /\ clients[s].active => \E f \in Fds : Uses(f, s)
        /\ \A f \in Fds : Uses(f, s) =>
              clients[s].active /\ clients[s].sockfd = f /\ conn[f].open

(* Exactly the descriptors that the accepting loop or a thread still has   *)
(* to close are open: none leaks on the paths for a full table or a failed *)
(* pthread_create, and none is closed under a thread that still uses it.   *)
OpenDescriptorsOwned ==
    \A f \in Fds :
        conn[f].open <=> \/ thread[f].pc # "none"
                         \/ listener.pc # "accept" /\ listener.fd = f

(* What the two loops rely on between two steps: a thread that serves a    *)
(* slot has one; a LOGIN in progress is that of a registered user, on a    *)
(* slot that is not logged in; run_server works on a connection that no    *)
(* thread serves yet.                                                      *)
ThreadsConsistent ==
    /\ \A f \in Fds :
        /\ thread[f].pc = "none" => thread[f] = NoThread
        /\ thread[f].pc \in {"command", "login", "leave"} =>
               thread[f].slot \in Slots
        /\ thread[f].pc = "login" =>
               ~LoggedIn(f) /\ thread[f].record \in Parsed
    /\ listener.pc # "accept" =>
           listener.fd \in Fds /\ thread[listener.fd].pc = "none"
    /\ listener.pc = "create" => listener.slot \in Slots

(* A slot is logged in as a registered user, under the names LOGIN found   *)
(* for the thread that serves the slot: another thread's LOGIN or LOGOUT   *)
(* never changes them, and they do not outlive the connection.             *)
SessionsAuthenticated ==
    \A s \in Slots : Online(s) =>
        \E f \in Fds :
            /\ Uses(f, s)
            /\ thread[f].record \in Parsed
            /\ clients[s].username = thread[f].record.account
            /\ clients[s].nickname = thread[f].record.nickname

(* What the server writes to a connection on behalf of somebody else       *)
(* (PMSG, GMSG, FILE_READY, EVENT) was meant for the account its peer is   *)
(* logged in as: not for the previous owner of the slot or descriptor, nor *)
(* for an account the peer has logged out of.                              *)
PushesReachTheirAccount ==
    \A f \in Fds : \A a \in wire[f] :
        thread[f].record # NoUser /\ thread[f].record.account = a

(* A connection whose peer is gone is closed in the end, and its slot and  *)
(* its account are free again: tests/test_restart.py waits for it.         *)
DeadPeersReleased == \A f \in Fds : conn[f].gone ~> ~conn[f].open
=============================================================================

--------------------------- MODULE SessionsProofs ---------------------------
(***************************************************************************)
(* Theorems about the user file, and about connections and logins, for     *)
(* every number of slots and every set of descriptors and of names.        *)
(***************************************************************************)
EXTENDS Sessions, TLAPS

-----------------------------------------------------------------------------
(* The user file *)

\* The inductive invariant: it is what NamesUnique needs to be well defined.
StoreInv == StoreTypeOK /\ NamesUnique

(* A registration whose scan is not disturbed keeps the file well formed   *)
(* and its names unique: the new record differs from every old one in      *)
(* account and in nickname.                                                *)
LEMMA RegisterKeepsStoreInv ==
    ASSUME NEW a \in Accounts, NEW p \in Passwords, NEW n \in Nicknames,
           ~Racing, StoreInv, RegisterStored(a, p, n)
    PROVE  StoreInv'
<1> DEFINE new == [account |-> a, password |-> p, nickname |-> n]
<1>1. new \in User
  BY DEF User
<1>2. /\ users \in Seq(User)
      /\ users' = Append(users, new)
  BY DEF StoreInv, StoreTypeOK, RegisterStored
<1>3. StoreTypeOK'
  BY <1>1, <1>2 DEF StoreTypeOK
<1>4. /\ DOMAIN users' = 1 .. Len(users) + 1
      /\ users'[Len(users) + 1] = new
      /\ DOMAIN users = 1 .. Len(users)
      /\ \A i \in 1 .. Len(users) : users'[i] = users[i]
  BY <1>1, <1>2
<1>5. \A i \in 1 .. Len(users) :
        users[i].account # new.account /\ users[i].nickname # new.nickname
  BY <1>4 DEF RegisterStored, SeemsFree, Taken
<1>6. NamesUnique'
  <2> SUFFICES ASSUME NEW i \in DOMAIN users', NEW j \in DOMAIN users',
                      \/ users'[i].account = users'[j].account
                      \/ users'[i].nickname = users'[j].nickname
               PROVE  i = j
    BY DEF NamesUnique, UniqueNames
  <2>1. CASE i \in 1 .. Len(users) /\ j \in 1 .. Len(users)
    BY <2>1, <1>4 DEF StoreInv, NamesUnique, UniqueNames
  <2>2. CASE i = Len(users) + 1 /\ j \in 1 .. Len(users)
    BY <2>2, <1>4, <1>5
  <2>3. CASE i \in 1 .. Len(users) /\ j = Len(users) + 1
    BY <2>3, <1>4, <1>5
  <2>4. Len(users) \in Nat
    BY <1>2
  <2> QED
    BY <2>1, <2>2, <2>3, <2>4, <1>4
<1> QED
  BY <1>3, <1>6 DEF StoreInv

\* The file the server starts with is well formed.
LEMMA StoreInitInv == StoreInit => StoreInv
BY InitialUsersAssumption DEF StoreInit, StoreInv, StoreTypeOK, NamesUnique

\* Nothing but user records is ever appended.
LEMMA RegisterKeepsType ==
    ASSUME NEW a \in Accounts, NEW p \in Passwords, NEW n \in Nicknames,
           StoreTypeOK, RegisterStored(a, p, n)
    PROVE  StoreTypeOK'
<1>1. [account |-> a, password |-> p, nickname |-> n] \in User
  BY DEF User
<1> QED
  BY <1>1 DEF StoreTypeOK, RegisterStored

(* The file holds user records only, disturbed scans or not.               *)
THEOREM StoreTypeCorrect == StoreSpec => []StoreTypeOK
<1>1. StoreInit => StoreTypeOK
  BY StoreInitInv DEF StoreInv
<1>2. StoreTypeOK /\ [StoreNext]_users => StoreTypeOK'
  BY RegisterKeepsType DEF StoreNext, RegisterRefused, StoreTypeOK
<1> QED
  BY <1>1, <1>2, PTL DEF StoreSpec

(* Accounts and nicknames are unique, whatever is registered in whatever   *)
(* order, when no scan is disturbed.                                       *)
THEOREM NamesStayUnique == ~Racing => (StoreSpec => []NamesUnique)
<1> SUFFICES ASSUME ~Racing PROVE StoreSpec => []NamesUnique
  OBVIOUS
<1>1. StoreInv /\ [StoreNext]_users => StoreInv'
  <2> SUFFICES ASSUME StoreInv, [StoreNext]_users
               PROVE  StoreInv'
    OBVIOUS
  <2>1. CASE UNCHANGED users
    BY <2>1 DEF StoreInv, StoreTypeOK, NamesUnique
  <2>2. CASE StoreNext
    BY <2>1, <2>2, RegisterKeepsStoreInv DEF StoreNext, RegisterRefused
  <2> QED
    BY <2>1, <2>2
<1>2. StoreInv => NamesUnique
  BY DEF StoreInv
<1> QED
  BY <1>1, <1>2, StoreInitInv, PTL DEF StoreSpec

(* What a registration does to a name already known: nothing.              *)
LEMMA RegisterKeepsFound ==
    ASSUME NEW a \in Accounts, NEW p \in Passwords, NEW n \in Nicknames,
           StoreTypeOK, RegisterStored(a, p, n),
           NEW login \in Logins, NEW i, FoundAt(login, i)
    PROVE  FoundAt(login, i)' /\ users'[i] = users[i]
<1> DEFINE new == [account |-> a, password |-> p, nickname |-> n]
<1>1. /\ new \in User
      /\ users \in Seq(User)
      /\ users' = Append(users, new)
  BY DEF User, StoreTypeOK, RegisterStored
<1>2. /\ DOMAIN users = 1 .. Len(users)
      /\ DOMAIN users' = 1 .. Len(users) + 1
      /\ \A j \in 1 .. Len(users) : users'[j] = users[j]
      /\ Len(users) \in Nat
  BY <1>1
<1>3. i \in 1 .. Len(users)
  BY <1>2 DEF FoundAt
<1>4. \A j \in 1 .. (i - 1) : j \in 1 .. Len(users)
  BY <1>2, <1>3
<1> QED
  BY <1>2, <1>3, <1>4 DEF FoundAt, NamedBy

(* A login name that resolves to a user resolves to that user for ever.    *)
THEOREM NamesNeverTakenOver == StoreSpec => NameNeverTakenOver
<1> DEFINE Kept == \A login \in Logins, i \in 1 .. MaxUsers :
                     FoundAt(login, i) => FoundAt(login, i)' /\ users'[i] = users[i]
<1>1. StoreTypeOK /\ StoreNext => Kept \/ UNCHANGED users
  BY RegisterKeepsFound DEF StoreNext, RegisterRefused
<1>2. StoreTypeOK /\ [StoreNext]_users => [Kept]_users
  BY <1>1
<1> QED
  BY <1>2, StoreTypeCorrect, PTL DEF StoreSpec, NameNeverTakenOver

-----------------------------------------------------------------------------
(* What a line may be read as, for the modules that use the file *)

\* A line is read as a user record, disturbed or not.
LEMMA ParsedUsers == StoreTypeOK => Parsed \subseteq User
<1> SUFFICES ASSUME StoreTypeOK, NEW i \in DOMAIN users, NEW record \in Parses(users[i])
             PROVE  record \in User
  BY DEF Parsed
<1>1. users[i] \in User
  BY DEF StoreTypeOK
<1> QED
  BY <1>1 DEF Parses, User

\* A file that stays as it is can be read as before.
LEMMA ParsedSame == users' = users => Parsed' = Parsed
BY DEF Parsed

\* A file that only grows can be read as before, too.
LEMMA ParsedGrows ==
    ASSUME \A i \in DOMAIN users : i \in DOMAIN users' /\ users'[i] = users[i]
    PROVE  Parsed \subseteq Parsed'
BY DEF Parsed
-----------------------------------------------------------------------------
(* The connections *)

\* Slots are positive numbers, so NoSlot is not one of them.
LEMMA SlotsNat == Slots \subseteq Nat \ {0} /\ NoSlot \notin Slots
BY SessionsAssumption DEF Slots, NoSlot

\* The records written as literals have their types.
LEMMA Records ==
    /\ FreeSlot \in Slot
    /\ NoThread \in Thread
    /\ Closed \in Socket
    /\ Idle \in Listener
    /\ Silent \in [Fds -> SUBSET (Accounts \cup {NoName})]
BY SessionsAssumption
   DEF FreeSlot, Slot, NoThread, Thread, Closed, Socket, Idle, Listener, Silent

-----------------------------------------------------------------------------
(* Type correctness *)

\* A step of a peer keeps the types.
LEMMA PeerType ==
    ASSUME TypeOK, NEW f \in Fds, PeerStep(f) PROVE TypeOK'
<1>1. CASE Send(f)
  <2>1. conn'[f] \in Socket
    <3>1. /\ conn'[f] = [conn[f] EXCEPT !.sent = @ + 1]
          /\ conn[f].sent < MaxSent
      BY <1>1 DEF Send, TypeOK
    <3>2. conn[f] \in [open : BOOLEAN, gone : BOOLEAN, sent : 0 .. MaxSent]
      BY DEF TypeOK, Socket
    <3>3. conn[f].sent + 1 \in 0 .. MaxSent
      BY <3>1, <3>2, SessionsAssumption
    <3> QED
      BY <3>1, <3>2, <3>3 DEF Socket
  <2> QED
    BY <1>1, <2>1, Records DEF Send, TypeOK
<1>2. CASE Hangup(f)
  <2>1. conn'[f] \in Socket
    BY <1>2 DEF Hangup, TypeOK, Socket
  <2> QED
    BY <1>2, <2>1, Records DEF Hangup, TypeOK
<1> QED
  BY <1>1, <1>2 DEF PeerStep

\* A step of run_server, accept() included, keeps the types.
LEMMA ListenerType ==
    ASSUME TypeOK, ListenerStep \/ (\E f \in Fds : Accept(f)) PROVE TypeOK'
<1>1. ASSUME NEW f \in Fds, Accept(f) PROVE TypeOK'
  BY <1>1, Records DEF Accept, TypeOK, Socket, Closed, Listener
<1>2. ASSUME NEW s \in Slots, RegisterClient(s) PROVE TypeOK'
  <2>1. [FreeSlot EXCEPT !.active = TRUE, !.sockfd = listener.fd] \in Slot
    BY DEF FreeSlot, Slot, TypeOK, Listener
  <2>2. listener' \in Listener
    BY <1>2 DEF RegisterClient, TypeOK, Listener
  <2> QED
    BY <1>2, <2>1, <2>2, Records DEF RegisterClient, TypeOK
<1>3. CASE ServerFull
  BY <1>3, Records DEF ServerFull, TypeOK, Listener
<1>4. CASE StartThread
  <2>1. [NoThread EXCEPT !.pc = "command", !.slot = listener.slot] \in Thread
    BY DEF NoThread, Thread, TypeOK, Listener
  <2> QED
    BY <1>4, <2>1, Records DEF StartThread, TypeOK
<1>5. CASE StartThreadFails
  <2>1. listener' \in Listener
    BY <1>5 DEF StartThreadFails, TypeOK, Listener
  <2> QED
    BY <1>5, <2>1, Records DEF StartThreadFails, TypeOK
<1>6. CASE ListenerCloses
  BY <1>6, Records DEF ListenerCloses, TypeOK
<1> QED
  BY <1>1, <1>2, <1>3, <1>4, <1>5, <1>6 DEF ListenerStep

\* A reply leaves the threads well typed.
LEMMA RepliesType ==
    ASSUME TypeOK, NEW f \in Fds, NEW user \in User \cup {NoUser}, Replies(f, user)
    PROVE  thread' \in [Fds -> Thread]
<1>1. PICK pc \in {"command", "leave"} :
          thread' = [thread EXCEPT ![f].pc = pc, ![f].record = user]
  BY DEF Replies
<1>2. [thread[f] EXCEPT !.pc = pc, !.record = user] \in Thread
  BY DEF TypeOK, Thread
<1> QED
  BY <1>1, <1>2 DEF TypeOK

\* Reading a command line leaves the sockets well typed.
LEMMA ReadsType ==
    ASSUME TypeOK, NEW f \in Fds, ReadsCommand(f) PROVE conn' \in [Fds -> Socket]
<1>1. conn[f] \in Socket /\ conn[f].sent > 0
  BY DEF ReadsCommand, TypeOK
<1>2. [conn[f] EXCEPT !.sent = @ - 1] \in Socket
  BY <1>1, SessionsAssumption DEF Socket
<1> QED
  BY <1>2 DEF ReadsCommand, TypeOK

\* A step of a client thread keeps the types.
LEMMA ThreadType ==
    ASSUME TypeOK, ThreadsConsistent, NEW f \in Fds, ThreadStep(f) PROVE TypeOK'
<1> DEFINE s == thread[f].slot
<1>0. thread[f] \in Thread /\ thread[f].record \in User \cup {NoUser}
  BY DEF TypeOK, Thread
<1>1. CASE Answer(f)
  <2>1. thread' \in [Fds -> Thread] /\ conn' \in [Fds -> Socket]
    BY <1>0, <1>1, RepliesType, ReadsType DEF Answer
  <2> QED
    BY <1>1, <2>1, Records DEF Answer, TypeOK
<1>2. ASSUME NEW a \in Accounts, NEW p \in Passwords, NEW n \in Nicknames,
             Register(f, a, p, n)
      PROVE  TypeOK'
  <2>1. [account |-> a, password |-> p, nickname |-> n] \in User
    BY DEF User
  <2>2. users' \in Seq(User)
    BY <1>2, <2>1 DEF Register, RegisterStored, TypeOK
  <2>3. thread' \in [Fds -> Thread] /\ conn' \in [Fds -> Socket]
    BY <1>0, <1>2, RepliesType, ReadsType DEF Register
  <2> QED
    BY <1>2, <2>2, <2>3, Records DEF Register, TypeOK
<1>3. ASSUME NEW login \in Logins, NEW p \in Passwords, Authenticate(f, login, p)
      PROVE  TypeOK'
  <2>1. PICK record \in Parsed :
             thread' = [thread EXCEPT ![f].pc = "login", ![f].record = record]
    BY <1>3 DEF Authenticate
  <2>2. record \in User
    BY ParsedUsers DEF TypeOK, StoreTypeOK
  <2>3. [thread[f] EXCEPT !.pc = "login", !.record = record] \in Thread
    BY <1>0, <2>2 DEF Thread
  <2>4. thread' \in [Fds -> Thread]
    BY <2>1, <2>3 DEF TypeOK
  <2>5. conn' \in [Fds -> Socket]
    BY <1>3, ReadsType DEF Authenticate
  <2> QED
    BY <1>3, <2>4, <2>5, Records DEF Authenticate, TypeOK
<1>4. CASE LoginClient(f)
  <2>1. s \in Slots /\ thread[f].record \in User
    BY <1>4, ParsedUsers DEF LoginClient, ThreadsConsistent, TypeOK, StoreTypeOK
  <2>2. [clients[s] EXCEPT !.loggedIn = TRUE,
                           !.username = thread[f].record.account,
                           !.nickname = thread[f].record.nickname] \in Slot
    BY <2>1 DEF TypeOK, Slot, User
  <2>3. clients' \in [Slots -> Slot]
    BY <1>4, <2>1, <2>2 DEF LoginClient, TypeOK
  <2>4. thread' \in [Fds -> Thread]
    BY <1>0, <1>4, RepliesType DEF LoginClient
  <2> QED
    BY <1>4, <2>3, <2>4, Records DEF LoginClient, TypeOK
<1>5. CASE LoginClientRefused(f)
  <2>1. thread' \in [Fds -> Thread]
    BY <1>5, RepliesType DEF LoginClientRefused
  <2> QED
    BY <1>5, <2>1, Records DEF LoginClientRefused, TypeOK
<1>6. CASE Logout(f)
  <2>1. s \in Slots
    BY <1>6 DEF Logout, ReadsCommand, ThreadsConsistent
  <2>2. [clients[s] EXCEPT !.loggedIn = FALSE, !.username = NoName,
                           !.nickname = NoName] \in Slot
    BY <2>1 DEF TypeOK, Slot
  <2>3. clients' \in [Slots -> Slot]
    BY <1>6, <2>1, <2>2 DEF Logout, TypeOK
  <2>4. thread' \in [Fds -> Thread] /\ conn' \in [Fds -> Socket]
    BY <1>6, RepliesType, ReadsType DEF Logout
  <2> QED
    BY <1>6, <2>3, <2>4, Records DEF Logout, TypeOK
<1>7. ASSUME NEW a \in Accounts, Push(f, a) PROVE TypeOK'
  <2>1. thread' \in [Fds -> Thread] /\ conn' \in [Fds -> Socket]
    BY <1>0, <1>7, RepliesType, ReadsType DEF Push
  <2>2. wire' \in [Fds -> SUBSET (Accounts \cup {NoName})]
    BY <1>7 DEF Push
  <2> QED
    BY <1>7, <2>1, <2>2 DEF Push, TypeOK
<1>8. CASE Broadcast(f)
  <2>1. thread' \in [Fds -> Thread] /\ conn' \in [Fds -> Socket]
    BY <1>0, <1>8, RepliesType, ReadsType DEF Broadcast
  <2>2. wire' \in [Fds -> SUBSET (Accounts \cup {NoName})]
    BY <1>8 DEF Broadcast, TypeOK, Slot
  <2> QED
    BY <1>8, <2>1, <2>2 DEF Broadcast, TypeOK
<1>9. CASE Quit(f) \/ EndOfInput(f)
  <2>1. [thread[f] EXCEPT !.pc = "leave"] \in Thread
    BY <1>0 DEF Thread
  <2>2. thread' \in [Fds -> Thread]
    BY <1>9, <2>1 DEF Quit, EndOfInput, TypeOK
  <2>3. conn' \in [Fds -> Socket]
    BY <1>9, ReadsType DEF Quit, EndOfInput, TypeOK
  <2> QED
    BY <1>9, <2>2, <2>3, Records DEF Quit, EndOfInput, TypeOK
<1>10. CASE Unregister(f)
  <2>1. [thread[f] EXCEPT !.pc = "close", !.record = NoUser] \in Thread
    BY <1>0 DEF Thread
  <2> QED
    BY <1>10, <2>1, Records DEF Unregister, TypeOK
<1>11. CASE Close(f)
  BY <1>11, Records DEF Close, TypeOK
<1> QED
  BY <1>1, <1>2, <1>3, <1>4, <1>5, <1>6, <1>7, <1>8, <1>9, <1>10, <1>11
     DEF ThreadStep
-----------------------------------------------------------------------------
(* Slots, threads and descriptors *)

Struct ==
    /\ TypeOK
    /\ ThreadsConsistent
    /\ SlotsMatchConnections
    /\ OpenDescriptorsOwned

Serving == {"command", "login", "leave"}

\* The structural invariant holds when the server starts.
LEMMA StructInit == Init => Struct
<1> SUFFICES ASSUME Init PROVE Struct
  OBVIOUS
<1>1. TypeOK
  BY Records, InitialUsersAssumption DEF Init, StoreInit, TypeOK
<1>2. ThreadsConsistent
  BY DEF Init, ThreadsConsistent, NoThread, Idle
<1>3. SlotsMatchConnections
  BY DEF Init, SlotsMatchConnections, Uses, FreeSlot, NoThread, Idle
<1>4. OpenDescriptorsOwned
  BY DEF Init, OpenDescriptorsOwned, Closed, NoThread, Idle
<1> QED
  BY <1>1, <1>2, <1>3, <1>4 DEF Struct

\* The slot a running thread serves names its descriptor, and no other
\* connection's thread serves it.
LEMMA OwnSlot ==
    ASSUME Struct, NEW f \in Fds, thread[f].pc \in Serving
    PROVE  /\ thread[f].slot \in Slots
           /\ clients[thread[f].slot].active
           /\ clients[thread[f].slot].sockfd = f
           /\ conn[f].open
           /\ listener.pc # "accept" => listener.fd # f
           /\ listener.pc = "create" => listener.slot # thread[f].slot
           /\ \A g \in Fds \ {f} : thread[g].pc \in Serving =>
                                       thread[g].slot # thread[f].slot
<1>1. thread[f].slot \in Slots /\ Uses(f, thread[f].slot)
  BY DEF Struct, ThreadsConsistent, Serving, Uses
<1>2. /\ clients[thread[f].slot].active
      /\ clients[thread[f].slot].sockfd = f
      /\ conn[f].open
  BY <1>1 DEF Struct, SlotsMatchConnections
<1>3. listener.pc # "accept" => listener.fd \in Fds /\ listener.fd # f
  BY DEF Struct, ThreadsConsistent, Serving
<1>4. listener.pc = "create" => listener.slot # thread[f].slot
  <2> SUFFICES ASSUME listener.pc = "create", listener.slot = thread[f].slot
               PROVE  FALSE
    OBVIOUS
  <2>1. Uses(listener.fd, thread[f].slot)
    BY DEF Uses
  <2> QED
    BY <1>1, <1>2, <1>3, <2>1 DEF Struct, SlotsMatchConnections
<1>5. ASSUME NEW g \in Fds \ {f}, thread[g].pc \in Serving,
             thread[g].slot = thread[f].slot
      PROVE  FALSE
  <2>1. Uses(g, thread[f].slot)
    BY <1>5 DEF Uses, Serving
  <2> QED
    BY <1>1, <1>2, <1>5, <2>1 DEF Struct, SlotsMatchConnections
<1> QED
  BY <1>1, <1>2, <1>3, <1>4, <1>5

\* A step of a thread that serves a slot and goes on serving it, and touches
\* nothing of the table but its own login, keeps the structure.
LEMMA ServeStruct ==
    ASSUME Struct, TypeOK', NEW f \in Fds,
           thread[f].pc \in Serving,
           listener' = listener,
           \A g \in Fds : conn'[g].open = conn[g].open,
           \A s \in Slots : /\ clients'[s].active = clients[s].active
                            /\ clients'[s].sockfd = clients[s].sockfd,
           \A s \in Slots \ {thread[f].slot} : clients'[s] = clients[s],
           \A g \in Fds \ {f} : thread'[g] = thread[g],
           thread'[f].slot = thread[f].slot,
           thread'[f].pc \in Serving,
           thread'[f].pc = "login" =>
               ~LoggedIn(f)' /\ thread'[f].record \in Parsed',
           \A i \in DOMAIN users : i \in DOMAIN users' /\ users'[i] = users[i]
    PROVE  Struct'
<1>1. \A g \in Fds, s \in Slots : Uses(g, s)' <=> Uses(g, s)
  BY DEF Uses, Serving
<1>2. SlotsMatchConnections'
  BY <1>1 DEF Struct, SlotsMatchConnections
<1>3. OpenDescriptorsOwned'
  BY DEF Struct, OpenDescriptorsOwned, Serving
<1>4. ThreadsConsistent'
  <2>1. ASSUME NEW g \in Fds
        PROVE  /\ thread'[g].pc = "none" => thread'[g] = NoThread
               /\ thread'[g].pc \in Serving => thread'[g].slot \in Slots
               /\ thread'[g].pc = "login" =>
                      /\ ~LoggedIn(g)'
                      /\ thread'[g].record \in Parsed'
    <3>1. CASE g = f
      BY <3>1, OwnSlot DEF Serving
    <3>2. CASE g # f
      <4>1. thread'[g] = thread[g]
        BY <3>2
      <4>2. thread[g].pc = "login" => thread[g].slot \in Slots \ {thread[f].slot}
        BY <3>2, OwnSlot DEF Struct, ThreadsConsistent, Serving
      <4>3. thread[g].pc = "login" => (LoggedIn(g)' <=> LoggedIn(g))
        BY <4>1, <4>2 DEF LoggedIn, Online
      <4> QED
        BY <4>1, <4>3, ParsedGrows DEF Struct, ThreadsConsistent, Serving
    <3> QED
      BY <3>1, <3>2
  <2>2. /\ listener'.pc # "accept" =>
               listener'.fd \in Fds /\ thread'[listener'.fd].pc = "none"
        /\ listener'.pc = "create" => listener'.slot \in Slots
    BY OwnSlot DEF Struct, ThreadsConsistent, Serving
  <2> QED
    BY <2>1, <2>2 DEF ThreadsConsistent, Serving
<1> QED
  BY <1>2, <1>3, <1>4 DEF Struct

\* A peer that sends or hangs up keeps the structural invariant.
LEMMA PeerStruct ==
    ASSUME Struct, NEW f \in Fds, PeerStep(f) PROVE Struct'
<1>1. TypeOK'
  BY PeerType DEF Struct
<1>2. /\ users' = users /\ clients' = clients /\ listener' = listener
      /\ thread' = thread
      /\ \A g \in Fds : conn'[g].open = conn[g].open
  BY DEF PeerStep, Send, Hangup, Struct, TypeOK, Socket
<1>3. SlotsMatchConnections' /\ OpenDescriptorsOwned'
  BY <1>2 DEF Struct, SlotsMatchConnections, OpenDescriptorsOwned, Uses
<1>4. ThreadsConsistent'
  BY <1>2, ParsedSame DEF Struct, ThreadsConsistent, LoggedIn, Online
<1> QED
  BY <1>1, <1>3, <1>4 DEF Struct

\* accept() keeps it: the descriptor it returns belonged to nobody.
LEMMA AcceptStruct ==
    ASSUME Struct, NEW f \in Fds, Accept(f) PROVE Struct'
<1>1. TypeOK'
  BY ListenerType DEF Struct
<1>2. /\ users' = users /\ clients' = clients /\ thread' = thread
      /\ listener' = [pc |-> "register", fd |-> f, slot |-> NoSlot]
      /\ conn'[f].open
      /\ \A g \in Fds \ {f} : conn'[g] = conn[g]
      /\ listener.pc = "accept" /\ ~conn[f].open
  BY DEF Accept, Struct, TypeOK, Closed
<1>3. thread[f].pc = "none"
  BY <1>2 DEF Struct, OpenDescriptorsOwned
<1>4. \A g \in Fds, s \in Slots : Uses(g, s)' <=> Uses(g, s)
  BY <1>2 DEF Uses
<1>5. SlotsMatchConnections'
  BY <1>2, <1>3, <1>4 DEF Struct, SlotsMatchConnections
<1>6. OpenDescriptorsOwned'
  BY <1>2 DEF Struct, OpenDescriptorsOwned
<1>7. ThreadsConsistent'
  BY <1>2, <1>3, ParsedSame DEF Struct, ThreadsConsistent, LoggedIn, Online
<1> QED
  BY <1>1, <1>5, <1>6, <1>7 DEF Struct

\* What a running thread relies on when a slot that is not its own changes.
LEMMA OtherSlotConsistent ==
    ASSUME Struct, TypeOK', NEW s \in Slots,
           users' = users, \A r \in Slots \ {s} : clients'[r] = clients[r],
           NEW g \in Fds, thread'[g] = thread[g],
           thread[g].pc = "login" => thread[g].slot # s
    PROVE  /\ thread'[g].pc = "none" => thread'[g] = NoThread
           /\ thread'[g].pc \in Serving => thread'[g].slot \in Slots
           /\ thread'[g].pc = "login" =>
                  ~LoggedIn(g)' /\ thread'[g].record \in Parsed'
<1>1. thread[g].pc = "login" => (LoggedIn(g)' <=> LoggedIn(g))
  BY DEF LoggedIn, Online, Struct, ThreadsConsistent
<1> QED
  BY <1>1, ParsedSame DEF Struct, ThreadsConsistent, Serving

\* The other steps of run_server keep it, one case per action.
LEMMA ListenerStruct ==
    ASSUME Struct, ListenerStep PROVE Struct'
<1>0. TypeOK'
  BY ListenerType DEF Struct
<1>1. ASSUME NEW s \in Slots, RegisterClient(s) PROVE Struct'
  <2>1. /\ listener.pc = "register" /\ ~clients[s].active
        /\ clients'[s].active /\ clients'[s].sockfd = listener.fd
        /\ \A r \in Slots \ {s} : clients'[r] = clients[r]
        /\ users' = users /\ conn' = conn /\ thread' = thread
        /\ listener'.pc = "create" /\ listener'.slot = s
        /\ listener'.fd = listener.fd
    BY <1>1 DEF RegisterClient, FirstInactive, Struct, TypeOK, FreeSlot, Listener
  <2>2. /\ listener.fd \in Fds /\ thread[listener.fd].pc = "none"
        /\ conn[listener.fd].open
    BY <2>1 DEF Struct, ThreadsConsistent, OpenDescriptorsOwned
  <2>3. \A g \in Fds : ~Uses(g, s)
    BY <2>1 DEF Struct, SlotsMatchConnections
  <2>4. \A g \in Fds, r \in Slots :
            Uses(g, r)' <=> (Uses(g, r) \/ (g = listener.fd /\ r = s))
    <3> SUFFICES ASSUME NEW g \in Fds, NEW r \in Slots
                 PROVE  Uses(g, r)' <=> (Uses(g, r) \/ (g = listener.fd /\ r = s))
      OBVIOUS
    <3>1. Uses(g, r) <=> thread[g].pc \in Serving /\ thread[g].slot = r
      BY <2>1 DEF Uses, Serving
    <3>2. Uses(g, r)' <=> \/ thread[g].pc \in Serving /\ thread[g].slot = r
                          \/ listener.fd = g /\ s = r
      BY <2>1 DEF Uses, Serving
    <3> QED
      BY <3>1, <3>2
  <2>5. SlotsMatchConnections'
    BY <2>1, <2>2, <2>3, <2>4 DEF Struct, SlotsMatchConnections
  <2>6. OpenDescriptorsOwned'
    BY <2>1 DEF Struct, OpenDescriptorsOwned
  <2>7. \A g \in Fds : thread[g].pc = "login" => thread[g].slot # s
    BY <2>3 DEF Uses
  <2>8. ThreadsConsistent'
    BY <1>0, <2>1, <2>2, <2>7, OtherSlotConsistent DEF ThreadsConsistent, Serving
  <2> QED
    BY <1>0, <2>5, <2>6, <2>8 DEF Struct
<1>2. CASE ServerFull
  <2>1. /\ users' = users /\ clients' = clients /\ conn' = conn
        /\ thread' = thread /\ listener.pc = "register"
        /\ listener'.pc = "close" /\ listener'.fd = listener.fd
    BY <1>2 DEF ServerFull, Struct, TypeOK, Listener
  <2>2. SlotsMatchConnections'
    BY <2>1 DEF Struct, SlotsMatchConnections, Uses
  <2>3. OpenDescriptorsOwned'
    BY <2>1 DEF Struct, OpenDescriptorsOwned
  <2>4. ThreadsConsistent'
    BY <2>1, ParsedSame DEF Struct, ThreadsConsistent, LoggedIn, Online
  <2> QED
    BY <1>0, <2>2, <2>3, <2>4 DEF Struct
<1>3. CASE StartThread
  <2> DEFINE f == listener.fd
  <2>1. /\ users' = users /\ clients' = clients /\ conn' = conn
        /\ listener.pc = "create" /\ listener' = Idle
        /\ f \in Fds /\ thread[f].pc = "none" /\ listener.slot \in Slots
    BY <1>3 DEF StartThread, Struct, ThreadsConsistent
  <2>2. /\ thread'[f].pc = "command" /\ thread'[f].slot = listener.slot
        /\ \A g \in Fds \ {f} : thread'[g] = thread[g]
    BY <1>3, <2>1 DEF StartThread, Struct, TypeOK, NoThread
  <2>3. \A g \in Fds, s \in Slots : Uses(g, s)' <=> Uses(g, s)
    BY <2>1, <2>2 DEF Uses, Idle
  <2>4. SlotsMatchConnections'
    BY <2>1, <2>3 DEF Struct, SlotsMatchConnections
  <2>5. OpenDescriptorsOwned'
    BY <2>1, <2>2 DEF Struct, OpenDescriptorsOwned, Idle
  <2>6. ThreadsConsistent'
    BY <2>1, <2>2, ParsedSame DEF Struct, ThreadsConsistent, LoggedIn, Online, Idle
  <2> QED
    BY <1>0, <2>4, <2>5, <2>6 DEF Struct
<1>4. CASE StartThreadFails
  <2> DEFINE f == listener.fd  s == listener.slot
  <2>1. /\ users' = users /\ conn' = conn /\ thread' = thread
        /\ listener.pc = "create" /\ f \in Fds /\ s \in Slots
        /\ listener'.pc = "close" /\ listener'.fd = f
        /\ ~clients'[s].active
        /\ \A r \in Slots \ {s} : clients'[r] = clients[r]
    BY <1>4 DEF StartThreadFails, Struct, ThreadsConsistent, TypeOK, FreeSlot, Listener
  <2>2. \A g \in Fds : thread[g].pc \in Serving => thread[g].slot # s
    BY <2>1, OwnSlot
  <2>3. \A g \in Fds, r \in Slots : Uses(g, r)' <=> Uses(g, r) /\ r # s
    BY <2>1, <2>2 DEF Uses, Serving
  <2>4. SlotsMatchConnections'
    BY <2>1, <2>3 DEF Struct, SlotsMatchConnections
  <2>5. OpenDescriptorsOwned'
    BY <2>1 DEF Struct, OpenDescriptorsOwned
  <2>6. ThreadsConsistent'
    BY <1>0, <2>1, <2>2, OtherSlotConsistent
       DEF ThreadsConsistent, Serving, Struct
  <2> QED
    BY <1>0, <2>4, <2>5, <2>6 DEF Struct
<1>5. CASE ListenerCloses
  <2> DEFINE f == listener.fd
  <2>1. /\ users' = users /\ clients' = clients /\ thread' = thread
        /\ listener.pc = "close" /\ listener' = Idle
        /\ f \in Fds /\ thread[f].pc = "none"
    BY <1>5 DEF ListenerCloses, Struct, ThreadsConsistent
  <2>2. ~conn'[f].open /\ \A g \in Fds \ {f} : conn'[g] = conn[g]
    BY <1>5, <2>1 DEF ListenerCloses, Struct, TypeOK, Closed
  <2>3. \A g \in Fds, s \in Slots : (Uses(g, s)' <=> Uses(g, s)) /\ ~Uses(f, s)
    BY <2>1 DEF Uses, Idle
  <2>4. SlotsMatchConnections'
    BY <2>1, <2>2, <2>3 DEF Struct, SlotsMatchConnections
  <2>5. OpenDescriptorsOwned'
    BY <2>1, <2>2 DEF Struct, OpenDescriptorsOwned, Idle
  <2>6. ThreadsConsistent'
    BY <2>1, ParsedSame DEF Struct, ThreadsConsistent, LoggedIn, Online, Idle
  <2> QED
    BY <1>0, <2>4, <2>5, <2>6 DEF Struct
<1> QED
  BY <1>1, <1>2, <1>3, <1>4, <1>5 DEF ListenerStep

\* A reply leaves the thread serving its slot.
LEMMA RepliesServe ==
    ASSUME TypeOK, NEW f \in Fds, NEW user, Replies(f, user)
    PROVE  /\ thread'[f].pc \in {"command", "leave"}
           /\ thread'[f].slot = thread[f].slot
           /\ thread'[f].record = user
           /\ \A g \in Fds \ {f} : thread'[g] = thread[g]
BY DEF Replies, TypeOK, Thread

\* Reading a command line opens and closes no socket.
LEMMA ReadsServe ==
    ASSUME TypeOK, NEW f \in Fds, ReadsCommand(f)
    PROVE  /\ thread[f].pc = "command"
           /\ \A g \in Fds : conn'[g].open = conn[g].open
BY DEF ReadsCommand, TypeOK, Socket

\* The steps of a client thread keep it, one case per action.
LEMMA ThreadStruct ==
    ASSUME Struct, NEW f \in Fds, ThreadStep(f) PROVE Struct'
<1> DEFINE s == thread[f].slot
<1>0. TypeOK' /\ TypeOK
  BY ThreadType DEF Struct
<1>1. CASE Answer(f) \/ (\E a \in Accounts : Push(f, a)) \/ Broadcast(f)
  <2>1. /\ ReadsCommand(f) /\ Replies(f, thread[f].record)
        /\ users' = users /\ clients' = clients /\ listener' = listener
    BY <1>1 DEF Answer, Push, Broadcast
  <2> QED
    BY <1>0, <2>1, RepliesServe, ReadsServe, ServeStruct DEF Serving
<1>2. ASSUME NEW a \in Accounts, NEW p \in Passwords, NEW n \in Nicknames,
             Register(f, a, p, n)
      PROVE  Struct'
  <2>1. /\ ReadsCommand(f) /\ Replies(f, thread[f].record)
        /\ clients' = clients /\ listener' = listener
    BY <1>2 DEF Register
  <2>2. [account |-> a, password |-> p, nickname |-> n] \in User
    BY DEF User
  <2>3. \A i \in DOMAIN users : i \in DOMAIN users' /\ users'[i] = users[i]
    BY <1>0, <1>2, <2>2 DEF Register, RegisterStored, TypeOK
  <2> QED
    BY <1>0, <2>1, <2>3, RepliesServe, ReadsServe, ServeStruct DEF Serving
<1>3. ASSUME NEW login \in Logins, NEW p \in Passwords, Authenticate(f, login, p)
      PROVE  Struct'
  <2>1. PICK record \in Parsed :
             thread' = [thread EXCEPT ![f].pc = "login", ![f].record = record]
    BY <1>3 DEF Authenticate
  <2>2. /\ thread'[f].pc = "login" /\ thread'[f].slot = s
        /\ thread'[f].record = record
        /\ \A g \in Fds \ {f} : thread'[g] = thread[g]
    BY <1>0, <2>1 DEF TypeOK, Thread
  <2>3. /\ ReadsCommand(f) /\ ~LoggedIn(f)
        /\ users' = users /\ clients' = clients /\ listener' = listener
    BY <1>3 DEF Authenticate
  <2>4. ~LoggedIn(f)'
    BY <2>2, <2>3 DEF LoggedIn, Online
  <2> QED
    BY <1>0, <2>1, <2>2, <2>3, <2>4, ParsedSame, ReadsServe, ServeStruct DEF Serving
<1>4. CASE LoginClient(f)
  <2>1. /\ thread[f].pc = "login" /\ Replies(f, thread[f].record)
        /\ users' = users /\ listener' = listener /\ conn' = conn
    BY <1>4 DEF LoginClient
  <2>2. /\ \A r \in Slots \ {s} : clients'[r] = clients[r]
        /\ \A r \in Slots : /\ clients'[r].active = clients[r].active
                            /\ clients'[r].sockfd = clients[r].sockfd
    BY <1>0, <1>4 DEF LoginClient, TypeOK, Slot
  <2> QED
    BY <1>0, <2>1, <2>2, RepliesServe, ServeStruct DEF Serving
<1>5. CASE LoginClientRefused(f)
  <2>1. /\ thread[f].pc = "login" /\ Replies(f, NoUser)
        /\ users' = users /\ clients' = clients /\ listener' = listener
        /\ conn' = conn
    BY <1>5 DEF LoginClientRefused
  <2> QED
    BY <1>0, <2>1, RepliesServe, ServeStruct DEF Serving
<1>6. CASE Logout(f)
  <2>1. /\ ReadsCommand(f) /\ Replies(f, NoUser)
        /\ users' = users /\ listener' = listener
    BY <1>6 DEF Logout
  <2>2. /\ \A r \in Slots \ {s} : clients'[r] = clients[r]
        /\ \A r \in Slots : /\ clients'[r].active = clients[r].active
                            /\ clients'[r].sockfd = clients[r].sockfd
    BY <1>0, <1>6 DEF Logout, TypeOK, Slot
  <2> QED
    BY <1>0, <2>1, <2>2, RepliesServe, ReadsServe, ServeStruct DEF Serving
<1>7. CASE Quit(f) \/ EndOfInput(f)
  <2>1. /\ thread[f].pc = "command"
        /\ users' = users /\ clients' = clients /\ listener' = listener
        /\ \A g \in Fds : conn'[g].open = conn[g].open
        /\ thread' = [thread EXCEPT ![f].pc = "leave"]
    BY <1>0, <1>7, ReadsServe DEF Quit, EndOfInput
  <2>2. /\ thread'[f].pc = "leave" /\ thread'[f].slot = s
        /\ \A g \in Fds \ {f} : thread'[g] = thread[g]
    BY <1>0, <2>1 DEF TypeOK, Thread
  <2> QED
    BY <1>0, <2>1, <2>2, ServeStruct DEF Serving
<1>8. CASE Unregister(f)
  <2>1. /\ users' = users /\ conn' = conn /\ listener' = listener
        /\ thread[f].pc = "leave"
        /\ thread'[f].pc = "close"
        /\ \A g \in Fds \ {f} : thread'[g] = thread[g]
    BY <1>0, <1>8 DEF Unregister, TypeOK, Thread
  <2>2. /\ s \in Slots
        /\ listener.pc # "accept" => listener.fd # f
        /\ listener.pc = "create" => listener.slot # s
        /\ \A g \in Fds \ {f} : thread[g].pc \in Serving => thread[g].slot # s
        /\ conn[f].open
    BY <2>1, OwnSlot DEF Serving
  <2>3. /\ ~clients'[s].active
        /\ \A r \in Slots \ {s} : clients'[r] = clients[r]
    BY <1>0, <1>8, <2>2 DEF Unregister, TypeOK, FreeSlot
  <2>4. \A g \in Fds, r \in Slots : Uses(g, r)' => Uses(g, r) /\ r # s
    BY <2>1, <2>2 DEF Uses, Serving
  <2>5. \A g \in Fds, r \in Slots : Uses(g, r) /\ r # s => Uses(g, r)'
    BY <2>1, <2>2 DEF Uses, Serving
  <2>6. SlotsMatchConnections'
    BY <2>1, <2>3, <2>4, <2>5 DEF Struct, SlotsMatchConnections
  <2>7. OpenDescriptorsOwned'
    BY <2>1, <2>2 DEF Struct, OpenDescriptorsOwned
  <2>8. ASSUME NEW g \in Fds
        PROVE  /\ thread'[g].pc = "none" => thread'[g] = NoThread
               /\ thread'[g].pc \in Serving => thread'[g].slot \in Slots
               /\ thread'[g].pc = "login" =>
                      /\ ~LoggedIn(g)'
                      /\ thread'[g].record \in Parsed'
    <3>1. CASE g = f
      BY <2>1, <3>1 DEF Serving
    <3>2. CASE g # f
      BY <1>0, <2>1, <2>2, <2>3, <3>2, OtherSlotConsistent DEF Serving
    <3> QED
      BY <3>1, <3>2
  <2>9. ThreadsConsistent'
    BY <2>1, <2>2, <2>8, ParsedSame DEF Struct, ThreadsConsistent, Serving
  <2> QED
    BY <1>0, <2>6, <2>7, <2>9 DEF Struct
<1>9. CASE Close(f)
  <2>1. /\ users' = users /\ clients' = clients /\ listener' = listener
        /\ thread[f].pc = "close" /\ thread'[f] = NoThread
        /\ \A g \in Fds \ {f} : thread'[g] = thread[g] /\ conn'[g] = conn[g]
        /\ ~conn'[f].open
    BY <1>0, <1>9 DEF Close, TypeOK, Closed
  <2>2. listener.pc # "accept" => listener.fd # f
    BY <2>1 DEF Struct, ThreadsConsistent
  <2>3. \A g \in Fds, r \in Slots : (Uses(g, r)' <=> Uses(g, r)) /\ ~Uses(f, r)
    BY <2>1, <2>2 DEF Uses, NoThread
  <2>4. SlotsMatchConnections'
    BY <2>1, <2>3 DEF Struct, SlotsMatchConnections
  <2>5. OpenDescriptorsOwned'
    BY <2>1, <2>2 DEF Struct, OpenDescriptorsOwned, NoThread
  <2>6. ThreadsConsistent'
    BY <2>1, <2>2, ParsedSame DEF Struct, ThreadsConsistent, LoggedIn, Online, NoThread
  <2> QED
    BY <1>0, <2>4, <2>5, <2>6 DEF Struct
<1> QED
  BY <1>1, <1>2, <1>3, <1>4, <1>5, <1>6, <1>7, <1>8, <1>9 DEF ThreadStep

\* Every step keeps the structural invariant.
LEMMA StructStep == Struct /\ [Next]_vars => Struct'
<1> SUFFICES ASSUME Struct, [Next]_vars PROVE Struct'
  OBVIOUS
<1>1. CASE UNCHANGED vars
  BY <1>1, ParsedSame DEF vars, sessionVars, Struct, TypeOK, ThreadsConsistent,
        LoggedIn, Online, SlotsMatchConnections, Uses, OpenDescriptorsOwned
<1>2. CASE Next
  BY <1>2, PeerStruct, AcceptStruct, ListenerStruct, ThreadStruct DEF Next
<1> QED
  BY <1>1, <1>2

(* Every variable has its type, for every number of slots, descriptors,    *)
(* users and pending lines.                                                *)
THEOREM TypeCorrect == Spec => []TypeOK
<1>1. Struct => TypeOK
  BY DEF Struct
<1> QED
  BY <1>1, StructInit, StructStep, PTL DEF Spec

(* An active slot names the open descriptor of the one connection that     *)
(* uses it; slots are given back before descriptors are closed.            *)
THEOREM SlotsAlwaysMatch == Spec => []SlotsMatchConnections
<1>1. Struct => SlotsMatchConnections
  BY DEF Struct
<1> QED
  BY <1>1, StructInit, StructStep, PTL DEF Spec

(* No descriptor leaks and none is closed under a thread that uses it.     *)
THEOREM DescriptorsAlwaysOwned == Spec => []OpenDescriptorsOwned
<1>1. Struct => OpenDescriptorsOwned
  BY DEF Struct
<1> QED
  BY <1>1, StructInit, StructStep, PTL DEF Spec

-----------------------------------------------------------------------------
(* Logins *)

\* Who is logged in on a slot: the thread that serves it, as the user record it
\* holds.
SessionOf(f, s) ==
    /\ thread[f].pc \in Serving /\ thread[f].slot = s
    /\ clients[s].username = thread[f].record.account
    /\ clients[s].nickname = thread[f].record.nickname
    /\ thread[f].record \in Parsed

SessionsInv ==
    /\ OneSessionPerAccount
    /\ \A s \in Slots : Online(s) => \E f \in Fds : SessionOf(f, s)

\* The connection that uses a slot on which somebody is logged in has a thread.
LEMMA AuthenticatedIffSession ==
    ASSUME Struct
    PROVE  SessionsAuthenticated <=>
               \A s \in Slots : Online(s) => \E f \in Fds : SessionOf(f, s)
<1>1. ASSUME NEW f \in Fds, NEW s \in Slots, Uses(f, s), thread[f].record \in Parsed
      PROVE  thread[f].pc \in Serving /\ thread[f].slot = s
  <2>1. thread[f].record \in User
    BY <1>1, ParsedUsers DEF Struct, TypeOK, StoreTypeOK
  <2>2. thread[f].pc # "none"
    BY <2>1, SessionsAssumption DEF Struct, ThreadsConsistent, NoThread
  <2> QED
    BY <1>1, <2>2 DEF Uses, Serving, Struct, ThreadsConsistent
<1> QED
  BY <1>1 DEF SessionsAuthenticated, SessionOf, Uses, Serving

\* A step after which every slot that is logged in was so before, as the same
\* user and served by the same thread, keeps both facts about logins.
LEMMA KeepsLogins ==
    ASSUME SessionsInv,
           \A s \in Slots : Online(s)' =>
               /\ Online(s)
               /\ clients'[s].username = clients[s].username
               /\ clients'[s].nickname = clients[s].nickname,
           \A s \in Slots, f \in Fds :
               Online(s)' /\ thread[f].pc \in Serving /\ thread[f].slot = s =>
                   /\ thread'[f].pc \in Serving
                   /\ thread'[f].slot = s
                   /\ thread'[f].record = thread[f].record,
           \A i \in DOMAIN users : i \in DOMAIN users' /\ users'[i] = users[i]
    PROVE  SessionsInv'
<1>1. OneSessionPerAccount'
  BY DEF SessionsInv, OneSessionPerAccount
<1>2. ASSUME NEW s \in Slots, Online(s)' PROVE \E f \in Fds : SessionOf(f, s)'
  <2>1. PICK f \in Fds : SessionOf(f, s)
    BY <1>2 DEF SessionsInv
  <2>2. thread[f].record \in Parsed'
    BY <2>1, ParsedGrows DEF SessionOf
  <2>3. /\ thread'[f].pc \in Serving /\ thread'[f].slot = s
        /\ thread'[f].record = thread[f].record
    BY <1>2, <2>1 DEF SessionOf
  <2>4. thread'[f].record \in Parsed'
    BY <2>2, <2>3
  <2> QED
    BY <1>2, <2>1, <2>3, <2>4 DEF SessionOf
<1> QED
  BY <1>1, <1>2 DEF SessionsInv

\* login_client: the scan under clients_mutex is what keeps sessions apart.
LEMMA LoginClientLogins ==
    ASSUME Struct, SessionsInv, NEW f \in Fds, LoginClient(f),
           NEW s \in Slots, s = thread[f].slot
    PROVE  SessionsInv'
<1>1. /\ thread[f].pc = "login" /\ MayLogIn(s, thread[f].record.account)
      /\ Replies(f, thread[f].record)
      /\ users' = users
  BY DEF LoginClient
<1>2. s \in Slots /\ \A g \in Fds \ {f} : thread[g].pc \in Serving => thread[g].slot # s
  BY <1>1, OwnSlot DEF Serving
<1>3. /\ clients'[s].active /\ clients'[s].loggedIn
      /\ clients'[s].username = thread[f].record.account
      /\ clients'[s].nickname = thread[f].record.nickname
      /\ \A r \in Slots \ {s} : clients'[r] = clients[r]
  BY <1>1, <1>2, OwnSlot DEF LoginClient, Struct, TypeOK, Slot, Serving
<1>4. /\ thread'[f].pc \in Serving /\ thread'[f].slot = s
      /\ thread'[f].record = thread[f].record
      /\ \A g \in Fds \ {f} : thread'[g] = thread[g]
  BY <1>1, RepliesServe DEF Struct, Serving
<1>5. \A r \in Slots \ {s} : /\ Online(r)' <=> Online(r)
                             /\ Online(r) => clients[r].username # thread[f].record.account
  BY <1>1, <1>3 DEF Online, MayLogIn
<1>6. OneSessionPerAccount'
  BY <1>2, <1>3, <1>5 DEF OneSessionPerAccount, SessionsInv
<1>7. SessionOf(f, s)'
  BY <1>1, <1>3, <1>4, ParsedSame DEF SessionOf, Struct, ThreadsConsistent
<1>8. ASSUME NEW r \in Slots \ {s}, Online(r)' PROVE \E g \in Fds : SessionOf(g, r)'
  <2>1. PICK g \in Fds : SessionOf(g, r)
    BY <1>5, <1>8 DEF SessionsInv
  <2>2. g # f
    BY <1>8, <2>1 DEF SessionOf
  <2> QED
    BY <1>1, <1>3, <1>4, <1>8, <2>1, <2>2, ParsedSame DEF SessionOf
<1> QED
  BY <1>2, <1>6, <1>7, <1>8 DEF SessionsInv

\* The steps of a client thread keep the facts about logins.
LEMMA ThreadLogins ==
    ASSUME Struct, SessionsInv, NEW f \in Fds, ThreadStep(f) PROVE SessionsInv'
<1> DEFINE s == thread[f].slot
<1>0. TypeOK
  BY DEF Struct
<1>1. CASE \/ Answer(f) \/ (\E a \in Accounts : Push(f, a)) \/ Broadcast(f)
           \/ Quit(f) \/ EndOfInput(f)
  <2>1. /\ users' = users /\ clients' = clients
        /\ \A g \in Fds \ {f} : thread'[g] = thread[g]
        /\ thread'[f].pc \in Serving /\ thread'[f].slot = s
        /\ thread'[f].record = thread[f].record
    <3>1. CASE Answer(f) \/ (\E a \in Accounts : Push(f, a)) \/ Broadcast(f)
      BY <1>0, <3>1, RepliesServe DEF Answer, Push, Broadcast, Serving
    <3>2. CASE Quit(f) \/ EndOfInput(f)
      BY <1>0, <3>2 DEF Quit, EndOfInput, Serving, TypeOK, Thread
    <3> QED
      BY <1>1, <3>1, <3>2
  <2> QED
    BY <2>1, KeepsLogins DEF Online
<1>2. ASSUME NEW a \in Accounts, NEW p \in Passwords, NEW n \in Nicknames,
             Register(f, a, p, n)
      PROVE  SessionsInv'
  <2>1. [account |-> a, password |-> p, nickname |-> n] \in User
    BY DEF User
  <2>2. \A i \in DOMAIN users : i \in DOMAIN users' /\ users'[i] = users[i]
    BY <1>0, <1>2, <2>1 DEF Register, RegisterStored, TypeOK
  <2>3. /\ clients' = clients
        /\ \A g \in Fds \ {f} : thread'[g] = thread[g]
        /\ thread'[f].pc \in Serving /\ thread'[f].slot = s
        /\ thread'[f].record = thread[f].record
    BY <1>0, <1>2, RepliesServe DEF Register, Serving
  <2> QED
    BY <2>2, <2>3, KeepsLogins DEF Online
<1>3. ASSUME NEW login \in Logins, NEW p \in Passwords, Authenticate(f, login, p)
      PROVE  SessionsInv'
  <2>1. /\ users' = users /\ clients' = clients /\ ~LoggedIn(f)
        /\ \A g \in Fds \ {f} : thread'[g] = thread[g]
    BY <1>0, <1>3 DEF Authenticate, TypeOK
  <2>2. ~Online(s)
    BY <2>1 DEF LoggedIn
  <2> QED
    BY <2>1, <2>2, KeepsLogins DEF Online
<1>4. CASE LoginClient(f)
  <2>1. s \in Slots
    BY <1>4, OwnSlot DEF LoginClient, Serving
  <2> QED
    BY <1>4, <2>1, LoginClientLogins
<1>5. CASE LoginClientRefused(f)
  <2>1. /\ users' = users /\ clients' = clients /\ thread[f].pc = "login"
        /\ \A g \in Fds \ {f} : thread'[g] = thread[g]
    BY <1>0, <1>5, RepliesServe DEF LoginClientRefused
  <2>2. ~Online(s)
    BY <2>1 DEF Struct, ThreadsConsistent, LoggedIn
  <2> QED
    BY <2>1, <2>2, KeepsLogins DEF Online
<1>6. CASE Logout(f) \/ Unregister(f)
  <2>1. s \in Slots
    BY <1>6, OwnSlot DEF Logout, ReadsCommand, Unregister, Serving
  <2>2. /\ users' = users
        /\ \A g \in Fds \ {f} : thread'[g] = thread[g]
        /\ \A r \in Slots \ {s} : clients'[r] = clients[r]
        /\ ~clients'[s].loggedIn
    <3>1. CASE Logout(f)
      BY <1>0, <2>1, <3>1, RepliesServe DEF Logout, TypeOK, Slot
    <3>2. CASE Unregister(f)
      BY <1>0, <2>1, <3>2 DEF Unregister, TypeOK, FreeSlot
    <3> QED
      BY <1>6, <3>1, <3>2
  <2> QED
    BY <2>1, <2>2, KeepsLogins DEF Online
<1>7. CASE Close(f)
  BY <1>0, <1>7, KeepsLogins DEF Close, Online, TypeOK, Serving
<1> QED
  BY <1>1, <1>2, <1>3, <1>4, <1>5, <1>6, <1>7 DEF ThreadStep

\* The steps of run_server keep the facts about logins.
LEMMA ListenerLogins ==
    ASSUME Struct, SessionsInv, ListenerStep PROVE SessionsInv'
<1>0. TypeOK
  BY DEF Struct
<1>1. ASSUME NEW s \in Slots, RegisterClient(s) PROVE SessionsInv'
  <2>1. /\ users' = users /\ thread' = thread
        /\ \A r \in Slots \ {s} : clients'[r] = clients[r]
        /\ ~clients'[s].loggedIn
    BY <1>0, <1>1 DEF RegisterClient, TypeOK, FreeSlot
  <2> QED
    BY <2>1, KeepsLogins DEF Online
<1>2. CASE ServerFull \/ ListenerCloses
  BY <1>2, KeepsLogins DEF ServerFull, ListenerCloses, Online
<1>3. CASE StartThread
  <2>1. /\ users' = users /\ clients' = clients
        /\ \A g \in Fds \ {listener.fd} : thread'[g] = thread[g]
        /\ thread[listener.fd].pc = "none"
    BY <1>0, <1>3 DEF StartThread, Struct, ThreadsConsistent, TypeOK
  <2> QED
    BY <2>1, KeepsLogins DEF Online, Serving
<1>4. CASE StartThreadFails
  <2> DEFINE s == listener.slot
  <2>1. /\ users' = users /\ thread' = thread
        /\ s \in Slots
        /\ \A r \in Slots \ {s} : clients'[r] = clients[r]
        /\ ~clients'[s].loggedIn
    BY <1>0, <1>4 DEF StartThreadFails, Struct, ThreadsConsistent, TypeOK, FreeSlot
  <2> QED
    BY <2>1, KeepsLogins DEF Online
<1> QED
  BY <1>1, <1>2, <1>3, <1>4 DEF ListenerStep

\* Nobody is logged in when the server starts.
LEMMA LoginsInit == Init => SessionsInv
BY DEF Init, SessionsInv, OneSessionPerAccount, Online, FreeSlot

\* Every step keeps the facts about logins.
LEMMA LoginsStep == Struct /\ SessionsInv /\ [Next]_vars => SessionsInv'
<1> SUFFICES ASSUME Struct, SessionsInv, [Next]_vars PROVE SessionsInv'
  OBVIOUS
<1>1. CASE UNCHANGED vars
  BY <1>1, KeepsLogins DEF vars, sessionVars, Online
<1>2. ASSUME NEW f \in Fds, Accept(f) \/ PeerStep(f) PROVE SessionsInv'
  BY <1>2, KeepsLogins DEF Accept, PeerStep, Send, Hangup, Online
<1> QED
  BY <1>1, <1>2, ThreadLogins, ListenerLogins DEF Next

(* The same account is never logged in from two connections, however many  *)
(* threads authenticate as it at the same time.                            *)
THEOREM OneSession == Spec => []OneSessionPerAccount
<1>1. SessionsInv => OneSessionPerAccount
  BY DEF SessionsInv
<1> QED
  BY <1>1, StructInit, StructStep, LoginsInit, LoginsStep, PTL DEF Spec

(* A slot is logged in as the registered user its thread authenticated as. *)
THEOREM SessionsAlwaysAuthenticated == Spec => []SessionsAuthenticated
<1>1. Struct /\ SessionsInv => SessionsAuthenticated
  BY AuthenticatedIffSession DEF SessionsInv
<1> QED
  BY <1>1, StructInit, StructStep, LoginsInit, LoginsStep, PTL DEF Spec

-----------------------------------------------------------------------------
(* What is written to a connection on behalf of somebody else *)

\* The slot table names the right connection for a recipient.
LEMMA OnlineDescriptor ==
    ASSUME Struct, SessionsInv, NEW s \in Slots, Online(s),
           NEW g \in Fds, clients[s].sockfd = g
    PROVE  /\ thread[g].pc \in Serving /\ thread[g].slot = s
           /\ thread[g].record \in User
           /\ thread[g].record.account = clients[s].username
<1>1. PICK f \in Fds : SessionOf(f, s)
  BY DEF SessionsInv
<1>2. f = g
  BY <1>1, OwnSlot DEF SessionOf
<1> QED
  BY <1>1, <1>2, ParsedUsers DEF SessionOf, Struct, TypeOK, StoreTypeOK

\* A step writes to an account's connection only through the table.
LEMMA PushesStep ==
    Struct /\ SessionsInv /\ PushesReachTheirAccount /\ [Next]_vars
        => PushesReachTheirAccount'
<1> SUFFICES ASSUME Struct, SessionsInv, PushesReachTheirAccount, [Next]_vars
             PROVE  PushesReachTheirAccount'
  OBVIOUS
<1>1. CASE UNCHANGED vars
  BY <1>1 DEF vars, sessionVars, PushesReachTheirAccount
<1>2. ASSUME NEW f \in Fds, NEW a \in Accounts, Push(f, a)
      PROVE  PushesReachTheirAccount'
  <2>1. \A g \in Fds : thread'[g].record = thread[g].record
    BY <1>2, RepliesServe DEF Push, Struct
  <2>2. ASSUME NEW g \in Fds, NEW b \in wire'[g]
        PROVE  thread[g].record # NoUser /\ thread[g].record.account = b
    <3>1. PICK s \in Slots : /\ HoldsAccount(s, a)
                             /\ clients[s].sockfd = g
                             /\ b = a
      BY <1>2, <2>2 DEF Push
    <3> QED
      BY <3>1, OnlineDescriptor, SessionsAssumption DEF HoldsAccount
  <2> QED
    BY <2>1, <2>2 DEF PushesReachTheirAccount
<1>3. ASSUME NEW f \in Fds, Broadcast(f) PROVE PushesReachTheirAccount'
  <2>1. \A g \in Fds : thread'[g].record = thread[g].record
    BY <1>3, RepliesServe DEF Broadcast, Struct
  <2>2. ASSUME NEW g \in Fds, NEW b \in wire'[g]
        PROVE  thread[g].record # NoUser /\ thread[g].record.account = b
    <3>1. PICK s \in Slots : /\ Online(s)
                             /\ clients[s].sockfd = g
                             /\ b = clients[s].username
      BY <1>3, <2>2 DEF Broadcast
    <3> QED
      BY <3>1, OnlineDescriptor, SessionsAssumption
  <2> QED
    BY <2>1, <2>2 DEF PushesReachTheirAccount
<1>4. CASE wire' = Silent
  BY <1>4 DEF PushesReachTheirAccount, Silent
<1>5. Next => \/ \E f \in Fds : Broadcast(f) \/ \E a \in Accounts : Push(f, a)
              \/ wire' = Silent
  BY DEF Next, ListenerStep, PeerStep, ThreadStep, Accept, Send, Hangup,
         RegisterClient, ServerFull, StartThread, StartThreadFails,
         ListenerCloses, Answer, Register, Authenticate, LoginClient,
         LoginClientRefused, Logout, Quit, EndOfInput, Unregister, Close
<1> QED
  BY <1>1, <1>2, <1>3, <1>4, <1>5

(* A message written for an account arrives on the connection whose peer   *)
(* is logged in as that account, although slots and descriptors are reused *)
(* and every thread writes through the shared table.                       *)
THEOREM PushesAlwaysReachTheirAccount == Spec => []PushesReachTheirAccount
<1>1. Init => PushesReachTheirAccount
  BY DEF Init, PushesReachTheirAccount, Silent
<1> QED
  BY <1>1, StructInit, StructStep, LoginsInit, LoginsStep, PushesStep, PTL
     DEF Spec
-----------------------------------------------------------------------------
(* Connections use the user file as it is meant to be used *)

\* Of all that threads do, only Register writes to the file.
LEMMA ThreadKeepsUsers ==
    ASSUME NEW f \in Fds, ThreadStep(f)
    PROVE  StoreNext
<1>1. ASSUME NEW a \in Accounts, NEW p \in Passwords, NEW n \in Nicknames, Register(f, a, p, n)
      PROVE  StoreNext
  <2>1. RegisterStored(a, p, n)
    BY <1>1 DEF Register
  <2> QED
    BY <2>1 DEF StoreNext
<1>2. ASSUME \/ Answer(f)
             \/ \E login \in Logins, p \in Passwords : Authenticate(f, login, p)
             \/ LoginClient(f)
             \/ LoginClientRefused(f)
             \/ Logout(f)
             \/ \E a \in Accounts : Push(f, a)
             \/ Broadcast(f)
             \/ Quit(f)
             \/ EndOfInput(f)
             \/ Unregister(f)
             \/ Close(f)
      PROVE  UNCHANGED users
  BY <1>2 DEF Answer, Authenticate, LoginClient, LoginClientRefused, Logout, Push, Broadcast,
              Quit, EndOfInput, Unregister, Close
<1>3. UNCHANGED users => StoreNext
  BY DEF StoreNext, RegisterRefused
<1> QED
  BY <1>1, <1>2, <1>3 DEF ThreadStep

(* The server, with its connections, slots, logins and messages, does to   *)
(* the user file what UserStore says and nothing else: what is true of the *)
(* file alone is true of it in the server.                                 *)
THEOREM ServerImplementsStore == Spec => StoreSpec
<1>1. Init => StoreInit
  BY DEF Init
<1>2. [Next]_vars => [StoreNext]_users
  <2> SUFFICES ASSUME [Next]_vars PROVE StoreNext \/ UNCHANGED users
    OBVIOUS
  <2>1. CASE UNCHANGED vars
    BY <2>1 DEF vars
  <2>2. CASE ListenerStep
    BY <2>2 DEF ListenerStep, RegisterClient, ServerFull, StartThread, StartThreadFails,
                ListenerCloses
  <2>3. ASSUME NEW f \in Fds, Accept(f) \/ PeerStep(f) PROVE UNCHANGED users
    BY <2>3 DEF Accept, PeerStep, Send, Hangup
  <2>4. ASSUME NEW f \in Fds, ThreadStep(f) PROVE StoreNext
    BY <2>4, ThreadKeepsUsers
  <2> QED
    BY <2>1, <2>2, <2>3, <2>4 DEF Next
<1> QED
  BY <1>1, <1>2, PTL DEF Spec, StoreSpec

(* Whatever connections register at the same time, accounts and nicknames  *)
(* are unique when no scan of the file is disturbed.                       *)
THEOREM ServerKeepsNamesUnique == ~Racing => (Spec => []NamesUnique)
<1> SUFFICES ASSUME ~Racing PROVE Spec => []NamesUnique
  OBVIOUS
<1>1. StoreSpec => []NamesUnique
  BY NamesStayUnique
<1> QED
  BY <1>1, ServerImplementsStore, PTL

(* No connection's REGISTER takes over a name by which another user is     *)
(* found, as long as the server runs.                                      *)
THEOREM ServerKeepsNames == Spec => NameNeverTakenOver
BY NamesNeverTakenOver, ServerImplementsStore, PTL

=============================================================================

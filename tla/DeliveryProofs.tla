--------------------------- MODULE DeliveryProofs ---------------------------
(***************************************************************************)
(* Theorems about delivery, for any number of users and messages, any      *)
(* order of slots and of rows of members, and sockets of any size.         *)
(***************************************************************************)
EXTENDS Delivery, SequenceTheorems, TLAPS

-----------------------------------------------------------------------------
(* The inductive invariant: mutexes and commands *)

\* A thread that is between two members of the group, or at one.
Visiting(u) == thread[u].kind = "group" /\ thread[u].pc \in {"clients", "slot", "write"}

HoldsSocial(u) ==
    \/ Visiting(u)
    \/ /\ thread[u].kind = "invite"
       /\ thread[u].pc \in {"member", "noted", "clients", "slot", "write"}
    \/ /\ thread[u].kind = "list"
       /\ thread[u].pc \in {"row", "accounts", "found", "item", "listing"}

HoldsNotification(u) ==
    \/ thread[u].pc = "noted"
    \/ thread[u].kind = "notifications" /\ thread[u].pc \in {"row", "item", "listing"}

HoldsAccounts(u) == thread[u].pc = "found"

HoldsClients(u) == thread[u].pc \in {"slot", "write"}

HoldsSending(u, v) ==
    \/ thread[u].pc = "write" /\ Target(u) = v
    \/ thread[u].pc \in {"reply", "header", "chunks", "opening", "listing"} /\ u = v

\* The place a thread has come to tells which mutexes it holds.
SocialHeld       == \A u \in Users : social = u <=> HoldsSocial(u)
NotificationHeld == \A u \in Users : notification = u <=> HoldsNotification(u)
AccountsHeld     == \A u \in Users : accounts = u <=> HoldsAccounts(u)
ClientsHeld      == \A u \in Users : clients = u <=> HoldsClients(u)
SendingHeld      == \A u, v \in Users : sending[v] = u <=> HoldsSending(u, v)

MutexesHeld == SocialHeld /\ NotificationHeld /\ AccountsHeld /\ ClientsHeld

\* Which commands come to which place.
Comes(u) ==
    /\ thread[u].pc = "line" => thread[u].kind = "none"
    /\ thread[u].pc = "begin" => thread[u].kind # "none"
    /\ thread[u].pc \in {"accounts", "found"} =>
          thread[u].kind \in {"invite", "private", "event", "list"}
    /\ thread[u].pc = "notify" => thread[u].kind \in {"event", "notifications"}
    /\ thread[u].pc = "noted" => thread[u].kind \in {"event", "invite"}
    /\ thread[u].pc = "social" => thread[u].kind \in {"group", "invite", "list"}
    /\ thread[u].pc = "member" => thread[u].kind = "invite"
    /\ thread[u].pc \in {"clients", "slot", "write"} => thread[u].kind \in Talk
    /\ thread[u].pc = "log" => thread[u].kind \in {"group", "private"}
    /\ thread[u].pc \in {"download", "header", "chunks"} => thread[u].kind = "download"
    /\ thread[u].pc \in {"open", "opening", "row", "item", "listing"} =>
          thread[u].kind \in {"list", "notifications"}

\* Where somebody is left to write to, and who.
Left(u) ==
    /\ thread[u].pc = "write" => thread[u].rest # <<>>
    /\ /\ thread[u].pc \in {"begin", "accounts", "found", "social", "clients", "slot"}
       /\ thread[u].kind \in {"group", "private"}
       => thread[u].rest # <<>>
    /\ /\ thread[u].pc \in {"noted", "clients", "slot"}
       /\ thread[u].kind = "invite"
       => thread[u].rest # <<>> /\ Target(u) # u

Places(u) == Comes(u) /\ Left(u)

InSend(u) == thread[u].kind \in Talk /\ thread[u].pc \notin {"answer", "reply"}

\* A message that is being sent is the last one of its sender.
OwnMessage(u) ==
    InSend(u) =>
        /\ thread[u].msg \in DOMAIN messages
        /\ messages[thread[u].msg].from = u
        /\ messages[thread[u].msg].kind = thread[u].kind
        /\ \A n \in DOMAIN messages : messages[n].from = u => n <= thread[u].msg

CommandsInv ==
    /\ TypeOK
    /\ MutexesHeld /\ SendingHeld
    /\ \A u \in Users : Places(u) /\ OwnMessage(u)

-----------------------------------------------------------------------------
(* Facts *)

LEMMA AppendFacts ==
    ASSUME NEW S, NEW s \in Seq(S), NEW e \in S
    PROVE  /\ Append(s, e) \in Seq(S)
           /\ Len(Append(s, e)) = Len(s) + 1
           /\ Len(s) \in Nat /\ DOMAIN s = 1 .. Len(s)
           /\ DOMAIN Append(s, e) = 1 .. Len(s) + 1
           /\ Append(s, e)[Len(s) + 1] = e
           /\ \A i \in DOMAIN s : Append(s, e)[i] = s[i]
           /\ ToSet(Append(s, e)) = ToSet(s) \cup {e}
<1>1. DOMAIN s = 1 .. Len(s) /\ Len(s) \in Nat
  BY LenProperties
<1>2. Append(s, e) \in Seq(S) /\ Len(Append(s, e)) = Len(s) + 1
  BY AppendProperties
<1>3. DOMAIN Append(s, e) = 1 .. Len(s) + 1
  BY <1>2, LenProperties
<1>4. /\ Append(s, e)[Len(s) + 1] = e
      /\ \A i \in DOMAIN s : Append(s, e)[i] = s[i]
  BY <1>1, <1>3, AppendProperties
<1>5. ToSet(Append(s, e)) = ToSet(s) \cup {e}
  BY <1>1, <1>3, <1>4 DEF ToSet
<1> QED
  BY <1>1, <1>2, <1>3, <1>4, <1>5

LEMMA TailFacts ==
    ASSUME NEW S, NEW s \in Seq(S), s # <<>>
    PROVE  /\ Head(s) \in S
           /\ Tail(s) \in Seq(S)
           /\ Len(Tail(s)) = Len(s) - 1 /\ Len(s) \in Nat \ {0}
           /\ DOMAIN s = 1 .. Len(s)
           /\ DOMAIN Tail(s) = 1 .. Len(s) - 1
           /\ s[1] = Head(s)
           /\ \A i \in 1 .. Len(s) - 1 : Tail(s)[i] = s[i + 1]
           /\ ToSet(s) = ToSet(Tail(s)) \cup {Head(s)}
<1>1. DOMAIN s = 1 .. Len(s) /\ Len(s) \in Nat \ {0}
  BY LenProperties, EmptySeq
<1>2. Head(s) \in S /\ Tail(s) \in Seq(S) /\ Len(Tail(s)) = Len(s) - 1 /\ s[1] = Head(s)
  BY HeadTailProperties
<1>3. DOMAIN Tail(s) = 1 .. Len(s) - 1
  BY <1>2, LenProperties
<1>4. \A i \in 1 .. Len(s) - 1 : Tail(s)[i] = s[i + 1]
  BY <1>1, <1>2, <1>3, HeadTailProperties
<1>5. \A i \in DOMAIN s : i = 1 \/ (i - 1 \in DOMAIN Tail(s) /\ Tail(s)[i - 1] = s[i])
  BY <1>1, <1>3, <1>4
<1>6. \A i \in DOMAIN Tail(s) : i + 1 \in DOMAIN s /\ Tail(s)[i] = s[i + 1]
  BY <1>1, <1>3, <1>4
<1>7. 1 \in DOMAIN s
  BY <1>1
<1>8. ToSet(s) = ToSet(Tail(s)) \cup {Head(s)}
  BY <1>2, <1>5, <1>6, <1>7 DEF ToSet
<1> QED
  BY <1>1, <1>2, <1>3, <1>4, <1>8

LEMMA EmptySeqs ==
    ASSUME NEW S PROVE <<>> \in Seq(S) /\ Len(<<>>) = 0 /\ DOMAIN <<>> = {} /\ ToSet(<<>>) = {}
<1>1. <<>> \in Seq(S) /\ Len(<<>>) = 0 /\ DOMAIN <<>> = {}
  OBVIOUS
<1> QED
  BY <1>1 DEF ToSet

LEMMA AtLineOp == AtLine \in Op
<1>1. <<>> \in Seq(Users)
  BY EmptySeqs
<1> QED
  BY <1>1, DeliveryAssumption DEF AtLine, Op, Pc, Kind

LEMMA OpFacts ==
    ASSUME TypeOK, NEW u \in Users
    PROVE  /\ thread \in [Users -> Op] /\ thread[u] \in Op
           /\ thread[u].pc \in Pc
           /\ thread[u].kind \in Kind
           /\ thread[u].msg \in Nat
           /\ thread[u].rest \in Seq(Users)
           /\ thread[u].chunks \in 0 .. FileChunks
           /\ thread[u].rows \in 0 .. Rows
           /\ thread[u].rest # <<>> =>
                 /\ Target(u) \in Users
                 /\ Tail(thread[u].rest) \in Seq(Users)
<1>1. thread \in [Users -> Op] /\ thread[u] \in Op
  BY DEF TypeOK
<1>2. thread[u].rest \in Seq(Users)
  BY <1>1 DEF Op
<1>3. thread[u].rest # <<>> => /\ Target(u) \in Users
                               /\ Tail(thread[u].rest) \in Seq(Users)
  BY <1>2, TailFacts DEF Target
<1> QED
  BY <1>1, <1>2, <1>3 DEF Op

\* A thread's steps, and its peer's, change its own command only.
LEMMA GoesOp ==
    ASSUME TypeOK, NEW u \in Users, NEW pc, Goes(u, pc),
           pc \in Pc
    PROVE  /\ thread' \in [Users -> Op]
           /\ \A v \in Users \ {u} : thread'[v] = thread[v]
           /\ thread'[u].pc = pc
           /\ thread'[u].kind = thread[u].kind
           /\ thread'[u].msg = thread[u].msg
           /\ thread'[u].rest = thread[u].rest
           /\ thread'[u].chunks = thread[u].chunks
<1>1. thread \in [Users -> Op] /\ thread' = [thread EXCEPT ![u].pc = pc]
  BY DEF TypeOK, Goes
<1>2. [thread[u] EXCEPT !.pc = pc] \in Op
  BY <1>1 DEF Op
<1>3. thread'[u] = [thread[u] EXCEPT !.pc = pc] /\ thread[u] \in Op
  BY <1>1
<1> QED
  BY <1>1, <1>2, <1>3 DEF Op

LEMMA NewOp ==
    ASSUME TypeOK, NEW u \in Users, NEW op \in Op, thread' = [thread EXCEPT ![u] = op]
    PROVE  /\ thread' \in [Users -> Op]
           /\ \A v \in Users \ {u} : thread'[v] = thread[v]
           /\ thread'[u] = op
BY DEF TypeOK

LEMMA SendOp ==
    ASSUME TypeOK, NEW u \in Users, NEW kind \in Talk, NEW rest \in Seq(Users),
           NEW to \in SUBSET Users, SendMessage(u, kind, rest, to)
    PROVE  /\ thread' \in [Users -> Op]
           /\ \A v \in Users \ {u} : thread'[v] = thread[v]
           /\ thread'[u].pc = "begin" /\ thread'[u].kind = kind
           /\ thread'[u].msg = Len(messages) + 1 /\ thread'[u].rest = rest
           /\ messages' \in Seq(Message)
           /\ Len(messages) \in Nat /\ DOMAIN messages = 1 .. Len(messages)
           /\ DOMAIN messages' = 1 .. Len(messages) + 1
           /\ messages'[Len(messages) + 1] = [from |-> u, kind |-> kind, to |-> to]
           /\ \A m \in DOMAIN messages : messages'[m] = messages[m]
<1> DEFINE op == [AtLine EXCEPT !.pc = "begin", !.kind = kind,
                           !.msg = Len(messages) + 1, !.rest = rest]
           new == [from |-> u, kind |-> kind, to |-> to]
<1>1. messages \in Seq(Message) /\ new \in Message
  BY DEF TypeOK, Message
<1>2. Len(messages) \in Nat
  BY <1>1, LenProperties
<1>3. op \in Op
  <2>1. Len(messages) + 1 \in Nat /\ AtLine \in Op
    BY <1>2, AtLineOp
  <2>2. kind \in Kind /\ "begin" \in Pc
    BY DEF Kind, Pc
  <2> QED
    BY <2>1, <2>2 DEF Op
<1>4. op.pc = "begin" /\ op.kind = kind /\ op.msg = Len(messages) + 1 /\ op.rest = rest
  BY DEF AtLine
<1>5. thread' = [thread EXCEPT ![u] = op] /\ messages' = Append(messages, new)
  BY DEF SendMessage
<1> HIDE DEF op
<1>6. /\ thread' \in [Users -> Op]
      /\ \A v \in Users \ {u} : thread'[v] = thread[v]
      /\ thread'[u] = op
  BY <1>3, <1>5, NewOp
<1> QED
  BY <1>1, <1>4, <1>5, <1>6, AppendFacts

\* The commands that send to the own peer only.
LEMMA SendBackOp ==
    ASSUME TypeOK, NEW u \in Users, NEW kind \in {"download", "list", "notifications"},
           SendBack(u, kind)
    PROVE  /\ thread' \in [Users -> Op]
           /\ \A v \in Users \ {u} : thread'[v] = thread[v]
           /\ thread'[u].pc = "begin" /\ thread'[u].kind = kind
<1> DEFINE op == [AtLine EXCEPT !.pc = "begin", !.kind = kind, !.rows = Rows]
<1>1. op \in Op
  <2>1. "begin" \in Pc /\ kind \in Kind
    BY DEF Pc, Kind
  <2>2. Rows \in 0 .. Rows /\ AtLine \in Op
    BY AtLineOp, DeliveryAssumption
  <2> QED
    BY <2>1, <2>2 DEF Op
<1>2. op.pc = "begin" /\ op.kind = kind
  BY DEF AtLine
<1>3. thread' = [thread EXCEPT ![u] = op]
  BY DEF SendBack
<1> HIDE DEF op
<1> QED
  BY <1>1, <1>2, <1>3, NewOp

\* The commands that send a message to others.
LEMMA SendCases ==
    ASSUME NEW u \in Users,
           \/ GroupSend(u) \/ GroupCreate(u) \/ Event(u)
           \/ \E v \in Users \ {u} : Private(u, v)
    PROVE  \E kind \in Talk, rest \in Seq(Users), to \in SUBSET Users :
              /\ SendMessage(u, kind, rest, to)
              /\ kind = "group" => rest # <<>> /\ ToSet(rest) = Users
              /\ kind = "private" => \E v \in Users : rest = <<v>> /\ to = {v}
<1>1. CASE GroupSend(u)
  <2>1. Members # <<>>
    BY EmptySeqs, DeliveryAssumption
  <2> QED
    BY <1>1, <2>1, DeliveryAssumption DEF GroupSend, Talk
<1>2. ASSUME NEW v \in Users \ {u}, Private(u, v)
      PROVE  SendMessage(u, "private", <<v>>, {v})
  BY <1>2 DEF Private
<1>3. \A v \in Users : <<v>> \in Seq(Users) /\ <<v>> # <<>> /\ {v} \in SUBSET Users
  OBVIOUS
<1>4. CASE Event(u)
  BY <1>4, DeliveryAssumption DEF Event, Talk
<1>5. CASE GroupCreate(u)
  BY <1>5, DeliveryAssumption DEF GroupCreate, Talk
<1> QED
  BY <1>1, <1>2, <1>3, <1>4, <1>5 DEF Talk

\* What Written does to the command and to the mutexes.
LEMMA WrittenOp ==
    ASSUME TypeOK, NEW u \in Users, thread[u].rest # <<>>, Written(u)
    PROVE  /\ thread' \in [Users -> Op]
           /\ \A v \in Users \ {u} : thread'[v] = thread[v]
           /\ thread'[u].kind = thread[u].kind
           /\ thread'[u].msg = thread[u].msg
           /\ thread'[u].rest = Tail(thread[u].rest)
           /\ thread'[u].pc = (IF thread[u].kind = "event" THEN "slot"
                               ELSE IF thread[u].kind = "group" /\ thread'[u].rest # <<>>
                               THEN "clients"
                               ELSE IF thread[u].kind = "invite" THEN "member" ELSE "log")
           /\ clients' = IF thread[u].kind = "event" THEN clients ELSE Nobody
           /\ social' = IF thread[u].kind = "group" /\ thread'[u].rest = <<>>
                        THEN Nobody ELSE social
<1> DEFINE rest == Tail(thread[u].rest)
<1>1. thread \in [Users -> Op] /\ thread[u] \in Op /\ rest \in Seq(Users)
  BY OpFacts
<1>2. PICK pc \in {"slot", "clients", "member", "log"} :
          /\ thread' = [thread EXCEPT ![u].pc = pc, ![u].rest = rest]
          /\ pc = (IF thread[u].kind = "event" THEN "slot"
                   ELSE IF thread[u].kind = "group" /\ rest # <<>> THEN "clients"
                   ELSE IF thread[u].kind = "invite" THEN "member" ELSE "log")
          /\ clients' = IF thread[u].kind = "event" THEN clients ELSE Nobody
          /\ social' = IF thread[u].kind = "group" /\ rest = <<>> THEN Nobody ELSE social
  BY DEF Written
<1> HIDE DEF rest
<1>3. [thread[u] EXCEPT !.pc = pc, !.rest = rest] \in Op
  <2>1. pc \in Pc
    BY DEF Pc
  <2> QED
    BY <1>1, <2>1 DEF Op
<1>4. thread'[u] = [thread[u] EXCEPT !.pc = pc, !.rest = rest]
  BY <1>1, <1>2
<1>5. thread' \in [Users -> Op] /\ \A v \in Users \ {u} : thread'[v] = thread[v]
  BY <1>1, <1>2, <1>3
<1>6. /\ thread'[u].kind = thread[u].kind
      /\ thread'[u].msg = thread[u].msg
      /\ thread'[u].rest = rest
      /\ thread'[u].pc = pc
  BY <1>1, <1>4 DEF Op
<1> QED
  BY <1>2, <1>5, <1>6 DEF rest

-----------------------------------------------------------------------------
(* Mutexes and commands, step by step *)

\* A step touches the command of one thread.
OthersStay(u) == \A v \in Users \ {u} : thread'[v] = thread[v]

\* A mutex is left alone, taken when it is free, or given back by its holder.
LEMMA SocialStep ==
    ASSUME CommandsInv, NEW u \in Users, OthersStay(u),
           \/ UNCHANGED social /\ (HoldsSocial(u) <=> HoldsSocial(u)')
           \/ social = Nobody /\ social' = u /\ HoldsSocial(u)'
           \/ HoldsSocial(u) /\ social' = Nobody /\ ~HoldsSocial(u)'
    PROVE  SocialHeld'
<1>1. Nobody \notin Users
  BY DeliveryAssumption
<1>2. ASSUME NEW v \in Users \ {u} PROVE HoldsSocial(v) <=> HoldsSocial(v)'
  BY DEF OthersStay, HoldsSocial, Visiting
<1> QED
  BY <1>1, <1>2 DEF CommandsInv, MutexesHeld, SocialHeld

LEMMA NotificationStep ==
    ASSUME CommandsInv, NEW u \in Users, OthersStay(u),
           \/ UNCHANGED notification /\ (HoldsNotification(u) <=> HoldsNotification(u)')
           \/ notification = Nobody /\ notification' = u /\ HoldsNotification(u)'
           \/ HoldsNotification(u) /\ notification' = Nobody /\ ~HoldsNotification(u)'
    PROVE  NotificationHeld'
<1>1. Nobody \notin Users
  BY DeliveryAssumption
<1>2. ASSUME NEW v \in Users \ {u} PROVE HoldsNotification(v) <=> HoldsNotification(v)'
  BY DEF OthersStay, HoldsNotification
<1> QED
  BY <1>1, <1>2 DEF CommandsInv, MutexesHeld, NotificationHeld

LEMMA AccountsStep ==
    ASSUME CommandsInv, NEW u \in Users, OthersStay(u),
           \/ UNCHANGED accounts /\ (HoldsAccounts(u) <=> HoldsAccounts(u)')
           \/ accounts = Nobody /\ accounts' = u /\ HoldsAccounts(u)'
           \/ HoldsAccounts(u) /\ accounts' = Nobody /\ ~HoldsAccounts(u)'
    PROVE  AccountsHeld'
<1>1. Nobody \notin Users
  BY DeliveryAssumption
<1>2. ASSUME NEW v \in Users \ {u} PROVE HoldsAccounts(v) <=> HoldsAccounts(v)'
  BY DEF OthersStay, HoldsAccounts
<1> QED
  BY <1>1, <1>2 DEF CommandsInv, MutexesHeld, AccountsHeld

LEMMA ClientsStep ==
    ASSUME CommandsInv, NEW u \in Users, OthersStay(u),
           \/ UNCHANGED clients /\ (HoldsClients(u) <=> HoldsClients(u)')
           \/ clients = Nobody /\ clients' = u /\ HoldsClients(u)'
           \/ HoldsClients(u) /\ clients' = Nobody /\ ~HoldsClients(u)'
    PROVE  ClientsHeld'
<1>1. Nobody \notin Users
  BY DeliveryAssumption
<1>2. ASSUME NEW v \in Users \ {u} PROVE HoldsClients(v) <=> HoldsClients(v)'
  BY DEF OthersStay, HoldsClients
<1> QED
  BY <1>1, <1>2 DEF CommandsInv, MutexesHeld, ClientsHeld

\* All of these mutexes are left alone.
LEMMA MutexesStay ==
    ASSUME CommandsInv, NEW u \in Users, OthersStay(u),
           UNCHANGED <<social, notification, accounts, clients>>,
           HoldsSocial(u) <=> HoldsSocial(u)', HoldsNotification(u) <=> HoldsNotification(u)',
           HoldsAccounts(u) <=> HoldsAccounts(u)', HoldsClients(u) <=> HoldsClients(u)'
    PROVE  MutexesHeld'
BY SocialStep, NotificationStep, AccountsStep, ClientsStep DEF MutexesHeld

LEMMA SendingStays ==
    ASSUME CommandsInv, NEW u \in Users, OthersStay(u), UNCHANGED sending,
           \A v \in Users : HoldsSending(u, v) <=> HoldsSending(u, v)'
    PROVE  SendingHeld'
<1>1. ASSUME NEW v \in Users \ {u}, NEW t \in Users
      PROVE  HoldsSending(v, t) <=> HoldsSending(v, t)'
  BY DEF OthersStay, HoldsSending, Target
<1> QED
  BY <1>1 DEF CommandsInv, SendingHeld

LEMMA SendingTaken ==
    ASSUME CommandsInv, NEW u \in Users, OthersStay(u), NEW t \in Users,
           sending[t] = Nobody, sending' = [sending EXCEPT ![t] = u],
           \A v \in Users : ~HoldsSending(u, v),
           \A v \in Users : HoldsSending(u, v)' <=> v = t
    PROVE  SendingHeld'
<1>1. Nobody \notin Users
  BY DeliveryAssumption
<1>2. ASSUME NEW v \in Users \ {u}, NEW w \in Users
      PROVE  HoldsSending(v, w) <=> HoldsSending(v, w)'
  BY DEF OthersStay, HoldsSending, Target
<1>3. /\ sending'[t] = u
      /\ \A v \in Users \ {t} : sending'[v] = sending[v]
  BY DEF CommandsInv, TypeOK
<1>4. \A v \in Users : ~HoldsSending(v, t)
  BY <1>1 DEF CommandsInv, SendingHeld
<1> QED
  BY <1>1, <1>2, <1>3, <1>4 DEF CommandsInv, SendingHeld

LEMMA SendingReleased ==
    ASSUME CommandsInv, NEW u \in Users, OthersStay(u), NEW t \in Users,
           sending' = [sending EXCEPT ![t] = Nobody],
           \A v \in Users : HoldsSending(u, v) <=> v = t,
           \A v \in Users : ~HoldsSending(u, v)'
    PROVE  SendingHeld'
<1>1. Nobody \notin Users
  BY DeliveryAssumption
<1>2. ASSUME NEW v \in Users \ {u}, NEW w \in Users
      PROVE  HoldsSending(v, w) <=> HoldsSending(v, w)'
  BY DEF OthersStay, HoldsSending, Target
<1>3. /\ sending'[t] = Nobody
      /\ \A v \in Users \ {t} : sending'[v] = sending[v]
  BY DEF CommandsInv, TypeOK
<1>4. sending[t] = u
  BY DEF CommandsInv, SendingHeld
<1> QED
  BY <1>1, <1>2, <1>3, <1>4 DEF CommandsInv, SendingHeld

\* Other commands are not disturbed.
LEMMA CommandsKept ==
    ASSUME CommandsInv, NEW u \in Users, OthersStay(u), UNCHANGED messages,
           TypeOK', MutexesHeld', SendingHeld', Places(u)', OwnMessage(u)'
    PROVE  CommandsInv'
<1>1. ASSUME NEW v \in Users \ {u} PROVE Places(v)' /\ OwnMessage(v)'
  BY DEF CommandsInv, OthersStay, Places, Comes, Left, Target, OwnMessage, InSend
<1> QED
  BY <1>1 DEF CommandsInv

\* A line arrives.
LEMMA SendCommands ==
    ASSUME CommandsInv, NEW u \in Users, NEW kind \in Talk, NEW rest \in Seq(Users),
           NEW to \in SUBSET Users, SendMessage(u, kind, rest, to),
           kind \in {"group", "private"} => rest # <<>>
    PROVE  CommandsInv'
<1>0. TypeOK
  BY DEF CommandsInv
<1>1. /\ thread' \in [Users -> Op]
      /\ OthersStay(u)
      /\ thread'[u].pc = "begin" /\ thread'[u].kind = kind
      /\ thread'[u].msg = Len(messages) + 1 /\ thread'[u].rest = rest
      /\ messages' \in Seq(Message)
      /\ Len(messages) \in Nat /\ DOMAIN messages = 1 .. Len(messages)
      /\ DOMAIN messages' = 1 .. Len(messages) + 1
      /\ messages'[Len(messages) + 1] = [from |-> u, kind |-> kind, to |-> to]
      /\ \A m \in DOMAIN messages : messages'[m] = messages[m]
  BY <1>0, SendOp DEF OthersStay
<1>2. thread[u].pc = "line" /\ UNCHANGED <<reads, locks, streams, heard, log>>
  BY DEF SendMessage
<1>3. TypeOK'
  <2>1. DOMAIN messages \subseteq DOMAIN messages'
    BY <1>1
  <2>2. log' \in Seq(DOMAIN messages')
    BY <1>0, <1>2, <2>1, SeqMonotonic DEF TypeOK
  <2>3. heard' \in [Users -> Seq(DOMAIN messages')]
    BY <1>0, <1>2, <2>1, SeqMonotonic DEF TypeOK
  <2> QED
    BY <1>0, <1>1, <1>2, <2>2, <2>3 DEF TypeOK, locks, streams
<1>4. MutexesHeld' /\ SendingHeld'
  BY <1>1, <1>2, MutexesStay, SendingStays
     DEF HoldsSocial, Visiting, HoldsNotification, HoldsAccounts, HoldsClients, HoldsSending, locks
<1>5. Places(u)'
  BY <1>1 DEF Places, Comes, Left, Target, Talk
<1>6. OwnMessage(u)'
  BY <1>1 DEF OwnMessage
<1>7. ASSUME NEW v \in Users \ {u} PROVE Places(v)' /\ OwnMessage(v)'
  <2>1. Places(v) /\ OwnMessage(v) /\ thread'[v] = thread[v]
    BY <1>1 DEF CommandsInv, OthersStay
  <2>2. messages'[Len(messages) + 1].from # v
    BY <1>1
  <2>3. ASSUME InSend(v) PROVE OwnMessage(v)'
    <3>1. /\ thread[v].msg \in DOMAIN messages
          /\ messages'[thread[v].msg] = messages[thread[v].msg]
          /\ messages[thread[v].msg].from = v
          /\ messages[thread[v].msg].kind = thread[v].kind
      BY <1>1, <2>1, <2>3 DEF OwnMessage
    <3>2. \A n \in DOMAIN messages' : messages'[n].from = v =>
             n \in DOMAIN messages /\ messages[n].from = v
      BY <1>1, <2>2
    <3>3. \A n \in DOMAIN messages' : messages'[n].from = v => n <= thread[v].msg
      BY <2>1, <2>3, <3>2 DEF OwnMessage
    <3>4. thread[v].msg \in DOMAIN messages'
      BY <1>1, <3>1
    <3> QED
      BY <2>1, <3>1, <3>3, <3>4 DEF OwnMessage
  <2>4. ~InSend(v) => OwnMessage(v)'
    BY <2>1 DEF OwnMessage, InSend
  <2> QED
    BY <2>1, <2>3, <2>4 DEF Places, Comes, Left, Target
<1> QED
  BY <1>3, <1>4, <1>5, <1>6, <1>7 DEF CommandsInv

LEMMA SendBackCommands ==
    ASSUME CommandsInv, NEW u \in Users, NEW kind \in {"download", "list", "notifications"},
           SendBack(u, kind)
    PROVE  CommandsInv'
<1>0. TypeOK
  BY DEF CommandsInv
<1>1. /\ thread' \in [Users -> Op]
      /\ OthersStay(u)
      /\ thread'[u].pc = "begin" /\ thread'[u].kind = kind
  BY <1>0, SendBackOp DEF OthersStay
<1>2. /\ thread[u].pc = "line" /\ reads' = reads + 1
      /\ UNCHANGED <<messages, locks, streams, heard, log>>
  BY DEF SendBack
<1>3. TypeOK'
  BY <1>0, <1>1, <1>2 DEF TypeOK, locks, streams
<1>4. MutexesHeld' /\ SendingHeld'
  BY <1>1, <1>2, MutexesStay, SendingStays
     DEF HoldsSocial, Visiting, HoldsNotification, HoldsAccounts, HoldsClients, HoldsSending, locks
<1>5. Places(u)' /\ OwnMessage(u)'
  BY <1>1 DEF Places, Comes, Left, Target, OwnMessage, InSend, Talk
<1> QED
  BY <1>1, <1>2, <1>3, <1>4, <1>5, CommandsKept

\* A peer reads or hangs up.
LEMMA QuietCommands ==
    ASSUME CommandsInv, NEW u \in Users, Read(u) \/ HangUp(u)
    PROVE  CommandsInv'
<1>1. UNCHANGED <<messages, reads, thread, locks, heard, log>>
  BY DEF Read, HangUp
<1>2. ASSUME Read(u) PROVE TypeOK'
  <2>1. socket[u] \in Seq(Item) /\ socket[u] # <<>>
    BY <1>2 DEF CommandsInv, TypeOK, Read
  <2>2. Tail(socket[u]) \in Seq(Item)
    BY <2>1, TailFacts
  <2>3. expected[u] \in 0 .. FileChunks /\ FileChunks \in Nat
    BY DeliveryAssumption DEF CommandsInv, TypeOK
  <2>4. CASE Head(socket[u]) = "header"
    <3>1. expected' = [expected EXCEPT ![u] = FileChunks]
      BY <1>2, <2>4 DEF Read
    <3> QED
      BY <1>1, <1>2, <2>2, <2>3, <3>1 DEF Read, CommandsInv, TypeOK, locks
  <2>5. CASE Head(socket[u]) = "chunk" /\ expected[u] > 0
    <3>1. expected' = [expected EXCEPT ![u] = expected[u] - 1]
      BY <1>2, <2>5 DEF Read
    <3>2. expected[u] - 1 \in 0 .. FileChunks
      BY <2>3, <2>5
    <3> QED
      BY <1>1, <1>2, <2>2, <3>1, <3>2 DEF Read, CommandsInv, TypeOK, locks
  <2>6. CASE Head(socket[u]) # "header" /\ ~(Head(socket[u]) = "chunk" /\ expected[u] > 0)
    <3>1. expected' = [expected EXCEPT ![u] = expected[u]]
      BY <1>2, <2>6 DEF Read
    <3> QED
      BY <1>1, <1>2, <2>2, <2>3, <3>1 DEF Read, CommandsInv, TypeOK, locks
  <2> QED
    BY <2>4, <2>5, <2>6
<1>3. ASSUME HangUp(u) PROVE TypeOK'
  <2>1. <<>> \in Seq(Item) /\ 0 \in 0 .. FileChunks
    BY EmptySeqs, DeliveryAssumption
  <2> QED
    BY <1>1, <1>3, <2>1 DEF HangUp, CommandsInv, TypeOK, locks
<1>4. MutexesHeld' /\ SendingHeld' /\ Places(u)' /\ OwnMessage(u)'
  BY <1>1 DEF CommandsInv, locks, MutexesHeld, SocialHeld, NotificationHeld, AccountsHeld, ClientsHeld, SendingHeld, HoldsSocial, Visiting, HoldsNotification, HoldsAccounts, HoldsClients, HoldsSending, Target, Places, Comes, Left, Target, OwnMessage, InSend
<1>5. OthersStay(u) /\ UNCHANGED messages
  BY <1>1 DEF OthersStay
<1> QED
  BY <1>2, <1>3, <1>4, <1>5, CommandsKept

\* The steps that take or give back a mutex, and write nothing.
Going(u) ==
    \/ LoggedIn(u) \/ LockAccounts(u) \/ UnlockAccounts(u) \/ LockNotification(u)
    \/ UnlockNotification(u) \/ LockSocial(u) \/ LockClients(u) \/ LockSlot(u)
    \/ EndEvent(u) \/ EndInvite(u) \/ LogFails(u) \/ LockOwn(u) \/ EndRows(u)

LEMMA BeginsFacts ==
    /\ Begins("group") = {"social"}
    /\ Begins("event") = {"accounts", "clients"}
    /\ Begins("download") = {"download"}
    /\ Begins("invite") = {"accounts"}
    /\ Begins("private") = {"accounts"}
    /\ Begins("list") = {"open"}
    /\ Begins("notifications") = {"open"}
BY DEF Begins

LEMMA GoesCommands ==
    ASSUME CommandsInv, NEW u \in Users, Going(u)
    PROVE  CommandsInv'
<1>0. TypeOK /\ MutexesHeld /\ SendingHeld /\ Comes(u) /\ Left(u) /\ OwnMessage(u)
  BY DEF CommandsInv, Places
<1>1. UNCHANGED <<messages, reads, streams, heard, log>>
  BY DEF Going, LoggedIn, LockAccounts, UnlockAccounts, LockNotification, UnlockNotification,
         LockSocial, LockClients, LockSlot, EndEvent, EndInvite, LogFails, LockOwn, EndRows,
         locks
<1>2. ASSUME NEW pc \in Pc, Goes(u, pc)
      PROVE  /\ thread' \in [Users -> Op]
             /\ OthersStay(u)
             /\ thread'[u].pc = pc
             /\ thread'[u].kind = thread[u].kind
             /\ thread'[u].msg = thread[u].msg
             /\ thread'[u].rest = thread[u].rest
             /\ Target(u)' = Target(u)
  BY <1>0, <1>2, GoesOp DEF OthersStay, Target
<1>3. /\ thread[u].kind \in Kind
      /\ thread[u].rest # <<>> => Target(u) \in Users
  BY <1>0, OpFacts
<1>4. ASSUME NEW pc \in Pc, Goes(u, pc), thread[u].pc \notin {"answer", "reply"}
      PROVE  OwnMessage(u)'
  BY <1>0, <1>1, <1>2, <1>4 DEF OwnMessage, InSend
<1>5. ASSUME NEW pc \in Pc, Goes(u, pc),
             social' \in Users \cup {Nobody}, notification' \in Users \cup {Nobody},
             accounts' \in Users \cup {Nobody}, clients' \in Users \cup {Nobody},
             sending' \in [Users -> Users \cup {Nobody}]
      PROVE  TypeOK'
  BY <1>0, <1>1, <1>2, <1>5 DEF TypeOK, streams
<1>6. ASSUME NEW pc \in Pc, Goes(u, pc), thread[u].pc \notin {"answer", "reply"},
             UNCHANGED sending, thread[u].pc # "write", pc # "write",
             social' \in Users \cup {Nobody}, notification' \in Users \cup {Nobody},
             accounts' \in Users \cup {Nobody}, clients' \in Users \cup {Nobody},
             MutexesHeld', Comes(u)', Left(u)',
             thread[u].pc \in {"header", "chunks", "opening", "listing"} <=>
                pc \in {"reply", "header", "chunks", "opening", "listing"}
      PROVE  CommandsInv'
  <2>1. TypeOK'
    BY <1>0, <1>5, <1>6 DEF TypeOK
  <2>2. \A v \in Users : HoldsSending(u, v) <=> HoldsSending(u, v)'
    BY <1>2, <1>6 DEF HoldsSending
  <2>3. SendingHeld'
    BY <1>2, <1>6, <2>2, SendingStays
  <2> QED
    BY <1>1, <1>2, <1>4, <1>6, <2>1, <2>3, CommandsKept DEF Places
<1>u. /\ social \in Users \cup {Nobody} /\ notification \in Users \cup {Nobody}
      /\ accounts \in Users \cup {Nobody} /\ clients \in Users \cup {Nobody}
      /\ u \in Users \cup {Nobody} /\ Nobody \in Users \cup {Nobody}
  BY <1>0 DEF TypeOK
<1>7. CASE LoggedIn(u)
  <2>1. PICK pc \in Begins(thread[u].kind) : Goes(u, pc)
    BY <1>7 DEF LoggedIn
  <2>2. thread[u].pc = "begin" /\ UNCHANGED <<social, notification, accounts, clients, sending>>
    BY <1>7 DEF LoggedIn, locks
  <2>3. /\ pc \in {"social", "accounts", "clients", "download", "open"}
        /\ pc = "social" => thread[u].kind = "group"
        /\ pc = "accounts" => thread[u].kind \in {"event", "invite", "private"}
        /\ pc = "clients" => thread[u].kind = "event"
        /\ pc = "download" => thread[u].kind = "download"
        /\ pc = "open" => thread[u].kind \in {"list", "notifications"}
    <3>1. thread[u].kind \in {"group", "invite", "private", "event", "download", "list",
                              "notifications"}
      <4>1. thread[u].kind # "none"
        BY <1>0, <2>2 DEF Comes
      <4> QED
        BY <1>3, <4>1 DEF Kind, Talk
    <3> QED
      BY <2>1, <3>1, BeginsFacts
  <2>4. pc \in Pc
    BY <2>3 DEF Pc
  <2>5. MutexesHeld'
    BY <1>2, <2>1, <2>2, <2>3, <2>4, MutexesStay
       DEF HoldsSocial, Visiting, HoldsNotification, HoldsAccounts, HoldsClients
  <2>6. Comes(u)'
    BY <1>2, <2>1, <2>3, <2>4 DEF Comes, Talk
  <2>7. Left(u)'
    BY <1>0, <1>2, <2>1, <2>2, <2>3, <2>4 DEF Left
  <2> QED
    BY <1>6, <1>u, <2>1, <2>2, <2>3, <2>4, <2>5, <2>6, <2>7
<1>8. CASE LockAccounts(u)
  <2>1. /\ thread[u].pc = "accounts" /\ accounts = Nobody /\ accounts' = u
        /\ Goes(u, "found") /\ UNCHANGED <<social, notification, clients, sending>>
    BY <1>8 DEF LockAccounts
  <2>2. "found" \in Pc
    BY DEF Pc
  <2>3. SocialHeld' /\ NotificationHeld' /\ AccountsHeld' /\ ClientsHeld'
    BY <1>2, <2>1, <2>2, SocialStep, NotificationStep, AccountsStep, ClientsStep
       DEF HoldsSocial, Visiting, HoldsNotification, HoldsAccounts, HoldsClients
  <2>4. Comes(u)' /\ Left(u)'
    BY <1>0, <1>2, <2>1, <2>2 DEF Comes, Left
  <2> QED
    BY <1>6, <1>u, <2>1, <2>2, <2>3, <2>4 DEF MutexesHeld
<1>9. CASE UnlockAccounts(u)
  <2>1. PICK pc \in Found(thread[u].kind) : Goes(u, pc)
    BY <1>9 DEF UnlockAccounts
  <2>2. /\ thread[u].pc = "found" /\ accounts' = Nobody
        /\ UNCHANGED <<social, notification, clients, sending>>
    BY <1>9 DEF UnlockAccounts
  <2>3. /\ pc \in {"clients", "social", "notify", "item", "row"}
        /\ pc = "clients" => thread[u].kind \in {"private", "event"}
        /\ pc = "social" => thread[u].kind = "invite"
        /\ pc = "notify" => thread[u].kind = "event"
        /\ pc \in {"item", "row"} => thread[u].kind = "list"
    BY <1>0, <2>1, <2>2 DEF Found, Comes
  <2>k. thread[u].kind = "list" => pc \in {"item", "row"}
    BY <2>1 DEF Found
  <2>4. pc \in Pc
    BY <2>3 DEF Pc
  <2>5. SocialHeld'
    BY <1>2, <2>1, <2>2, <2>3, <2>k, <2>4, SocialStep DEF HoldsSocial, Visiting
  <2>6. NotificationHeld' /\ AccountsHeld' /\ ClientsHeld'
    BY <1>2, <2>1, <2>2, <2>3, <2>4, NotificationStep, AccountsStep, ClientsStep
       DEF HoldsNotification, HoldsAccounts, HoldsClients
  <2>7. Comes(u)'
    BY <1>2, <2>1, <2>3, <2>4 DEF Comes, Talk
  <2>8. Left(u)'
    BY <1>0, <1>2, <2>1, <2>2, <2>3, <2>4 DEF Left
  <2> QED
    BY <1>6, <1>u, <2>1, <2>2, <2>3, <2>4, <2>5, <2>6, <2>7, <2>8 DEF MutexesHeld
<1>10. CASE LockNotification(u)
  <2>1. PICK pc \in {"row", "noted"} :
           /\ pc = IF thread[u].kind = "notifications" THEN "row" ELSE "noted"
           /\ Goes(u, pc)
    BY <1>10 DEF LockNotification
  <2>2. /\ \/ thread[u].pc = "notify" /\ thread[u].kind \in {"event", "notifications"}
           \/ /\ thread[u].pc = "member" /\ thread[u].kind = "invite"
              /\ thread[u].rest # <<>> /\ Target(u) # u
        /\ notification = Nobody /\ notification' = u
        /\ UNCHANGED <<social, accounts, clients, sending>>
    BY <1>0, <1>10 DEF LockNotification, Comes, Excepted
  <2>3. pc \in Pc
    BY <2>1 DEF Pc
  <2>4. SocialHeld' /\ NotificationHeld' /\ AccountsHeld' /\ ClientsHeld'
    BY <1>2, <2>1, <2>2, <2>3, SocialStep, NotificationStep, AccountsStep, ClientsStep
       DEF HoldsSocial, Visiting, HoldsNotification, HoldsAccounts, HoldsClients
  <2>5. Comes(u)' /\ Left(u)'
    BY <1>2, <2>1, <2>2, <2>3 DEF Comes, Left
  <2> QED
    BY <1>6, <1>u, <2>1, <2>2, <2>3, <2>4, <2>5 DEF MutexesHeld
<1>11. CASE UnlockNotification(u)
  <2>1. /\ thread[u].pc = "noted" /\ notification' = Nobody
        /\ Goes(u, "clients") /\ UNCHANGED <<social, accounts, clients, sending>>
    BY <1>11 DEF UnlockNotification
  <2>2. "clients" \in Pc
    BY DEF Pc
  <2>3. thread[u].kind \in {"event", "invite"}
    BY <1>0, <2>1 DEF Comes
  <2>4. SocialHeld' /\ NotificationHeld' /\ AccountsHeld' /\ ClientsHeld'
    BY <1>2, <2>1, <2>2, <2>3, SocialStep, NotificationStep, AccountsStep, ClientsStep
       DEF HoldsSocial, Visiting, HoldsNotification, HoldsAccounts, HoldsClients
  <2>5. Comes(u)' /\ Left(u)'
    BY <1>0, <1>2, <2>1, <2>2, <2>3 DEF Comes, Left, Talk
  <2> QED
    BY <1>6, <1>u, <2>1, <2>2, <2>4, <2>5 DEF MutexesHeld
<1>12. CASE LockSocial(u)
  <2>1. PICK pc \in {"clients", "member", "row"} :
           pc = Visits(thread[u].kind) /\ Goes(u, pc)
    BY <1>12 DEF LockSocial, Visits
  <2>2. /\ thread[u].pc = "social" /\ social = Nobody /\ social' = u
        /\ UNCHANGED <<notification, accounts, clients, sending>>
    BY <1>12 DEF LockSocial
  <2>3. \/ thread[u].kind = "group" /\ pc = "clients"
        \/ thread[u].kind = "invite" /\ pc = "member"
        \/ thread[u].kind = "list" /\ pc = "row"
    BY <1>0, <2>1, <2>2 DEF Comes, Visits
  <2>4. pc \in Pc
    BY <2>1 DEF Pc
  <2>5. SocialHeld' /\ NotificationHeld' /\ AccountsHeld' /\ ClientsHeld'
    BY <1>2, <2>1, <2>2, <2>3, <2>4, SocialStep, NotificationStep, AccountsStep, ClientsStep
       DEF HoldsSocial, Visiting, HoldsNotification, HoldsAccounts, HoldsClients
  <2>6. Comes(u)' /\ Left(u)'
    BY <1>0, <1>2, <2>1, <2>2, <2>3, <2>4 DEF Comes, Left, Talk
  <2> QED
    BY <1>6, <1>u, <2>1, <2>2, <2>4, <2>5, <2>6 DEF MutexesHeld
<1>13. CASE LockClients(u)
  <2>1. /\ thread[u].pc = "clients" /\ clients = Nobody /\ clients' = u
        /\ Goes(u, "slot") /\ UNCHANGED <<social, notification, accounts, sending>>
    BY <1>13 DEF LockClients
  <2>2. "slot" \in Pc
    BY DEF Pc
  <2>3. SocialHeld' /\ NotificationHeld' /\ AccountsHeld' /\ ClientsHeld'
    BY <1>2, <2>1, <2>2, SocialStep, NotificationStep, AccountsStep, ClientsStep
       DEF HoldsSocial, Visiting, HoldsNotification, HoldsAccounts, HoldsClients
  <2>4. Comes(u)' /\ Left(u)'
    BY <1>0, <1>2, <2>1, <2>2 DEF Comes, Left
  <2> QED
    BY <1>6, <1>u, <2>1, <2>2, <2>3, <2>4 DEF MutexesHeld
<1>14. CASE LockSlot(u)
  <2>1. /\ thread[u].pc = "slot" /\ thread[u].rest # <<>>
        /\ sending[Target(u)] = Nobody
        /\ sending' = [sending EXCEPT ![Target(u)] = u]
        /\ Goes(u, "write") /\ UNCHANGED <<social, notification, accounts, clients>>
    BY <1>14 DEF LockSlot
  <2>2. "write" \in Pc
    BY DEF Pc
  <2>3. TypeOK'
    BY <1>0, <1>5, <1>u, <2>1, <2>2 DEF TypeOK
  <2>4. MutexesHeld'
    BY <1>2, <2>1, <2>2, MutexesStay
       DEF HoldsSocial, Visiting, HoldsNotification, HoldsAccounts, HoldsClients
  <2>5. SendingHeld'
    <3>1. \A v \in Users : ~HoldsSending(u, v)
      BY <2>1 DEF HoldsSending
    <3>2. \A v \in Users : HoldsSending(u, v)' <=> v = Target(u)
      BY <1>2, <2>1, <2>2 DEF HoldsSending
    <3>3. PICK t \in Users : t = Target(u)
      BY <1>3, <2>1
    <3> QED
      BY <1>2, <2>1, <2>2, <3>1, <3>2, <3>3, SendingTaken
  <2>6. Comes(u)' /\ Left(u)'
    BY <1>0, <1>2, <2>1, <2>2 DEF Comes, Left
  <2>7. OwnMessage(u)'
    BY <1>4, <2>1, <2>2
  <2> QED
    BY <1>1, <1>2, <2>1, <2>2, <2>3, <2>4, <2>5, <2>6, <2>7, CommandsKept DEF Places
<1>15. CASE EndEvent(u)
  <2>1. /\ thread[u].pc = "slot" /\ thread[u].rest = <<>> /\ clients' = Nobody
        /\ Goes(u, "answer") /\ UNCHANGED <<social, notification, accounts, sending>>
    BY <1>15 DEF EndEvent
  <2>2. "answer" \in Pc
    BY DEF Pc
  <2>3. thread[u].kind = "event"
    BY <1>0, <2>1 DEF Comes, Left, Talk
  <2>4. SocialHeld' /\ NotificationHeld' /\ AccountsHeld' /\ ClientsHeld'
    BY <1>2, <2>1, <2>2, <2>3, SocialStep, NotificationStep, AccountsStep, ClientsStep
       DEF HoldsSocial, Visiting, HoldsNotification, HoldsAccounts, HoldsClients
  <2>5. Comes(u)' /\ Left(u)'
    BY <1>2, <2>1, <2>2 DEF Comes, Left
  <2> QED
    BY <1>6, <1>u, <2>1, <2>2, <2>4, <2>5 DEF MutexesHeld
<1>16. CASE EndInvite(u)
  <2>1. /\ thread[u].pc = "member" /\ social' = Nobody
        /\ Goes(u, "answer") /\ UNCHANGED <<notification, accounts, clients, sending>>
    BY <1>16 DEF EndInvite
  <2>2. "answer" \in Pc
    BY DEF Pc
  <2>3. thread[u].kind = "invite"
    BY <1>0, <2>1 DEF Comes
  <2>4. SocialHeld' /\ NotificationHeld' /\ AccountsHeld' /\ ClientsHeld'
    BY <1>2, <2>1, <2>2, <2>3, SocialStep, NotificationStep, AccountsStep, ClientsStep
       DEF HoldsSocial, Visiting, HoldsNotification, HoldsAccounts, HoldsClients
  <2>5. Comes(u)' /\ Left(u)'
    BY <1>2, <2>1, <2>2 DEF Comes, Left
  <2> QED
    BY <1>6, <1>u, <2>1, <2>2, <2>4, <2>5 DEF MutexesHeld
<1>17. CASE LogFails(u)
  <2>1. /\ thread[u].pc = "log" /\ Goes(u, "answer")
        /\ UNCHANGED <<social, notification, accounts, clients, sending>>
    BY <1>17 DEF LogFails, locks
  <2>2. "answer" \in Pc
    BY DEF Pc
  <2>3. MutexesHeld'
    BY <1>2, <2>1, <2>2, MutexesStay
       DEF HoldsSocial, Visiting, HoldsNotification, HoldsAccounts, HoldsClients
  <2>4. Comes(u)' /\ Left(u)'
    BY <1>2, <2>1, <2>2 DEF Comes, Left
  <2> QED
    BY <1>6, <1>u, <2>1, <2>2, <2>3, <2>4
<1>18. CASE LockOwn(u)
  <2>1. PICK pc \in {"reply", "header", "opening", "listing"} :
           /\ \/ thread[u].pc = "answer" /\ pc = "reply"
              \/ thread[u].pc = "download" /\ pc = "header"
              \/ thread[u].pc = "open" /\ pc = "opening"
              \/ thread[u].pc = "item" /\ pc = "listing"
           /\ Goes(u, pc)
    BY <1>18 DEF LockOwn
  <2>2. /\ sending[u] = Nobody /\ sending' = [sending EXCEPT ![u] = u]
        /\ UNCHANGED <<social, notification, accounts, clients>>
    BY <1>18 DEF LockOwn
  <2>3. pc \in Pc
    BY <2>1 DEF Pc
  <2>4. TypeOK'
    BY <1>0, <1>5, <1>u, <2>1, <2>2, <2>3 DEF TypeOK
  <2>5. MutexesHeld'
    BY <1>2, <2>1, <2>2, <2>3, MutexesStay
       DEF HoldsSocial, Visiting, HoldsNotification, HoldsAccounts, HoldsClients
  <2>6. SendingHeld'
    <3>1. \A v \in Users : ~HoldsSending(u, v)
      BY <2>1 DEF HoldsSending
    <3>2. \A v \in Users : HoldsSending(u, v)' <=> v = u
      BY <1>2, <2>1, <2>3 DEF HoldsSending
    <3> QED
      BY <1>2, <2>1, <2>2, <2>3, <3>1, <3>2, SendingTaken
  <2>7. Comes(u)' /\ Left(u)'
    BY <1>0, <1>2, <2>1, <2>3 DEF Comes, Left
  <2>8. OwnMessage(u)'
    BY <1>0, <1>1, <1>2, <2>1, <2>3 DEF OwnMessage, InSend, Comes, Talk
  <2> QED
    BY <1>1, <1>2, <2>1, <2>3, <2>4, <2>5, <2>6, <2>7, <2>8, CommandsKept DEF Places
<1>19. CASE EndRows(u)
  <2>1. /\ thread[u].pc = "row" /\ GivesListBack(u) /\ Goes(u, "answer")
        /\ UNCHANGED <<accounts, clients, sending>>
    BY <1>19 DEF EndRows
  <2>2. "answer" \in Pc
    BY DEF Pc
  <2>3. \/ thread[u].kind = "list" /\ social' = Nobody /\ UNCHANGED notification
        \/ thread[u].kind = "notifications" /\ notification' = Nobody /\ UNCHANGED social
    BY <1>0, <2>1 DEF Comes, GivesListBack
  <2>4. SocialHeld' /\ NotificationHeld' /\ AccountsHeld' /\ ClientsHeld'
    BY <1>2, <2>1, <2>2, <2>3, SocialStep, NotificationStep, AccountsStep, ClientsStep
       DEF HoldsSocial, Visiting, HoldsNotification, HoldsAccounts, HoldsClients
  <2>5. Comes(u)' /\ Left(u)'
    BY <1>2, <2>1, <2>2 DEF Comes, Left
  <2> QED
    BY <1>6, <1>u, <2>1, <2>2, <2>3, <2>4, <2>5 DEF MutexesHeld
<1> QED
  BY <1>7, <1>8, <1>9, <1>10, <1>11, <1>12, <1>13, <1>14, <1>15, <1>16, <1>17, <1>18, <1>19
     DEF Going

\* They leave everything alone but mutexes and the place of their thread.
LEMMA GoingFacts ==
    ASSUME CommandsInv, NEW u \in Users, Going(u)
    PROVE  /\ UNCHANGED <<messages, reads, heard, log>>
           /\ UNCHANGED <<socket, expected, gone>>
           /\ thread[u].pc \notin {"line", "chunks", "write"}
           /\ \E pc \in Pc \ {"line", "chunks", "begin", "log"} : Goes(u, pc)
           /\ thread' \in [Users -> Op] /\ OthersStay(u)
           /\ thread'[u].pc \in Pc \ {"line", "chunks", "begin", "log"}
           /\ thread'[u].kind = thread[u].kind
           /\ thread'[u].msg = thread[u].msg
           /\ thread'[u].rest = thread[u].rest
<1>0. TypeOK
  BY DEF CommandsInv
<1>1. /\ UNCHANGED <<messages, reads, heard, log, streams>>
      /\ thread[u].pc \notin {"line", "chunks", "write"}
  BY DEF Going, LoggedIn, LockAccounts, UnlockAccounts, LockNotification, UnlockNotification,
         LockSocial, LockClients, LockSlot, EndEvent, EndInvite, LogFails, LockOwn, EndRows,
         locks
<1>2. \E pc \in Pc \ {"line", "chunks", "begin", "log"} : Goes(u, pc)
  <2>1. CASE LoggedIn(u)
    BY <2>1 DEF LoggedIn, Begins, Pc
  <2>2. CASE UnlockAccounts(u)
    BY <2>2 DEF UnlockAccounts, Found, Pc
  <2>3. CASE LockSocial(u)
    BY <2>3 DEF LockSocial, Visits, Pc
  <2>4. CASE LockAccounts(u) \/ LockNotification(u) \/ UnlockNotification(u) \/ LockClients(u)
    BY <2>4 DEF LockAccounts, LockNotification, UnlockNotification, LockClients, Pc
  <2>5. CASE LockSlot(u) \/ EndEvent(u) \/ EndInvite(u) \/ LogFails(u) \/ EndRows(u)
    BY <2>5 DEF LockSlot, EndEvent, EndInvite, LogFails, EndRows, Pc
  <2>6. CASE LockOwn(u)
    BY <2>6 DEF LockOwn, Pc
  <2> QED
    BY <2>1, <2>2, <2>3, <2>4, <2>5, <2>6 DEF Going
<1>3. PICK pc \in Pc \ {"line", "chunks", "begin", "log"} : Goes(u, pc)
  BY <1>2
<1>4. /\ thread' \in [Users -> Op] /\ OthersStay(u)
      /\ thread'[u].pc = pc
      /\ thread'[u].kind = thread[u].kind
      /\ thread'[u].msg = thread[u].msg
      /\ thread'[u].rest = thread[u].rest
  BY <1>0, <1>3, GoesOp DEF OthersStay
<1> QED
  BY <1>1, <1>2, <1>4 DEF streams

\* Something is put into a socket, or fails.
LEMMA PutsType ==
    ASSUME TypeOK, NEW v \in Users, NEW item \in Item, Puts(v, item)
    PROVE  socket' \in [Users -> Seq(Item)]
<1>1. Append(socket[v], item) \in Seq(Item)
  BY AppendProperties DEF TypeOK
<1> QED
  BY <1>1 DEF Puts, TypeOK

LEMMA SkipCommands ==
    ASSUME CommandsInv, NEW u \in Users, SkipSlot(u)
    PROVE  CommandsInv'
<1> DEFINE rest == Tail(thread[u].rest)
<1>0. TypeOK /\ Comes(u) /\ Left(u) /\ OwnMessage(u)
  BY DEF CommandsInv, Places
<1>1. /\ UNCHANGED <<messages, reads, locks, streams, heard, log>>
      /\ thread[u].rest # <<>>
      /\ \/ thread[u].pc = "slot" /\ thread[u].kind = "event"
         \/ thread[u].pc = "member" /\ thread[u].kind = "invite"
      /\ thread' = [thread EXCEPT ![u].rest = rest]
  BY <1>0 DEF SkipSlot, Excepted, Comes, Left
<1>2. /\ thread' \in [Users -> Op]
      /\ OthersStay(u)
      /\ thread'[u].pc = thread[u].pc /\ thread'[u].kind = thread[u].kind
      /\ thread'[u].msg = thread[u].msg
  <2>1. rest \in Seq(Users) /\ thread \in [Users -> Op]
    BY <1>0, <1>1, OpFacts
  <2> HIDE DEF rest
  <2>2. [thread[u] EXCEPT !.rest = rest] \in Op
    BY <2>1 DEF Op
  <2> QED
    BY <1>1, <2>1, <2>2 DEF OthersStay, Op
<1>3. TypeOK'
  BY <1>0, <1>1, <1>2 DEF TypeOK, locks, streams
<1>4. MutexesHeld'
  BY <1>1, <1>2, MutexesStay
     DEF HoldsSocial, Visiting, HoldsNotification, HoldsAccounts, HoldsClients, locks
<1>5. SendingHeld'
  BY <1>1, <1>2, SendingStays DEF HoldsSending, locks
<1>6. Comes(u)' /\ Left(u)' /\ OwnMessage(u)'
  BY <1>0, <1>1, <1>2 DEF Comes, Left, OwnMessage, InSend, Talk
<1> QED
  BY <1>1, <1>2, <1>3, <1>4, <1>5, <1>6, CommandsKept DEF Places

\* What a thread that writes a line of a message does.
LEMMA WriteFacts ==
    ASSUME CommandsInv, NEW u \in Users, Write(u)
    PROVE  /\ thread[u].pc = "write" /\ thread[u].kind \in Talk
           /\ thread[u].rest # <<>> /\ Target(u) \in Users
           /\ thread[u].msg \in DOMAIN messages
           /\ messages[thread[u].msg].from = u
           /\ messages[thread[u].msg].kind = thread[u].kind
           /\ UNCHANGED <<messages, reads, notification, accounts, expected, gone, log>>
           /\ Puts(Target(u), "line")
           /\ heard' = IF Target(u) \in gone THEN heard
                       ELSE [heard EXCEPT ![Target(u)] = Append(@, thread[u].msg)]
           /\ sending' = [sending EXCEPT ![Target(u)] = Nobody]
           /\ thread' \in [Users -> Op] /\ OthersStay(u)
           /\ thread'[u].kind = thread[u].kind
           /\ thread'[u].msg = thread[u].msg
           /\ \/ /\ thread[u].kind = "private" /\ Target(u) \in gone
                 /\ thread'[u].pc = "answer" /\ clients' = Nobody /\ UNCHANGED social
                 /\ thread'[u].rest = thread[u].rest
              \/ /\ ~(thread[u].kind = "private" /\ Target(u) \in gone)
                 /\ thread'[u].rest = Tail(thread[u].rest)
                 /\ thread'[u].pc = (IF thread[u].kind = "event" THEN "slot"
                                     ELSE IF thread[u].kind = "group" /\ thread'[u].rest # <<>>
                                     THEN "clients"
                                     ELSE IF thread[u].kind = "invite" THEN "member" ELSE "log")
                 /\ clients' = (IF thread[u].kind = "event" THEN clients ELSE Nobody)
                 /\ social' = (IF thread[u].kind = "group" /\ thread'[u].rest = <<>>
                               THEN Nobody ELSE social)
<1>1. TypeOK /\ Places(u) /\ OwnMessage(u)
  BY DEF CommandsInv
<1>2. thread[u].pc = "write"
  BY DEF Write
<1>3. thread[u].kind \in Talk /\ thread[u].rest # <<>>
  BY <1>1, <1>2 DEF Places, Comes, Left, Target
<1>4. Target(u) \in Users
  BY <1>1, <1>3, OpFacts
<1>5. /\ thread[u].msg \in DOMAIN messages
      /\ messages[thread[u].msg].from = u
      /\ messages[thread[u].msg].kind = thread[u].kind
  BY <1>1, <1>2, <1>3 DEF OwnMessage, InSend
<1>6. /\ UNCHANGED <<messages, reads, notification, accounts, expected, gone, log>>
      /\ Puts(Target(u), "line")
      /\ heard' = IF Target(u) \in gone THEN heard
                  ELSE [heard EXCEPT ![Target(u)] = Append(@, thread[u].msg)]
      /\ sending' = [sending EXCEPT ![Target(u)] = Nobody]
  BY DEF Write
<1>7. CASE thread[u].kind = "private" /\ Target(u) \in gone
  <2>1. Goes(u, "answer") /\ clients' = Nobody /\ UNCHANGED social
    BY <1>7 DEF Write
  <2>2. /\ thread' \in [Users -> Op] /\ OthersStay(u)
        /\ thread'[u].pc = "answer" /\ thread'[u].kind = thread[u].kind
        /\ thread'[u].msg = thread[u].msg /\ thread'[u].rest = thread[u].rest
    BY <1>1, <2>1, GoesOp DEF OthersStay, Pc
  <2> QED
    BY <1>2, <1>3, <1>4, <1>5, <1>6, <1>7, <2>1, <2>2
<1>8. CASE ~(thread[u].kind = "private" /\ Target(u) \in gone)
  <2>1. Written(u)
    BY <1>8 DEF Write
  <2>2. /\ thread' \in [Users -> Op] /\ OthersStay(u)
        /\ thread'[u].kind = thread[u].kind
        /\ thread'[u].msg = thread[u].msg
        /\ thread'[u].rest = Tail(thread[u].rest)
        /\ thread'[u].pc = (IF thread[u].kind = "event" THEN "slot"
                            ELSE IF thread[u].kind = "group" /\ thread'[u].rest # <<>>
                            THEN "clients"
                            ELSE IF thread[u].kind = "invite" THEN "member" ELSE "log")
        /\ clients' = IF thread[u].kind = "event" THEN clients ELSE Nobody
        /\ social' = IF thread[u].kind = "group" /\ thread'[u].rest = <<>>
                     THEN Nobody ELSE social
    BY <1>1, <1>3, <2>1, WrittenOp DEF OthersStay
  <2> QED
    BY <1>2, <1>3, <1>4, <1>5, <1>6, <1>8, <2>2
<1> QED
  BY <1>7, <1>8

LEMMA WriteCommands ==
    ASSUME CommandsInv, NEW u \in Users, Write(u)
    PROVE  CommandsInv'
<1>0. TypeOK /\ Places(u) /\ OwnMessage(u)
  BY DEF CommandsInv
<1>1. /\ thread[u].pc = "write" /\ thread[u].kind \in Talk
      /\ thread[u].rest # <<>> /\ Target(u) \in Users
      /\ thread[u].msg \in DOMAIN messages
      /\ UNCHANGED <<messages, reads, notification, accounts, expected, gone, log>>
      /\ Puts(Target(u), "line")
      /\ heard' = IF Target(u) \in gone THEN heard
                  ELSE [heard EXCEPT ![Target(u)] = Append(@, thread[u].msg)]
      /\ sending' = [sending EXCEPT ![Target(u)] = Nobody]
      /\ thread' \in [Users -> Op] /\ OthersStay(u)
      /\ thread'[u].kind = thread[u].kind
      /\ thread'[u].msg = thread[u].msg
  BY WriteFacts
<1>2. TypeOK'
  <2>1. socket' \in [Users -> Seq(Item)]
    BY <1>0, <1>1, PutsType DEF Item
  <2>2. heard' \in [Users -> Seq(DOMAIN messages)]
    <3>1. PICK t \in Users : t = Target(u)
      BY <1>1
    <3>2. Append(heard[t], thread[u].msg) \in Seq(DOMAIN messages)
      BY <1>0, <1>1, AppendProperties DEF TypeOK
    <3> QED
      BY <1>0, <1>1, <3>1, <3>2 DEF TypeOK
  <2>3. social' \in Users \cup {Nobody} /\ clients' \in Users \cup {Nobody}
    BY <1>0, WriteFacts DEF TypeOK
  <2>4. sending' \in [Users -> Users \cup {Nobody}]
    BY <1>0, <1>1 DEF TypeOK
  <2> QED
    BY <1>0, <1>1, <2>1, <2>2, <2>3, <2>4 DEF TypeOK
<1>3. SendingHeld'
  <2>1. \A v \in Users : HoldsSending(u, v) <=> v = Target(u)
    BY <1>1 DEF HoldsSending
  <2>2. thread'[u].pc \in {"answer", "slot", "clients", "member", "log"}
    BY WriteFacts
  <2>3. \A v \in Users : ~HoldsSending(u, v)'
    BY <2>2 DEF HoldsSending
  <2>4. PICK t \in Users : t = Target(u)
    BY <1>1
  <2> QED
    BY <1>1, <2>1, <2>3, <2>4, SendingReleased
<1>4. MutexesHeld' /\ Places(u)'
  <2>1. CASE thread[u].kind = "private"
    <3>1. thread'[u].pc \in {"answer", "log"} /\ clients' = Nobody /\ UNCHANGED social
      BY <2>1, WriteFacts
    <3>2. SocialHeld' /\ NotificationHeld' /\ AccountsHeld' /\ ClientsHeld'
      BY <1>1, <2>1, <3>1, SocialStep, NotificationStep, AccountsStep, ClientsStep
         DEF HoldsSocial, Visiting, HoldsNotification, HoldsAccounts, HoldsClients
    <3> QED
      BY <1>1, <2>1, <3>1, <3>2 DEF MutexesHeld, Places, Comes, Left, Talk
  <2>2. CASE thread[u].kind = "event"
    <3>1. thread'[u].pc = "slot" /\ UNCHANGED <<social, clients>>
      BY <2>2, WriteFacts
    <3>2. SocialHeld' /\ NotificationHeld' /\ AccountsHeld' /\ ClientsHeld'
      BY <1>1, <2>2, <3>1, SocialStep, NotificationStep, AccountsStep, ClientsStep
         DEF HoldsSocial, Visiting, HoldsNotification, HoldsAccounts, HoldsClients
    <3> QED
      BY <1>1, <2>2, <3>1, <3>2 DEF MutexesHeld, Places, Comes, Left, Talk
  <2>3. CASE thread[u].kind = "invite"
    <3>1. thread'[u].pc = "member" /\ clients' = Nobody /\ UNCHANGED social
      BY <2>3, WriteFacts
    <3>2. SocialHeld' /\ NotificationHeld' /\ AccountsHeld' /\ ClientsHeld'
      BY <1>1, <2>3, <3>1, SocialStep, NotificationStep, AccountsStep, ClientsStep
         DEF HoldsSocial, Visiting, HoldsNotification, HoldsAccounts, HoldsClients
    <3> QED
      BY <1>1, <2>3, <3>1, <3>2 DEF MutexesHeld, Places, Comes, Left, Talk
  <2>4. CASE thread[u].kind = "group" /\ thread'[u].rest # <<>>
    <3>1. thread'[u].pc = "clients" /\ clients' = Nobody /\ UNCHANGED social
      BY <2>4, WriteFacts
    <3>2. SocialHeld' /\ NotificationHeld' /\ AccountsHeld' /\ ClientsHeld'
      BY <1>1, <2>4, <3>1, SocialStep, NotificationStep, AccountsStep, ClientsStep
         DEF HoldsSocial, Visiting, HoldsNotification, HoldsAccounts, HoldsClients
    <3> QED
      BY <1>1, <2>4, <3>1, <3>2 DEF MutexesHeld, Places, Comes, Left, Talk
  <2>5. CASE thread[u].kind = "group" /\ thread'[u].rest = <<>>
    <3>1. thread'[u].pc = "log" /\ clients' = Nobody /\ social' = Nobody
      BY <2>5, WriteFacts
    <3>2. SocialHeld' /\ NotificationHeld' /\ AccountsHeld' /\ ClientsHeld'
      BY <1>1, <2>5, <3>1, SocialStep, NotificationStep, AccountsStep, ClientsStep
         DEF HoldsSocial, Visiting, HoldsNotification, HoldsAccounts, HoldsClients
    <3> QED
      BY <1>1, <2>5, <3>1, <3>2 DEF MutexesHeld, Places, Comes, Left, Talk
  <2> QED
    BY <1>1, <2>1, <2>2, <2>3, <2>4, <2>5 DEF Talk
<1>5. OwnMessage(u)'
  BY <1>0, <1>1 DEF OwnMessage, InSend
<1> QED
  BY <1>1, <1>2, <1>3, <1>4, <1>5, CommandsKept

\* A thread gives back its own send_mutex.
LEMMA OwnReleased ==
    ASSUME CommandsInv, NEW u \in Users, OthersStay(u),
           thread[u].pc \in {"reply", "header", "chunks", "opening", "listing"},
           thread'[u].pc \in {"line", "notify", "social", "row"}, sending' = [sending EXCEPT ![u] = Nobody]
    PROVE  SendingHeld'
<1>1. \A v \in Users : HoldsSending(u, v) <=> v = u
  BY DEF HoldsSending
<1>2. \A v \in Users : ~HoldsSending(u, v)'
  BY DEF HoldsSending
<1> QED
  BY <1>1, <1>2, SendingReleased

\* The steps that end a command or send a file.
LEMMA OwnCommands ==
    ASSUME CommandsInv, NEW u \in Users,
           \/ Log(u) \/ Reply(u) \/ Header(u) \/ Chunk(u) \/ EndDownload(u)
           \/ Opening(u) \/ Row(u) \/ Listing(u)
    PROVE  CommandsInv'
<1>0. TypeOK /\ Places(u) /\ OwnMessage(u)
  BY DEF CommandsInv
<1>n. Nobody \notin Users /\ FileChunks \in Nat
  BY DeliveryAssumption
<1>l. AtLine.pc = "line" /\ AtLine.kind = "none" /\ AtLine \in Op
  BY AtLineOp DEF AtLine
<1>1. ASSUME thread' = [thread EXCEPT ![u] = AtLine]
      PROVE  /\ thread' \in [Users -> Op] /\ OthersStay(u)
             /\ thread'[u].pc = "line" /\ thread'[u].kind = "none"
             /\ Places(u)' /\ OwnMessage(u)'
  <2>1. thread' \in [Users -> Op] /\ OthersStay(u) /\ thread'[u] = AtLine
    BY <1>0, <1>1, <1>l, NewOp DEF OthersStay
  <2> QED
    BY <1>l, <2>1 DEF Places, Comes, Left, Target, OwnMessage, InSend, Talk
<1>2. CASE Log(u)
  <2>1. thread[u].pc = "log" /\ log' = Append(log, thread[u].msg)
        /\ UNCHANGED <<messages, reads, locks, streams, heard>>
    BY <1>2 DEF Log
  <2>2. thread[u].kind \in {"group", "private"}
    BY <1>0, <2>1 DEF Places, Comes, Left, Target
  <2>3. thread[u].msg \in DOMAIN messages
    BY <1>0, <2>1, <2>2 DEF OwnMessage, InSend, Talk
  <2>4. log' \in Seq(DOMAIN messages)
    BY <1>0, <2>1, <2>3, AppendProperties DEF TypeOK
  <2>5. /\ thread' \in [Users -> Op] /\ OthersStay(u)
        /\ thread'[u].pc \in {"line", "answer"}
        /\ Places(u)' /\ OwnMessage(u)'
        /\ thread'[u].kind # "list"
    <3>1. CASE thread[u].kind = "group"
      BY <1>1, <1>2, <3>1 DEF Log
    <3>2. CASE thread[u].kind = "private"
      <4>1. Goes(u, "answer")
        <5>1. thread' = [thread EXCEPT ![u] = [@ EXCEPT !.pc = "answer"]]
          BY <1>2, <3>2 DEF Log
        <5> QED
          BY <1>0, <5>1 DEF Goes, TypeOK
      <4>2. /\ thread' \in [Users -> Op] /\ OthersStay(u)
            /\ thread'[u].pc = "answer" /\ thread'[u].kind = "private"
        BY <1>0, <3>2, <4>1, GoesOp DEF OthersStay, Pc
      <4> QED
        BY <4>2 DEF Places, Comes, Left, Target, OwnMessage, InSend
    <3> QED
      BY <2>2, <3>1, <3>2
  <2>6. TypeOK'
    BY <1>0, <2>1, <2>4, <2>5 DEF TypeOK, locks, streams
  <2>7. MutexesHeld' /\ SendingHeld'
    BY <2>1, <2>5, MutexesStay, SendingStays
       DEF HoldsSocial, Visiting, HoldsNotification, HoldsAccounts, HoldsClients, HoldsSending, locks
  <2> QED
    BY <2>1, <2>5, <2>6, <2>7, CommandsKept
<1>3. CASE Reply(u)
  <2>1. /\ thread[u].pc = "reply" /\ Puts(u, "line")
        /\ sending' = [sending EXCEPT ![u] = Nobody]
        /\ thread' = [thread EXCEPT ![u] = AtLine]
        /\ UNCHANGED <<messages, reads, social, notification, accounts, clients, expected, gone,
                       heard, log>>
    BY <1>3 DEF Reply
  <2>2. socket' \in [Users -> Seq(Item)]
    BY <1>0, <2>1, PutsType DEF Item
  <2>3. TypeOK'
    BY <1>0, <1>1, <2>1, <2>2 DEF TypeOK
  <2>4. MutexesHeld'
    BY <1>1, <2>1, MutexesStay DEF HoldsSocial, Visiting, HoldsNotification, HoldsAccounts, HoldsClients
  <2>5. SendingHeld'
    BY <1>1, <2>1, OwnReleased
  <2> QED
    BY <1>1, <2>1, <2>3, <2>4, <2>5, CommandsKept
<1>4. CASE Header(u)
  <2>1. /\ thread[u].pc = "header" /\ Puts(u, "header")
        /\ UNCHANGED <<messages, reads, social, notification, accounts, clients, expected, gone, heard, log>>
    BY <1>4 DEF Header
  <2>2. socket' \in [Users -> Seq(Item)]
    BY <1>0, <2>1, PutsType DEF Item
  <2>k. thread[u].kind = "download"
    BY <1>0, <2>1 DEF Places, Comes, Left, Target
  <2>3. CASE u \in gone
    <3>1. thread' = [thread EXCEPT ![u] = AtLine] /\ sending' = [sending EXCEPT ![u] = Nobody]
      BY <1>4, <2>3 DEF Header
    <3>2. TypeOK'
      BY <1>0, <1>1, <2>1, <2>2, <3>1 DEF TypeOK
    <3>3. MutexesHeld'
      BY <1>1, <2>1, <3>1, MutexesStay DEF HoldsSocial, Visiting, HoldsNotification, HoldsAccounts, HoldsClients
    <3>4. SendingHeld'
      BY <1>1, <2>1, <3>1, OwnReleased
    <3> QED
      BY <1>1, <2>1, <3>1, <3>2, <3>3, <3>4, CommandsKept
  <2>4. CASE u \notin gone
    <3>1. /\ thread' = [thread EXCEPT ![u].pc = "chunks", ![u].chunks = FileChunks]
          /\ UNCHANGED sending
      BY <1>4, <2>4 DEF Header
    <3>2. /\ thread' \in [Users -> Op] /\ OthersStay(u)
          /\ thread'[u].pc = "chunks" /\ thread'[u].kind = "download"
      <4>1. [thread[u] EXCEPT !.pc = "chunks", !.chunks = FileChunks] \in Op
        <5>1. FileChunks \in 0 .. FileChunks /\ thread[u] \in Op /\ "chunks" \in Pc
          BY <1>0, <1>n, OpFacts DEF Pc
        <5> QED
          BY <5>1 DEF Op
      <4> QED
        BY <1>0, <2>k, <3>1, <4>1 DEF TypeOK, Op, OthersStay
    <3>3. TypeOK'
      BY <1>0, <2>1, <2>2, <3>1, <3>2 DEF TypeOK
    <3>4. MutexesHeld' /\ SendingHeld'
      BY <2>1, <2>k, <3>1, <3>2, MutexesStay, SendingStays
         DEF HoldsSocial, Visiting, HoldsNotification, HoldsAccounts, HoldsClients, HoldsSending
    <3>5. Places(u)' /\ OwnMessage(u)'
      BY <3>2 DEF Places, Comes, Left, Target, OwnMessage, InSend, Talk
    <3> QED
      BY <2>1, <3>2, <3>3, <3>4, <3>5, CommandsKept
  <2> QED
    BY <2>3, <2>4
<1>5. CASE Chunk(u)
  <2>1. /\ thread[u].pc = "chunks" /\ thread[u].chunks > 0 /\ Puts(u, "chunk")
        /\ thread' = [thread EXCEPT ![u].chunks = thread[u].chunks - 1]
        /\ UNCHANGED <<messages, reads, locks, expected, gone, heard, log>>
    <3>1. thread' = [thread EXCEPT ![u].chunks = @ - 1]
      BY <1>5 DEF Chunk
    <3> QED
      BY <1>0, <1>5, <3>1 DEF Chunk, TypeOK
  <2>2. socket' \in [Users -> Seq(Item)]
    BY <1>0, <2>1, PutsType DEF Item
  <2>k. thread[u].kind = "download"
    BY <1>0, <2>1 DEF Places, Comes, Left, Target
  <2>3. /\ thread' \in [Users -> Op] /\ OthersStay(u)
        /\ thread'[u].pc = "chunks" /\ thread'[u].kind = "download"
    <3>1. thread[u].chunks - 1 \in 0 .. FileChunks
      <4>1. thread[u].chunks \in 0 .. FileChunks
        BY <1>0, OpFacts
      <4>2. thread[u].chunks > 0
        BY <2>1
      <4> QED
        BY <1>n, <4>1, <4>2
    <3>2. PICK c \in 0 .. FileChunks : c = thread[u].chunks - 1
      BY <3>1
    <3>o. thread[u] \in Op
      BY <1>0 DEF TypeOK
    <3>3. [thread[u] EXCEPT !.chunks = c] \in Op
      BY <3>o DEF Op
    <3> QED
      BY <1>0, <2>1, <2>k, <3>2, <3>3 DEF TypeOK, Op, OthersStay
  <2>4. TypeOK'
    BY <1>0, <2>1, <2>2, <2>3 DEF TypeOK, locks
  <2>5. MutexesHeld' /\ SendingHeld'
    BY <2>1, <2>k, <2>3, MutexesStay, SendingStays
       DEF HoldsSocial, Visiting, HoldsNotification, HoldsAccounts, HoldsClients, HoldsSending, locks
  <2>6. Places(u)' /\ OwnMessage(u)'
    BY <2>3 DEF Places, Comes, Left, Target, OwnMessage, InSend, Talk
  <2> QED
    BY <2>1, <2>3, <2>4, <2>5, <2>6, CommandsKept
<1>6. CASE EndDownload(u)
  <2>1. /\ thread[u].pc = "chunks"
        /\ sending' = [sending EXCEPT ![u] = Nobody]
        /\ thread' = [thread EXCEPT ![u] = AtLine]
        /\ UNCHANGED <<messages, reads, social, notification, accounts, clients, streams, heard, log>>
    BY <1>6 DEF EndDownload
  <2>k. thread[u].kind = "download"
    BY <1>0, <2>1 DEF Places, Comes, Left, Target
  <2>2. TypeOK'
    BY <1>0, <1>1, <2>1 DEF TypeOK, streams
  <2>3. MutexesHeld'
    BY <1>1, <2>1, <2>k, MutexesStay DEF HoldsSocial, Visiting, HoldsNotification, HoldsAccounts, HoldsClients
  <2>4. SendingHeld'
    BY <1>1, <2>1, OwnReleased
  <2> QED
    BY <1>1, <2>1, <2>2, <2>3, <2>4, CommandsKept
<1>7. CASE Opening(u)
  <2>1. /\ thread[u].pc = "opening" /\ Puts(u, "line")
        /\ sending' = [sending EXCEPT ![u] = Nobody]
        /\ UNCHANGED <<messages, reads, social, notification, accounts, clients, expected, gone,
                       heard, log>>
    BY <1>7 DEF Opening
  <2>2. socket' \in [Users -> Seq(Item)]
    BY <1>0, <2>1, PutsType DEF Item
  <2>k. thread[u].kind \in {"list", "notifications"}
    BY <1>0, <2>1 DEF Places, Comes
  <2>3. /\ thread' \in [Users -> Op] /\ OthersStay(u)
        /\ thread'[u].pc \in {"line", "notify", "social"}
        /\ Places(u)' /\ OwnMessage(u)'
    <3>1. CASE u \in gone
      BY <1>1, <1>7, <3>1 DEF Opening
    <3>2. CASE u \notin gone
      <4>1. PICK pc \in {"notify", "social"} :
               /\ pc = IF thread[u].kind = "notifications" THEN "notify" ELSE "social"
               /\ Goes(u, pc)
        BY <1>7, <3>2 DEF Opening
      <4>2. pc \in Pc
        BY <4>1 DEF Pc
      <4>3. /\ thread' \in [Users -> Op] /\ OthersStay(u)
            /\ thread'[u].pc = pc /\ thread'[u].kind = thread[u].kind
        BY <1>0, <4>1, <4>2, GoesOp DEF OthersStay
      <4> QED
        BY <2>k, <4>1, <4>3 DEF Places, Comes, Left, OwnMessage, InSend, Talk
    <3> QED
      BY <3>1, <3>2
  <2>4. TypeOK'
    BY <1>0, <2>1, <2>2, <2>3 DEF TypeOK
  <2>5. MutexesHeld'
    BY <2>1, <2>3, MutexesStay
       DEF HoldsSocial, Visiting, HoldsNotification, HoldsAccounts, HoldsClients
  <2>6. SendingHeld'
    BY <2>1, <2>3, OwnReleased
  <2> QED
    BY <2>1, <2>3, <2>4, <2>5, <2>6, CommandsKept
<1>8. CASE Row(u)
  <2>1. /\ thread[u].pc = "row" /\ thread[u].rows > 0
        /\ UNCHANGED <<messages, reads, locks, streams, heard, log>>
    BY <1>8 DEF Row
  <2>2. thread \in [Users -> Op] /\ thread[u] \in Op /\ thread[u].rows - 1 \in 0 .. Rows
    BY <1>0, <2>1, OpFacts, DeliveryAssumption
  <2>k. thread[u].kind \in {"list", "notifications"}
    BY <1>0, <2>1 DEF Places, Comes
  <2>3. PICK pc \in {"accounts", "item"} :
           /\ pc = "accounts" => thread[u].kind = "list"
           /\ thread' = [thread EXCEPT ![u].pc = pc, ![u].rows = @ - 1]
    BY <1>8 DEF Row
  <2>4. PICK rows \in 0 .. Rows : rows = thread[u].rows - 1
    BY <2>2
  <2>5. [thread[u] EXCEPT !.pc = pc, !.rows = rows] \in Op
    BY <2>2, <2>3 DEF Op, Pc
  <2>6. thread' = [thread EXCEPT ![u] = [thread[u] EXCEPT !.pc = pc, !.rows = rows]]
    BY <2>2, <2>3, <2>4
  <2>7. /\ thread' \in [Users -> Op] /\ OthersStay(u)
        /\ thread'[u].pc = pc /\ thread'[u].kind = thread[u].kind
    BY <2>2, <2>5, <2>6 DEF OthersStay, Op
  <2>8. TypeOK'
    BY <1>0, <2>1, <2>7 DEF TypeOK, locks, streams
  <2>9. MutexesHeld'
    BY <2>1, <2>k, <2>3, <2>7, MutexesStay
       DEF HoldsSocial, Visiting, HoldsNotification, HoldsAccounts, HoldsClients, locks
  <2>10. SendingHeld'
    BY <2>1, <2>3, <2>7, SendingStays DEF HoldsSending, locks
  <2>11. Places(u)' /\ OwnMessage(u)'
    BY <2>k, <2>3, <2>7 DEF Places, Comes, Left, OwnMessage, InSend, Talk
  <2> QED
    BY <2>1, <2>7, <2>8, <2>9, <2>10, <2>11, CommandsKept
<1>9. CASE Listing(u)
  <2>1. /\ thread[u].pc = "listing" /\ Puts(u, "line")
        /\ sending' = [sending EXCEPT ![u] = Nobody]
        /\ UNCHANGED <<messages, reads, accounts, clients, expected, gone, heard, log>>
    BY <1>9 DEF Listing
  <2>2. socket' \in [Users -> Seq(Item)]
    BY <1>0, <2>1, PutsType DEF Item
  <2>k. thread[u].kind \in {"list", "notifications"}
    BY <1>0, <2>1 DEF Places, Comes
  <2>3. CASE u \in gone
    <3>1. /\ thread' = [thread EXCEPT ![u] = AtLine]
          /\ \/ thread[u].kind = "list" /\ social' = Nobody /\ UNCHANGED notification
             \/ thread[u].kind = "notifications" /\ notification' = Nobody /\ UNCHANGED social
      BY <1>9, <2>k, <2>3 DEF Listing, GivesListBack
    <3>2. TypeOK'
      BY <1>0, <1>1, <2>1, <2>2, <3>1 DEF TypeOK
    <3>3. SocialHeld' /\ NotificationHeld' /\ AccountsHeld' /\ ClientsHeld'
      BY <1>1, <2>1, <3>1, SocialStep, NotificationStep, AccountsStep, ClientsStep
         DEF HoldsSocial, Visiting, HoldsNotification, HoldsAccounts, HoldsClients
    <3>4. SendingHeld'
      BY <1>1, <2>1, <3>1, OwnReleased
    <3> QED
      BY <1>1, <2>1, <3>1, <3>2, <3>3, <3>4, CommandsKept DEF MutexesHeld
  <2>4. CASE u \notin gone
    <3>1. Goes(u, "row") /\ UNCHANGED <<social, notification>>
      BY <1>9, <2>4 DEF Listing
    <3>2. /\ thread' \in [Users -> Op] /\ OthersStay(u)
          /\ thread'[u].pc = "row" /\ thread'[u].kind = thread[u].kind
      BY <1>0, <3>1, GoesOp DEF OthersStay, Pc
    <3>3. TypeOK'
      BY <1>0, <2>1, <2>2, <3>1, <3>2 DEF TypeOK
    <3>4. MutexesHeld'
      BY <2>1, <3>1, <3>2, MutexesStay
         DEF HoldsSocial, Visiting, HoldsNotification, HoldsAccounts, HoldsClients
    <3>5. SendingHeld'
      BY <2>1, <3>2, OwnReleased
    <3>6. Places(u)' /\ OwnMessage(u)'
      BY <2>k, <3>2 DEF Places, Comes, Left, OwnMessage, InSend, Talk
    <3> QED
      BY <2>1, <3>2, <3>3, <3>4, <3>5, <3>6, CommandsKept
  <2> QED
    BY <2>3, <2>4
<1> QED
  BY <1>2, <1>3, <1>4, <1>5, <1>6, <1>7, <1>8, <1>9

\* A line that a thread writes for its own peer.
OwnLine(u) == Reply(u) \/ Opening(u) \/ Listing(u)

LEMMA OwnLineFacts ==
    ASSUME CommandsInv, NEW u \in Users, OwnLine(u)
    PROVE  /\ thread[u].pc \in {"reply", "opening", "listing"}
           /\ Puts(u, "line")
           /\ UNCHANGED <<messages, expected, gone, heard, log>>
           /\ OthersStay(u)
           /\ thread'[u].pc \in {"line", "notify", "social", "row"}
           /\ thread'[u].kind \notin Talk
<1>0. TypeOK /\ Comes(u)
  BY DEF CommandsInv, Places
<1>1. /\ thread[u].pc \in {"reply", "opening", "listing"}
      /\ Puts(u, "line")
      /\ UNCHANGED <<messages, expected, gone, heard, log>>
  BY DEF OwnLine, Reply, Opening, Listing
<1>2. CASE thread' = [thread EXCEPT ![u] = AtLine]
  <2>1. AtLine.pc = "line" /\ AtLine.kind = "none" /\ AtLine \in Op
    BY AtLineOp DEF AtLine
  <2>2. OthersStay(u) /\ thread'[u] = AtLine
    BY <1>0, <1>2, <2>1, NewOp DEF OthersStay
  <2> QED
    BY <1>1, <2>1, <2>2 DEF Talk
<1>3. CASE thread' # [thread EXCEPT ![u] = AtLine]
  <2>1. thread[u].pc \in {"opening", "listing"}
    BY <1>3 DEF OwnLine, Reply, Opening, Listing
  <2>2. thread[u].kind \in {"list", "notifications"}
    BY <1>0, <2>1 DEF Comes
  <2>3. PICK pc \in {"notify", "social", "row"} : Goes(u, pc)
    BY <1>3 DEF OwnLine, Reply, Opening, Listing
  <2>4. OthersStay(u) /\ thread'[u].pc = pc /\ thread'[u].kind = thread[u].kind
    BY <1>0, <2>3, GoesOp DEF OthersStay, Pc
  <2> QED
    BY <1>1, <2>2, <2>3, <2>4 DEF Talk
<1> QED
  BY <1>2, <1>3

LEMMA RowFacts ==
    ASSUME CommandsInv, NEW u \in Users, Row(u)
    PROVE  /\ thread[u].pc = "row" /\ thread'[u].pc \in {"accounts", "item"}
           /\ thread'[u].kind \notin Talk
           /\ OthersStay(u)
           /\ UNCHANGED <<messages, streams, socket, expected, gone, heard, log>>
<1>0. thread \in [Users -> Op] /\ Comes(u)
  BY DEF CommandsInv, TypeOK, Places
<1>1. PICK pc \in {"accounts", "item"} :
         thread' = [thread EXCEPT ![u].pc = pc, ![u].rows = @ - 1]
  BY DEF Row
<1>2. /\ thread[u].pc = "row" /\ UNCHANGED <<messages, streams, heard, log>>
      /\ thread[u].kind \in {"list", "notifications"}
  BY <1>0 DEF Row, Comes
<1>3. thread'[u].pc = pc /\ thread'[u].kind = thread[u].kind /\ OthersStay(u)
  BY <1>0, <1>1 DEF Op, OthersStay
<1> QED
  BY <1>1, <1>2, <1>3 DEF Talk, streams

LEMMA CommandsInitInv == Init => CommandsInv
<1> SUFFICES ASSUME Init PROVE CommandsInv
  OBVIOUS
<1>1. AtLine \in Op /\ AtLine.pc = "line" /\ AtLine.kind = "none"
  BY AtLineOp DEF AtLine
<1>2. /\ <<>> \in Seq(Message) /\ <<>> \in Seq(Item)
      /\ <<>> \in Seq(DOMAIN <<>>)
  BY EmptySeqs
<1>3. TypeOK
  BY <1>1, <1>2, DeliveryAssumption DEF Init, TypeOK
<1>4. MutexesHeld /\ SendingHeld
  BY <1>1, DeliveryAssumption
     DEF Init, MutexesHeld, SocialHeld, NotificationHeld, AccountsHeld, ClientsHeld, SendingHeld, HoldsSocial, Visiting, HoldsNotification, HoldsAccounts, HoldsClients,
         HoldsSending
<1>5. \A u \in Users : Places(u) /\ OwnMessage(u)
  BY <1>1 DEF Init, Places, Comes, Left, Target, OwnMessage, InSend, Talk
<1> QED
  BY <1>3, <1>4, <1>5 DEF CommandsInv

LEMMA CommandsNextInv == CommandsInv /\ [Next]_vars => CommandsInv'
<1> SUFFICES ASSUME CommandsInv, [Next]_vars PROVE CommandsInv'
  OBVIOUS
<1>1. ASSUME NEW u \in Users, PeerStep(u) PROVE CommandsInv'
  <2>1. CASE \/ GroupSend(u) \/ GroupCreate(u) \/ Event(u)
             \/ \E v \in Users \ {u} : Private(u, v)
    <3>1. PICK kind \in Talk, rest \in Seq(Users), to \in SUBSET Users :
              /\ SendMessage(u, kind, rest, to)
              /\ kind = "group" => rest # <<>>
              /\ kind = "private" => \E v \in Users : rest = <<v>>
      BY <2>1, SendCases
    <3>2. \A v \in Users : <<v>> # <<>>
      OBVIOUS
    <3> QED
      BY <3>1, <3>2, SendCommands
  <2>2. CASE Download(u) \/ List(u) \/ ListNotifications(u)
    BY <2>2, SendBackCommands DEF Download, List, ListNotifications
  <2>3. CASE HangUp(u)
    BY <2>3, QuietCommands
  <2> QED
    BY <1>1, <2>1, <2>2, <2>3 DEF PeerStep
<1>2. ASSUME NEW u \in Users, ThreadStep(u) PROVE CommandsInv'
  BY <1>2, GoesCommands, SkipCommands, WriteCommands, OwnCommands DEF ThreadStep, Going
<1>3. ASSUME NEW u \in Users, Read(u) PROVE CommandsInv'
  BY <1>3, QuietCommands
<1>4. CASE UNCHANGED vars
  BY <1>4 DEF vars, locks, streams, CommandsInv, TypeOK, MutexesHeld, SocialHeld, NotificationHeld, AccountsHeld, ClientsHeld, SendingHeld,
              HoldsSocial, Visiting, HoldsNotification, HoldsAccounts, HoldsClients, HoldsSending, Target, Places, Comes, Left, Target, OwnMessage, InSend
<1> QED
  BY <1>1, <1>2, <1>3, <1>4 DEF Next

LEMMA CommandsInvariant == Spec => []CommandsInv
BY CommandsInitInv, CommandsNextInv, PTL DEF Spec

(* Every variable keeps its type, whatever the threads wait for: of a file *)
(* that is sent never more is left than its header announced.              *)
THEOREM TypeCorrect == Spec => []TypeOK
<1>1. CommandsInv => TypeOK
  BY DEF CommandsInv
<1> QED
  BY <1>1, CommandsInvariant, PTL

-----------------------------------------------------------------------------
(* Readers in step: what a socket holds, with the chunks e that its reader *)
(* still expects                                                           *)

\* An item in this position is expected to be a chunk.
Announced(s, e, i) ==
    \/ i <= e
    \/ \E h \in DOMAIN s : s[h] = "header" /\ h < i /\ i <= h + FileChunks

Framed(s, e) == \A i \in DOMAIN s : s[i] = "chunk" <=> Announced(s, e, i)

\* No chunk is expected after position n.
EndsBy(s, e, n) ==
    /\ e <= n
    /\ \A h \in DOMAIN s : s[h] = "header" => h + FileChunks <= n

\* The last chunk that is expected is in position n.
EndsAt(s, e, n) ==
    /\ EndsBy(s, e, n)
    /\ e = n \/ \E h \in DOMAIN s : s[h] = "header" /\ h + FileChunks = n

StreamInv(u) ==
    /\ u \in gone => socket[u] = <<>>
    /\ u \notin gone =>
          /\ Framed(socket[u], expected[u])
          /\ thread[u].pc # "chunks" => EndsBy(socket[u], expected[u], Len(socket[u]))
          /\ thread[u].pc = "chunks" =>
                EndsAt(socket[u], expected[u], Len(socket[u]) + thread[u].chunks)

\* Between files another line or header may follow.
LEMMA AppendLine ==
    ASSUME NEW s \in Seq(Item), NEW e \in Nat, NEW item \in {"line", "header"},
           Framed(s, e), EndsBy(s, e, Len(s))
    PROVE  /\ Framed(Append(s, item), e)
           /\ item = "line" => EndsBy(Append(s, item), e, Len(s) + 1)
           /\ item = "header" => EndsAt(Append(s, item), e, Len(s) + 1 + FileChunks)
<1> DEFINE t == Append(s, item)
           n == Len(s) + 1
<1>1. /\ n \in Nat \ {0} /\ DOMAIN s = 1 .. n - 1 /\ DOMAIN t = 1 .. n
      /\ t[n] = item
      /\ \A i \in DOMAIN s : t[i] = s[i]
  BY AppendFacts DEF Item
<1> HIDE DEF t
<1>2. FileChunks \in Nat
  BY DeliveryAssumption
<1>3. EndsBy(s, e, n - 1)
  BY <1>1
<1> HIDE DEF n
<1>4. \A i \in 1 .. n - 1 : Announced(t, e, i) <=> Announced(s, e, i)
  BY <1>1, <1>2 DEF Announced
<1>5. ~Announced(t, e, n)
  BY <1>1, <1>2, <1>3 DEF Announced, EndsBy
<1>6. Framed(t, e)
  BY <1>1, <1>4, <1>5 DEF Framed
<1>7. item = "line" => EndsBy(t, e, n)
  BY <1>1, <1>2, <1>3 DEF EndsBy
<1>8. item = "header" => EndsAt(t, e, n + FileChunks)
  BY <1>1, <1>2, <1>3 DEF EndsBy, EndsAt
<1> QED
  BY <1>6, <1>7, <1>8 DEF t, n

\* A chunk may follow while some are left of what the header announced.
LEMMA AppendChunk ==
    ASSUME NEW s \in Seq(Item), NEW e \in Nat, NEW n \in Nat, Len(s) < n,
           Framed(s, e), EndsAt(s, e, n)
    PROVE  /\ Framed(Append(s, "chunk"), e)
           /\ EndsAt(Append(s, "chunk"), e, n)
<1> DEFINE t == Append(s, "chunk")
           m == Len(s) + 1
<1>1. /\ m \in Nat \ {0} /\ DOMAIN s = 1 .. m - 1 /\ DOMAIN t = 1 .. m
      /\ t[m] = "chunk" /\ m <= n
      /\ \A i \in DOMAIN s : t[i] = s[i]
  BY AppendFacts DEF Item
<1> HIDE DEF t, m
<1>2. FileChunks \in Nat
  BY DeliveryAssumption
<1>3. \A i \in 1 .. m - 1 : Announced(t, e, i) <=> Announced(s, e, i)
  BY <1>1, <1>2 DEF Announced
<1>4. Announced(t, e, m)
  BY <1>1, <1>2 DEF Announced, EndsAt
<1>5. Framed(t, e)
  BY <1>1, <1>3, <1>4 DEF Framed
<1>6. EndsAt(t, e, n)
  BY <1>1, <1>2 DEF EndsBy, EndsAt
<1> QED
  BY <1>5, <1>6 DEF t

\* What the reader expects once it has taken the first item.
After(s, e) ==
    CASE Head(s) = "header"         -> FileChunks
      [] Head(s) = "chunk" /\ e > 0 -> e - 1
      [] OTHER                      -> e

LEMMA TailStream ==
    ASSUME NEW s \in Seq(Item), NEW e \in Nat, s # <<>>, Framed(s, e)
    PROVE  /\ Framed(Tail(s), After(s, e))
           /\ \A n \in Nat \ {0} : EndsBy(s, e, n) => EndsBy(Tail(s), After(s, e), n - 1)
           /\ \A n \in Nat \ {0} : EndsAt(s, e, n) => EndsAt(Tail(s), After(s, e), n - 1)
<1> DEFINE t == Tail(s)
           f == After(s, e)
           l == Len(s)
<1>1. /\ l \in Nat \ {0} /\ DOMAIN s = 1 .. l /\ DOMAIN t = 1 .. l - 1
      /\ s[1] = Head(s) /\ \A i \in 1 .. l - 1 : t[i] = s[i + 1]
  BY TailFacts
<1>2. FileChunks \in Nat
  BY DeliveryAssumption
<1>3. e > 0 <=> s[1] = "chunk"
  BY <1>1, <1>2 DEF Framed, Announced
<1>4. /\ f \in Nat
      /\ e > 0 => f = e - 1 /\ s[1] # "header"
      /\ s[1] = "header" => f = FileChunks /\ e = 0
      /\ e = 0 /\ s[1] # "header" => f = 0
  BY <1>1, <1>2, <1>3 DEF After
<1> HIDE DEF t, f, l
<1>5. \A i \in 1 .. l - 1 : Announced(t, f, i) <=> Announced(s, e, i + 1)
  <2> TAKE i \in 1 .. l - 1
  <2>1. ASSUME Announced(t, f, i) PROVE Announced(s, e, i + 1)
    <3>1. CASE i <= f
      BY <1>1, <1>2, <1>4, <3>1 DEF Announced
    <3>2. ASSUME NEW h \in 1 .. l - 1, t[h] = "header", h < i, i <= h + FileChunks
          PROVE  Announced(s, e, i + 1)
      <4>1. /\ h + 1 \in DOMAIN s /\ s[h + 1] = "header"
            /\ h + 1 < i + 1 /\ i + 1 <= (h + 1) + FileChunks
        BY <1>1, <1>2, <3>2
      <4> QED
        BY <4>1 DEF Announced
    <3> QED
      BY <1>1, <2>1, <3>1, <3>2 DEF Announced
  <2>2. ASSUME Announced(s, e, i + 1) PROVE Announced(t, f, i)
    <3>1. CASE i + 1 <= e
      BY <1>1, <1>4, <3>1 DEF Announced
    <3>2. ASSUME NEW h \in 1 .. l, s[h] = "header", h < i + 1, i + 1 <= h + FileChunks
          PROVE  Announced(t, f, i)
      <4>1. CASE h = 1
        BY <1>1, <1>2, <1>4, <3>2, <4>1 DEF Announced
      <4>2. CASE h # 1
        <5>1. /\ h - 1 \in DOMAIN t /\ t[h - 1] = "header"
              /\ h - 1 < i /\ i <= (h - 1) + FileChunks
          BY <1>1, <1>2, <3>2, <4>2
        <5> QED
          BY <5>1 DEF Announced
      <4> QED
        BY <4>1, <4>2
    <3> QED
      BY <1>1, <2>2, <3>1, <3>2 DEF Announced
  <2> QED
    BY <2>1, <2>2
<1>6. Framed(t, f)
  BY <1>1, <1>5 DEF Framed
<1>7. ASSUME NEW n \in Nat \ {0}, EndsBy(s, e, n) PROVE EndsBy(t, f, n - 1)
  <2>1. f <= n - 1
    BY <1>1, <1>2, <1>4, <1>7 DEF EndsBy
  <2>2. ASSUME NEW h \in DOMAIN t, t[h] = "header" PROVE h + FileChunks <= n - 1
    <3>1. h + 1 \in DOMAIN s /\ s[h + 1] = "header"
      BY <1>1, <2>2
    <3> QED
      BY <1>1, <1>2, <1>7, <3>1 DEF EndsBy
  <2> QED
    BY <2>1, <2>2 DEF EndsBy
<1>8. ASSUME NEW n \in Nat \ {0}, EndsAt(s, e, n) PROVE EndsAt(t, f, n - 1)
  <2>1. EndsBy(t, f, n - 1)
    BY <1>7, <1>8 DEF EndsAt
  <2>2. CASE e = n
    BY <1>4, <2>1, <2>2 DEF EndsAt
  <2>3. ASSUME NEW h \in DOMAIN s, s[h] = "header", h + FileChunks = n
        PROVE  EndsAt(t, f, n - 1)
    <3>1. CASE h = 1
      BY <1>1, <1>2, <1>4, <2>1, <2>3, <3>1 DEF EndsAt
    <3>2. CASE h # 1
      <4>0. h \in 1 .. l /\ l \in Nat
        BY <1>1
      <4>1. PICK k \in 1 .. l - 1 : h = k + 1
        <5>1. h - 1 \in 1 .. l - 1 /\ h = (h - 1) + 1
          BY <3>2, <4>0
        <5> QED
          BY <5>1
      <4>2. t[k] = "header" /\ k \in DOMAIN t
        BY <1>1, <2>3, <4>1
      <4>3. k + FileChunks = n - 1
        BY <1>2, <2>3, <4>1
      <4> QED
        BY <2>1, <4>2, <4>3 DEF EndsAt
    <3> QED
      BY <3>1, <3>2
  <2> QED
    BY <1>8, <2>2, <2>3 DEF EndsAt
<1> QED
  BY <1>6, <1>7, <1>8 DEF t, f

Streams == \A u \in Users : StreamInv(u)

LEMMA StreamFacts ==
    ASSUME TypeOK, NEW u \in Users
    PROVE  /\ socket[u] \in Seq(Item) /\ Len(socket[u]) \in Nat
           /\ expected[u] \in Nat /\ thread[u].chunks \in Nat
<1>1. FileChunks \in Nat
  BY DeliveryAssumption
<1>2. socket[u] \in Seq(Item)
  BY DEF TypeOK
<1>3. Len(socket[u]) \in Nat
  BY <1>2, LenProperties
<1>4. expected[u] \in 0 .. FileChunks /\ thread[u].chunks \in 0 .. FileChunks
  BY OpFacts DEF TypeOK
<1> QED
  BY <1>1, <1>2, <1>3, <1>4

\* No file is sent by the step, and no socket touched.
LEMMA QuietStreams ==
    ASSUME Streams, NEW u \in Users, OthersStay(u), UNCHANGED streams,
           thread[u].pc # "chunks", thread'[u].pc # "chunks"
    PROVE  Streams'
<1>1. UNCHANGED <<socket, expected, gone>>
  BY DEF streams
<1>2. ASSUME NEW v \in Users PROVE StreamInv(v)'
  <2>1. StreamInv(v)
    BY DEF Streams
  <2>2. CASE v = u
    BY <1>1, <2>1, <2>2 DEF StreamInv
  <2>3. CASE v # u
    <3>1. thread'[v] = thread[v]
      BY <2>3 DEF OthersStay
    <3> QED
      BY <1>1, <2>1, <3>1 DEF StreamInv
  <2> QED
    BY <2>2, <2>3
<1> QED
  BY <1>2 DEF Streams

\* One socket is touched, and nothing else that matters to the others.
LEMMA OneStream ==
    ASSUME TypeOK, Streams, NEW u \in Users, NEW v \in Users, OthersStay(u),
           u # v => thread[u].pc # "chunks" /\ thread'[u].pc # "chunks",
           UNCHANGED <<expected, gone>>, NEW item \in Item, Puts(v, item),
           v \notin gone /\ socket'[v] = Append(socket[v], item) => StreamInv(v)'
    PROVE  Streams'
<1>1. ASSUME NEW w \in Users, w # v PROVE StreamInv(w)'
  <2>1. StreamInv(w)
    BY DEF Streams
  <2>2. socket'[w] = socket[w] /\ UNCHANGED <<expected, gone>>
    BY <1>1 DEF Puts, TypeOK
  <2>3. CASE w = u
    BY <1>1, <2>1, <2>2, <2>3 DEF StreamInv
  <2>4. CASE w # u
    <3>1. thread'[w] = thread[w]
      BY <2>4 DEF OthersStay
    <3> QED
      BY <2>1, <2>2, <3>1 DEF StreamInv
  <2> QED
    BY <2>3, <2>4
<1>2. StreamInv(v)'
  <2>1. CASE v \in gone
    BY <2>1 DEF Streams, StreamInv, Puts
  <2>2. CASE v \notin gone
    <3>1. socket'[v] = Append(socket[v], item)
      BY <2>2 DEF Puts, TypeOK
    <3> QED
      BY <2>2, <3>1
  <2> QED
    BY <2>1, <2>2
<1> QED
  BY <1>1, <1>2 DEF Streams

\* A line is put into the socket of a thread that sends no file.
LEMMA LineStreams ==
    ASSUME TypeOK, Streams, NEW u \in Users, NEW v \in Users, OthersStay(u),
           u # v => thread[u].pc # "chunks",
           thread'[u].pc # "chunks", thread[v].pc # "chunks",
           UNCHANGED <<expected, gone>>, Puts(v, "line")
    PROVE  Streams'
<1>1. ASSUME v \notin gone, socket'[v] = Append(socket[v], "line") PROVE StreamInv(v)'
  <2>1. Framed(socket[v], expected[v]) /\ EndsBy(socket[v], expected[v], Len(socket[v]))
    BY <1>1 DEF Streams, StreamInv
  <2>2. /\ socket[v] \in Seq(Item) /\ expected[v] \in Nat
    BY StreamFacts
  <2>3. /\ Framed(socket'[v], expected[v])
        /\ EndsBy(socket'[v], expected[v], Len(socket[v]) + 1)
    BY <1>1, <2>1, <2>2, AppendLine
  <2>4. Len(socket'[v]) = Len(socket[v]) + 1
    BY <1>1, <2>2, AppendFacts DEF Item
  <2>5. thread'[v].pc # "chunks"
    BY DEF OthersStay
  <2> QED
    BY <1>1, <2>3, <2>4, <2>5 DEF StreamInv
<1>2. "line" \in Item
  BY DEF Item
<1> QED
  BY <1>1, <1>2, OneStream

LEMMA StreamsStep ==
    ASSUME CommandsInv, Streams, NEW u \in Users, ThreadStep(u) \/ PeerStep(u) \/ Read(u)
    PROVE  Streams'
<1>0. TypeOK /\ SendingHeld /\ Places(u)
  BY DEF CommandsInv
<1>l. AtLine.pc = "line" /\ AtLine \in Op
  BY AtLineOp DEF AtLine
<1>1. CASE PeerStep(u)
  <2>1. CASE \/ GroupSend(u) \/ GroupCreate(u) \/ Event(u)
             \/ \E v \in Users \ {u} : Private(u, v)
    <3>1. PICK kind \in Talk, rest \in Seq(Users), to \in SUBSET Users :
              SendMessage(u, kind, rest, to)
      BY <2>1, SendCases
    <3>2. OthersStay(u) /\ thread'[u].pc = "begin"
      BY <1>0, <3>1, SendOp DEF OthersStay
    <3> QED
      BY <3>1, <3>2, QuietStreams DEF SendMessage
  <2>2. CASE Download(u) \/ List(u) \/ ListNotifications(u)
    <3>1. PICK kind \in {"download", "list", "notifications"} : SendBack(u, kind)
      BY <2>2 DEF Download, List, ListNotifications
    <3>2. OthersStay(u) /\ thread'[u].pc = "begin"
      BY <1>0, <3>1, SendBackOp DEF OthersStay
    <3> QED
      BY <3>1, <3>2, QuietStreams DEF SendBack
  <2>3. CASE HangUp(u)
    <3>1. /\ gone' = gone \cup {u} /\ socket'[u] = <<>>
          /\ \A v \in Users \ {u} : socket'[v] = socket[v] /\ expected'[v] = expected[v]
          /\ UNCHANGED thread
      BY <1>0, <2>3 DEF HangUp, TypeOK
    <3>2. ASSUME NEW v \in Users PROVE StreamInv(v)'
      <4>1. CASE v = u
        BY <3>1, <4>1 DEF StreamInv
      <4>2. CASE v # u
        BY <3>1, <4>2 DEF Streams, StreamInv
      <4> QED
        BY <4>1, <4>2
    <3> QED
      BY <3>2 DEF Streams
  <2> QED
    BY <1>1, <2>1, <2>2, <2>3 DEF PeerStep
<1>2. CASE Read(u)
  <2>1. /\ socket[u] # <<>> /\ socket'[u] = Tail(socket[u])
        /\ expected'[u] = After(socket[u], expected[u])
        /\ \A v \in Users \ {u} : socket'[v] = socket[v] /\ expected'[v] = expected[v]
        /\ UNCHANGED <<thread, gone>>
    BY <1>0, <1>2 DEF Read, TypeOK, After
  <2>2. /\ socket[u] \in Seq(Item) /\ expected[u] \in Nat
        /\ Len(socket[u]) \in Nat \ {0} /\ Len(socket'[u]) = Len(socket[u]) - 1
        /\ thread[u].chunks \in Nat
    BY <1>0, <2>1, StreamFacts, TailFacts
  <2>3. u \notin gone
    BY <2>1 DEF Streams, StreamInv
  <2>4. StreamInv(u)'
    <3>1. Framed(socket'[u], expected'[u])
      BY <2>1, <2>2, <2>3, TailStream DEF Streams, StreamInv
    <3>2. CASE thread[u].pc # "chunks"
      <4>1. EndsBy(socket'[u], expected'[u], Len(socket'[u]))
        BY <2>1, <2>2, <2>3, <3>2, TailStream DEF Streams, StreamInv
      <4> QED
        BY <2>1, <2>3, <3>1, <3>2, <4>1 DEF StreamInv
    <3>3. CASE thread[u].pc = "chunks"
      <4>1. EndsAt(socket[u], expected[u], Len(socket[u]) + thread[u].chunks)
        BY <2>3, <3>3 DEF Streams, StreamInv
      <4>2. /\ Len(socket[u]) + thread[u].chunks \in Nat \ {0}
            /\ (Len(socket[u]) + thread[u].chunks) - 1 = Len(socket'[u]) + thread[u].chunks
        BY <2>2
      <4>3. EndsAt(socket'[u], expected'[u], (Len(socket[u]) + thread[u].chunks) - 1)
        BY <2>1, <2>2, <2>3, <4>1, <4>2, TailStream DEF Streams, StreamInv
      <4> QED
        BY <2>1, <2>3, <3>1, <3>3, <4>2, <4>3 DEF StreamInv
    <3> QED
      BY <3>2, <3>3
  <2>5. ASSUME NEW v \in Users, v # u PROVE StreamInv(v)'
    BY <2>1, <2>5 DEF Streams, StreamInv
  <2> QED
    BY <2>4, <2>5 DEF Streams
<1>3. CASE Going(u)
  <2>1. /\ OthersStay(u) /\ thread[u].pc # "chunks" /\ thread'[u].pc # "chunks"
        /\ UNCHANGED streams
    BY <1>3, GoingFacts DEF streams
  <2> QED
    BY <2>1, QuietStreams
<1>4. CASE SkipSlot(u)
  <2>1. /\ OthersStay(u) /\ thread[u].pc # "chunks" /\ thread'[u].pc # "chunks"
        /\ UNCHANGED streams
    BY <1>0, <1>4 DEF SkipSlot, TypeOK, OthersStay, Op
  <2> QED
    BY <2>1, QuietStreams
<1>5. CASE Log(u)
  <2>1. OthersStay(u) /\ thread[u].pc = "log" /\ thread'[u].pc # "chunks" /\ UNCHANGED streams
    BY <1>0, <1>5, <1>l DEF Log, TypeOK, OthersStay, Op
  <2> QED
    BY <2>1, QuietStreams
<1>6. CASE Write(u)
  <2>1. /\ thread[u].pc = "write" /\ Target(u) \in Users
        /\ UNCHANGED <<expected, gone>> /\ Puts(Target(u), "line") /\ OthersStay(u)
        /\ thread'[u].pc \in {"answer", "slot", "clients", "member", "log"}
    BY <1>6, WriteFacts
  <2>2. sending[Target(u)] = u
    BY <1>0, <2>1 DEF SendingHeld, HoldsSending
  <2>3. thread[Target(u)].pc # "chunks"
    BY <1>0, <2>1, <2>2 DEF SendingHeld, HoldsSending
  <2> QED
    BY <1>0, <2>1, <2>3, LineStreams
<1>7. CASE OwnLine(u)
  BY <1>0, <1>7, OwnLineFacts, LineStreams
<1>11. CASE Row(u)
  <2>1. /\ OthersStay(u) /\ thread[u].pc # "chunks" /\ thread'[u].pc # "chunks"
        /\ UNCHANGED streams
    BY <1>11, RowFacts
  <2> QED
    BY <2>1, QuietStreams
<1>8. CASE Header(u)
  <2>1. /\ thread[u].pc = "header" /\ Puts(u, "header") /\ UNCHANGED <<expected, gone>>
    BY <1>8 DEF Header
  <2>2. OthersStay(u)
    BY <1>0, <1>8 DEF Header, TypeOK, OthersStay
  <2>3. ASSUME u \notin gone, socket'[u] = Append(socket[u], "header") PROVE StreamInv(u)'
    <3>1. Framed(socket[u], expected[u]) /\ EndsBy(socket[u], expected[u], Len(socket[u]))
      BY <2>1, <2>3 DEF Streams, StreamInv
    <3>2. socket[u] \in Seq(Item) /\ expected[u] \in Nat
      BY <1>0, StreamFacts
    <3>3. /\ Framed(socket'[u], expected[u])
          /\ EndsAt(socket'[u], expected[u], Len(socket[u]) + 1 + FileChunks)
      BY <2>3, <3>1, <3>2, AppendLine
    <3>4. Len(socket'[u]) = Len(socket[u]) + 1
      BY <2>3, <3>2, AppendFacts DEF Item
    <3>5. thread'[u].pc = "chunks" /\ thread'[u].chunks = FileChunks
      BY <1>0, <1>8, <2>3 DEF Header, TypeOK, Op
    <3> QED
      BY <2>1, <2>3, <3>3, <3>4, <3>5 DEF StreamInv
  <2>4. "header" \in Item
    BY DEF Item
  <2> QED
    BY <1>0, <2>1, <2>2, <2>3, <2>4, OneStream
<1>9. CASE Chunk(u)
  <2>1. /\ thread[u].pc = "chunks" /\ thread[u].chunks > 0 /\ Puts(u, "chunk")
        /\ UNCHANGED <<expected, gone>>
    BY <1>9 DEF Chunk
  <2>2. /\ OthersStay(u) /\ thread'[u].pc = "chunks"
        /\ thread'[u].chunks = thread[u].chunks - 1
    BY <1>0, <1>9 DEF Chunk, TypeOK, OthersStay, Op
  <2>3. ASSUME u \notin gone, socket'[u] = Append(socket[u], "chunk") PROVE StreamInv(u)'
    <3> DEFINE n == Len(socket[u]) + thread[u].chunks
    <3>1. Framed(socket[u], expected[u]) /\ EndsAt(socket[u], expected[u], n)
      BY <2>1, <2>3 DEF Streams, StreamInv
    <3>2. /\ socket[u] \in Seq(Item) /\ expected[u] \in Nat
          /\ Len(socket[u]) \in Nat /\ thread[u].chunks \in Nat
      BY <1>0, StreamFacts
    <3>3. n \in Nat /\ Len(socket[u]) < n
      BY <2>1, <3>2
    <3>4. Len(socket'[u]) = Len(socket[u]) + 1
      BY <2>3, <3>2, AppendFacts DEF Item
    <3>5. n = Len(socket'[u]) + thread'[u].chunks
      BY <2>2, <3>2, <3>4
    <3> HIDE DEF n
    <3>6. Framed(socket'[u], expected[u]) /\ EndsAt(socket'[u], expected[u], n)
      BY <2>3, <3>1, <3>2, <3>3, AppendChunk
    <3> QED
      BY <2>1, <2>2, <2>3, <3>5, <3>6 DEF StreamInv
  <2>4. "chunk" \in Item
    BY DEF Item
  <2> QED
    BY <1>0, <2>1, <2>2, <2>3, <2>4, OneStream
<1>10. CASE EndDownload(u)
  <2>1. /\ thread[u].pc = "chunks" /\ thread[u].chunks = 0 /\ UNCHANGED <<socket, expected, gone>>
        /\ thread' = [thread EXCEPT ![u] = AtLine]
    BY <1>10 DEF EndDownload, streams
  <2>2. OthersStay(u) /\ thread'[u].pc = "line"
    BY <1>0, <1>l, <2>1, NewOp DEF OthersStay
  <2>3. StreamInv(u)'
    <3>1. Len(socket[u]) + 0 = Len(socket[u])
      BY <1>0, StreamFacts
    <3>2. u \notin gone => EndsBy(socket[u], expected[u], Len(socket[u]))
      BY <2>1, <3>1 DEF Streams, StreamInv, EndsAt
    <3> QED
      BY <2>1, <2>2, <3>2 DEF Streams, StreamInv
  <2>4. ASSUME NEW v \in Users, v # u PROVE StreamInv(v)'
    <3>1. thread'[v] = thread[v]
      BY <2>2, <2>4 DEF OthersStay
    <3> QED
      BY <2>1, <3>1 DEF Streams, StreamInv
  <2> QED
    BY <2>3, <2>4 DEF Streams
<1> QED
  BY <1>1, <1>2, <1>3, <1>4, <1>5, <1>6, <1>7, <1>8, <1>9, <1>10, <1>11
     DEF ThreadStep, Going, OwnLine

LEMMA StreamsInitInv == Init => Streams
<1> SUFFICES ASSUME Init PROVE Streams
  OBVIOUS
<1>1. \A u \in Users : /\ thread[u].pc = "line" /\ socket[u] = <<>> /\ expected[u] = 0
                       /\ u \notin gone
  BY DEF Init, AtLine
<1>2. Len(<<>>) = 0 /\ DOMAIN <<>> = {}
  BY EmptySeqs
<1>3. Framed(<<>>, 0) /\ EndsBy(<<>>, 0, 0)
  BY <1>2 DEF Framed, EndsBy
<1> QED
  BY <1>1, <1>2, <1>3 DEF Streams, StreamInv

(* A peer that reads takes a line for a line and a chunk for a chunk, for  *)
(* files of any length, however many threads write to its socket: what is  *)
(* expected of the next item depends on nothing but what is in the socket. *)
THEOREM ReadersStayInStep == Spec => []ReadersInStep
<1>1. CommandsInv /\ Streams /\ [Next]_vars => Streams'
  <2>1. CASE UNCHANGED vars
    BY <2>1 DEF vars, streams, Streams, StreamInv
  <2> QED
    BY <2>1, StreamsStep DEF Next
<1>2. CommandsInv /\ Streams => ReadersInStep
  <2> SUFFICES ASSUME CommandsInv, Streams, NEW u \in Users, socket[u] # <<>>
               PROVE  expected[u] > 0 <=> Head(socket[u]) = "chunk"
    BY DEF ReadersInStep
  <2>1. socket[u] \in Seq(Item) /\ expected[u] \in Nat /\ FileChunks \in Nat
    BY StreamFacts, DeliveryAssumption DEF CommandsInv
  <2>2. 1 \in DOMAIN socket[u] /\ socket[u][1] = Head(socket[u])
        /\ \A h \in DOMAIN socket[u] : h \in Nat \ {0}
    BY <2>1, TailFacts
  <2>3. Framed(socket[u], expected[u])
    BY DEF Streams, StreamInv
  <2> QED
    BY <2>1, <2>2, <2>3 DEF Framed, Announced
<1> QED
  BY <1>1, <1>2, StreamsInitInv, CommandsInvariant, PTL DEF Spec

-----------------------------------------------------------------------------
(* One order: what the members have heard while one of them is visited *)

\* The message has not reached anybody, and all have yet to be visited.
Starting(w) == thread[w].kind = "group" /\ thread[w].pc \in {"begin", "social"}

NotBegun(w) ==
    Starting(w) => /\ ToSet(thread[w].rest) = Users
                   /\ \A v \in Users : thread[w].msg \notin ToSet(heard[v])

(* Whatever anybody has heard but for the message of this visit, all have; *)
(* who has the message has all there is, and nothing after it; and all who *)
(* are not left to be visited have it.                                     *)
VisitInv(w) ==
    /\ \A v \in Users \ gone, a \in Users :
          /\ GroupHeard(a) \ {thread[w].msg} \subseteq GroupHeard(v)
          /\ thread[w].msg \in GroupHeard(a) => GroupHeard(v) \subseteq GroupHeard(a)
    /\ \A v \in Users \ gone : v \notin ToSet(thread[w].rest) => thread[w].msg \in GroupHeard(v)
    /\ \A a \in Users : \A p, q \in DOMAIN heard[a] :
          p < q /\ heard[a][p] = thread[w].msg /\ heard[a][q] \in GroupMessages
          => heard[a][q] = thread[w].msg

\* Between two visits nobody who is connected misses a message.
AllHeard ==
    (\A w \in Users : ~Visiting(w)) =>
        \A v \in Users \ gone, a \in Users : GroupHeard(a) \subseteq GroupHeard(v)

OrderInv ==
    /\ OneOrder
    /\ AllHeard
    /\ \A w \in Users : NotBegun(w) /\ (Visiting(w) => VisitInv(w))

LEMMA HeardFacts ==
    ASSUME TypeOK, NEW u \in Users
    PROVE  /\ heard[u] \in Seq(DOMAIN messages)
           /\ Len(heard[u]) \in Nat /\ DOMAIN heard[u] = 1 .. Len(heard[u])
           /\ \A i \in DOMAIN heard[u] : heard[u][i] \in DOMAIN messages
           /\ ToSet(heard[u]) \subseteq DOMAIN messages
           /\ GroupHeard(u) \subseteq GroupMessages
<1>1. heard[u] \in Seq(DOMAIN messages)
  BY DEF TypeOK
<1>2. Len(heard[u]) \in Nat /\ DOMAIN heard[u] = 1 .. Len(heard[u])
  BY <1>1, LenProperties
<1>3. \A i \in DOMAIN heard[u] : heard[u][i] \in DOMAIN messages
  BY <1>1, <1>2, ElementOfSeq
<1> QED
  BY <1>1, <1>2, <1>3 DEF ToSet, GroupHeard

\* Steps that write no message, and begin or end no visit.
LEMMA QuietOrder ==
    ASSUME TypeOK, OrderInv, UNCHANGED heard, gone \subseteq gone',
           \A m \in DOMAIN messages : m \in GroupMessages' <=> m \in GroupMessages,
           \A w \in Users : Visiting(w)' <=> Visiting(w),
           \A w \in Users : Visiting(w) => /\ thread'[w].msg = thread[w].msg
                                           /\ thread'[w].rest = thread[w].rest,
           \A w \in Users : Starting(w)' => NotBegun(w)'
    PROVE  OrderInv'
<1>1. ASSUME NEW a \in Users PROVE GroupHeard(a)' = GroupHeard(a)
  <2>1. ToSet(heard[a]) \subseteq DOMAIN messages
    BY HeardFacts
  <2> QED
    BY <2>1 DEF GroupHeard
<1>2. \A a \in Users : \A i \in DOMAIN heard[a] :
         heard[a][i] \in GroupMessages' <=> heard[a][i] \in GroupMessages
  BY HeardFacts
<1>3. OneOrder'
  <2> SUFFICES ASSUME NEW a \in Users, NEW b \in Users
               PROVE  /\ \A j \in DOMAIN heard[a], l \in DOMAIN heard[b] :
                            heard[a][j] = heard[b][l] /\ heard[a][j] \in GroupMessages' =>
                              \A i \in 1 .. j - 1 : heard[a][i] \in GroupMessages' =>
                                 \E k \in 1 .. l : heard[b][k] = heard[a][i]
                      /\ \/ GroupHeard(a)' \subseteq GroupHeard(b)'
                         \/ GroupHeard(b)' \subseteq GroupHeard(a)'
    BY DEF OneOrder
  <2>1. GroupHeard(a) \subseteq GroupHeard(b) \/ GroupHeard(b) \subseteq GroupHeard(a)
    BY DEF OrderInv, OneOrder
  <2>2. ASSUME NEW j \in DOMAIN heard[a], NEW l \in DOMAIN heard[b],
               heard[a][j] = heard[b][l], heard[a][j] \in GroupMessages',
               NEW i \in 1 .. j - 1, heard[a][i] \in GroupMessages'
        PROVE  \E k \in 1 .. l : heard[b][k] = heard[a][i]
    <3>1. i \in DOMAIN heard[a]
      BY <2>2, HeardFacts
    <3>2. heard[a][j] \in GroupMessages /\ heard[a][i] \in GroupMessages
      BY <1>2, <2>2, <3>1
    <3> QED
      BY <2>2, <3>2 DEF OrderInv, OneOrder
  <2> QED
    BY <1>1, <2>1, <2>2
<1>4. AllHeard'
  BY <1>1 DEF OrderInv, AllHeard
<1>5. ASSUME NEW w \in Users, Visiting(w)' PROVE VisitInv(w)'
  <2>1. VisitInv(w) /\ thread'[w].msg = thread[w].msg /\ thread'[w].rest = thread[w].rest
    BY <1>5 DEF OrderInv
  <2>2. \A a \in Users : \A p, q \in DOMAIN heard'[a] :
          p < q /\ heard'[a][p] = thread'[w].msg /\ heard'[a][q] \in GroupMessages'
          => heard'[a][q] = thread'[w].msg
    BY <1>2, <2>1 DEF VisitInv
  <2>3. \A v \in Users \ gone', a \in Users :
          /\ GroupHeard(a)' \ {thread'[w].msg} \subseteq GroupHeard(v)'
          /\ thread'[w].msg \in GroupHeard(a)' => GroupHeard(v)' \subseteq GroupHeard(a)'
    BY <1>1, <2>1 DEF VisitInv
  <2>4. \A v \in Users \ gone' :
          v \notin ToSet(thread'[w].rest) => thread'[w].msg \in GroupHeard(v)'
    BY <1>1, <2>1 DEF VisitInv
  <2> QED
    BY <2>2, <2>3, <2>4 DEF VisitInv
<1>6. \A w \in Users : NotBegun(w)'
  BY DEF NotBegun
<1> QED
  BY <1>3, <1>4, <1>5, <1>6 DEF OrderInv

\* A visit begins when no other is going on.
LEMMA BeginOrder ==
    ASSUME CommandsInv, OrderInv, NEW u \in Users, LockSocial(u)
    PROVE  OrderInv'
<1>0. /\ TypeOK /\ SocialHeld /\ Comes(u)
      /\ thread[u].pc = "social" /\ social = Nobody
  BY DEF CommandsInv, MutexesHeld, Places, LockSocial
<1>1. UNCHANGED <<messages, heard, gone>>
  BY DEF LockSocial, streams
<1>2. PICK pc \in {"clients", "member", "row"} :
         Goes(u, pc) /\ (pc = "clients" <=> thread[u].kind = "group")
  BY <1>0 DEF LockSocial, Visits, Comes
<1>3. /\ OthersStay(u) /\ thread'[u].pc = pc /\ thread'[u].kind = thread[u].kind
      /\ thread'[u].msg = thread[u].msg /\ thread'[u].rest = thread[u].rest
  BY <1>0, <1>2, GoesOp DEF OthersStay, Pc
<1>4. \A w \in Users : ~Visiting(w)
  BY <1>0, DeliveryAssumption DEF SocialHeld, HoldsSocial
<1>5. ASSUME NEW w \in Users PROVE NotBegun(w)'
  <2>1. CASE w = u
    BY <1>3, <2>1 DEF NotBegun, Starting
  <2>2. CASE w # u
    BY <1>1, <1>3, <2>2 DEF NotBegun, Starting, OthersStay, OrderInv
  <2> QED
    BY <2>1, <2>2
<1>6. ASSUME NEW w \in Users, w # u PROVE ~Visiting(w)'
  BY <1>3, <1>4, <1>6 DEF OthersStay, Visiting
<1>7. CASE thread[u].kind # "group"
  <2>1. ~Visiting(u)'
    BY <1>3, <1>7 DEF Visiting
  <2> QED
    BY <1>0, <1>1, <1>4, <1>5, <1>6, <2>1, QuietOrder DEF GroupMessages
<1>8. CASE thread[u].kind = "group"
  <2>1. \A a \in Users : GroupHeard(a)' = GroupHeard(a)
    BY <1>1 DEF GroupHeard, GroupMessages
  <2>2. OneOrder'
    BY <1>1 DEF OrderInv, OneOrder, GroupHeard, GroupMessages
  <2>3. AllHeard'
    BY <1>2, <1>3, <1>8 DEF AllHeard, Visiting
  <2>4. /\ ToSet(thread[u].rest) = Users
        /\ \A v \in Users : thread[u].msg \notin ToSet(heard[v])
    BY <1>0, <1>8 DEF OrderInv, NotBegun, Starting
  <2>5. \A v \in Users \ gone, a \in Users : GroupHeard(a) \subseteq GroupHeard(v)
    BY <1>4 DEF OrderInv, AllHeard
  <2>6. \A a \in Users : \A p \in DOMAIN heard[a] : heard[a][p] # thread[u].msg
    BY <2>4 DEF ToSet
  <2>7. VisitInv(u)'
    <3>1. \A v \in Users \ gone', a \in Users :
            /\ GroupHeard(a)' \ {thread'[u].msg} \subseteq GroupHeard(v)'
            /\ thread'[u].msg \in GroupHeard(a)' => GroupHeard(v)' \subseteq GroupHeard(a)'
      BY <1>1, <1>3, <2>1, <2>4, <2>5 DEF GroupHeard
    <3>2. \A v \in Users : v \in ToSet(thread'[u].rest)
      BY <1>3, <2>4
    <3>3. \A a \in Users : \A p \in DOMAIN heard'[a] : heard'[a][p] # thread'[u].msg
      BY <1>1, <1>3, <2>6
    <3> QED
      BY <3>1, <3>2, <3>3 DEF VisitInv
  <2> QED
    BY <1>5, <1>6, <2>2, <2>3, <2>7 DEF OrderInv
<1> QED
  BY <1>7, <1>8

\* A message is written to one user.
LEMMA HeardAppend ==
    ASSUME TypeOK, NEW t \in Users, NEW m \in DOMAIN messages, UNCHANGED messages,
           heard' = [heard EXCEPT ![t] = Append(@, m)]
    PROVE  /\ GroupMessages' = GroupMessages
           /\ \A a \in Users \ {t} : heard'[a] = heard[a] /\ GroupHeard(a)' = GroupHeard(a)
           /\ \A a \in Users : GroupHeard(a) \subseteq GroupHeard(a)'
           /\ \A a \in Users : ToSet(heard[a]) \subseteq ToSet(heard'[a])
           /\ m \in ToSet(heard'[t])
           /\ GroupHeard(t)' \ {m} \subseteq GroupHeard(t)
           /\ m \notin GroupMessages => GroupHeard(t)' = GroupHeard(t)
           /\ m \in GroupMessages => GroupHeard(t)' = GroupHeard(t) \cup {m}
           /\ Len(heard[t]) \in Nat
           /\ DOMAIN heard[t] = 1 .. Len(heard[t])
           /\ DOMAIN heard'[t] = 1 .. Len(heard[t]) + 1
           /\ heard'[t][Len(heard[t]) + 1] = m
           /\ \A i \in DOMAIN heard[t] : heard'[t][i] = heard[t][i]
<1>1. GroupMessages' = GroupMessages
  BY DEF GroupMessages
<1>2. /\ heard[t] \in Seq(DOMAIN messages) /\ heard'[t] = Append(heard[t], m)
      /\ \A a \in Users \ {t} : heard'[a] = heard[a]
  BY DEF TypeOK
<1>3. /\ Len(heard[t]) \in Nat
      /\ DOMAIN heard[t] = 1 .. Len(heard[t])
      /\ DOMAIN heard'[t] = 1 .. Len(heard[t]) + 1
      /\ heard'[t][Len(heard[t]) + 1] = m
      /\ \A i \in DOMAIN heard[t] : heard'[t][i] = heard[t][i]
      /\ ToSet(heard'[t]) = ToSet(heard[t]) \cup {m}
  BY <1>2, AppendFacts
<1>4. \A a \in Users \ {t} : GroupHeard(a)' = GroupHeard(a)
  BY <1>1, <1>2 DEF GroupHeard
<1>5. GroupHeard(t)' = (ToSet(heard[t]) \cup {m}) \cap GroupMessages
  BY <1>1, <1>3 DEF GroupHeard
<1>6. /\ GroupHeard(t) \subseteq GroupHeard(t)' /\ GroupHeard(t)' \ {m} \subseteq GroupHeard(t)
      /\ m \notin GroupMessages => GroupHeard(t)' = GroupHeard(t)
      /\ m \in GroupMessages => GroupHeard(t)' = GroupHeard(t) \cup {m}
  BY <1>5 DEF GroupHeard
<1>7. \A a \in Users : /\ GroupHeard(a) \subseteq GroupHeard(a)'
                       /\ ToSet(heard[a]) \subseteq ToSet(heard'[a])
  BY <1>2, <1>3, <1>4, <1>6
<1> QED
  BY <1>1, <1>2, <1>3, <1>4, <1>6, <1>7

\* The order stays the same for all when a message that is not of the group is
\* written, or the one of a visit.
LEMMA AppendOneOrder ==
    ASSUME TypeOK, OneOrder, NEW t \in Users, NEW m \in DOMAIN messages, UNCHANGED messages,
           heard' = [heard EXCEPT ![t] = Append(@, m)],
           m \in GroupMessages =>
              /\ \A a \in Users : GroupHeard(a) \ {m} \subseteq GroupHeard(t)
              /\ \A a \in Users : m \in GroupHeard(a) => GroupHeard(t) \subseteq GroupHeard(a)
              /\ \A a \in Users : \A p, q \in DOMAIN heard[a] :
                    p < q /\ heard[a][p] = m /\ heard[a][q] \in GroupMessages => heard[a][q] = m
    PROVE  OneOrder'
<1> DEFINE n == Len(heard[t]) + 1
<1>1. /\ GroupMessages' = GroupMessages
      /\ \A a \in Users \ {t} : heard'[a] = heard[a] /\ GroupHeard(a)' = GroupHeard(a)
      /\ m \notin GroupMessages => GroupHeard(t)' = GroupHeard(t)
      /\ m \in GroupMessages => GroupHeard(t)' = GroupHeard(t) \cup {m}
      /\ n \in Nat \ {0} /\ DOMAIN heard[t] = 1 .. n - 1 /\ DOMAIN heard'[t] = 1 .. n
      /\ heard'[t][n] = m
      /\ \A i \in DOMAIN heard[t] : heard'[t][i] = heard[t][i]
  <2>1. /\ Len(heard[t]) \in Nat
        /\ DOMAIN heard[t] = 1 .. Len(heard[t])
        /\ DOMAIN heard'[t] = 1 .. Len(heard[t]) + 1
    BY HeardAppend
  <2>2. n \in Nat \ {0} /\ n - 1 = Len(heard[t])
    BY <2>1
  <2> QED
    BY <2>1, <2>2, HeardAppend
<1> HIDE DEF n
<1>2. \A a \in Users : \A i \in DOMAIN heard[a] :
         /\ i \in DOMAIN heard'[a] /\ heard'[a][i] = heard[a][i] /\ i \in Nat \ {0}
         /\ \A k \in 1 .. i : k \in DOMAIN heard[a]
  <2> TAKE a \in Users
  <2>1. DOMAIN heard[a] = 1 .. Len(heard[a]) /\ Len(heard[a]) \in Nat
    BY HeardFacts
  <2>2. \A i \in DOMAIN heard[a] : i \in DOMAIN heard'[a] /\ heard'[a][i] = heard[a][i]
    BY <1>1
  <2> QED
    BY <2>1, <2>2
<1>3. \A a \in Users : \A i \in DOMAIN heard'[a] : i \in DOMAIN heard[a] \/ (a = t /\ i = n)
  BY <1>1
<1>h. \A a \in Users : \A i \in DOMAIN heard[a] :
         heard[a][i] \in GroupMessages => heard[a][i] \in GroupHeard(a)
  BY DEF GroupHeard, ToSet
<1>g. \A a \in Users : \A x \in GroupHeard(a) : \E k \in DOMAIN heard[a] : heard[a][k] = x
  BY DEF GroupHeard, ToSet
<1>4. ASSUME NEW a \in Users, NEW b \in Users,
             NEW j \in DOMAIN heard'[a], NEW l \in DOMAIN heard'[b],
             heard'[a][j] = heard'[b][l], heard'[a][j] \in GroupMessages,
             NEW i \in 1 .. j - 1, heard'[a][i] \in GroupMessages
      PROVE  \E k \in 1 .. l : heard'[b][k] = heard'[a][i]
  <2> DEFINE x == heard'[a][i]
  <2>1. i \in DOMAIN heard[a] /\ heard'[a][i] = heard[a][i]
    <3>1. CASE j \in DOMAIN heard[a]
      <4>1. j \in Nat /\ i \in 1 .. j
        BY <1>2, <3>1
      <4> QED
        BY <1>2, <3>1, <4>1
    <3>2. CASE a = t /\ j = n
      BY <1>1, <1>2, <3>2
    <3> QED
      BY <1>3, <3>1, <3>2
  <2>2. x \in GroupHeard(a) /\ x = heard[a][i]
    BY <1>4, <1>h, <2>1
  <2> HIDE DEF x
  <2>3. CASE j \in DOMAIN heard[a] /\ l \in DOMAIN heard[b]
    <3>1. heard[a][j] = heard[b][l] /\ heard[a][j] \in GroupMessages /\ heard[a][i] \in GroupMessages
      BY <1>2, <1>4, <2>1, <2>3
    <3>2. PICK k \in 1 .. l : heard[b][k] = heard[a][i]
      BY <2>3, <3>1 DEF OneOrder
    <3>3. k \in DOMAIN heard[b]
      BY <1>2, <2>3
    <3> QED
      BY <1>2, <2>1, <3>2, <3>3
  <2>4. CASE x = m /\ heard'[b][l] = m
    <3>1. l \in 1 .. l
      <4>1. l \in Nat \ {0}
        BY <1>1, <1>2, <1>3
      <4> QED
        BY <4>1
    <3> QED
      BY <2>4, <3>1 DEF x
  <2>5. CASE b = t /\ l = n /\ x # m
    <3>1. m \in GroupMessages
      BY <1>1, <1>4, <2>5
    <3>2. x \in GroupHeard(t)
      BY <2>2, <2>5, <3>1
    <3>3. PICK k \in DOMAIN heard[t] : heard[t][k] = x
      BY <1>g, <3>2
    <3>4. k \in 1 .. l /\ heard'[b][k] = x
      BY <1>1, <2>5, <3>3
    <3> QED
      BY <3>4 DEF x
  <2>6. CASE a = t /\ j = n /\ l \in DOMAIN heard[b] /\ x # m
    <3>1. m \in GroupMessages /\ heard[b][l] = m
      BY <1>1, <1>2, <1>4, <2>6
    <3>2. m \in GroupHeard(b)
      BY <1>h, <2>6, <3>1
    <3>3. x \in GroupHeard(b)
      BY <2>2, <2>6, <3>1, <3>2
    <3>4. PICK k \in DOMAIN heard[b] : heard[b][k] = x
      BY <1>g, <3>3
    <3>5. x \in GroupMessages
      BY <1>4 DEF x
    <3>6. ~(l < k)
      BY <2>6, <3>1, <3>4, <3>5
    <3>7. k \in Nat \ {0} /\ l \in Nat \ {0} /\ heard'[b][k] = x
      BY <1>2, <2>6, <3>4
    <3>8. k \in 1 .. l
      BY <3>6, <3>7
    <3> QED
      BY <3>7, <3>8 DEF x
  <2>7. j = n /\ a = t => heard'[b][l] = m
    BY <1>1, <1>4
  <2> QED
    BY <1>1, <1>3, <2>3, <2>4, <2>5, <2>6, <2>7
<1>5. ASSUME NEW a \in Users, NEW b \in Users
      PROVE  GroupHeard(a)' \subseteq GroupHeard(b)' \/ GroupHeard(b)' \subseteq GroupHeard(a)'
  <2>1. GroupHeard(a) \subseteq GroupHeard(b) \/ GroupHeard(b) \subseteq GroupHeard(a)
    BY DEF OneOrder
  <2>2. ASSUME m \in GroupMessages, NEW c \in Users \ {t}
        PROVE  GroupHeard(c)' \subseteq GroupHeard(t)' \/ GroupHeard(t)' \subseteq GroupHeard(c)'
    BY <1>1, <2>2
  <2>3. CASE m \notin GroupMessages \/ (a # t /\ b # t)
    <3>1. GroupHeard(a)' = GroupHeard(a) /\ GroupHeard(b)' = GroupHeard(b)
      BY <1>1, <2>3
    <3> QED
      BY <2>1, <3>1
  <2>4. CASE m \in GroupMessages /\ (a = t \/ b = t)
    BY <2>2, <2>4
  <2> QED
    BY <2>3, <2>4
<1> QED
  BY <1>1, <1>4, <1>5 DEF OneOrder

\* Nobody else visits while a message of the group is written.
LEMMA OneVisit ==
    ASSUME CommandsInv, NEW u \in Users, Visiting(u)
    PROVE  \A w \in Users \ {u} : ~Visiting(w)
<1>1. social = u
  BY DEF CommandsInv, MutexesHeld, SocialHeld, HoldsSocial
<1> QED
  BY <1>1 DEF CommandsInv, MutexesHeld, SocialHeld, HoldsSocial

\* Messages of different threads are different.
LEMMA MessagesDiffer ==
    ASSUME CommandsInv, NEW u \in Users, NEW w \in Users, u # w, InSend(u), InSend(w)
    PROVE  thread[u].msg # thread[w].msg
BY DEF CommandsInv, OwnMessage

\* A line is written to somebody, or he is gone.
LEMMA WriteOrder ==
    ASSUME CommandsInv, OrderInv, NEW u \in Users, Write(u)
    PROVE  /\ OrderInv'
           /\ thread[u].kind = "group" /\ thread'[u].rest = <<>> =>
                 \A v \in Users \ gone : thread[u].msg \in GroupHeard(v)'
<1>0. TypeOK
  BY DEF CommandsInv
<1>t. PICK t \in Users : t = Target(u)
  BY WriteFacts
<1>m. PICK m \in DOMAIN messages : m = thread[u].msg
  BY WriteFacts
<1>1. /\ thread[u].pc = "write" /\ thread[u].kind \in Talk
      /\ thread[u].rest # <<>> /\ t \in Users
      /\ m \in DOMAIN messages /\ messages[m].from = u /\ messages[m].kind = thread[u].kind
      /\ UNCHANGED <<messages, gone>>
      /\ heard' = IF t \in gone THEN heard ELSE [heard EXCEPT ![t] = Append(@, m)]
      /\ OthersStay(u) /\ thread'[u].kind = thread[u].kind /\ thread'[u].msg = m
  BY <1>t, <1>m, WriteFacts
<1>2. m \in GroupMessages <=> thread[u].kind = "group"
  BY <1>1 DEF GroupMessages
<1>3. /\ GroupMessages' = GroupMessages
      /\ \A a \in Users : GroupHeard(a) \subseteq GroupHeard(a)'
      /\ \A a \in Users : GroupHeard(a)' \ {m} \subseteq GroupHeard(a)
      /\ \A a \in Users \ {t} : heard'[a] = heard[a] /\ GroupHeard(a)' = GroupHeard(a)
      /\ m \notin GroupMessages => \A a \in Users : GroupHeard(a)' = GroupHeard(a)
      /\ t \notin gone /\ m \in GroupMessages => GroupHeard(t)' = GroupHeard(t) \cup {m}
  <2>0. GroupMessages' = GroupMessages
    BY <1>1 DEF GroupMessages
  <2>1. CASE t \in gone
    <3>1. \A a \in Users : GroupHeard(a)' = GroupHeard(a) /\ heard'[a] = heard[a]
      BY <1>1, <2>0, <2>1 DEF GroupHeard
    <3> QED
      BY <2>0, <2>1, <3>1
  <2>2. CASE t \notin gone
    <3>1. heard' = [heard EXCEPT ![t] = Append(@, m)]
      BY <1>1, <2>2
    <3>2. /\ \A a \in Users \ {t} : heard'[a] = heard[a] /\ GroupHeard(a)' = GroupHeard(a)
          /\ \A a \in Users : GroupHeard(a) \subseteq GroupHeard(a)'
          /\ GroupHeard(t)' \ {m} \subseteq GroupHeard(t)
          /\ m \notin GroupMessages => GroupHeard(t)' = GroupHeard(t)
          /\ m \in GroupMessages => GroupHeard(t)' = GroupHeard(t) \cup {m}
      BY <1>0, <1>1, <3>1, HeardAppend
    <3>3. \A a \in Users : GroupHeard(a)' \ {m} \subseteq GroupHeard(a)
      BY <3>2
    <3>4. m \notin GroupMessages => \A a \in Users : GroupHeard(a)' = GroupHeard(a)
      BY <3>2
    <3> QED
      BY <2>0, <3>2, <3>3, <3>4
  <2> QED
    BY <2>1, <2>2
<1>i. InSend(u)
  BY <1>1 DEF InSend
<1>4. CASE thread[u].kind = "group"
  <2>1. /\ Visiting(u) /\ VisitInv(u)
        /\ \A w \in Users \ {u} : ~Visiting(w)
    BY <1>1, <1>4, OneVisit DEF Visiting, OrderInv
  <2>2. /\ \A v \in Users \ gone, a \in Users :
              /\ GroupHeard(a) \ {m} \subseteq GroupHeard(v)
              /\ m \in GroupHeard(a) => GroupHeard(v) \subseteq GroupHeard(a)
        /\ \A v \in Users \ gone : v \notin ToSet(thread[u].rest) => m \in GroupHeard(v)
        /\ \A a \in Users : \A p, q \in DOMAIN heard[a] :
              p < q /\ heard[a][p] = m /\ heard[a][q] \in GroupMessages => heard[a][q] = m
    BY <1>m, <2>1 DEF VisitInv
  <2>3. OneOrder'
    <3>1. CASE t \in gone
      BY <1>1, <1>3, <3>1 DEF OrderInv, OneOrder, GroupHeard
    <3>2. CASE t \notin gone
      <4>1. heard' = [heard EXCEPT ![t] = Append(@, m)]
        BY <1>1, <3>2
      <4>2. /\ \A a \in Users : GroupHeard(a) \ {m} \subseteq GroupHeard(t)
            /\ \A a \in Users : m \in GroupHeard(a) => GroupHeard(t) \subseteq GroupHeard(a)
        BY <1>1, <2>2, <3>2
      <4> QED
        BY <1>0, <1>1, <2>2, <4>1, <4>2, AppendOneOrder DEF OrderInv
    <3> QED
      BY <3>1, <3>2
  <2>4. ASSUME NEW v \in Users \ gone, NEW a \in Users
        PROVE  /\ GroupHeard(a)' \ {m} \subseteq GroupHeard(v)'
               /\ m \in GroupHeard(a)' => GroupHeard(v)' \subseteq GroupHeard(a)'
    <3>1. GroupHeard(a)' \ {m} \subseteq GroupHeard(v)'
      BY <1>3, <2>2
    <3>2. ASSUME m \in GroupHeard(a)' PROVE GroupHeard(v)' \subseteq GroupHeard(a)'
      <4>1. CASE m \in GroupHeard(a)
        BY <1>3, <2>2, <3>2, <4>1
      <4>2. CASE m \notin GroupHeard(a)
        <5>1. a = t /\ a \notin gone
          BY <1>1, <1>3, <3>2, <4>2 DEF GroupHeard, GroupMessages
        <5>2. GroupHeard(v) \ {m} \subseteq GroupHeard(a)
          BY <2>2, <5>1
        <5> QED
          BY <1>3, <3>2, <5>2
      <4> QED
        BY <4>1, <4>2
    <3> QED
      BY <3>1, <3>2
  <2>5. thread'[u].rest = Tail(thread[u].rest) /\ thread'[u].pc \in {"clients", "log"}
        /\ (thread'[u].pc = "clients" <=> thread'[u].rest # <<>>)
    BY <1>4, WriteFacts
  <2>6. ToSet(thread[u].rest) = ToSet(thread'[u].rest) \cup {t}
    <3>1. thread[u].rest \in Seq(Users)
      BY <1>0, OpFacts
    <3> QED
      BY <1>1, <1>t, <2>5, <3>1, TailFacts DEF Target
  <2>7. \A v \in Users \ gone : v \notin ToSet(thread'[u].rest) => m \in GroupHeard(v)'
    <3>1. t \notin gone => m \in GroupHeard(t)'
      BY <1>2, <1>3, <1>4
    <3>2. ASSUME NEW v \in Users \ gone, v # t, v \notin ToSet(thread'[u].rest)
          PROVE  m \in GroupHeard(v)'
      <4>1. m \in GroupHeard(v)
        BY <2>2, <2>6, <3>2
      <4> QED
        BY <1>3, <4>1
    <3> QED
      BY <3>1, <3>2
  <2>8. \A a \in Users : \A p, q \in DOMAIN heard'[a] :
           p < q /\ heard'[a][p] = m /\ heard'[a][q] \in GroupMessages => heard'[a][q] = m
    <3> TAKE a \in Users
    <3>1. CASE heard'[a] = heard[a]
      BY <2>2, <3>1
    <3>2. CASE a = t /\ t \notin gone
      <4>1. heard' = [heard EXCEPT ![t] = Append(@, m)]
        BY <1>1, <3>2
      <4>2. /\ Len(heard[t]) \in Nat
            /\ DOMAIN heard[t] = 1 .. Len(heard[t])
            /\ DOMAIN heard'[t] = 1 .. Len(heard[t]) + 1
            /\ heard'[t][Len(heard[t]) + 1] = m
            /\ \A i \in DOMAIN heard[t] : heard'[t][i] = heard[t][i]
        BY <1>0, <1>1, <4>1, HeardAppend
      <4>3. ASSUME NEW p \in DOMAIN heard'[t], NEW q \in DOMAIN heard'[t],
                   p < q, heard'[t][p] = m, heard'[t][q] \in GroupMessages, heard'[t][q] # m
            PROVE  FALSE
        <5>1. q \in DOMAIN heard[t] /\ p \in DOMAIN heard[t]
          BY <4>2, <4>3
        <5> QED
          BY <1>1, <2>2, <4>2, <4>3, <5>1
      <4> QED
        BY <3>2, <4>3
    <3> QED
      BY <1>1, <1>3, <3>1, <3>2
  <2>9. VisitInv(u)'
    <3>1. thread'[u].msg = m /\ gone' = gone /\ GroupMessages' = GroupMessages
      BY <1>1, <1>3
    <3> QED
      BY <2>4, <2>7, <2>8, <3>1 DEF VisitInv
  <2>10. \A w \in Users \ {u} : ~Visiting(w)'
    BY <1>1, <2>1 DEF Visiting, OthersStay
  <2>11. ASSUME thread'[u].rest = <<>> PROVE \A v \in Users \ gone : m \in GroupHeard(v)'
    BY <2>7, <2>11, EmptySeqs
  <2>12. AllHeard'
    <3>1. CASE thread'[u].rest = <<>>
      <4>1. \A v \in Users \ gone', a \in Users : GroupHeard(a)' \subseteq GroupHeard(v)'
        BY <1>1, <2>4, <2>11, <3>1
      <4> QED
        BY <4>1 DEF AllHeard
    <3>2. CASE thread'[u].rest # <<>>
      <4>1. Visiting(u)'
        BY <1>1, <1>4, <2>5, <3>2 DEF Visiting
      <4> QED
        BY <4>1 DEF AllHeard
    <3> QED
      BY <3>1, <3>2
  <2>13. ASSUME NEW w \in Users PROVE NotBegun(w)'
    <3>1. CASE w = u
      BY <2>5, <3>1 DEF NotBegun, Starting
    <3>2. ASSUME w # u, Starting(w)' PROVE NotBegun(w)'
      <4>1. /\ thread'[w] = thread[w] /\ Starting(w) /\ NotBegun(w)
        BY <1>1, <3>2 DEF OthersStay, Starting, OrderInv
      <4>2. thread[w].msg # m
        BY <1>i, <1>m, <3>2, <4>1, MessagesDiffer DEF Starting, InSend, Talk
      <4>3. thread[w].msg \in GroupMessages
        BY <4>1 DEF CommandsInv, OwnMessage, Starting, InSend, Talk, GroupMessages
      <4>4. \A v \in Users : thread[w].msg \notin GroupHeard(v)'
        BY <1>3, <4>1, <4>2 DEF NotBegun, GroupHeard
      <4>5. \A v \in Users : thread[w].msg \notin ToSet(heard'[v])
        BY <1>3, <4>3, <4>4 DEF GroupHeard
      <4> QED
        BY <4>1, <4>5 DEF NotBegun
    <3> QED
      BY <3>1, <3>2 DEF NotBegun
  <2>14. OrderInv'
    BY <2>3, <2>9, <2>10, <2>12, <2>13 DEF OrderInv
  <2> QED
    BY <1>m, <2>11, <2>14
<1>5. CASE thread[u].kind # "group"
  <2>1. OneOrder'
    <3>1. CASE t \in gone
      BY <1>1, <1>3, <3>1 DEF OrderInv, OneOrder, GroupHeard
    <3>2. CASE t \notin gone
      <4>1. heard' = [heard EXCEPT ![t] = Append(@, m)]
        BY <1>1, <3>2
      <4> QED
        BY <1>0, <1>1, <1>2, <1>5, <4>1, AppendOneOrder DEF OrderInv
    <3> QED
      BY <3>1, <3>2
  <2>2. \A a \in Users : GroupHeard(a)' = GroupHeard(a)
    BY <1>2, <1>3, <1>5
  <2>3. \A w \in Users : (Visiting(w)' <=> Visiting(w)) /\ (Visiting(w) => thread'[w] = thread[w])
    BY <1>1, <1>5 DEF Visiting, OthersStay
  <2>4. AllHeard'
    BY <1>1, <2>2, <2>3 DEF OrderInv, AllHeard
  <2>5. ASSUME NEW w \in Users, Visiting(w) PROVE VisitInv(w)'
    <3>1. VisitInv(w) /\ thread'[w] = thread[w]
      BY <2>3, <2>5 DEF OrderInv
    <3>2. \A a \in Users : \A p, q \in DOMAIN heard'[a] :
             p < q /\ heard'[a][p] = thread[w].msg /\ heard'[a][q] \in GroupMessages
             => heard'[a][q] = thread[w].msg
      <4> TAKE a \in Users
      <4>1. CASE heard'[a] = heard[a]
        BY <3>1, <4>1 DEF VisitInv
      <4>2. CASE a = t /\ t \notin gone
        <5>1. heard' = [heard EXCEPT ![t] = Append(@, m)]
          BY <1>1, <4>2
        <5>2. /\ Len(heard[t]) \in Nat
              /\ DOMAIN heard[t] = 1 .. Len(heard[t])
              /\ DOMAIN heard'[t] = 1 .. Len(heard[t]) + 1
              /\ heard'[t][Len(heard[t]) + 1] = m
              /\ \A i \in DOMAIN heard[t] : heard'[t][i] = heard[t][i]
          BY <1>0, <1>1, <5>1, HeardAppend
        <5>3. ASSUME NEW p \in DOMAIN heard'[t], NEW q \in DOMAIN heard'[t],
                     p < q, heard'[t][p] = thread[w].msg, heard'[t][q] \in GroupMessages
              PROVE  heard'[t][q] = thread[w].msg
          <6>1. q # Len(heard[t]) + 1
            BY <1>2, <1>5, <5>2, <5>3
          <6>2. q \in DOMAIN heard[t] /\ p \in DOMAIN heard[t]
            BY <5>2, <5>3, <6>1
          <6> QED
            BY <1>1, <3>1, <5>2, <5>3, <6>2 DEF VisitInv
        <5> QED
          BY <4>2, <5>3
      <4> QED
        BY <1>1, <1>3, <4>1, <4>2
    <3>3. gone' = gone /\ GroupMessages' = GroupMessages
      BY <1>1, <1>3
    <3>4. \A v \in Users \ gone', a \in Users :
            /\ GroupHeard(a)' \ {thread'[w].msg} \subseteq GroupHeard(v)'
            /\ thread'[w].msg \in GroupHeard(a)' => GroupHeard(v)' \subseteq GroupHeard(a)'
      BY <2>2, <3>1, <3>3 DEF VisitInv
    <3>5. \A v \in Users \ gone' :
            v \notin ToSet(thread'[w].rest) => thread'[w].msg \in GroupHeard(v)'
      BY <2>2, <3>1, <3>3 DEF VisitInv
    <3> QED
      BY <3>1, <3>2, <3>3, <3>4, <3>5 DEF VisitInv
  <2>6. ASSUME NEW w \in Users, Starting(w)' PROVE NotBegun(w)'
    <3>1. w # u
      BY <1>1, <1>5, <2>6 DEF Starting
    <3>2. thread'[w] = thread[w] /\ Starting(w) /\ NotBegun(w)
      BY <1>1, <2>6, <3>1 DEF OthersStay, Starting, OrderInv
    <3>3. thread[w].msg \in GroupMessages
      BY <3>2 DEF CommandsInv, OwnMessage, Starting, InSend, Talk, GroupMessages
    <3>4. \A v \in Users : thread[w].msg \notin GroupHeard(v)'
      BY <2>2, <3>2 DEF NotBegun, GroupHeard
    <3>5. \A v \in Users : thread[w].msg \notin ToSet(heard'[v])
      BY <1>3, <3>3, <3>4 DEF GroupHeard
    <3> QED
      BY <3>2, <3>5 DEF NotBegun
  <2>7. OrderInv'
    BY <2>1, <2>3, <2>4, <2>5, <2>6 DEF OrderInv, NotBegun
  <2> QED
    BY <1>5, <2>7
<1> QED
  BY <1>4, <1>5

LEMMA OrderStep ==
    ASSUME CommandsInv, OrderInv, NEW u \in Users, ThreadStep(u) \/ PeerStep(u) \/ Read(u)
    PROVE  OrderInv'
<1>0. TypeOK /\ Comes(u) /\ Left(u)
  BY DEF CommandsInv, Places
\* Only the command of this thread has to be looked at.
<1>q. ASSUME UNCHANGED heard, gone \subseteq gone', OthersStay(u),
             \A m \in DOMAIN messages : m \in GroupMessages' <=> m \in GroupMessages,
             Visiting(u)' <=> Visiting(u),
             Visiting(u) => /\ thread'[u].msg = thread[u].msg
                            /\ thread'[u].rest = thread[u].rest,
             Starting(u)' => NotBegun(u)'
      PROVE  OrderInv'
  <2>1. ASSUME NEW w \in Users \ {u}
        PROVE  /\ Visiting(w)' <=> Visiting(w)
               /\ thread'[w] = thread[w]
               /\ Starting(w)' => NotBegun(w)'
    BY <1>q DEF OthersStay, Visiting, Starting, NotBegun, OrderInv
  <2>2. \A w \in Users : Visiting(w)' <=> Visiting(w)
    BY <1>q, <2>1
  <2>3. \A w \in Users : Visiting(w) => /\ thread'[w].msg = thread[w].msg
                                        /\ thread'[w].rest = thread[w].rest
    BY <1>q, <2>1
  <2>4. \A w \in Users : Starting(w)' => NotBegun(w)'
    BY <1>q, <2>1
  <2> QED
    BY <1>0, <1>q, <2>2, <2>3, <2>4, QuietOrder
<1>s. UNCHANGED messages =>
         \A m \in DOMAIN messages : m \in GroupMessages' <=> m \in GroupMessages
  BY DEF GroupMessages
<1>1. CASE \/ GroupSend(u) \/ GroupCreate(u) \/ Event(u)
           \/ \E v \in Users \ {u} : Private(u, v)
  <2>1. PICK kind \in Talk, rest \in Seq(Users), to \in SUBSET Users :
            /\ SendMessage(u, kind, rest, to)
            /\ kind = "group" => ToSet(rest) = Users
    BY <1>1, SendCases
  <2>2. /\ OthersStay(u) /\ thread'[u].pc = "begin" /\ thread'[u].kind = kind
        /\ thread'[u].msg = Len(messages) + 1 /\ thread'[u].rest = rest
        /\ Len(messages) \in Nat /\ DOMAIN messages = 1 .. Len(messages)
        /\ DOMAIN messages' = 1 .. Len(messages) + 1
        /\ \A m \in DOMAIN messages : messages'[m] = messages[m]
    BY <1>0, <2>1, SendOp, ZenonT(60) DEF OthersStay
  <2>3. thread[u].pc = "line" /\ UNCHANGED <<heard, gone>>
    BY <2>1 DEF SendMessage, streams
  <2>4. \A m \in DOMAIN messages : m \in GroupMessages' <=> m \in GroupMessages
    BY <2>2 DEF GroupMessages
  <2>5. Len(messages) + 1 \notin DOMAIN messages
    BY <2>2
  <2>6. \A v \in Users : Len(messages) + 1 \notin ToSet(heard'[v])
    BY <1>0, <2>3, <2>5, HeardFacts
  <2>7. Starting(u)' => NotBegun(u)'
    BY <2>1, <2>2, <2>6 DEF Starting, NotBegun
  <2>8. ~Visiting(u) /\ ~Visiting(u)'
    BY <2>2, <2>3 DEF Visiting
  <2> QED
    BY <1>q, <2>2, <2>3, <2>4, <2>7, <2>8
<1>2. CASE Download(u) \/ List(u) \/ ListNotifications(u)
  <2>1. PICK kind \in {"download", "list", "notifications"} : SendBack(u, kind)
    BY <1>2 DEF Download, List, ListNotifications
  <2>2. OthersStay(u) /\ thread'[u].pc = "begin" /\ thread'[u].kind = kind
    BY <1>0, <2>1, SendBackOp DEF OthersStay
  <2>3. thread[u].pc = "line" /\ UNCHANGED <<heard, gone, messages>>
    BY <2>1 DEF SendBack, streams
  <2> QED
    BY <1>q, <1>s, <2>2, <2>3 DEF Visiting, Starting
<1>3. CASE HangUp(u) \/ Read(u)
  <2>1. UNCHANGED <<heard, messages, thread>> /\ gone \subseteq gone'
    BY <1>3 DEF HangUp, Read
  <2>2. Starting(u)' => NotBegun(u)'
    BY <2>1 DEF OrderInv, NotBegun, Starting
  <2>3. OthersStay(u) /\ (Visiting(u)' <=> Visiting(u))
    BY <2>1 DEF OthersStay, Visiting
  <2> QED
    BY <1>q, <1>s, <2>1, <2>2, <2>3
<1>4. CASE LockSocial(u)
  BY <1>4, BeginOrder
<1>5. CASE Write(u)
  BY <1>5, WriteOrder
<1>6. CASE Going(u) /\ ~LockSocial(u)
  <2>1. /\ OthersStay(u) /\ UNCHANGED <<messages, heard, gone>>
        /\ thread'[u].kind = thread[u].kind
        /\ thread'[u].msg = thread[u].msg
        /\ thread'[u].rest = thread[u].rest
    BY <1>6, GoingFacts
  <2>2. (Visiting(u)' <=> Visiting(u)) /\ (Starting(u)' => Starting(u))
    <3>1. CASE thread[u].kind # "group"
      BY <2>1, <3>1 DEF Visiting, Starting
    <3>2. CASE thread[u].kind = "group"
      <4>1. LoggedIn(u) \/ LockClients(u) \/ LockSlot(u) \/ LogFails(u) \/ LockOwn(u)
        <5>1. ~EndEvent(u)
          BY <1>0, <3>2 DEF EndEvent, Left
        <5>2. /\ ~LockAccounts(u) /\ ~UnlockAccounts(u) /\ ~LockNotification(u)
              /\ ~UnlockNotification(u) /\ ~EndInvite(u) /\ ~EndRows(u)
          BY <1>0, <3>2 DEF LockAccounts, UnlockAccounts, LockNotification,
                            UnlockNotification, EndInvite, EndRows, Comes
        <5> QED
          BY <1>6, <5>1, <5>2 DEF Going
      <4>2. \/ thread[u].pc = "begin" /\ Goes(u, "social")
            \/ thread[u].pc = "clients" /\ Goes(u, "slot")
            \/ thread[u].pc = "slot" /\ Goes(u, "write")
            \/ thread[u].pc = "log" /\ Goes(u, "answer")
            \/ thread[u].pc = "answer" /\ Goes(u, "reply")
        <5>1. CASE LoggedIn(u)
          <6>1. \E pc \in Begins("group") : thread[u].pc = "begin" /\ Goes(u, pc)
            BY <3>2, <5>1 DEF LoggedIn
          <6> QED
            BY <6>1, BeginsFacts
        <5>2. CASE LockClients(u) \/ LockSlot(u) \/ LogFails(u)
          BY <5>2 DEF LockClients, LockSlot, LogFails
        <5>3. CASE LockOwn(u)
          <6>1. thread[u].pc = "answer"
            BY <1>0, <3>2, <5>3 DEF LockOwn, Comes
          <6> QED
            BY <5>3, <6>1 DEF LockOwn
        <5> QED
          BY <4>1, <5>1, <5>2, <5>3
      <4>3. \/ thread[u].pc = "begin" /\ thread'[u].pc = "social"
            \/ thread[u].pc = "clients" /\ thread'[u].pc = "slot"
            \/ thread[u].pc = "slot" /\ thread'[u].pc = "write"
            \/ thread[u].pc = "log" /\ thread'[u].pc = "answer"
            \/ thread[u].pc = "answer" /\ thread'[u].pc = "reply"
        BY <1>0, <4>2, GoesOp DEF Pc
      <4> QED
        BY <2>1, <4>3 DEF Visiting, Starting
    <3> QED
      BY <3>1, <3>2
  <2>3. Starting(u)' => NotBegun(u)'
    BY <2>1, <2>2 DEF OrderInv, NotBegun
  <2> QED
    BY <1>q, <1>s, <2>1, <2>2, <2>3
<1>7. CASE SkipSlot(u)
  <2>1. /\ OthersStay(u) /\ UNCHANGED <<heard, gone, messages>>
        /\ thread[u].kind # "group" /\ thread'[u].kind = thread[u].kind
    BY <1>0, <1>7 DEF SkipSlot, Excepted, TypeOK, OthersStay, Op, streams
  <2> QED
    BY <1>q, <1>s, <2>1 DEF Visiting, Starting
<1>8. CASE Log(u) \/ Header(u) \/ Chunk(u) \/ EndDownload(u)
  <2>1. /\ UNCHANGED <<heard, gone, messages>>
        /\ thread[u].pc \in {"log", "header", "chunks"}
    BY <1>8 DEF Log, Header, Chunk, EndDownload, streams
  <2>2. AtLine.pc = "line" /\ AtLine \in Op
    BY AtLineOp DEF AtLine
  <2>3. OthersStay(u) /\ thread'[u].pc \in {"line", "answer", "chunks"}
    BY <1>0, <1>8, <2>1, <2>2 DEF Log, Header, Chunk, EndDownload, TypeOK, OthersStay, Op
  <2> QED
    BY <1>q, <1>s, <2>1, <2>3 DEF Visiting, Starting
<1>9. CASE OwnLine(u) \/ Row(u)
  <2>1. /\ UNCHANGED <<heard, gone, messages>> /\ OthersStay(u)
        /\ thread[u].pc \in {"reply", "opening", "listing", "row"}
        /\ thread'[u].kind \notin Talk
    BY <1>9, OwnLineFacts, RowFacts
  <2> QED
    BY <1>q, <1>s, <2>1 DEF Visiting, Starting, Talk
<1> QED
  BY <1>1, <1>2, <1>3, <1>4, <1>5, <1>6, <1>7, <1>8, <1>9
     DEF ThreadStep, PeerStep, Going, OwnLine

LEMMA OrderInitInv == Init => OrderInv
<1> SUFFICES ASSUME Init PROVE OrderInv
  OBVIOUS
<1>1. \A u \in Users : heard[u] = <<>> /\ thread[u].kind = "none"
  BY DEF Init, AtLine
<1>2. DOMAIN <<>> = {} /\ ToSet(<<>>) = {}
  BY EmptySeqs
<1>3. \A u \in Users : DOMAIN heard[u] = {} /\ GroupHeard(u) = {} /\ ~Visiting(u) /\ ~Starting(u)
  BY <1>1, <1>2 DEF GroupHeard, Visiting, Starting
<1>4. OneOrder
  BY <1>3 DEF OneOrder
<1> QED
  BY <1>3, <1>4 DEF OrderInv, AllHeard, NotBegun

LEMMA OrderInvariant == Spec => [](CommandsInv /\ OrderInv)
<1>1. CommandsInv /\ OrderInv /\ [Next]_vars => OrderInv'
  <2>1. CASE UNCHANGED vars
    BY <2>1 DEF vars, streams, OrderInv, OneOrder, AllHeard, NotBegun, Starting, Visiting, VisitInv,
                GroupHeard, GroupMessages
  <2> QED
    BY <2>1, OrderStep DEF Next
<1> QED
  BY <1>1, OrderInitInv, CommandsInvariant, PTL DEF Spec

(* However many members send at the same time, and in whatever order their *)
(* rows are: what one of them has heard before a message of the group, all *)
(* who have that message had heard before it, and of any two one has all   *)
(* that the other has.                                                     *)
THEOREM GroupHearsOneOrder == Spec => []OneOrder
<1>1. OrderInv => OneOrder
  BY DEF OrderInv
<1> QED
  BY <1>1, OrderInvariant, PTL

-----------------------------------------------------------------------------
(* The history *)

\* All who are connected and to whom the message is have it.
Arrived(m) ==
    /\ messages[m].kind = "group" => \A v \in Users \ gone : m \in ToSet(heard[v])
    /\ messages[m].kind = "private" => \A v \in messages[m].to \ gone : m \in ToSet(heard[v])

LogOrdered ==
    \A i, j \in DOMAIN log :
        i < j /\ messages[log[i]].from = messages[log[j]].from => log[i] < log[j]

\* A private message that is yet to be sent.
Unsent(u) ==
    /\ thread[u].kind = "private"
    /\ thread[u].pc \in {"begin", "accounts", "found", "clients", "slot", "write"}

ToBeLogged(u) ==
    /\ InSend(u) => thread[u].msg \notin ToSet(log)
    /\ thread[u].pc = "log" => Arrived(thread[u].msg)
    /\ Unsent(u) => \E v \in Users : thread[u].rest = <<v>>
                                     /\ messages[thread[u].msg].to = {v}

HistoryInv ==
    /\ LogOrdered
    /\ \A m \in ToSet(log) : Arrived(m)
    /\ \A u \in Users : ToBeLogged(u)

LEMMA LogFacts ==
    ASSUME TypeOK
    PROVE  /\ log \in Seq(DOMAIN messages)
           /\ DOMAIN log = 1 .. Len(log) /\ Len(log) \in Nat
           /\ \A i \in DOMAIN log : log[i] \in DOMAIN messages /\ log[i] \in ToSet(log)
           /\ ToSet(log) \subseteq DOMAIN messages
           /\ DOMAIN messages \subseteq Nat
<1>1. log \in Seq(DOMAIN messages) /\ messages \in Seq(Message)
  BY DEF TypeOK
<1>2. DOMAIN log = 1 .. Len(log) /\ Len(log) \in Nat
  BY <1>1, LenProperties
<1>3. \A i \in DOMAIN log : log[i] \in DOMAIN messages
  BY <1>1, <1>2, ElementOfSeq
<1>4. DOMAIN messages = 1 .. Len(messages)
  BY <1>1, LenProperties
<1> QED
  BY <1>1, <1>2, <1>3, <1>4 DEF ToSet

\* What has arrived has arrived.
LEMMA ArrivedStays ==
    ASSUME NEW m \in DOMAIN messages, Arrived(m), messages'[m] = messages[m], gone \subseteq gone',
           \A v \in Users : ToSet(heard[v]) \subseteq ToSet(heard'[v]),
           messages[m].to \subseteq Users
    PROVE  Arrived(m)'
BY DEF Arrived

\* Nobody hears less by a step, nobody comes back, and no message is changed.
Grows ==
    /\ gone \subseteq gone'
    /\ \A v \in Users : ToSet(heard[v]) \subseteq ToSet(heard'[v])
    /\ DOMAIN messages \subseteq DOMAIN messages'
    /\ \A m \in DOMAIN messages : messages'[m] = messages[m]

\* Steps that log nothing: only the command of this thread has to be looked at.
LEMMA QuietHistory ==
    ASSUME CommandsInv, HistoryInv, NEW u \in Users, OthersStay(u), Grows, UNCHANGED log,
           thread'[u] = thread[u] \/ ToBeLogged(u)'
    PROVE  HistoryInv'
<1>0. TypeOK
  BY DEF CommandsInv
<1>1. \A m \in DOMAIN messages : messages[m].to \subseteq Users
  <2>1. messages \in Seq(Message)
    BY <1>0 DEF TypeOK
  <2>2. \A m \in DOMAIN messages : messages[m] \in Message
    BY <2>1
  <2> QED
    BY <2>2 DEF Message
<1>2. ASSUME NEW m \in DOMAIN messages, Arrived(m) PROVE Arrived(m)'
  BY <1>1, <1>2, ArrivedStays DEF Grows
<1>3. LogOrdered'
  <2>1. \A i \in DOMAIN log : messages'[log[i]] = messages[log[i]]
    BY <1>0, LogFacts DEF Grows
  <2> QED
    BY <2>1 DEF HistoryInv, LogOrdered
<1>4. \A m \in ToSet(log) : Arrived(m)'
  BY <1>0, <1>2, LogFacts DEF HistoryInv
<1>5. ASSUME NEW w \in Users, thread'[w] = thread[w] PROVE ToBeLogged(w)'
  <2>1. thread'[w] = thread[w] /\ ToBeLogged(w)
    BY <1>5 DEF HistoryInv
  <2>2. InSend(w) => thread[w].msg \in DOMAIN messages
    BY DEF CommandsInv, OwnMessage
  <2>3. thread[w].pc = "log" => InSend(w)
    BY DEF CommandsInv, Places, Comes, Left, Target, InSend, Talk
  <2>4. ASSUME thread'[w].pc = "log" PROVE Arrived(thread[w].msg)'
    <3>1. PICK m \in DOMAIN messages : m = thread[w].msg
      BY <2>1, <2>2, <2>3, <2>4
    <3>2. Arrived(m)
      BY <2>1, <2>4, <3>1 DEF ToBeLogged, Arrived
    <3>3. Arrived(m)'
      BY <1>2, <3>2
    <3>4. thread'[w].msg = m
      BY <2>1, <3>1
    <3> QED
      BY <3>3, <3>4 DEF Arrived
  <2>5. InSend(w)' => thread'[w].msg \notin ToSet(log')
    BY <2>1 DEF ToBeLogged, InSend
  <2>6. Unsent(w)' => \E v \in Users : thread'[w].rest = <<v>>
                                         /\ messages'[thread'[w].msg].to = {v}
    BY <2>1, <2>2 DEF ToBeLogged, InSend, Talk, Grows, Unsent
  <2> QED
    BY <2>1, <2>4, <2>5, <2>6 DEF ToBeLogged, Arrived
<1>6. \A w \in Users : ToBeLogged(w)'
  BY <1>5 DEF OthersStay
<1> QED
  BY <1>3, <1>4, <1>6 DEF HistoryInv

\* The message is logged after the others of its sender, and all have it.
LEMMA LogHistory ==
    ASSUME CommandsInv, HistoryInv, NEW u \in Users, Log(u)
    PROVE  HistoryInv'
<1>0. TypeOK /\ Places(u) /\ OwnMessage(u) /\ ToBeLogged(u)
  BY DEF CommandsInv, HistoryInv
<1>1. /\ thread[u].pc = "log" /\ thread[u].kind \in {"group", "private"}
      /\ UNCHANGED <<messages, gone, heard>>
  BY <1>0 DEF Log, Places, Comes, Left, Target, streams
<1>i. InSend(u)
  BY <1>1 DEF InSend, Talk
<1>2. PICK m \in DOMAIN messages : m = thread[u].msg
  BY <1>0, <1>i DEF OwnMessage
<1>3. /\ messages[m].from = u
      /\ \A n \in DOMAIN messages : messages[n].from = u => n <= m
      /\ m \notin ToSet(log) /\ Arrived(m)
  BY <1>0, <1>1, <1>2, <1>i DEF OwnMessage, ToBeLogged
<1> DEFINE n == Len(log) + 1
<1>4. log' = Append(log, m)
  BY <1>2 DEF Log
<1>5. /\ Len(log) \in Nat /\ DOMAIN log = 1 .. Len(log) /\ DOMAIN log' = 1 .. Len(log) + 1
      /\ log'[Len(log) + 1] = m
      /\ \A i \in DOMAIN log : log'[i] = log[i]
      /\ ToSet(log') = ToSet(log) \cup {m}
  BY <1>0, <1>4, LogFacts, AppendFacts
<1>6. LogOrdered'
  <2> SUFFICES ASSUME NEW i \in DOMAIN log', NEW j \in DOMAIN log', i < j,
                      messages[log'[i]].from = messages[log'[j]].from
               PROVE  log'[i] < log'[j]
    BY <1>1 DEF LogOrdered
  <2>1. i \in DOMAIN log
    BY <1>5
  <2>2. CASE j \in DOMAIN log
    BY <1>5, <2>1, <2>2 DEF HistoryInv, LogOrdered
  <2>3. CASE j \notin DOMAIN log
    <3>1. log'[j] = m
      BY <1>5, <2>3
    <3>2. log[i] \in DOMAIN messages /\ log[i] \in ToSet(log) /\ log[i] \in Nat /\ m \in Nat
      BY <1>0, <2>1, LogFacts
    <3>3. messages[log[i]].from = u
      BY <1>3, <1>5, <2>1, <3>1
    <3>4. log[i] <= m /\ log[i] # m
      BY <1>3, <3>2, <3>3
    <3> QED
      BY <1>5, <2>1, <3>1, <3>2, <3>4
  <2> QED
    BY <2>2, <2>3
<1>7. ASSUME NEW x \in ToSet(log') PROVE Arrived(x)'
  <2>1. Arrived(x)
    BY <1>3, <1>5 DEF HistoryInv
  <2> QED
    BY <1>1, <2>1 DEF Arrived
<1>8. ASSUME NEW w \in Users PROVE ToBeLogged(w)'
  <2>1. CASE w = u
    <3>1. thread'[u].pc \in {"line", "answer"} /\ ~InSend(u)'
      <4>1. AtLine.pc = "line" /\ AtLine.kind = "none"
        BY DEF AtLine
      <4>2. CASE thread[u].kind = "group"
        <5>1. thread'[u] = AtLine
          BY <1>0, <4>2 DEF Log, TypeOK
        <5> QED
          BY <4>1, <5>1 DEF InSend, Talk
      <4>3. CASE thread[u].kind # "group"
        <5>1. thread'[u].pc = "answer"
          BY <1>0, <4>3 DEF Log, TypeOK, Op
        <5> QED
          BY <5>1 DEF InSend
      <4> QED
        BY <4>2, <4>3
    <3> QED
      BY <2>1, <3>1 DEF ToBeLogged, Unsent
  <2>2. CASE w # u
    <3>1. thread'[w] = thread[w] /\ ToBeLogged(w)
      BY <1>0, <2>2 DEF Log, TypeOK, HistoryInv
    <3>2. InSend(w) => thread[w].msg # m
      BY <1>2, <1>i, <2>2, MessagesDiffer
    <3>3. InSend(w)' => thread'[w].msg \notin ToSet(log')
      BY <1>5, <3>1, <3>2 DEF ToBeLogged, InSend
    <3> QED
      BY <1>1, <3>1, <3>3 DEF ToBeLogged, Arrived, Unsent
  <2> QED
    BY <2>1, <2>2
<1> QED
  BY <1>6, <1>7, <1>8 DEF HistoryInv

\* When the last line is written, the message has arrived.
LEMMA WriteHistory ==
    ASSUME CommandsInv, OrderInv, HistoryInv, NEW u \in Users, Write(u)
    PROVE  HistoryInv'
<1>0. TypeOK /\ ToBeLogged(u) /\ OwnMessage(u)
  BY DEF CommandsInv, HistoryInv
<1>t. PICK t \in Users : t = Target(u)
  BY WriteFacts
<1>m. PICK m \in DOMAIN messages : m = thread[u].msg
  BY WriteFacts
<1>1. /\ thread[u].pc = "write" /\ thread[u].kind \in Talk /\ thread[u].rest # <<>>
      /\ messages[m].kind = thread[u].kind
      /\ UNCHANGED <<messages, gone, log>>
      /\ heard' = IF t \in gone THEN heard ELSE [heard EXCEPT ![t] = Append(@, m)]
      /\ OthersStay(u) /\ thread'[u].kind = thread[u].kind /\ thread'[u].msg = m
  BY <1>t, <1>m, WriteFacts
<1>2. /\ \A v \in Users : ToSet(heard[v]) \subseteq ToSet(heard'[v])
      /\ t \notin gone => m \in ToSet(heard'[t])
  <2>1. CASE t \in gone
    BY <1>1, <2>1
  <2>2. CASE t \notin gone
    BY <1>0, <1>1, <2>2, HeardAppend
  <2> QED
    BY <2>1, <2>2
<1>3. Grows
  BY <1>1, <1>2 DEF Grows
<1>i. InSend(u)
  BY <1>1 DEF InSend
<1>4. m \notin ToSet(log)
  BY <1>0, <1>i, <1>m DEF ToBeLogged
<1>5. ASSUME thread'[u].pc = "log" PROVE Arrived(m)'
  <2>1. CASE thread[u].kind = "group"
    <3>1. thread'[u].rest = <<>>
      BY <1>5, <2>1, WriteFacts
    <3>2. \A v \in Users \ gone : thread[u].msg \in GroupHeard(v)'
      BY <2>1, <3>1, WriteOrder
    <3>3. \A v \in Users \ gone : m \in ToSet(heard'[v])
      BY <1>m, <3>2 DEF GroupHeard
    <3> QED
      BY <1>1, <2>1, <3>3 DEF Arrived
  <2>2. CASE thread[u].kind = "private"
    <3>1. t \notin gone
      BY <1>5, <1>t, <2>2, WriteFacts
    <3>2. PICK v \in Users : thread[u].rest = <<v>> /\ messages[m].to = {v}
      BY <1>0, <1>1, <1>m, <2>2 DEF ToBeLogged, Unsent
    <3>3. v = t
      BY <1>t, <3>2 DEF Target
    <3> QED
      BY <1>1, <1>2, <2>2, <3>1, <3>2, <3>3 DEF Arrived
  <2>3. CASE thread[u].kind \in {"event", "invite"}
    BY <1>5, <2>3, WriteFacts
  <2> QED
    BY <1>1, <2>1, <2>2, <2>3 DEF Talk
<1>6. thread'[u].kind = "private" => thread'[u].pc \in {"answer", "log"}
  BY <1>1, WriteFacts
<1>7. ToBeLogged(u)'
  <2>1. InSend(u)' => thread'[u].msg \notin ToSet(log')
    BY <1>1, <1>4
  <2>2. thread'[u].pc = "log" => Arrived(thread[u].msg)'
    BY <1>1, <1>5 DEF Arrived
  <2>3. ~Unsent(u)'
    BY <1>6 DEF Unsent
  <2> QED
    BY <2>1, <2>2, <2>3 DEF ToBeLogged
<1> QED
  BY <1>1, <1>3, <1>7, QuietHistory

LEMMA HistoryStep ==
    ASSUME CommandsInv, OrderInv, HistoryInv, NEW u \in Users,
           ThreadStep(u) \/ PeerStep(u) \/ Read(u)
    PROVE  HistoryInv'
<1>0. TypeOK /\ Comes(u) /\ OwnMessage(u) /\ ToBeLogged(u)
  BY DEF CommandsInv, Places, HistoryInv
<1>g. UNCHANGED <<messages, gone, heard>> => Grows
  BY DEF Grows
<1>1. CASE \/ GroupSend(u) \/ GroupCreate(u) \/ Event(u)
           \/ \E v \in Users \ {u} : Private(u, v)
  <2>1. PICK kind \in Talk, rest \in Seq(Users), to \in SUBSET Users :
            /\ SendMessage(u, kind, rest, to)
            /\ kind = "private" => \E v \in Users : rest = <<v>> /\ to = {v}
    BY <1>1, SendCases
  <2>2. /\ OthersStay(u) /\ thread'[u].pc = "begin" /\ thread'[u].kind = kind
        /\ thread'[u].msg = Len(messages) + 1 /\ thread'[u].rest = rest
        /\ Len(messages) \in Nat /\ DOMAIN messages = 1 .. Len(messages)
        /\ DOMAIN messages' = 1 .. Len(messages) + 1
        /\ messages'[Len(messages) + 1] = [from |-> u, kind |-> kind, to |-> to]
        /\ \A m \in DOMAIN messages : messages'[m] = messages[m]
    <3>1. SendMessage(u, kind, rest, to)
      BY <2>1
    <3> QED
      BY <1>0, <3>1, SendOp, ZenonT(60) DEF OthersStay
  <2>3. UNCHANGED <<heard, gone, log>>
    BY <2>1 DEF SendMessage, streams
  <2>4. Grows
    BY <2>2, <2>3 DEF Grows
  <2>5. Len(messages) + 1 \notin ToSet(log')
    BY <1>0, <2>2, <2>3, LogFacts
  <2>6. ToBeLogged(u)'
    <3>1. thread'[u].kind = "private" =>
             \E v \in Users : thread'[u].rest = <<v>> /\ messages'[thread'[u].msg].to = {v}
      BY <2>1, <2>2
    <3> QED
      BY <2>2, <2>5, <3>1 DEF ToBeLogged, Unsent
  <2> QED
    BY <2>2, <2>3, <2>4, <2>6, QuietHistory
<1>2. CASE Download(u) \/ List(u) \/ ListNotifications(u)
  <2>1. PICK kind \in {"download", "list", "notifications"} : SendBack(u, kind)
    BY <1>2 DEF Download, List, ListNotifications
  <2>2. OthersStay(u) /\ thread'[u].pc = "begin" /\ thread'[u].kind = kind
    BY <1>0, <2>1, SendBackOp DEF OthersStay
  <2>3. UNCHANGED <<heard, gone, messages, log>>
    BY <2>1 DEF SendBack, streams
  <2>4. ToBeLogged(u)'
    BY <2>2 DEF ToBeLogged, InSend, Talk, Unsent
  <2> QED
    BY <1>g, <2>2, <2>3, <2>4, QuietHistory
<1>3. CASE HangUp(u) \/ Read(u)
  <2>1. UNCHANGED <<heard, messages, thread, log>> /\ gone \subseteq gone'
    BY <1>3 DEF HangUp, Read
  <2>2. OthersStay(u) /\ Grows
    BY <2>1 DEF OthersStay, Grows
  <2> QED
    BY <2>1, <2>2, QuietHistory
<1>4. CASE Log(u)
  BY <1>4, LogHistory
<1>5. CASE Write(u)
  BY <1>5, WriteHistory
<1>6. CASE Going(u)
  <2>1. /\ OthersStay(u) /\ UNCHANGED <<messages, heard, gone, log>>
        /\ thread[u].pc \notin {"line", "chunks", "write"}
        /\ thread'[u].pc # "log"
        /\ thread'[u].kind = thread[u].kind
        /\ thread'[u].msg = thread[u].msg
        /\ thread'[u].rest = thread[u].rest
    BY <1>6, GoingFacts
  <2>2. thread[u].pc \in {"log", "answer"} => thread'[u].pc \in {"answer", "reply"}
    <3>1. ASSUME thread[u].pc \in {"log", "answer"} PROVE LogFails(u) \/ LockOwn(u)
      BY <1>6, <3>1 DEF Going, LoggedIn, LockAccounts, UnlockAccounts, LockNotification,
                        UnlockNotification, LockSocial, LockClients, LockSlot, EndEvent,
                        EndInvite, EndRows
    <3>2. ASSUME thread[u].pc \in {"log", "answer"}
          PROVE  Goes(u, "answer") \/ Goes(u, "reply")
      BY <3>1, <3>2 DEF LogFails, LockOwn
    <3> QED
      BY <1>0, <3>2, GoesOp DEF Pc
  <2>3. thread[u].pc # "reply"
    BY <1>6 DEF Going, LoggedIn, LockAccounts, UnlockAccounts, LockNotification,
                UnlockNotification, LockSocial, LockClients, LockSlot, EndEvent,
                EndInvite, EndRows, LogFails, LockOwn
  <2>4. InSend(u)' => InSend(u)
    BY <2>1, <2>2, <2>3 DEF InSend
  <2>5. Unsent(u)' => Unsent(u)
    BY <1>0, <2>1, <2>2, <2>3, GoingFacts, <1>6 DEF Unsent, Comes, Talk, TypeOK, Op, Pc
  <2>6. ToBeLogged(u)'
    BY <1>0, <2>1, <2>4, <2>5 DEF ToBeLogged
  <2> QED
    BY <1>g, <2>1, <2>6, QuietHistory
<1>7. CASE SkipSlot(u)
  <2>1. /\ OthersStay(u) /\ UNCHANGED <<heard, gone, messages, log>>
        /\ thread[u].kind \in {"event", "invite"} /\ thread[u].pc \in {"slot", "member"}
        /\ thread'[u].kind = thread[u].kind
        /\ thread'[u].pc = thread[u].pc /\ thread'[u].msg = thread[u].msg
    BY <1>0, <1>7 DEF SkipSlot, Excepted, TypeOK, OthersStay, Op, streams
  <2>2. ToBeLogged(u)'
    BY <1>0, <2>1 DEF ToBeLogged, InSend, Unsent
  <2> QED
    BY <1>g, <2>1, <2>2, QuietHistory
<1>8. CASE Header(u) \/ Chunk(u) \/ EndDownload(u)
  <2>1. /\ UNCHANGED <<heard, gone, messages, log>>
        /\ thread[u].pc \in {"header", "chunks"}
    BY <1>8 DEF Header, Chunk, EndDownload, streams
  <2>2. AtLine.pc = "line" /\ AtLine.kind = "none"
    BY DEF AtLine
  <2>3. OthersStay(u) /\ (thread'[u] = AtLine \/ thread'[u].kind = thread[u].kind)
    BY <1>0, <1>8, <2>1 DEF Header, Chunk, EndDownload, TypeOK, OthersStay, Op
  <2>4. thread'[u].kind \notin Talk /\ thread'[u].pc # "log"
    <3>1. thread[u].kind = "download"
      BY <1>0, <2>1 DEF Comes
    <3>2. thread'[u] = AtLine \/ thread'[u].pc \in {"header", "chunks"}
      BY <1>0, <1>8, <2>1 DEF Header, Chunk, EndDownload, TypeOK, Op
    <3> QED
      BY <2>2, <2>3, <3>1, <3>2 DEF Talk
  <2>5. ToBeLogged(u)'
    BY <2>4 DEF ToBeLogged, InSend, Unsent, Talk
  <2> QED
    BY <1>g, <2>1, <2>3, <2>5, QuietHistory
<1>9. CASE OwnLine(u) \/ Row(u)
  <2>1. /\ UNCHANGED <<heard, gone, messages, log>> /\ OthersStay(u)
        /\ thread'[u].pc \in {"line", "notify", "social", "row", "accounts", "item"}
        /\ thread'[u].kind \notin Talk
    BY <1>9, OwnLineFacts, RowFacts
  <2>2. ToBeLogged(u)'
    BY <2>1 DEF ToBeLogged, InSend, Unsent, Talk
  <2> QED
    BY <1>g, <2>1, <2>2, QuietHistory
<1> QED
  BY <1>1, <1>2, <1>3, <1>4, <1>5, <1>6, <1>7, <1>8, <1>9
     DEF ThreadStep, PeerStep, Going, OwnLine

LEMMA HistoryInitInv == Init => HistoryInv
<1> SUFFICES ASSUME Init PROVE HistoryInv
  OBVIOUS
<1>1. log = <<>> /\ \A u \in Users : thread[u].kind = "none" /\ thread[u].pc = "line"
  BY DEF Init, AtLine
<1>2. DOMAIN log = {} /\ ToSet(log) = {}
  BY <1>1, EmptySeqs
<1> QED
  BY <1>1, <1>2 DEF HistoryInv, LogOrdered, ToBeLogged, InSend, Talk, Unsent

(* Although chat.log is written after all mutexes have been given back, it *)
(* has the messages of each sender in his order and none of them twice,    *)
(* and whoever is connected has been sent what it has as sent to him.      *)
THEOREM HistoryAlwaysAgrees == Spec => []HistoryAgrees
<1>1. CommandsInv /\ OrderInv /\ HistoryInv /\ [Next]_vars => HistoryInv'
  <2>1. CASE UNCHANGED vars
    BY <2>1 DEF vars, streams, HistoryInv, LogOrdered, Arrived, ToBeLogged, InSend, Unsent
  <2> QED
    BY <2>1, HistoryStep DEF Next
<1>2. CommandsInv /\ HistoryInv => HistoryAgrees
  <2> SUFFICES ASSUME CommandsInv, HistoryInv PROVE HistoryAgrees
    OBVIOUS
  <2>1. \A u \in Users \ gone : GroupHistory \subseteq ToSet(heard[u])
    BY DEF HistoryInv, Arrived, GroupHistory, GroupMessages
  <2>2. \A u \in Users \ gone : \A v \in Users : \A m \in PrivateHistory(u, v) :
           u \in messages[m].to => m \in ToSet(heard[u])
    BY DEF HistoryInv, Arrived, PrivateHistory
  <2> QED
    BY <2>1, <2>2 DEF HistoryInv, LogOrdered, HistoryAgrees
<1> QED
  BY <1>1, <1>2, HistoryInitInv, OrderInvariant, PTL DEF Spec

-----------------------------------------------------------------------------
(* Nobody waits in a circle *)

Room(v) == v \in gone \/ Len(socket[v]) < Capacity

\* What a thread is waiting for is there: the guards of ThreadStep.
CanStep(u) ==
    \/ thread[u].pc \in {"begin", "clients"} /\ clients = Nobody
    \/ thread[u].pc = "accounts" /\ accounts = Nobody
    \/ thread[u].pc = "notify" /\ notification = Nobody
    \/ thread[u].pc = "social" /\ social = Nobody
    \/ thread[u].pc \in {"answer", "download", "open", "item"} /\ sending[u] = Nobody
    \/ /\ thread[u].pc = "member"
       /\ thread[u].rest = <<>> \/ Excepted(u) \/ notification = Nobody
    \/ /\ thread[u].pc = "slot"
       /\ thread[u].rest = <<>> \/ Excepted(u) \/ sending[Target(u)] = Nobody
    \/ thread[u].pc = "write" /\ Room(Target(u))
    \/ thread[u].pc \in {"reply", "opening", "listing", "header"} /\ Room(u)
    \/ thread[u].pc = "chunks" /\ (thread[u].chunks = 0 \/ Room(u))
    \/ thread[u].pc \in {"found", "noted", "row", "log"}

NoDeadlock ==
    \/ \A u \in Users : thread[u].pc = "line"
    \/ \E u \in Users : socket[u] # <<>> \/ CanStep(u)

\* Threads that wait for room in a socket only, or for nothing.
Writes == {"write", "reply", "opening", "listing", "header", "chunks"}
Runs   == {"found", "noted", "row", "log"}

\* Who waits for room in a socket has it once the socket is empty.
LEMMA EmptySocketsTakeAll ==
    ASSUME CommandsInv, \A v \in Users : socket[v] = <<>>,
           NEW u \in Users, thread[u].pc \in Writes \cup Runs
    PROVE  CanStep(u)
<1>1. \A v \in Users : Room(v)
  BY EmptySeqs, DeliveryAssumption DEF Room
<1>2. thread[u].pc = "write" => Target(u) \in Users
  BY OpFacts DEF CommandsInv, Places, Comes, Left, Target
<1> QED
  BY <1>1, <1>2 DEF CanStep, Writes, Runs

(* No command that runs is stuck: as long as there is one, some thread can *)
(* go on or some peer has something to read.  Mutexes are waited for in    *)
(* one order: under social_mutex, for any of the others; under             *)
(* notification_mutex, for a thread's own send_mutex (NOTIFICATIONS);      *)
(* under clients_mutex, for a send_mutex; under a send_mutex, for room in  *)
(* a socket only; under users_file_mutex, for nothing.                     *)
THEOREM NobodyWaitsInACircle == Spec => []NoDeadlock
<1>1. CommandsInv => NoDeadlock
  <2> SUFFICES ASSUME CommandsInv,
                      \A v \in Users : socket[v] = <<>>,
                      NEW u \in Users, thread[u].pc # "line"
               PROVE  \E w \in Users : CanStep(w)
    BY DEF NoDeadlock
  <2>0. TypeOK /\ MutexesHeld /\ SendingHeld /\ Places(u)
    BY DEF CommandsInv
  <2>1. CASE \E w \in Users : thread[w].pc \in Writes \cup Runs
    BY <2>1, EmptySocketsTakeAll
  <2>2. CASE \A w \in Users : thread[w].pc \notin Writes \cup Runs
    <3>1. ASSUME NEW v \in Users PROVE sending[v] = Nobody
      <4>1. sending[v] \in Users \cup {Nobody}
        BY <2>0 DEF TypeOK
      <4>2. ASSUME NEW w \in Users, sending[v] = w PROVE FALSE
        <5>1. HoldsSending(w, v)
          BY <2>0, <4>2 DEF SendingHeld
        <5> QED
          BY <2>2, <5>1 DEF HoldsSending, Writes
      <4> QED
        BY <4>1, <4>2
    <3>2. accounts = Nobody
      BY <2>0, <2>2 DEF TypeOK, MutexesHeld, AccountsHeld, HoldsAccounts, Runs
    <3>3. ASSUME NEW w \in Users,
                 thread[w].pc \in {"accounts", "slot", "answer", "download", "open", "item"}
          PROVE  CanStep(w)
      BY <3>1, <3>2, <3>3, OpFacts DEF CanStep, CommandsInv
    \* Who holds notification_mutex waits for his own send_mutex.
    <3>4. CASE notification # Nobody
      <4>1. PICK w \in Users : notification = w
        BY <2>0, <3>4 DEF TypeOK
      <4>2. thread[w].pc \in {"noted", "row", "item", "listing"}
        BY <2>0, <4>1 DEF MutexesHeld, NotificationHeld, HoldsNotification
      <4> QED
        BY <2>2, <3>3, <4>2 DEF Writes, Runs
    \* Who holds clients_mutex waits for a send_mutex.
    <3>5. CASE clients # Nobody
      <4>1. PICK w \in Users : clients = w
        BY <2>0, <3>5 DEF TypeOK
      <4>2. thread[w].pc \in {"slot", "write"}
        BY <2>0, <4>1 DEF MutexesHeld, ClientsHeld, HoldsClients
      <4> QED
        BY <2>2, <3>3, <4>2 DEF Writes
    <3>6. CASE notification = Nobody /\ clients = Nobody
      <4>1. ASSUME NEW w \in Users, thread[w].pc \notin {"line", "social"} PROVE CanStep(w)
        <5>1. thread[w].pc \in Pc
          BY <2>0, OpFacts DEF TypeOK, Op
        <5>2. CASE thread[w].pc \in {"begin", "clients", "notify", "member"}
          BY <3>6, <5>2 DEF CanStep
        <5> QED
          BY <2>2, <3>3, <4>1, <5>1, <5>2 DEF Pc, Writes, Runs
      \* Who holds social_mutex can go on now.
      <4>2. CASE social # Nobody
        <5>1. PICK w \in Users : social = w
          BY <2>0, <4>2 DEF TypeOK
        <5>2. thread[w].pc \notin {"line", "social"}
          BY <2>0, <5>1 DEF MutexesHeld, SocialHeld, HoldsSocial, Visiting
        <5> QED
          BY <4>1, <5>2
      <4>3. CASE social = Nobody
        <5>1. CASE thread[u].pc = "social"
          BY <4>3, <5>1 DEF CanStep
        <5> QED
          BY <4>1, <5>1
      <4> QED
        BY <4>2, <4>3
    <3> QED
      BY <3>4, <3>5, <3>6
  <2> QED
    BY <2>1, <2>2
<1> QED
  BY <1>1, CommandsInvariant, PTL

=============================================================================

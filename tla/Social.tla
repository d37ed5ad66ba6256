------------------------------- MODULE Social -------------------------------
(***************************************************************************)
(* Private requests, friends and groups (social.c and the PRIVATE* and     *)
(* GROUP_CREATE commands of server.c).                                     *)
(*                                                                         *)
(* The files are append-only.  social_mutex is held for one scan or for    *)
(* the appends of one operation: a scan and the append that relies on it   *)
(* are two critical sections, and the other side of a friendship may act   *)
(* in between.  Each critical section is an action.  The scans ask whether *)
(* a row is there and not where: a file of pairs is the number of times it *)
(* holds each pair.                                                        *)
(*                                                                         *)
(* An account has one logged-in connection at most (OneSessionPerAccount   *)
(* of Sessions): a thread that runs a command is named by its account.     *)
(*                                                                         *)
(* The scans use strtok, and so do those of users.db under another mutex   *)
(* (see Strtok): a scan may miss a row that is there, and it may take a    *)
(* field of users.db for the account it looks for and see a row that is    *)
(* not.  The properties hold of everybody but those whom a wrong answer    *)
(* of the very scan an append relied on concerned.                         *)
(***************************************************************************)
EXTENDS Naturals, Sequences, FiniteSets

CONSTANTS
    Accounts,
    NoOne,          \* no command in progress
    MaxRows,        \* bound: requests and friends hold a row this often at most
    MaxGroups,      \* bound: groups.db gets no more rows than this
    MaxNamed,       \* bound: friends named in one GROUP_CREATE
    MaxMisread      \* bound: different scans go wrong this often at most

VARIABLES
    requests,       \* private_requests.db: rows by sender and recipient
    friends,        \* friends.db: rows by who replied and who had asked
    groups,         \* groups.db: the group records, in file order
    members,        \* group_members.db: rows by group and account
    op,             \* the command each account's thread is running
    misread,        \* what scans got wrong, and for whom
    crossed,        \* pairs of whom both were about to append their friendship
    created,        \* groups their owners were told to have created
    unsolicited     \* messages accepted for somebody who is not a friend

vars == <<requests, friends, groups, members, op, misread, crossed, created, unsolicited>>

ASSUME SocialAssumption ==
    /\ MaxRows \in Nat
    /\ MaxGroups \in Nat
    /\ MaxNamed \in Nat
    /\ MaxMisread \in Nat
    /\ NoOne \notin Accounts

Pairs    == Accounts \X Accounts
GroupIds == 1 .. MaxGroups
Group    == [id : GroupIds, owner : Accounts]
Lists    == UNION {[1 .. n -> Accounts] : n \in 0 .. MaxNamed}

\* What no append relies on is not told apart.
Harmless == <<"harmless", <<NoOne, NoOne>>>>
Misread  == ({"missed request", "false request", "missed friend", "false friend"} \X Pairs)
                \cup {Harmless}

(* pc: "idle"                                                              *)
(*     "look up request"  PRIVATE_START or PRIVATE to a non-friend, before *)
(*                        social_has_private_request                       *)
(*     "save request"     before the append of the request                 *)
(*     "look up friend"   PRIVATE_REPLY without a request, before          *)
(*                        social_are_friends                               *)
(*     "check pair"       in social_add_friend_pair, before its scan       *)
(*     "add pair"         in social_add_friend_pair, before its append     *)
(*     "deliver"          before private_message                           *)
(*     "create"           before social_create_group                       *)
(*     "invite"           before notify_group_invited                      *)
(* asking is the private_request flag; list holds the friends GROUP_CREATE *)
(* named and group the id it was given.                                    *)
Op == [pc     : {"idle", "look up request", "save request", "look up friend",
                 "check pair", "add pair", "deliver", "create", "invite"},
       with   : Accounts \cup {NoOne},
       asking : BOOLEAN,
       list   : Lists,
       group  : GroupIds \cup {0}]

Idle == [pc |-> "idle", with |-> NoOne, asking |-> FALSE, list |-> <<>>, group |-> 0]

Init ==
    /\ requests = [p \in Pairs |-> 0]
    /\ friends = [p \in Pairs |-> 0]
    /\ groups = <<>>
    /\ members = [g \in GroupIds |-> [a \in Accounts |-> 0]]
    /\ op = [a \in Accounts |-> Idle]
    /\ misread = {}
    /\ crossed = {}
    /\ created = {}
    /\ unsolicited = [p \in Pairs |-> 0]

-----------------------------------------------------------------------------

\* social_are_friends: either order of the two accounts will do.
AreFriends(a, b) == friends[<<a, b>>] > 0 \/ friends[<<b, a>>] > 0

\* Fault: sender and recipient exchanged.
HasRequestFromSelf(from, to) == requests[<<to, from>>] > 0

\* social_has_private_request.
HasRequest(from, to) == requests[<<from, to>>] > 0

\* Scans get these things wrong.
ScansMisread(wrong) ==
    /\ misread' = misread \cup wrong
    /\ wrong # {} => Cardinality(misread') <= MaxMisread

\* A scan for a row takes it as seen or not; mistake is what it is to be wrong.
Scan(there, seen, mistake) == ScansMisread(IF seen = there THEN {} ELSE {mistake})

Goes(a, pc) == op' = [op EXCEPT ![a].pc = pc]
Done(a)     == op' = [op EXCEPT ![a] = Idle]

Starts(a, b, pc, asking) ==
    op' = [op EXCEPT ![a] = [Idle EXCEPT !.pc = pc, !.with = b, !.asking = asking]]

files == <<requests, friends, groups, members>>

-----------------------------------------------------------------------------
(* PRIVATE_START, PRIVATE *)

MessageFriend(a, b) ==
    /\ op[a].pc = "idle" /\ a # b
    /\ Scan(AreFriends(a, b), TRUE, Harmless)
    /\ Starts(a, b, "deliver", FALSE)
    /\ UNCHANGED <<files, crossed, created, unsolicited>>

MessageStranger(a, b) ==
    /\ op[a].pc = "idle" /\ a # b
    /\ Scan(AreFriends(a, b), FALSE, Harmless)
    /\ Starts(a, b, "look up request", TRUE)
    /\ UNCHANGED <<files, crossed, created, unsolicited>>

LookUpRequest(a) ==
    /\ op[a].pc = "look up request"
    /\ \E seen \in BOOLEAN :
        /\ Scan(HasRequest(a, op[a].with), seen,
                IF seen THEN Harmless ELSE <<"missed request", <<a, op[a].with>>>>)
        /\ Goes(a, IF seen THEN "deliver" ELSE "save request")
    /\ UNCHANGED <<files, crossed, created, unsolicited>>

SaveRequest(a) ==
    /\ op[a].pc = "save request"
    /\ requests[<<a, op[a].with>>] < MaxRows
    /\ requests' = [requests EXCEPT ![<<a, op[a].with>>] = @ + 1]
    /\ Goes(a, "deliver")
    /\ UNCHANGED <<friends, groups, members, misread, crossed, created, unsolicited>>

\* "ERR request save failed".
SaveRequestFails(a) ==
    /\ op[a].pc = "save request"
    /\ Done(a)
    /\ UNCHANGED <<files, misread, crossed, created, unsolicited>>

-----------------------------------------------------------------------------
(* PRIVATE_REPLY *)

ReplyToRequest(a, b) ==
    /\ op[a].pc = "idle" /\ a # b
    /\ Scan(HasRequest(b, a), TRUE, <<"false request", <<b, a>>>>)
    /\ Starts(a, b, "check pair", FALSE)
    /\ UNCHANGED <<files, crossed, created, unsolicited>>

ReplyToNothing(a, b) ==
    /\ op[a].pc = "idle" /\ a # b
    /\ Scan(HasRequest(b, a), FALSE, Harmless)
    /\ Starts(a, b, "look up friend", FALSE)
    /\ UNCHANGED <<files, crossed, created, unsolicited>>

\* A friend is sent the message; to anybody else the answer is "ERR no incoming
\* request from this user".
LookUpFriend(a) ==
    /\ op[a].pc = "look up friend"
    /\ \E seen \in BOOLEAN :
        /\ Scan(AreFriends(a, op[a].with), seen, Harmless)
        /\ IF seen THEN Goes(a, "deliver") ELSE Done(a)
    /\ UNCHANGED <<files, crossed, created, unsolicited>>

\* Fault: the pair is appended without a scan for it.
CheckPairNever(a) ==
    /\ op[a].pc = "check pair"
    /\ Goes(a, "add pair")
    /\ UNCHANGED <<files, misread, crossed, created, unsolicited>>

\* a has not found b among its friends and is to append the pair.
Appending(a, b) == op[a].pc = "add pair" /\ op[a].with = b

\* The scan of social_add_friend_pair.
CheckPair(a) ==
    LET b == op[a].with IN
    /\ op[a].pc = "check pair"
    /\ \E seen \in BOOLEAN :
        /\ Scan(AreFriends(a, b), seen,
                IF seen THEN Harmless ELSE <<"missed friend", <<a, b>>>>)
        /\ Goes(a, IF seen THEN "deliver" ELSE "add pair")
        /\ crossed' = IF ~seen /\ Appending(b, a) THEN crossed \cup {{a, b}} ELSE crossed
    /\ UNCHANGED <<files, created, unsolicited>>

\* The append of social_add_friend_pair.
AddPair(a) ==
    /\ op[a].pc = "add pair"
    /\ friends[<<a, op[a].with>>] < MaxRows
    /\ friends' = [friends EXCEPT ![<<a, op[a].with>>] = @ + 1]
    /\ Goes(a, "deliver")
    /\ UNCHANGED <<requests, groups, members, misread, crossed, created, unsolicited>>

\* It fails, and the message is sent all the same.
AddPairFails(a) ==
    /\ op[a].pc = "add pair"
    /\ Goes(a, "deliver")
    /\ UNCHANGED <<files, misread, crossed, created, unsolicited>>

-----------------------------------------------------------------------------

\* private_message, to the connection or the log and the notifications of the
\* recipient.  The history of messages to non-friends counts up to two.
Deliver(a) ==
    /\ op[a].pc = "deliver"
    /\ unsolicited' = IF op[a].asking /\ unsolicited[<<a, op[a].with>>] < 2
                        THEN [unsolicited EXCEPT ![<<a, op[a].with>>] = @ + 1]
                        ELSE unsolicited
    /\ Done(a)
    /\ UNCHANGED <<files, misread, crossed, created>>

\* "ERR private delivery failed".
DeliverFails(a) ==
    /\ op[a].pc = "deliver"
    /\ Done(a)
    /\ UNCHANGED <<files, misread, crossed, created, unsolicited>>

-----------------------------------------------------------------------------
(* GROUP_CREATE *)

\* Fault: whoever is named becomes a member.
CollectAnybody(a, list) ==
    /\ op[a].pc = "idle"
    /\ list # <<>>
    /\ op' = [op EXCEPT ![a] = [Idle EXCEPT !.pc = "create", !.list = list]]
    /\ UNCHANGED <<files, misread, crossed, created, unsolicited>>

(* The names are looked up one after the other and those that are not a    *)
(* friend's are skipped: list is what is left, with the friends that were  *)
(* missed left out and some who are none taken in.  A friend stays a       *)
(* friend, so the look-ups are one action.                                 *)
Collect(a, list) ==
    /\ op[a].pc = "idle"
    /\ list # <<>>
    /\ \A i \in DOMAIN list : list[i] # a
    /\ ScansMisread({<<"false friend", <<a, list[i]>>>> :
                        i \in {j \in DOMAIN list : ~AreFriends(a, list[j])}})
    /\ op' = [op EXCEPT ![a] = [Idle EXCEPT !.pc = "create", !.list = list]]
    /\ UNCHANGED <<files, crossed, created, unsolicited>>

\* next_group_id_unlocked: one more than the largest id.
IsNextGroupId(id) ==
    /\ \A i \in DOMAIN groups : groups[i].id < id
    /\ id = 1 \/ \E i \in DOMAIN groups : groups[i].id = id - 1

\* Fault: the fields of a group record exchanged.
GroupRecordSwapped(id, a) == [id |-> a, owner |-> id]

\* A record of groups.db; the name of the group is left out.
GroupRecord(id, a) == [id |-> id, owner |-> a]

\* The rows of a new group in the order in which they are appended.
MemberRows(a, list) == <<a>> \o list

\* The first n of these rows are appended.
Appended(id, list, n) ==
    [members EXCEPT ![id] =
        [a \in Accounts |-> @[a] + Cardinality({i \in 1 .. n : list[i] = a})]]

\* Fault: a failed append of a member goes unnoticed.
CreateGroupUnnoticed(a, n) ==
    LET list == MemberRows(a, op[a].list) IN
    /\ op[a].pc = "create"
    /\ n <= Len(list)
    /\ Len(groups) < MaxGroups
    /\ \E id \in GroupIds :
        /\ IsNextGroupId(id)
        /\ groups' = Append(groups, GroupRecord(id, a))
        /\ members' = Appended(id, list, n)
        /\ op' = [op EXCEPT ![a].pc = "invite", ![a].group = id]
    /\ UNCHANGED <<requests, friends, misread, crossed, created, unsolicited>>

(* social_create_group: the group record, then a row for the owner and one *)
(* for each member.  Every append may fail, and what was appended before   *)
(* stays: n rows of members have been written, and the group is complete   *)
(* when that is all of them.                                               *)
CreateGroup(a, n) ==
    LET list == MemberRows(a, op[a].list) IN
    /\ op[a].pc = "create"
    /\ n <= Len(list)
    /\ Len(groups) < MaxGroups
    /\ \E id \in GroupIds :
        /\ IsNextGroupId(id)
        /\ groups' = Append(groups, GroupRecord(id, a))
        /\ members' = Appended(id, list, n)
        /\ op' = [op EXCEPT ![a] = IF n = Len(list)
                                     THEN [@ EXCEPT !.pc = "invite", !.group = id]
                                     ELSE Idle]
    /\ UNCHANGED <<requests, friends, misread, crossed, created, unsolicited>>

\* Not even the group record is appended.
CreateGroupFails(a) ==
    /\ op[a].pc = "create"
    /\ Done(a)
    /\ UNCHANGED <<files, misread, crossed, created, unsolicited>>

\* notify_group_invited, then "OK group <id> created".
Invite(a) ==
    /\ op[a].pc = "invite"
    /\ created' = created \cup {[id |-> op[a].group, owner |-> a, list |-> op[a].list]}
    /\ Done(a)
    /\ UNCHANGED <<files, misread, crossed, unsolicited>>

-----------------------------------------------------------------------------

\* The server is killed and started again.
Crash ==
    /\ op' = [a \in Accounts |-> Idle]
    /\ UNCHANGED <<files, misread, crossed, created, unsolicited>>

MessageStep(a) ==
    \/ \E b \in Accounts : MessageFriend(a, b) \/ MessageStranger(a, b)
    \/ LookUpRequest(a)
    \/ SaveRequest(a)
    \/ SaveRequestFails(a)
    \/ \E b \in Accounts : ReplyToRequest(a, b) \/ ReplyToNothing(a, b)
    \/ LookUpFriend(a)
    \/ CheckPair(a)
    \/ AddPair(a)
    \/ AddPairFails(a)
    \/ Deliver(a)
    \/ DeliverFails(a)

GroupStep(a) ==
    \/ \E list \in Lists : Collect(a, list)
    \/ \E n \in 0 .. MaxNamed + 1 : CreateGroup(a, n)
    \/ CreateGroupFails(a)
    \/ Invite(a)

Next == Crash \/ \E a \in Accounts : MessageStep(a) \/ GroupStep(a)

Spec == Init /\ [][Next]_vars

-----------------------------------------------------------------------------

TypeOK ==
    /\ requests \in [Pairs -> Nat]
    /\ friends \in [Pairs -> Nat]
    /\ groups \in Seq(Group)
    /\ members \in [GroupIds -> [Accounts -> Nat]]
    /\ op \in [Accounts -> Op]
    /\ misread \subseteq Misread
    /\ crossed \subseteq SUBSET Accounts
    /\ created \subseteq [id : GroupIds, owner : Accounts, list : Lists]
    /\ unsolicited \in [Pairs -> 0 .. 2]

\* The rows of friends.db that name both, each of which FRIENDS lists.
Rows(a, b) == friends[<<a, b>>] + friends[<<b, a>>]

(* A request is on file once, unless the scan before its append missed it. *)
(* A friendship is on file once, whoever of the two replied, unless such a *)
(* scan missed it or both replied at the same time: social_add_friend_pair *)
(* looks for the row in one critical section and appends it in another,    *)
(* and when both have looked before either appends there are two rows, no  *)
(* more however often they reply, and FRIENDS lists the friend twice.      *)
RowsUnique ==
    \A a \in Accounts : \A b \in Accounts \ {a} :
        /\ requests[<<a, b>>] <= 1 \/ <<"missed request", <<a, b>>>> \in misread
        /\ \/ Rows(a, b) <= IF {a, b} \in crossed THEN 2 ELSE 1
           \/ <<"missed friend", <<a, b>>>> \in misread
           \/ <<"missed friend", <<b, a>>>> \in misread

(* Two accounts are friends only if the one had asked and the other        *)
(* replied: the row names who replied, and there is a request to him from  *)
(* the other, or the look-up for his reply saw one that was not there.     *)
FriendshipsByConsent ==
    \A a, b \in Accounts : friends[<<a, b>>] > 0 =>
        requests[<<b, a>>] > 0 \/ <<"false request", <<b, a>>>> \in misread

\* Friends, or not and the look-up of a name for a group saw a friendship.
TakenForFriends(a, b) == AreFriends(a, b) \/ <<"false friend", <<a, b>>>> \in misread

(* Every group has an id of its own, and every member of a group is its    *)
(* owner or a friend of its owner (docs/backend_protocol.md: groups are    *)
(* created from existing friends only); this holds of groups that were     *)
(* only partly written too, and nobody is a member of a group that is not  *)
(* on file.  A look-up that saw a friendship that was not there excuses    *)
(* only that owner and that member.                                        *)
MembersAreFriends ==
    \A g \in GroupIds, a \in Accounts : members[g][a] > 0 =>
        \E i \in DOMAIN groups :
            /\ groups[i].id = g
            /\ groups[i].owner = a \/ TakenForFriends(groups[i].owner, a)
            /\ \A j \in DOMAIN groups : groups[j].id = g => j = i

(* A group its owner was told to have created is complete: its record, the *)
(* owner's row and one for every name are on file, in spite of failed      *)
(* appends and of kills of the server.  Of a group that failed half-way    *)
(* the owner is the first member: he can always send to what others see.   *)
CreatedGroupsComplete ==
    /\ \A c \in created :
            /\ \E i \in DOMAIN groups : groups[i] = [id |-> c.id, owner |-> c.owner]
            /\ members[c.id][c.owner] > 0
            /\ \A i \in DOMAIN c.list : members[c.id][c.list[i]] > 0
    /\ \A i \in DOMAIN groups :
            (\E a \in Accounts : members[groups[i].id][a] > 0)
                => members[groups[i].id][groups[i].owner] > 0

(* docs/backend_protocol.md: a non-friend may send one initial message.    *)
(* The request is saved once; each further PRIVATE_START is delivered.     *)
OneInitialMessage == \A p \in Pairs : unsolicited[p] <= 1
=============================================================================

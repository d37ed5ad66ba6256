---------------------------- MODULE SocialProofs ----------------------------
(***************************************************************************)
(* Theorems about requests, friends and groups, for any accounts and any   *)
(* sizes of the files.                                                     *)
(***************************************************************************)
EXTENDS Social, SequenceTheorems, FiniteSetTheorems, TLAPS

-----------------------------------------------------------------------------
(* The inductive invariant *)

\* b has asked a, or the look-up for the reply of a saw a request.
AskedBy(b, a) == requests[<<b, a>>] > 0 \/ <<"false request", <<b, a>>>> \in misread

\* What a thread between two critical sections relies on.
CommandConsistent(a) ==
    /\ op[a].pc \in {"look up request", "save request", "look up friend",
                     "check pair", "add pair", "deliver"} => op[a].with \in Accounts \ {a}
    /\ op[a].pc \in {"check pair", "add pair"} => AskedBy(op[a].with, a)

\* a has not found its request to b and is to append it.
Saving(a, b) == op[a].pc = "save request" /\ op[a].with = b

RequestMissed(a, b) == <<"missed request", <<a, b>>>> \in misread

\* Whoever is about to append a request will append the first.
RequestOnce(a, b) ==
    \/ RequestMissed(a, b)
    \/ requests[<<a, b>>] <= 1 /\ (Saving(a, b) => requests[<<a, b>>] = 0)

FriendshipMissed(a, b) ==
    <<"missed friend", <<a, b>>>> \in misread \/ <<"missed friend", <<b, a>>>> \in misread

\* One that is about to append a friendship finds room for its row.
FriendshipOnce(a, b) ==
    \/ FriendshipMissed(a, b)
    \/ /\ Rows(a, b) <= 2 /\ ({a, b} \notin crossed => Rows(a, b) <= 1)
       /\ Appending(a, b) \/ Appending(b, a) =>
            Rows(a, b) <= 1 /\ ({a, b} \notin crossed => Rows(a, b) = 0)
       /\ Appending(a, b) /\ Appending(b, a) => Rows(a, b) = 0 /\ {a, b} \in crossed

FriendsOnly(a) ==
    op[a].pc \in {"create", "invite"} =>
        \A i \in DOMAIN op[a].list : TakenForFriends(a, op[a].list[i])

\* The record of the group, the row of its owner and those of the members.
GroupComplete(id, owner, list) ==
    /\ \E i \in DOMAIN groups : groups[i] = [id |-> id, owner |-> owner]
    /\ members[id][owner] > 0
    /\ \A i \in DOMAIN list : members[id][list[i]] > 0

Inviting(a) ==
    op[a].pc = "invite" =>
        op[a].group \in GroupIds /\ GroupComplete(op[a].group, a, op[a].list)

PairsInv ==
    /\ FriendshipsByConsent
    /\ \A a \in Accounts : CommandConsistent(a)
    /\ \A a \in Accounts : \A b \in Accounts \ {a} : RequestOnce(a, b) /\ FriendshipOnce(a, b)

GroupsInv ==
    /\ MembersAreFriends
    /\ CreatedGroupsComplete
    /\ \A a \in Accounts : FriendsOnly(a) /\ Inviting(a)

SocialInv == TypeOK /\ PairsInv /\ GroupsInv

-----------------------------------------------------------------------------
(* Facts *)

LEMMA ListFacts ==
    ASSUME NEW list \in Lists
    PROVE  /\ list \in Seq(Accounts) /\ Len(list) \in Nat
           /\ DOMAIN list = 1 .. Len(list)
           /\ \A i \in DOMAIN list : list[i] \in Accounts
<1>1. PICK n \in 0 .. MaxNamed : list \in [1 .. n -> Accounts]
  BY DEF Lists
<1>2. n \in Nat
  BY <1>1, SocialAssumption
<1>3. list \in Seq(Accounts)
  BY <1>1, <1>2
<1> QED
  BY <1>1, <1>3, LenProperties

LEMMA EmptyList == <<>> \in Lists
<1>1. <<>> \in [1 .. 0 -> Accounts]
  BY SocialAssumption
<1>2. 0 \in 0 .. MaxNamed
  BY SocialAssumption
<1> QED
  BY <1>1, <1>2 DEF Lists

LEMMA OpFacts ==
    ASSUME TypeOK, NEW a \in Accounts
    PROVE  /\ op[a] \in Op /\ op[a].with \in Accounts \cup {NoOne}
           /\ op[a].list \in Lists /\ op[a].group \in GroupIds \cup {0}
           /\ Idle \in Op
<1>1. op[a] \in Op
  BY DEF TypeOK
<1>2. Idle \in Op
  BY EmptyList DEF Idle, Op
<1> QED
  BY <1>1, <1>2 DEF Op

\* The threads of the others do nothing meanwhile.
OpTyped(a) ==
    /\ op' \in [Accounts -> Op]
    /\ \A b \in Accounts \ {a} : op'[b] = op[b]

LEMMA StartsOp ==
    ASSUME TypeOK, NEW a \in Accounts, NEW b \in Accounts, NEW asking \in BOOLEAN,
           NEW pc \in {"deliver", "look up request", "check pair", "look up friend"},
           Starts(a, b, pc, asking)
    PROVE  OpTyped(a) /\ op'[a].pc = pc /\ op'[a].with = b
<1> DEFINE new == [Idle EXCEPT !.pc = pc, !.with = b, !.asking = asking]
<1>1. new \in Op /\ new.pc = pc /\ new.with = b
  BY EmptyList DEF Idle, Op
<1>2. op \in [Accounts -> Op] /\ op' = [op EXCEPT ![a] = new]
  BY DEF TypeOK, Starts
<1> QED
  BY <1>1, <1>2 DEF OpTyped

LEMMA GoesOp ==
    ASSUME TypeOK, NEW a \in Accounts,
           NEW pc \in {"save request", "check pair", "add pair", "deliver"}, Goes(a, pc)
    PROVE  OpTyped(a) /\ op'[a].pc = pc /\ op'[a].with = op[a].with
<1> DEFINE new == [op[a] EXCEPT !.pc = pc]
<1>1. new \in Op /\ new.pc = pc /\ new.with = op[a].with
  BY OpFacts DEF Op
<1>2. op \in [Accounts -> Op] /\ op' = [op EXCEPT ![a] = new]
  BY DEF TypeOK, Goes
<1> QED
  BY <1>1, <1>2 DEF OpTyped

LEMMA DoneOp ==
    ASSUME TypeOK, NEW a \in Accounts, Done(a)
    PROVE  OpTyped(a) /\ op'[a] = Idle /\ op'[a].pc = "idle"
<1>1. op \in [Accounts -> Op] /\ op' = [op EXCEPT ![a] = Idle]
  BY DEF TypeOK, Done
<1> QED
  BY <1>1, OpFacts DEF OpTyped, Idle

-----------------------------------------------------------------------------
(* Friendships *)

PairsGrow ==
    /\ requests' \in [Pairs -> Nat] /\ friends' \in [Pairs -> Nat]
    /\ \A p \in Pairs : requests'[p] >= requests[p] /\ friends'[p] >= friends[p]
    /\ misread \subseteq misread' /\ crossed \subseteq crossed'

\* Each account appends its own requests and its own friendships only.
OnlyOwnPairs(a) ==
    \A b \in Accounts \ {a}, c \in Accounts :
        requests'[<<b, c>>] = requests[<<b, c>>] /\ friends'[<<b, c>>] = friends[<<b, c>>]

LEMMA Numbers ==
    /\ \A n \in Nat : ~(n > 0) => n = 0
    /\ 0 <= 1 /\ 0 <= 2 /\ 0 + 0 = 0
OBVIOUS

LEMMA PairsStay ==
    ASSUME TypeOK, UNCHANGED <<requests, friends>>,
           misread \subseteq misread', crossed \subseteq crossed'
    PROVE  PairsGrow
<1>1. requests \in [Pairs -> Nat] /\ friends \in [Pairs -> Nat]
  BY DEF TypeOK
<1>2. \A p \in Pairs : requests[p] >= requests[p] /\ friends[p] >= friends[p]
  BY <1>1
<1> QED
  BY <1>1, <1>2 DEF PairsGrow

LEMMA PairTypes ==
    ASSUME TypeOK, NEW a \in Accounts, NEW b \in Accounts
    PROVE  /\ <<a, b>> \in Pairs
           /\ requests[<<a, b>>] \in Nat /\ friends[<<a, b>>] \in Nat /\ Rows(a, b) \in Nat
<1>1. /\ <<a, b>> \in Pairs /\ <<b, a>> \in Pairs
      /\ requests \in [Pairs -> Nat] /\ friends \in [Pairs -> Nat]
  BY DEF TypeOK, Pairs
<1>2. requests[<<a, b>>] \in Nat /\ friends[<<a, b>>] \in Nat /\ friends[<<b, a>>] \in Nat
  BY <1>1
<1> QED
  BY <1>1, <1>2 DEF Rows

LEMMA RowsSymmetric ==
    ASSUME TypeOK, NEW a \in Accounts, NEW b \in Accounts
    PROVE  Rows(a, b) = Rows(b, a) /\ {a, b} = {b, a}
BY PairTypes DEF Rows

\* The invariant says what the property does.
LEMMA PairsUnique == ASSUME TypeOK, PairsInv PROVE RowsUnique
<1> SUFFICES ASSUME NEW a \in Accounts, NEW b \in Accounts \ {a}
             PROVE  /\ requests[<<a, b>>] <= 1 \/ <<"missed request", <<a, b>>>> \in misread
                    /\ \/ Rows(a, b) <= IF {a, b} \in crossed THEN 2 ELSE 1
                       \/ <<"missed friend", <<a, b>>>> \in misread
                       \/ <<"missed friend", <<b, a>>>> \in misread
  BY DEF RowsUnique
<1>1. RequestOnce(a, b) /\ FriendshipOnce(a, b)
  BY DEF PairsInv
<1>2. requests[<<a, b>>] <= 1 \/ <<"missed request", <<a, b>>>> \in misread
  BY <1>1 DEF RequestOnce, RequestMissed
<1>3. \/ Rows(a, b) <= 2 /\ ({a, b} \notin crossed => Rows(a, b) <= 1)
      \/ FriendshipMissed(a, b)
  BY <1>1 DEF FriendshipOnce
<1> QED
  BY <1>2, <1>3 DEF FriendshipMissed

\* Who has been asked remains so.
LEMMA AskedStays ==
    ASSUME TypeOK, PairsGrow, NEW a \in Accounts, NEW b \in Accounts, AskedBy(b, a)
    PROVE  AskedBy(b, a)'
<1>1. /\ requests[<<b, a>>] \in Nat /\ requests'[<<b, a>>] \in Nat
      /\ requests'[<<b, a>>] >= requests[<<b, a>>]
  BY DEF TypeOK, PairsGrow, Pairs
<1>2. requests[<<b, a>>] > 0 => requests'[<<b, a>>] > 0
  BY <1>1
<1>3. misread \subseteq misread'
  BY DEF PairsGrow
<1> QED
  BY <1>2, <1>3 DEF AskedBy

\* What somebody else does leaves an account what it relies on.
LEMMA OthersKeepCommand ==
    ASSUME TypeOK, PairsInv, NEW a \in Accounts, NEW b \in Accounts \ {a},
           PairsGrow, OpTyped(a)
    PROVE  CommandConsistent(b)'
<1>1. CommandConsistent(b) /\ op'[b] = op[b]
  BY DEF PairsInv, OpTyped
<1>2. CASE op[b].with \in Accounts
  <2>1. PICK w \in Accounts : w = op[b].with
    BY <1>2
  <2>2. AskedBy(w, b) => AskedBy(w, b)'
    BY AskedStays
  <2> QED
    BY <1>1, <2>1, <2>2 DEF CommandConsistent, AskedBy
<1>3. CASE op[b].with \notin Accounts
  BY <1>1, <1>3 DEF CommandConsistent
<1> QED
  BY <1>2, <1>3

LEMMA OthersKeepRequest ==
    ASSUME PairsInv, NEW a \in Accounts, NEW b \in Accounts \ {a}, NEW c \in Accounts \ {b},
           PairsGrow, OnlyOwnPairs(a), OpTyped(a)
    PROVE  RequestOnce(b, c)'
<1>1. RequestOnce(b, c)
  BY DEF PairsInv
<1>2. op'[b] = op[b] /\ requests'[<<b, c>>] = requests[<<b, c>>] /\ misread \subseteq misread'
  BY DEF OpTyped, OnlyOwnPairs, PairsGrow
<1>3. Saving(b, c)' <=> Saving(b, c)
  BY <1>2 DEF Saving
<1> QED
  BY <1>1, <1>2, <1>3 DEF RequestOnce, RequestMissed

LEMMA OthersKeepFriendship ==
    ASSUME PairsInv, NEW a \in Accounts, NEW b \in Accounts \ {a}, NEW c \in Accounts \ {a, b},
           PairsGrow, OnlyOwnPairs(a), OpTyped(a)
    PROVE  FriendshipOnce(b, c)'
<1>1. FriendshipOnce(b, c)
  BY DEF PairsInv
<1>2. /\ op'[b] = op[b] /\ op'[c] = op[c]
      /\ friends'[<<b, c>>] = friends[<<b, c>>] /\ friends'[<<c, b>>] = friends[<<c, b>>]
      /\ misread \subseteq misread' /\ crossed \subseteq crossed'
  BY DEF OpTyped, OnlyOwnPairs, PairsGrow
<1>3. (Appending(b, c)' <=> Appending(b, c)) /\ (Appending(c, b)' <=> Appending(c, b))
  BY <1>2 DEF Appending
<1>4. Rows(b, c)' = Rows(b, c)
  BY <1>2 DEF Rows
<1>5. FriendshipMissed(b, c) => FriendshipMissed(b, c)'
  BY <1>2 DEF FriendshipMissed
<1> QED
  BY <1>1, <1>2, <1>3, <1>4, <1>5 DEF FriendshipOnce

\* It is enough to look at the pairs of the account that acts.
LEMMA OwnPairsEnough ==
    ASSUME TypeOK, PairsInv, NEW a \in Accounts, PairsGrow, OnlyOwnPairs(a), OpTyped(a),
           FriendshipsByConsent', CommandConsistent(a)',
           \A b \in Accounts \ {a} : RequestOnce(a, b)' /\ FriendshipOnce(a, b)'
    PROVE  PairsInv'
<1>1. \A b \in Accounts : CommandConsistent(b)'
  BY OthersKeepCommand
<1>2. ASSUME NEW b \in Accounts, NEW c \in Accounts \ {b}
      PROVE  RequestOnce(b, c)' /\ FriendshipOnce(b, c)'
  <2>1. RequestOnce(b, c)'
    BY OthersKeepRequest
  <2>2. CASE b = a
    BY <2>1, <2>2
  <2>3. CASE b # a /\ c # a
    BY <2>1, <2>3, OthersKeepFriendship
  <2>4. CASE b # a /\ c = a
    <3>1. FriendshipOnce(c, b)'
      BY <2>4
    <3>2. \A p \in Pairs : friends'[p] \in Nat
      BY DEF PairsGrow
    <3>3. Rows(c, b)' = Rows(b, c)' /\ {b, c} = {c, b}
      BY <3>2 DEF Rows, Pairs
    <3>4. FriendshipMissed(c, b)' <=> FriendshipMissed(b, c)'
      BY DEF FriendshipMissed
    <3> QED
      BY <2>1, <3>1, <3>3, <3>4 DEF FriendshipOnce
  <2> QED
    BY <2>2, <2>3, <2>4
<1> QED
  BY <1>1, <1>2 DEF PairsInv

\* A step that appends no pair and is not going to.
LEMMA NoPairInv ==
    ASSUME TypeOK, PairsInv, NEW a \in Accounts, UNCHANGED <<requests, friends>>,
           OpTyped(a), misread \subseteq misread', crossed \subseteq crossed',
           CommandConsistent(a)', op'[a].pc \notin {"save request", "add pair"}
    PROVE  PairsInv'
<1>1. PairsGrow /\ OnlyOwnPairs(a)
  BY PairsStay DEF OnlyOwnPairs
<1>2. FriendshipsByConsent'
  BY DEF PairsInv, FriendshipsByConsent
<1>3. ASSUME NEW b \in Accounts \ {a} PROVE RequestOnce(a, b)' /\ FriendshipOnce(a, b)'
  <2>1. RequestOnce(a, b) /\ FriendshipOnce(a, b)
    BY DEF PairsInv
  <2>2. ~Saving(a, b)' /\ ~Appending(a, b)'
    BY DEF Saving, Appending
  <2>3. Appending(b, a)' <=> Appending(b, a)
    BY DEF OpTyped, Appending
  <2>4. RequestOnce(a, b)'
    BY <2>1, <2>2 DEF RequestOnce, RequestMissed
  <2>5. Rows(a, b)' = Rows(a, b)
    BY DEF Rows
  <2>6. FriendshipMissed(a, b) => FriendshipMissed(a, b)'
    BY DEF FriendshipMissed
  <2> QED
    BY <2>1, <2>2, <2>3, <2>4, <2>5, <2>6 DEF FriendshipOnce
<1> QED
  BY <1>1, <1>2, <1>3, OwnPairsEnough

\* The scan has not found the request, or was wrong.
LEMMA ToSaveRequestPairs ==
    ASSUME TypeOK, PairsInv, NEW a \in Accounts, NEW b \in Accounts \ {a},
           UNCHANGED <<requests, friends, crossed>>, misread \subseteq misread', OpTyped(a),
           requests[<<a, b>>] > 0 => RequestMissed(a, b)',
           op'[a].pc = "save request", op'[a].with = b
    PROVE  PairsInv'
<1>1. PairsGrow /\ OnlyOwnPairs(a)
  BY PairsStay DEF OnlyOwnPairs
<1>2. FriendshipsByConsent' /\ CommandConsistent(a)'
  BY DEF PairsInv, FriendshipsByConsent, CommandConsistent
<1>3. ASSUME NEW c \in Accounts \ {a} PROVE RequestOnce(a, c)' /\ FriendshipOnce(a, c)'
  <2>1. RequestOnce(a, c) /\ FriendshipOnce(a, c) /\ requests[<<a, c>>] \in Nat
    BY PairTypes DEF PairsInv
  <2>2. (Saving(a, c)' => c = b) /\ ~Appending(a, c)'
    BY DEF Saving, Appending
  <2>3. Appending(c, a)' <=> Appending(c, a)
    BY DEF OpTyped, Appending
  <2>4. RequestOnce(a, c)'
    <3>1. CASE c = b /\ requests[<<a, c>>] > 0
      <4>1. RequestMissed(a, c)'
        BY <3>1
      <4> QED
        BY <4>1 DEF RequestOnce
    <3>2. CASE c = b /\ ~(requests[<<a, c>>] > 0)
      <4>1. requests'[<<a, c>>] = 0
        BY <2>1, <3>2, Numbers, Zenon
      <4> QED
        BY <4>1, Numbers, Zenon DEF RequestOnce
    <3>3. CASE c # b
      <4>1. ~Saving(a, c)'
        BY <2>2, <3>3
      <4> QED
        BY <2>1, <4>1 DEF RequestOnce, RequestMissed
    <3> QED
      BY <3>1, <3>2, <3>3
  <2>5. Rows(a, c)' = Rows(a, c)
    BY DEF Rows
  <2>6. FriendshipMissed(a, c) => FriendshipMissed(a, c)'
    BY DEF FriendshipMissed
  <2> QED
    BY <2>1, <2>2, <2>3, <2>4, <2>5, <2>6 DEF FriendshipOnce
<1> QED
  BY <1>1, <1>2, <1>3, OwnPairsEnough

\* The scan has not found the friendship, or was wrong; the other one may be as far.
LEMMA ToAddPairPairs ==
    ASSUME TypeOK, PairsInv, NEW a \in Accounts, NEW b \in Accounts \ {a},
           UNCHANGED <<requests, friends>>, misread \subseteq misread', OpTyped(a),
           AreFriends(a, b) => FriendshipMissed(a, b)',
           crossed' = IF Appending(b, a) THEN crossed \cup {{a, b}} ELSE crossed,
           AskedBy(b, a), op'[a].pc = "add pair", op'[a].with = b
    PROVE  PairsInv'
<1>1. PairsGrow /\ OnlyOwnPairs(a)
  BY PairsStay DEF OnlyOwnPairs
<1>2. FriendshipsByConsent'
  BY DEF PairsInv, FriendshipsByConsent
<1>3. CommandConsistent(a)'
  <2>1. AskedBy(b, a)'
    BY <1>1, AskedStays
  <2> QED
    BY <2>1 DEF CommandConsistent, AskedBy
<1>4. ASSUME NEW c \in Accounts \ {a} PROVE RequestOnce(a, c)' /\ FriendshipOnce(a, c)'
  <2>1. /\ RequestOnce(a, c) /\ FriendshipOnce(a, c) /\ crossed \subseteq crossed'
        /\ friends[<<a, c>>] \in Nat /\ friends[<<c, a>>] \in Nat
    BY PairTypes DEF PairsInv
  <2>2. ~Saving(a, c)' /\ (Appending(a, c)' => c = b)
    BY DEF Saving, Appending
  <2>3. Appending(c, a)' <=> Appending(c, a)
    BY DEF OpTyped, Appending
  <2>4. RequestOnce(a, c)'
    BY <2>1, <2>2 DEF RequestOnce, RequestMissed
  <2>5. Rows(a, c)' = Rows(a, c)
    BY DEF Rows
  <2>6. FriendshipMissed(a, c) => FriendshipMissed(a, c)'
    BY DEF FriendshipMissed
  <2>7. CASE c # b
    BY <2>1, <2>2, <2>3, <2>4, <2>5, <2>6, <2>7 DEF FriendshipOnce
  <2>8. CASE c = b
    <3>1. CASE AreFriends(a, b)
      <4>1. FriendshipMissed(a, c)'
        BY <2>8, <3>1
      <4> QED
        BY <2>4, <4>1 DEF FriendshipOnce
    <3>2. CASE ~AreFriends(a, b)
      <4>1. Rows(a, c) = 0
        <5>1. ~(friends[<<a, c>>] > 0) /\ ~(friends[<<c, a>>] > 0)
          BY <2>8, <3>2, Zenon DEF AreFriends
        <5>2. friends[<<a, c>>] = 0 /\ friends[<<c, a>>] = 0
          BY <2>1, <5>1, Numbers, Zenon
        <5> QED
          BY <5>2, Numbers, Zenon DEF Rows
      <4>2. Appending(c, a) => {a, c} \in crossed'
        BY <2>8
      <4>3. Rows(a, c)' = 0 /\ 0 <= 1 /\ 0 <= 2
        BY <2>5, <4>1, Numbers, Zenon
      <4>4. Appending(c, a)' => {a, c} \in crossed'
        BY <2>3, <4>2
      <4> QED
        BY <2>4, <4>3, <4>4, Zenon DEF FriendshipOnce
    <3> QED
      BY <3>1, <3>2
  <2> QED
    BY <2>7, <2>8
<1> QED
  BY <1>1, <1>2, <1>3, <1>4, OwnPairsEnough

\* PRIVATE_START appends a request.
LEMMA SaveRequestPairs ==
    ASSUME TypeOK, PairsInv, NEW a \in Accounts, SaveRequest(a)
    PROVE  PairsInv' /\ PairsGrow
<1>1. PICK b \in Accounts \ {a} : b = op[a].with
  BY DEF PairsInv, CommandConsistent, SaveRequest
<1>2. /\ requests \in [Pairs -> Nat] /\ friends \in [Pairs -> Nat] /\ <<a, b>> \in Pairs
      /\ requests' = [requests EXCEPT ![<<a, b>>] = @ + 1]
      /\ UNCHANGED <<friends, misread, crossed>> /\ Goes(a, "deliver") /\ Saving(a, b)
  BY <1>1 DEF TypeOK, SaveRequest, Pairs, Saving
<1>3. /\ requests'[<<a, b>>] = requests[<<a, b>>] + 1
      /\ requests[<<a, b>>] \in Nat
      /\ \A p \in Pairs : p # <<a, b>> => requests'[p] = requests[p]
      /\ requests' \in [Pairs -> Nat]
  BY <1>2
<1>4. PairsGrow
  BY <1>2, <1>3 DEF PairsGrow
<1>5. OnlyOwnPairs(a)
  <2> SUFFICES ASSUME NEW x \in Accounts \ {a}, NEW y \in Accounts
               PROVE  requests'[<<x, y>>] = requests[<<x, y>>]
    BY <1>2 DEF OnlyOwnPairs
  <2>1. <<x, y>> \in Pairs /\ <<x, y>> # <<a, b>>
    BY DEF Pairs
  <2> QED
    BY <1>3, <2>1
<1>6. OpTyped(a) /\ op'[a].pc = "deliver" /\ op'[a].with = b
  BY <1>1, <1>2, GoesOp
<1>7. CommandConsistent(a)'
  BY <1>6 DEF CommandConsistent
<1>8. ASSUME NEW c \in Accounts \ {a} PROVE RequestOnce(a, c)' /\ FriendshipOnce(a, c)'
  <2>1. RequestOnce(a, c) /\ FriendshipOnce(a, c)
    BY DEF PairsInv
  <2>2. ~Saving(a, c)' /\ ~Appending(a, c)'
    BY <1>6 DEF Saving, Appending
  <2>3. Appending(c, a)' <=> Appending(c, a)
    BY <1>6 DEF OpTyped, Appending
  <2>4. Rows(a, c)' = Rows(a, c)
    BY <1>2 DEF Rows
  <2>5. FriendshipOnce(a, c)'
    BY <1>2, <2>1, <2>2, <2>3, <2>4 DEF FriendshipOnce, FriendshipMissed
  <2>6. CASE c = b
    <3>1. RequestMissed(a, b) \/ requests[<<a, b>>] = 0
      BY <1>2, <2>1, <2>6 DEF RequestOnce
    <3>2. CASE RequestMissed(a, b)
      BY <1>2, <2>5, <2>6, <3>2, Zenon DEF RequestOnce, RequestMissed
    <3>3. CASE requests[<<a, b>>] = 0
      <4>1. requests'[<<a, b>>] <= 1
        BY <1>3, <3>3
      <4> QED
        BY <2>2, <2>5, <2>6, <4>1, Zenon DEF RequestOnce
    <3> QED
      BY <3>1, <3>2, <3>3
  <2>7. CASE c # b
    <3>1. <<a, c>> \in Pairs /\ <<a, c>> # <<a, b>>
      BY <2>7 DEF Pairs
    <3> QED
      BY <1>2, <1>3, <2>1, <2>2, <2>5, <3>1 DEF RequestOnce, RequestMissed
  <2> QED
    BY <2>6, <2>7
<1>9. FriendshipsByConsent'
  <2> SUFFICES ASSUME NEW x \in Accounts, NEW y \in Accounts, friends[<<x, y>>] > 0
               PROVE  AskedBy(y, x)'
    BY <1>2 DEF FriendshipsByConsent, AskedBy
  <2>1. AskedBy(y, x)
    BY DEF PairsInv, FriendshipsByConsent, AskedBy
  <2> QED
    BY <1>4, <2>1, AskedStays
<1> QED
  BY <1>4, <1>5, <1>6, <1>7, <1>8, <1>9, OwnPairsEnough

\* PRIVATE_REPLY appends a friendship somebody has asked for.
LEMMA AddPairPairs ==
    ASSUME TypeOK, PairsInv, NEW a \in Accounts, AddPair(a)
    PROVE  PairsInv' /\ PairsGrow
<1>1. PICK b \in Accounts \ {a} : b = op[a].with /\ AskedBy(b, a)
  BY DEF PairsInv, CommandConsistent, AddPair
<1>2. /\ requests \in [Pairs -> Nat] /\ friends \in [Pairs -> Nat] /\ <<a, b>> \in Pairs
      /\ friends' = [friends EXCEPT ![<<a, b>>] = @ + 1]
      /\ UNCHANGED <<requests, misread, crossed>> /\ Goes(a, "deliver") /\ Appending(a, b)
  BY <1>1 DEF TypeOK, AddPair, Pairs, Appending
<1>3. /\ friends'[<<a, b>>] = friends[<<a, b>>] + 1
      /\ friends[<<a, b>>] \in Nat
      /\ \A p \in Pairs : p # <<a, b>> => friends'[p] = friends[p]
      /\ friends' \in [Pairs -> Nat]
  BY <1>2
<1>4. PairsGrow
  BY <1>2, <1>3 DEF PairsGrow
<1>5. OnlyOwnPairs(a)
  <2> SUFFICES ASSUME NEW x \in Accounts \ {a}, NEW y \in Accounts
               PROVE  friends'[<<x, y>>] = friends[<<x, y>>]
    BY <1>2 DEF OnlyOwnPairs
  <2>1. <<x, y>> \in Pairs /\ <<x, y>> # <<a, b>>
    BY DEF Pairs
  <2> QED
    BY <1>3, <2>1
<1>6. OpTyped(a) /\ op'[a].pc = "deliver" /\ op'[a].with = b
  BY <1>1, <1>2, GoesOp
<1>7. CommandConsistent(a)'
  BY <1>6 DEF CommandConsistent
<1>8. ASSUME NEW c \in Accounts \ {a} PROVE RequestOnce(a, c)' /\ FriendshipOnce(a, c)'
  <2>1. RequestOnce(a, c) /\ FriendshipOnce(a, c)
    BY DEF PairsInv
  <2>2. ~Saving(a, c)' /\ ~Appending(a, c)'
    BY <1>6 DEF Saving, Appending
  <2>3. Appending(c, a)' <=> Appending(c, a)
    BY <1>6 DEF OpTyped, Appending
  <2>4. RequestOnce(a, c)'
    BY <1>2, <2>1, <2>2 DEF RequestOnce, RequestMissed
  <2>5. <<c, a>> \in Pairs /\ <<c, a>> # <<a, b>> /\ <<a, c>> \in Pairs
    BY DEF Pairs
  <2>6. CASE c = b
    <3>1. Rows(a, b)' = Rows(a, b) + 1 /\ Rows(a, b) \in Nat
      <4>1. friends'[<<b, a>>] = friends[<<b, a>>] /\ friends[<<b, a>>] \in Nat
        BY <1>2, <1>3, <2>5, <2>6
      <4> QED
        BY <1>3, <4>1 DEF Rows
    <3>2. FriendshipMissed(a, b)' <=> FriendshipMissed(a, b)
      BY <1>2 DEF FriendshipMissed
    <3>3. CASE FriendshipMissed(a, b)
      BY <2>4, <2>6, <3>2, <3>3 DEF FriendshipOnce
    <3>4. CASE ~FriendshipMissed(a, b)
      <4>1. /\ Rows(a, b) <= 1 /\ ({a, b} \notin crossed => Rows(a, b) = 0)
            /\ Appending(b, a) => Rows(a, b) = 0 /\ {a, b} \in crossed
        BY <1>2, <2>1, <2>6, <3>4 DEF FriendshipOnce
      <4>2. /\ Rows(a, b)' <= 2 /\ ({a, b} \notin crossed' => Rows(a, b)' <= 1)
            /\ Appending(b, a)' => Rows(a, b)' <= 1 /\ {a, b} \in crossed'
        BY <1>2, <2>3, <2>6, <3>1, <4>1
      <4> QED
        BY <2>2, <2>4, <2>6, <4>2 DEF FriendshipOnce
    <3> QED
      BY <3>3, <3>4
  <2>7. CASE c # b
    <3>1. <<a, c>> # <<a, b>>
      BY <2>7
    <3>2. Rows(a, c)' = Rows(a, c)
      BY <1>3, <2>5, <3>1 DEF Rows
    <3>3. FriendshipMissed(a, c)' <=> FriendshipMissed(a, c)
      BY <1>2 DEF FriendshipMissed
    <3> QED
      BY <1>2, <2>1, <2>2, <2>3, <2>4, <3>2, <3>3 DEF FriendshipOnce
  <2> QED
    BY <2>6, <2>7
<1>9. FriendshipsByConsent'
  <2> SUFFICES ASSUME NEW x \in Accounts, NEW y \in Accounts, friends'[<<x, y>>] > 0
               PROVE  AskedBy(y, x)
    BY <1>2 DEF FriendshipsByConsent, AskedBy
  <2>1. CASE x = a /\ y = b
    BY <1>1, <2>1
  <2>2. CASE ~(x = a /\ y = b)
    <3>1. <<x, y>> \in Pairs /\ <<x, y>> # <<a, b>>
      BY <2>2 DEF Pairs
    <3>2. friends[<<x, y>>] > 0
      BY <1>3, <3>1
    <3> QED
      BY <3>2 DEF PairsInv, FriendshipsByConsent, AskedBy
  <2> QED
    BY <2>1, <2>2
<1> QED
  BY <1>4, <1>5, <1>6, <1>7, <1>8, <1>9, OwnPairsEnough

-----------------------------------------------------------------------------
(* Messages and groups *)

\* Nobody ceases to be a friend, or to be taken for one.
LEMMA FriendsStay ==
    ASSUME TypeOK, PairsGrow, NEW x \in Accounts, NEW y \in Accounts, TakenForFriends(x, y)
    PROVE  TakenForFriends(x, y)'
<1>1. ASSUME NEW u \in Accounts, NEW v \in Accounts
      PROVE  friends[<<u, v>>] > 0 => friends'[<<u, v>>] > 0
  <2>1. /\ friends[<<u, v>>] \in Nat /\ friends'[<<u, v>>] \in Nat
        /\ friends'[<<u, v>>] >= friends[<<u, v>>]
    BY DEF TypeOK, PairsGrow, Pairs
  <2> QED
    BY <2>1
<1>2. misread \subseteq misread'
  BY DEF PairsGrow
<1> QED
  BY <1>1, <1>2 DEF TakenForFriends, AreFriends

LEMMA GroupTypes ==
    ASSUME TypeOK
    PROVE  /\ Len(groups) \in Nat /\ DOMAIN groups = 1 .. Len(groups)
           /\ \A i \in DOMAIN groups :
                /\ groups[i] \in Group
                /\ groups[i].id \in GroupIds /\ groups[i].owner \in Accounts
<1>1. groups \in Seq(Group)
  BY DEF TypeOK
<1>2. Len(groups) \in Nat /\ DOMAIN groups = 1 .. Len(groups)
  BY <1>1, LenProperties
<1>3. ASSUME NEW i \in DOMAIN groups
      PROVE  groups[i] \in Group
  BY <1>1, <1>2, ElementOfSeq
<1> QED
  BY <1>2, <1>3 DEF Group

\* The friends named by an account that does nothing meanwhile are still its friends.
LEMMA FriendsOnlyStays ==
    ASSUME TypeOK, PairsGrow, NEW a \in Accounts, FriendsOnly(a), op'[a] = op[a]
    PROVE  FriendsOnly(a)'
<1>1. op[a].list \in Lists /\ \A i \in DOMAIN op[a].list : op[a].list[i] \in Accounts
  BY OpFacts, ListFacts
<1> SUFFICES ASSUME op[a].pc \in {"create", "invite"}, NEW i \in DOMAIN op[a].list
             PROVE  TakenForFriends(a, op[a].list[i])'
  BY DEF FriendsOnly
<1>2. PICK b \in Accounts : b = op[a].list[i]
  BY <1>1
<1>3. TakenForFriends(a, b)
  BY <1>2 DEF FriendsOnly
<1>4. TakenForFriends(a, b)'
  BY <1>3, FriendsStay
<1> QED
  BY <1>2, <1>4 DEF TakenForFriends, AreFriends

\* A step that leaves the files of groups alone.
LEMMA NoGroupInv ==
    ASSUME TypeOK, GroupsInv, NEW a \in Accounts, PairsGrow, OpTyped(a),
           UNCHANGED <<groups, members, created>>, FriendsOnly(a)', Inviting(a)'
    PROVE  GroupsInv'
<1>1. MembersAreFriends'
  <2> SUFFICES ASSUME NEW g \in GroupIds, NEW x \in Accounts, members[g][x] > 0
               PROVE  \E i \in DOMAIN groups :
                        /\ groups[i].id = g
                        /\ groups[i].owner = x \/ TakenForFriends(groups[i].owner, x)'
                        /\ \A j \in DOMAIN groups : groups[j].id = g => j = i
    BY DEF MembersAreFriends, TakenForFriends, AreFriends
  <2>1. PICK i \in DOMAIN groups :
            /\ groups[i].id = g
            /\ groups[i].owner = x \/ TakenForFriends(groups[i].owner, x)
            /\ \A j \in DOMAIN groups : groups[j].id = g => j = i
    BY DEF GroupsInv, MembersAreFriends
  <2>2. PICK o \in Accounts : o = groups[i].owner
    BY GroupTypes
  <2>3. TakenForFriends(o, x) => TakenForFriends(o, x)'
    BY FriendsStay
  <2> QED
    BY <2>1, <2>2, <2>3 DEF TakenForFriends, AreFriends
<1>2. CreatedGroupsComplete'
  BY DEF GroupsInv, CreatedGroupsComplete
<1>3. ASSUME NEW b \in Accounts PROVE FriendsOnly(b)' /\ Inviting(b)'
  <2>1. CASE b = a
    BY <2>1
  <2>2. CASE b # a
    <3>1. op'[b] = op[b] /\ FriendsOnly(b) /\ Inviting(b)
      BY <2>2 DEF OpTyped, GroupsInv
    <3>2. FriendsOnly(b)'
      BY <3>1, FriendsOnlyStays
    <3>3. Inviting(b)'
      BY <3>1 DEF Inviting, GroupComplete
    <3> QED
      BY <3>2, <3>3
  <2> QED
    BY <2>1, <2>2
<1> QED
  BY <1>1, <1>2, <1>3 DEF GroupsInv

\* A step of a message that appends nothing.
LEMMA QuietInv ==
    ASSUME SocialInv, NEW a \in Accounts, UNCHANGED <<files, created>>, OpTyped(a),
           misread' \subseteq Misread, misread \subseteq misread',
           crossed' \subseteq SUBSET Accounts, crossed \subseteq crossed',
           unsolicited' \in [Pairs -> 0 .. 2], PairsInv',
           op'[a].pc \notin {"create", "invite"}
    PROVE  SocialInv'
<1>1. TypeOK /\ PairsInv /\ GroupsInv /\ UNCHANGED <<requests, friends, groups, members, created>>
  BY DEF SocialInv, files
<1>2. TypeOK'
  BY <1>1 DEF TypeOK, OpTyped
<1>3. PairsGrow
  BY <1>1 DEF TypeOK, PairsGrow
<1>4. FriendsOnly(a)' /\ Inviting(a)'
  BY DEF FriendsOnly, Inviting
<1> QED
  BY <1>1, <1>2, <1>3, <1>4, NoGroupInv DEF SocialInv

\* A request or a friendship is appended.
LEMMA AppendPairInv ==
    ASSUME SocialInv, NEW a \in Accounts, SaveRequest(a) \/ AddPair(a)
    PROVE  SocialInv'
<1>1. TypeOK /\ PairsInv /\ GroupsInv
  BY DEF SocialInv
<1>2. /\ UNCHANGED <<groups, members, misread, crossed, created, unsolicited>>
      /\ Goes(a, "deliver")
  BY DEF SaveRequest, AddPair
<1>3. PairsInv' /\ PairsGrow
  BY <1>1, SaveRequestPairs, AddPairPairs
<1>4. OpTyped(a) /\ op'[a].pc = "deliver"
  BY <1>1, <1>2, GoesOp
<1>5. TypeOK'
  BY <1>1, <1>2, <1>3, <1>4 DEF TypeOK, PairsGrow, OpTyped
<1>6. FriendsOnly(a)' /\ Inviting(a)'
  BY <1>4 DEF FriendsOnly, Inviting
<1> QED
  BY <1>1, <1>2, <1>3, <1>4, <1>5, <1>6, NoGroupInv DEF SocialInv

LEMMA ScanFacts ==
    ASSUME TypeOK, NEW there \in BOOLEAN, NEW seen \in BOOLEAN, NEW mistake \in Misread,
           Scan(there, seen, mistake)
    PROVE  /\ misread' \subseteq Misread /\ misread \subseteq misread'
           /\ seen # there => mistake \in misread'
<1>1. misread \subseteq Misread
  BY DEF TypeOK
<1>2. misread' = misread \cup (IF seen = there THEN {} ELSE {mistake})
  BY DEF Scan, ScansMisread
<1> QED
  BY <1>1, <1>2

LEMMA MistakeTypes ==
    ASSUME NEW a \in Accounts, NEW b \in Accounts
    PROVE  /\ Harmless \in Misread
           /\ <<"missed request", <<a, b>>>> \in Misread
           /\ <<"false request", <<a, b>>>> \in Misread
           /\ <<"missed friend", <<a, b>>>> \in Misread
           /\ <<"false friend", <<a, b>>>> \in Misread
BY DEF Misread, Pairs

\* PRIVATE_START, PRIVATE and PRIVATE_REPLY begin with a scan.
LEMMA BeginMessageInv ==
    ASSUME SocialInv, NEW a \in Accounts, NEW b \in Accounts,
           \/ MessageFriend(a, b) \/ MessageStranger(a, b)
           \/ ReplyToRequest(a, b) \/ ReplyToNothing(a, b)
    PROVE  SocialInv'
<1>1. /\ TypeOK /\ PairsInv /\ unsolicited \in [Pairs -> 0 .. 2] /\ a # b
      /\ crossed \subseteq SUBSET Accounts
      /\ UNCHANGED <<files, crossed, created, unsolicited>> /\ UNCHANGED <<requests, friends>>
  BY DEF SocialInv, TypeOK, MessageFriend, MessageStranger, ReplyToRequest, ReplyToNothing, files
<1>2. /\ misread' \subseteq Misread /\ misread \subseteq misread'
      /\ ReplyToRequest(a, b) => AskedBy(b, a)'
  <2>1. AreFriends(a, b) \in BOOLEAN /\ HasRequest(b, a) \in BOOLEAN
    BY DEF AreFriends, HasRequest
  <2>2. CASE MessageFriend(a, b) \/ MessageStranger(a, b) \/ ReplyToNothing(a, b)
    <3>1. PICK there \in BOOLEAN, seen \in BOOLEAN : Scan(there, seen, Harmless)
      BY <2>1, <2>2 DEF MessageFriend, MessageStranger, ReplyToNothing
    <3>2. misread' \subseteq Misread /\ misread \subseteq misread'
      BY <1>1, <3>1, ScanFacts, MistakeTypes
    <3>3. ~ReplyToRequest(a, b)
      <4>1. Idle.pc = "idle" /\ op[a] \in Op /\ op \in [Accounts -> Op]
        BY <1>1, OpFacts DEF Idle, TypeOK
      <4>2. op'[a].pc # "check pair"
        BY <1>1, <2>2, StartsOp DEF MessageFriend, MessageStranger, ReplyToNothing
      <4> QED
        BY <1>1, <4>2, StartsOp DEF ReplyToRequest
    <3> QED
      BY <3>2, <3>3
  <2>3. CASE ReplyToRequest(a, b)
    <3>1. Scan(HasRequest(b, a), TRUE, <<"false request", <<b, a>>>>)
      BY <2>3 DEF ReplyToRequest
    <3>2. /\ misread' \subseteq Misread /\ misread \subseteq misread'
          /\ TRUE # HasRequest(b, a) => <<"false request", <<b, a>>>> \in misread'
      BY <1>1, <2>1, <3>1, ScanFacts, MistakeTypes
    <3> QED
      BY <1>1, <2>1, <3>2 DEF AskedBy, HasRequest
  <2> QED
    BY <2>2, <2>3
<1>3. /\ OpTyped(a) /\ op'[a].with = b
      /\ op'[a].pc \in {"deliver", "look up request", "look up friend", "check pair"}
      /\ op'[a].pc = "check pair" => ReplyToRequest(a, b)
  <2>1. CASE MessageFriend(a, b)
    BY <1>1, <2>1, StartsOp DEF MessageFriend
  <2>2. CASE MessageStranger(a, b)
    BY <1>1, <2>2, StartsOp DEF MessageStranger
  <2>3. CASE ReplyToRequest(a, b)
    BY <1>1, <2>3, StartsOp DEF ReplyToRequest
  <2>4. CASE ReplyToNothing(a, b)
    BY <1>1, <2>4, StartsOp DEF ReplyToNothing
  <2> QED
    BY <2>1, <2>2, <2>3, <2>4
<1>4. CommandConsistent(a)'
  BY <1>1, <1>2, <1>3 DEF CommandConsistent, AskedBy
<1>5. PairsInv'
  BY <1>1, <1>2, <1>3, <1>4, NoPairInv
<1> QED
  BY <1>1, <1>2, <1>3, <1>5, QuietInv

\* A command goes on from a scan it appends nothing after.
LEMMA GoesOnInv ==
    ASSUME SocialInv, NEW a \in Accounts, UNCHANGED <<files, created, unsolicited, crossed>>,
           misread' \subseteq Misread, misread \subseteq misread',
           op[a].with \in Accounts \ {a}, Goes(a, "deliver") \/ Done(a)
    PROVE  SocialInv'
<1>1. /\ TypeOK /\ PairsInv /\ unsolicited \in [Pairs -> 0 .. 2]
      /\ crossed \subseteq SUBSET Accounts /\ UNCHANGED <<requests, friends>>
  BY DEF SocialInv, TypeOK, files
<1>2. /\ OpTyped(a)
      /\ op'[a].pc = "idle" \/ (op'[a].pc = "deliver" /\ op'[a].with = op[a].with)
  BY <1>1, GoesOp, DoneOp
<1>3. CommandConsistent(a)'
  BY <1>2 DEF CommandConsistent
<1>4. PairsInv'
  BY <1>1, <1>2, <1>3, NoPairInv
<1> QED
  BY <1>1, <1>2, <1>4, QuietInv

LEMMA LookUpRequestInv ==
    ASSUME SocialInv, NEW a \in Accounts, LookUpRequest(a) PROVE SocialInv'
<1>1. /\ TypeOK /\ PairsInv /\ unsolicited \in [Pairs -> 0 .. 2]
      /\ crossed \subseteq SUBSET Accounts /\ UNCHANGED <<requests, friends>>
      /\ UNCHANGED <<files, crossed, created, unsolicited>>
  BY DEF SocialInv, TypeOK, LookUpRequest, files
<1>2. PICK b \in Accounts \ {a} : b = op[a].with
  BY <1>1 DEF LookUpRequest, PairsInv, CommandConsistent
<1>3. HasRequest(a, b) \in BOOLEAN
  BY DEF HasRequest
<1>4. PICK seen \in BOOLEAN :
        /\ Scan(HasRequest(a, b), seen,
                IF seen THEN Harmless ELSE <<"missed request", <<a, b>>>>)
        /\ Goes(a, IF seen THEN "deliver" ELSE "save request")
  BY <1>2 DEF LookUpRequest
<1>5. (IF seen THEN Harmless ELSE <<"missed request", <<a, b>>>>) \in Misread
  BY MistakeTypes
<1>6. /\ misread' \subseteq Misread /\ misread \subseteq misread'
      /\ seen # HasRequest(a, b) =>
            (IF seen THEN Harmless ELSE <<"missed request", <<a, b>>>>) \in misread'
  BY <1>1, <1>3, <1>4, <1>5, ScanFacts
<1>7. CASE seen
  BY <1>1, <1>2, <1>4, <1>6, <1>7, GoesOnInv
<1>8. CASE ~seen
  <2>1. Goes(a, "save request")
    BY <1>4, <1>8
  <2>2. OpTyped(a) /\ op'[a].pc = "save request" /\ op'[a].with = b
    BY <1>1, <1>2, <2>1, GoesOp
  <2>3. requests[<<a, b>>] > 0 => RequestMissed(a, b)'
    BY <1>3, <1>6, <1>8 DEF HasRequest, RequestMissed
  <2>4. PairsInv'
    BY <1>1, <1>6, <2>2, <2>3, ToSaveRequestPairs
  <2> QED
    BY <1>1, <1>6, <2>2, <2>4, QuietInv
<1> QED
  BY <1>7, <1>8

LEMMA LookUpFriendInv ==
    ASSUME SocialInv, NEW a \in Accounts, LookUpFriend(a) PROVE SocialInv'
<1>1. TypeOK /\ PairsInv /\ UNCHANGED <<files, crossed, created, unsolicited>>
  BY DEF SocialInv, LookUpFriend
<1>2. op[a].with \in Accounts \ {a}
  BY <1>1 DEF LookUpFriend, PairsInv, CommandConsistent
<1>3. AreFriends(a, op[a].with) \in BOOLEAN
  BY DEF AreFriends
<1>4. PICK seen \in BOOLEAN :
        /\ Scan(AreFriends(a, op[a].with), seen, Harmless)
        /\ IF seen THEN Goes(a, "deliver") ELSE Done(a)
  BY DEF LookUpFriend
<1>5. misread' \subseteq Misread /\ misread \subseteq misread'
  BY <1>1, <1>3, <1>4, ScanFacts, MistakeTypes
<1> QED
  BY <1>1, <1>2, <1>4, <1>5, GoesOnInv

LEMMA CheckPairInv ==
    ASSUME SocialInv, NEW a \in Accounts, CheckPair(a) PROVE SocialInv'
<1>1. /\ TypeOK /\ PairsInv /\ unsolicited \in [Pairs -> 0 .. 2]
      /\ crossed \subseteq SUBSET Accounts /\ UNCHANGED <<requests, friends>>
      /\ UNCHANGED <<files, created, unsolicited>>
  BY DEF SocialInv, TypeOK, CheckPair, files
<1>2. PICK b \in Accounts \ {a} : b = op[a].with /\ AskedBy(b, a)
  BY <1>1 DEF CheckPair, PairsInv, CommandConsistent
<1>3. AreFriends(a, b) \in BOOLEAN
  BY DEF AreFriends
<1>4. PICK seen \in BOOLEAN :
        /\ Scan(AreFriends(a, b), seen,
                IF seen THEN Harmless ELSE <<"missed friend", <<a, b>>>>)
        /\ Goes(a, IF seen THEN "deliver" ELSE "add pair")
        /\ crossed' = IF ~seen /\ Appending(b, a) THEN crossed \cup {{a, b}} ELSE crossed
  BY <1>2 DEF CheckPair
<1>5. (IF seen THEN Harmless ELSE <<"missed friend", <<a, b>>>>) \in Misread
  BY MistakeTypes
<1>6. /\ misread' \subseteq Misread /\ misread \subseteq misread'
      /\ seen # AreFriends(a, b) =>
            (IF seen THEN Harmless ELSE <<"missed friend", <<a, b>>>>) \in misread'
  BY <1>1, <1>3, <1>4, <1>5, ScanFacts
<1>7. CASE seen
  BY <1>1, <1>2, <1>4, <1>6, <1>7, GoesOnInv
<1>8. CASE ~seen
  <2>1. Goes(a, "add pair")
    BY <1>4, <1>8
  <2>2. OpTyped(a) /\ op'[a].pc = "add pair" /\ op'[a].with = b
    BY <1>1, <1>2, <2>1, GoesOp
  <2>3. AreFriends(a, b) => FriendshipMissed(a, b)'
    BY <1>3, <1>6, <1>8 DEF FriendshipMissed
  <2>4. /\ crossed' = IF Appending(b, a) THEN crossed \cup {{a, b}} ELSE crossed
        /\ crossed' \subseteq SUBSET Accounts /\ crossed \subseteq crossed'
    BY <1>1, <1>4, <1>8
  <2>5. PairsInv'
    BY <1>1, <1>2, <1>6, <2>2, <2>3, <2>4, ToAddPairPairs
  <2> QED
    BY <1>1, <1>6, <2>2, <2>4, <2>5, QuietInv
<1> QED
  BY <1>7, <1>8

LEMMA EndMessageInv ==
    ASSUME SocialInv, NEW a \in Accounts,
           \/ SaveRequestFails(a) \/ AddPairFails(a) \/ Deliver(a) \/ DeliverFails(a)
           \/ CreateGroupFails(a)
    PROVE  SocialInv'
<1>1. /\ TypeOK /\ PairsInv /\ unsolicited \in [Pairs -> 0 .. 2]
      /\ misread \subseteq Misread /\ crossed \subseteq SUBSET Accounts
      /\ UNCHANGED <<files, created, misread, crossed>> /\ CommandConsistent(a)
      /\ UNCHANGED <<requests, friends>>
  BY DEF SocialInv, PairsInv, TypeOK, SaveRequestFails, AddPairFails, Deliver, DeliverFails,
         CreateGroupFails, files
<1>2. unsolicited' \in [Pairs -> 0 .. 2]
  <2>1. CASE Deliver(a)
    <3>1. PICK b \in Accounts : b = op[a].with
      BY <1>1, <2>1 DEF Deliver, CommandConsistent
    <3>2. <<a, b>> \in Pairs /\ unsolicited[<<a, b>>] \in 0 .. 2
      BY <1>1 DEF Pairs
    <3>3. \/ unsolicited' = unsolicited
          \/ /\ unsolicited[<<a, b>>] < 2
             /\ unsolicited' = [unsolicited EXCEPT ![<<a, b>>] = @ + 1]
      BY <2>1, <3>1 DEF Deliver
    <3> QED
      BY <1>1, <3>2, <3>3
  <2>2. CASE ~Deliver(a)
    BY <1>1, <2>2 DEF SaveRequestFails, AddPairFails, DeliverFails, CreateGroupFails
  <2> QED
    BY <2>1, <2>2
<1>3. /\ OpTyped(a)
      /\ op'[a].pc = "idle" \/ (op'[a].pc = "deliver" /\ op'[a].with \in Accounts \ {a})
  <2>1. CASE AddPairFails(a)
    BY <1>1, <2>1, GoesOp DEF AddPairFails, CommandConsistent
  <2>2. CASE ~AddPairFails(a)
    <3>1. Done(a)
      BY <2>2 DEF SaveRequestFails, Deliver, DeliverFails, CreateGroupFails
    <3> QED
      BY <1>1, <3>1, DoneOp
  <2> QED
    BY <2>1, <2>2
<1>4. CommandConsistent(a)'
  BY <1>3 DEF CommandConsistent
<1>5. PairsInv'
  BY <1>1, <1>3, <1>4, NoPairInv
<1> QED
  BY <1>1, <1>2, <1>3, <1>5, QuietInv

-----------------------------------------------------------------------------
(* GROUP_CREATE *)

LEMMA CollectInv ==
    ASSUME SocialInv, NEW a \in Accounts, NEW list \in Lists, Collect(a, list)
    PROVE  SocialInv'
<1> DEFINE new == [Idle EXCEPT !.pc = "create", !.list = list]
           wrong == {<<"false friend", <<a, list[i]>>>> :
                        i \in {j \in DOMAIN list : ~AreFriends(a, list[j])}}
<1>1. /\ TypeOK /\ PairsInv /\ GroupsInv /\ op \in [Accounts -> Op] /\ misread \subseteq Misread
      /\ op' = [op EXCEPT ![a] = new] /\ misread' = misread \cup wrong
      /\ UNCHANGED <<requests, friends, groups, members, crossed, created, unsolicited>>
  BY DEF SocialInv, TypeOK, Collect, ScansMisread, files
<1>2. new \in Op /\ new.pc = "create" /\ new.list = list
  BY DEF Idle, Op
<1>3. wrong \subseteq Misread
  BY ListFacts, MistakeTypes
<1>4. \A i \in DOMAIN list : AreFriends(a, list[i]) \/ <<"false friend", <<a, list[i]>>>> \in wrong
  OBVIOUS
<1> HIDE DEF new, wrong
<1>5. OpTyped(a) /\ op'[a] = new
  BY <1>1, <1>2 DEF OpTyped
<1>6. misread' \subseteq Misread /\ misread \subseteq misread'
  BY <1>1, <1>3
<1>7. TypeOK'
  BY <1>1, <1>5, <1>6 DEF TypeOK, OpTyped
<1>8. PairsInv'
  <2>1. CommandConsistent(a)' /\ op'[a].pc = "create"
    BY <1>2, <1>5 DEF CommandConsistent
  <2> QED
    BY <1>1, <1>5, <1>6, <2>1, NoPairInv
<1>9. PairsGrow
  BY <1>1, <1>6 DEF TypeOK, PairsGrow
<1>10. FriendsOnly(a)' /\ Inviting(a)'
  <2>1. \A i \in DOMAIN list : TakenForFriends(a, list[i])'
    BY <1>1, <1>4 DEF TakenForFriends, AreFriends
  <2> QED
    BY <1>2, <1>5, <2>1 DEF FriendsOnly, Inviting, TakenForFriends, AreFriends
<1> QED
  BY <1>1, <1>5, <1>7, <1>8, <1>9, <1>10, NoGroupInv DEF SocialInv

\* The owner comes first.
LEMMA MemberRowsFacts ==
    ASSUME NEW a \in Accounts, NEW list \in Lists
    PROVE  /\ MemberRows(a, list) \in Seq(Accounts)
           /\ Len(MemberRows(a, list)) = Len(list) + 1
           /\ MemberRows(a, list)[1] = a
           /\ \A i \in 1 .. Len(list) : MemberRows(a, list)[i + 1] = list[i]
           /\ \A i \in 1 .. Len(list) + 1 :
                MemberRows(a, list)[i] = a \/ \E j \in DOMAIN list : MemberRows(a, list)[i] = list[j]
<1>1. list \in Seq(Accounts) /\ Len(list) \in Nat /\ DOMAIN list = 1 .. Len(list)
  BY ListFacts
<1>2. <<a>> \in Seq(Accounts) /\ Len(<<a>>) = 1 /\ <<a>>[1] = a
  OBVIOUS
<1>3. /\ MemberRows(a, list) \in Seq(Accounts)
      /\ Len(MemberRows(a, list)) = Len(list) + 1
      /\ \A i \in 1 .. Len(list) + 1 :
            MemberRows(a, list)[i] = IF i <= 1 THEN <<a>>[i] ELSE list[i - 1]
  BY <1>1, <1>2, ConcatProperties DEF MemberRows
<1>4. MemberRows(a, list)[1] = a
  BY <1>1, <1>2, <1>3
<1>5. ASSUME NEW i \in 1 .. Len(list) PROVE MemberRows(a, list)[i + 1] = list[i]
  <2>1. i + 1 \in 1 .. Len(list) + 1 /\ ~(i + 1 <= 1) /\ (i + 1) - 1 = i
    BY <1>1
  <2> QED
    BY <1>3, <2>1
<1>6. ASSUME NEW i \in 1 .. Len(list) + 1
      PROVE  MemberRows(a, list)[i] = a \/ \E j \in DOMAIN list : MemberRows(a, list)[i] = list[j]
  <2>1. CASE i = 1
    BY <1>4, <2>1
  <2>2. CASE i # 1
    <3>1. i - 1 \in DOMAIN list /\ ~(i <= 1)
      BY <1>1, <2>2
    <3> QED
      BY <1>3, <3>1
  <2> QED
    BY <2>1, <2>2
<1> QED
  BY <1>3, <1>4, <1>5, <1>6

\* The rows of a group grow by those appended.
LEMMA AppendedFacts ==
    ASSUME TypeOK, NEW id \in GroupIds, NEW list, NEW n \in Nat
    PROVE  /\ Appended(id, list, n) \in [GroupIds -> [Accounts -> Nat]]
           /\ \A g \in GroupIds \ {id} : Appended(id, list, n)[g] = members[g]
           /\ \A x \in Accounts :
                /\ Appended(id, list, n)[id][x] >= members[id][x]
                /\ Appended(id, list, n)[id][x] > members[id][x]
                        <=> \E i \in 1 .. n : list[i] = x
<1> DEFINE rowsOf(x) == Cardinality({i \in 1 .. n : list[i] = x})
           new == [x \in Accounts |-> members[id][x] + rowsOf(x)]
<1>1. members \in [GroupIds -> [Accounts -> Nat]]
  BY DEF TypeOK
<1>2. ASSUME NEW x \in Accounts
      PROVE  rowsOf(x) \in Nat /\ (rowsOf(x) > 0 <=> \E i \in 1 .. n : list[i] = x)
  <2> DEFINE S == {i \in 1 .. n : list[i] = x}
  <2>1. IsFiniteSet(1 .. n)
    BY FS_Interval
  <2>2. S \in SUBSET (1 .. n)
    OBVIOUS
  <2>3. IsFiniteSet(S)
    BY <2>1, <2>2, FS_Subset
  <2>4. Cardinality(S) \in Nat /\ (Cardinality(S) = 0 <=> S = {})
    BY <2>3, FS_CardinalityType, FS_EmptySet
  <2>5. S # {} <=> \E i \in 1 .. n : list[i] = x
    OBVIOUS
  <2> HIDE DEF S
  <2>6. Cardinality(S) > 0 <=> \E i \in 1 .. n : list[i] = x
    BY <2>4, <2>5
  <2> QED
    BY <2>4, <2>6 DEF S
<1>3. Appended(id, list, n) = [members EXCEPT ![id] = new]
  BY DEF Appended
<1> HIDE DEF rowsOf
<1>4. \A x \in Accounts : members[id][x] \in Nat /\ new[x] = members[id][x] + rowsOf(x)
  BY <1>1
<1>5. new \in [Accounts -> Nat]
  BY <1>2, <1>4
<1> HIDE DEF new
<1>6. /\ Appended(id, list, n) \in [GroupIds -> [Accounts -> Nat]]
      /\ Appended(id, list, n)[id] = new
      /\ \A g \in GroupIds \ {id} : Appended(id, list, n)[g] = members[g]
  BY <1>1, <1>3, <1>5
<1>7. ASSUME NEW x \in Accounts
      PROVE  new[x] >= members[id][x] /\ (new[x] > members[id][x] <=> \E i \in 1 .. n : list[i] = x)
  <2>1. rowsOf(x) \in Nat /\ (rowsOf(x) > 0 <=> \E i \in 1 .. n : list[i] = x)
    BY <1>2
  <2>2. new[x] > members[id][x] <=> rowsOf(x) > 0
    BY <1>4, <2>1
  <2>3. new[x] >= members[id][x]
    BY <1>4, <2>1
  <2> QED
    BY <2>1, <2>2, <2>3
<1> QED
  BY <1>6, <1>7

\* The rows of a new group, of which there were none, and the new record.
NewGroup(a, id, n) ==
    /\ IsNextGroupId(id)
    /\ groups' = Append(groups, GroupRecord(id, a))
    /\ members' = Appended(id, MemberRows(a, op[a].list), n)
    /\ n <= Len(MemberRows(a, op[a].list))

LEMMA NewGroupFacts ==
    ASSUME TypeOK, GroupsInv, NEW a \in Accounts, NEW id \in GroupIds, NEW n \in Nat,
           op[a].pc = "create", NewGroup(a, id, n)
    PROVE  /\ members' \in [GroupIds -> [Accounts -> Nat]] /\ groups' \in Seq(Group)
           /\ DOMAIN groups = 1 .. Len(groups) /\ Len(groups) \in Nat
           /\ DOMAIN groups' = 1 .. Len(groups) + 1
           /\ \A i \in DOMAIN groups : groups'[i] = groups[i] /\ groups[i].id # id
           /\ groups'[Len(groups) + 1] = [id |-> id, owner |-> a]
           /\ \A g \in GroupIds \ {id} : members'[g] = members[g]
           /\ \A g \in GroupIds, x \in Accounts : members'[g][x] >= members[g][x]
           /\ \A x \in Accounts :
                members'[id][x] > 0 => n # 0 /\ (x = a \/ TakenForFriends(a, x))
           /\ n # 0 => members'[id][a] > 0
           /\ n = Len(op[a].list) + 1 =>
                \A i \in DOMAIN op[a].list : members'[id][op[a].list[i]] > 0
<1> DEFINE list == op[a].list
           names == MemberRows(a, list)
<1>1. /\ list \in Lists /\ DOMAIN list = 1 .. Len(list) /\ Len(list) \in Nat
      /\ \A i \in DOMAIN list : list[i] \in Accounts /\ TakenForFriends(a, list[i])
  <2>1. list \in Lists
    BY OpFacts
  <2> QED
    BY <2>1, ListFacts DEF GroupsInv, FriendsOnly
<1>2. /\ Len(names) = Len(list) + 1 /\ names[1] = a
      /\ \A i \in 1 .. Len(list) : names[i + 1] = list[i]
      /\ \A i \in 1 .. Len(list) + 1 :
            names[i] = a \/ \E j \in DOMAIN list : names[i] = list[j]
  BY <1>1, MemberRowsFacts
<1>3. /\ IsNextGroupId(id) /\ n <= Len(names)
      /\ groups' = Append(groups, GroupRecord(id, a)) /\ members' = Appended(id, names, n)
  BY DEF NewGroup
<1> HIDE DEF names, list
<1>4. /\ members' \in [GroupIds -> [Accounts -> Nat]]
      /\ \A g \in GroupIds \ {id} : members'[g] = members[g]
      /\ \A x \in Accounts :
            /\ members'[id][x] >= members[id][x]
            /\ members'[id][x] > members[id][x] <=> \E i \in 1 .. n : names[i] = x
  BY <1>3, AppendedFacts
<1>5. /\ groups \in Seq(Group) /\ Len(groups) \in Nat /\ DOMAIN groups = 1 .. Len(groups)
      /\ \A i \in DOMAIN groups : groups[i].id \in GroupIds
  BY GroupTypes DEF TypeOK
<1>6. GroupRecord(id, a) \in Group /\ GroupRecord(id, a) = [id |-> id, owner |-> a]
  BY DEF GroupRecord, Group
<1>7. /\ groups' \in Seq(Group) /\ Len(groups') = Len(groups) + 1
      /\ \A i \in DOMAIN groups : groups'[i] = groups[i]
      /\ groups'[Len(groups) + 1] = [id |-> id, owner |-> a]
  BY <1>3, <1>5, <1>6, AppendProperties
<1>8. \A i \in DOMAIN groups : groups[i].id # id
  BY <1>3, <1>5 DEF IsNextGroupId, GroupIds
<1>9. ASSUME NEW x \in Accounts PROVE members[id][x] = 0
  <2>1. members[id][x] \in Nat
    BY DEF TypeOK
  <2>2. ~(members[id][x] > 0)
    BY <1>8 DEF GroupsInv, MembersAreFriends
  <2> QED
    BY <2>1, <2>2
<1>10. ASSUME NEW x \in Accounts PROVE members'[id][x] > 0 <=> \E i \in 1 .. n : names[i] = x
  BY <1>4, <1>9
<1>11. ASSUME NEW x \in Accounts, members'[id][x] > 0
       PROVE  n # 0 /\ (x = a \/ TakenForFriends(a, x))
  <2>1. PICK i \in 1 .. n : names[i] = x
    BY <1>10, <1>11
  <2>2. n # 0 /\ i \in 1 .. Len(list) + 1
    BY <1>1, <1>2, <1>3, <2>1
  <2>3. names[i] = a \/ \E j \in DOMAIN list : names[i] = list[j]
    BY <1>2, <2>2
  <2>4. CASE names[i] = a
    BY <2>1, <2>2, <2>4
  <2>5. ASSUME NEW j \in DOMAIN list, names[i] = list[j] PROVE TakenForFriends(a, x)
    BY <1>1, <2>1, <2>5
  <2> QED
    BY <2>2, <2>3, <2>4, <2>5
<1>12. n # 0 => members'[id][a] > 0
  <2>1. n # 0 => 1 \in 1 .. n
    OBVIOUS
  <2> QED
    BY <1>2, <1>10, <2>1
<1>13. ASSUME n = Len(list) + 1, NEW i \in DOMAIN list PROVE members'[id][list[i]] > 0
  <2>1. i + 1 \in 1 .. n /\ names[i + 1] = list[i] /\ list[i] \in Accounts
    BY <1>1, <1>2, <1>13
  <2> QED
    BY <1>10, <2>1
<1>14. ASSUME NEW g \in GroupIds, NEW x \in Accounts PROVE members'[g][x] >= members[g][x]
  <2>1. members[g][x] \in Nat
    BY DEF TypeOK
  <2> QED
    BY <1>4, <2>1
<1>15. DOMAIN groups' = 1 .. Len(groups) + 1
  BY <1>7, LenProperties
<1> QED
  BY <1>4, <1>5, <1>7, <1>8, <1>11, <1>12, <1>13, <1>14, <1>15 DEF list

\* A complete group stays complete.
LEMMA GroupStaysComplete ==
    ASSUME TypeOK, NEW id \in GroupIds, NEW owner \in Accounts, NEW list \in Lists,
           GroupComplete(id, owner, list),
           members' \in [GroupIds -> [Accounts -> Nat]],
           \A g \in GroupIds, x \in Accounts : members'[g][x] >= members[g][x],
           DOMAIN groups \subseteq DOMAIN groups',
           \A i \in DOMAIN groups : groups'[i] = groups[i]
    PROVE  GroupComplete(id, owner, list)'
<1>1. \E i \in DOMAIN groups' : groups'[i] = [id |-> id, owner |-> owner]
  BY DEF GroupComplete
<1>2. ASSUME NEW x \in Accounts, members[id][x] > 0 PROVE members'[id][x] > 0
  <2>1. members[id][x] \in Nat /\ members'[id][x] \in Nat
    BY DEF TypeOK
  <2> QED
    BY <1>2, <2>1
<1>3. \A i \in DOMAIN list : list[i] \in Accounts
  BY ListFacts
<1> QED
  BY <1>1, <1>2, <1>3 DEF GroupComplete

\* The record of a group and its first rows are appended.
LEMMA CreateGroupInv ==
    ASSUME SocialInv, NEW a \in Accounts, NEW n \in Nat, CreateGroup(a, n)
    PROVE  SocialInv'
<1>1. /\ TypeOK /\ PairsInv /\ GroupsInv /\ op \in [Accounts -> Op] /\ op[a].pc = "create"
      /\ UNCHANGED <<requests, friends, misread, crossed, created, unsolicited>>
  BY DEF SocialInv, TypeOK, CreateGroup
<1>2. PICK id \in GroupIds :
        /\ NewGroup(a, id, n)
        /\ op' = [op EXCEPT ![a] = IF n = Len(MemberRows(a, op[a].list))
                                    THEN [op[a] EXCEPT !.pc = "invite", !.group = id]
                                    ELSE Idle]
  BY DEF CreateGroup, NewGroup
<1>3. op[a].list \in Lists /\ Len(MemberRows(a, op[a].list)) = Len(op[a].list) + 1
  BY <1>1, OpFacts, MemberRowsFacts
<1>4. /\ members' \in [GroupIds -> [Accounts -> Nat]] /\ groups' \in Seq(Group)
      /\ DOMAIN groups = 1 .. Len(groups) /\ Len(groups) \in Nat
      /\ DOMAIN groups' = 1 .. Len(groups) + 1
      /\ \A i \in DOMAIN groups : groups'[i] = groups[i] /\ groups[i].id # id
      /\ groups'[Len(groups) + 1] = [id |-> id, owner |-> a]
      /\ \A g \in GroupIds \ {id} : members'[g] = members[g]
      /\ \A g \in GroupIds, x \in Accounts : members'[g][x] >= members[g][x]
      /\ \A x \in Accounts : members'[id][x] > 0 => n # 0 /\ (x = a \/ TakenForFriends(a, x))
      /\ n # 0 => members'[id][a] > 0
      /\ n = Len(op[a].list) + 1 =>
            \A i \in DOMAIN op[a].list : members'[id][op[a].list[i]] > 0
  BY <1>1, <1>2, NewGroupFacts
<1>5. DOMAIN groups \subseteq DOMAIN groups' /\ Len(groups) + 1 \in DOMAIN groups'
  BY <1>4
<1>6. /\ OpTyped(a)
      /\ \/ op'[a].pc = "idle"
         \/ /\ op'[a].pc = "invite" /\ op'[a].list = op[a].list /\ op'[a].group = id
            /\ n = Len(op[a].list) + 1
  <2> DEFINE new == [op[a] EXCEPT !.pc = "invite", !.group = id]
  <2>1. new \in Op /\ new.pc = "invite" /\ new.list = op[a].list /\ new.group = id
    BY <1>1, OpFacts DEF Op
  <2> HIDE DEF new
  <2>2. CASE n = Len(op[a].list) + 1
    <3>1. op' = [op EXCEPT ![a] = new]
      BY <1>2, <1>3, <2>2 DEF new
    <3> QED
      BY <1>1, <2>1, <2>2, <3>1 DEF OpTyped
  <2>3. CASE n # Len(op[a].list) + 1
    <3>1. Done(a)
      BY <1>2, <1>3, <2>3 DEF Done
    <3> QED
      BY <1>1, <3>1, DoneOp
  <2> QED
    BY <2>2, <2>3
<1>7. TypeOK'
  BY <1>1, <1>4, <1>6 DEF TypeOK, OpTyped
<1>8. PairsInv'
  <2>1. CommandConsistent(a)'
    BY <1>6 DEF CommandConsistent
  <2> QED
    BY <1>1, <1>6, <2>1, NoPairInv
<1>9. PairsGrow
  BY <1>1 DEF TypeOK, PairsGrow
<1>10. MembersAreFriends'
  <2> SUFFICES ASSUME NEW g \in GroupIds, NEW x \in Accounts, members'[g][x] > 0
               PROVE  \E i \in DOMAIN groups' :
                        /\ groups'[i].id = g
                        /\ groups'[i].owner = x \/ TakenForFriends(groups[i].owner, x)'
                        /\ \A j \in DOMAIN groups' : groups'[j].id = g => j = i
    BY DEF MembersAreFriends, TakenForFriends, AreFriends
  <2>1. CASE g = id
    <3> DEFINE k == Len(groups) + 1
    <3>1. k \in DOMAIN groups' /\ groups'[k].id = g /\ groups'[k].owner = a
      BY <1>4, <1>5, <2>1
    <3>2. x = a \/ TakenForFriends(a, x)
      BY <1>4, <2>1
    <3>3. \A j \in DOMAIN groups' : groups'[j].id = g => j = k
      BY <1>4, <2>1
    <3> QED
      BY <1>1, <3>1, <3>2, <3>3 DEF TakenForFriends, AreFriends
  <2>2. CASE g # id
    <3>1. members[g][x] > 0
      BY <1>4, <2>2
    <3>2. PICK i \in DOMAIN groups :
            /\ groups[i].id = g
            /\ groups[i].owner = x \/ TakenForFriends(groups[i].owner, x)
            /\ \A j \in DOMAIN groups : groups[j].id = g => j = i
      BY <1>1, <3>1 DEF GroupsInv, MembersAreFriends
    <3>3. i \in DOMAIN groups' /\ groups'[i] = groups[i]
      BY <1>4, <1>5
    <3>4. ASSUME NEW j \in DOMAIN groups', groups'[j].id = g PROVE j = i
      <4>1. j \in DOMAIN groups
        BY <1>4, <2>2, <3>4
      <4> QED
        BY <1>4, <3>2, <3>4, <4>1
    <3> QED
      BY <1>1, <3>2, <3>3, <3>4 DEF TakenForFriends, AreFriends
  <2> QED
    BY <2>1, <2>2
<1>11. CreatedGroupsComplete'
  <2>1. ASSUME NEW c \in created
        PROVE  /\ \E i \in DOMAIN groups' : groups'[i] = [id |-> c.id, owner |-> c.owner]
               /\ members'[c.id][c.owner] > 0
               /\ \A i \in DOMAIN c.list : members'[c.id][c.list[i]] > 0
    <3>1. c.id \in GroupIds /\ c.owner \in Accounts /\ c.list \in Lists
      BY <1>1 DEF TypeOK
    <3>2. GroupComplete(c.id, c.owner, c.list)
      BY <1>1 DEF GroupsInv, CreatedGroupsComplete, GroupComplete
    <3>3. PICK g \in GroupIds, o \in Accounts, list \in Lists :
              g = c.id /\ o = c.owner /\ list = c.list
      BY <3>1
    <3>4. GroupComplete(g, o, list)'
      BY <1>1, <1>4, <1>5, <3>2, <3>3, GroupStaysComplete
    <3> QED
      BY <3>3, <3>4 DEF GroupComplete
  <2>2. ASSUME NEW i \in DOMAIN groups', NEW x \in Accounts, members'[groups'[i].id][x] > 0
        PROVE  members'[groups'[i].id][groups'[i].owner] > 0
    <3>1. CASE i \in DOMAIN groups
      <4>1. /\ groups'[i] = groups[i] /\ groups[i].id \in GroupIds \ {id}
        BY <1>1, <1>4, <3>1, GroupTypes
      <4>2. members'[groups[i].id] = members[groups[i].id]
        BY <1>4, <4>1
      <4>3. members[groups[i].id][x] > 0
        BY <2>2, <4>1, <4>2
      <4>4. members[groups[i].id][groups[i].owner] > 0
        BY <1>1, <3>1, <4>3 DEF GroupsInv, CreatedGroupsComplete
      <4> QED
        BY <4>1, <4>2, <4>4
    <3>2. CASE i \notin DOMAIN groups
      <4>1. groups'[i] = [id |-> id, owner |-> a]
        BY <1>4, <3>2
      <4> QED
        BY <1>4, <2>2, <4>1
    <3> QED
      BY <3>1, <3>2
  <2> QED
    BY <1>1, <2>1, <2>2 DEF CreatedGroupsComplete
<1>12. ASSUME NEW b \in Accounts PROVE FriendsOnly(b)' /\ Inviting(b)'
  <2>1. CASE b = a
    <3>1. FriendsOnly(a)'
      BY <1>1, <1>6 DEF GroupsInv, FriendsOnly, TakenForFriends, AreFriends
    <3>2. Inviting(a)'
      <4> SUFFICES ASSUME op'[a].pc = "invite"
                   PROVE  op'[a].group \in GroupIds /\ GroupComplete(op[a].group, a, op[a].list)'
        BY DEF Inviting
      <4>1. op'[a].list = op[a].list /\ op'[a].group = id /\ n = Len(op[a].list) + 1
        BY <1>6
      <4>2. members'[id][a] > 0 /\ \A i \in DOMAIN op[a].list : members'[id][op[a].list[i]] > 0
        BY <1>3, <1>4, <4>1, ListFacts
      <4>3. \E i \in DOMAIN groups' : groups'[i] = [id |-> id, owner |-> a]
        BY <1>4, <1>5
      <4> QED
        BY <4>1, <4>2, <4>3 DEF GroupComplete
    <3> QED
      BY <2>1, <3>1, <3>2
  <2>2. CASE b # a
    <3>1. op'[b] = op[b] /\ FriendsOnly(b) /\ Inviting(b)
      BY <1>1, <1>6, <2>2 DEF OpTyped, GroupsInv
    <3>2. FriendsOnly(b)'
      BY <1>1, <1>9, <3>1, FriendsOnlyStays
    <3>3. CASE op[b].pc = "invite"
      <4>1. op[b].group \in GroupIds /\ GroupComplete(op[b].group, b, op[b].list)
            /\ op[b].list \in Lists
        BY <1>1, <3>1, <3>3, OpFacts DEF Inviting
      <4>2. PICK g \in GroupIds, list \in Lists : g = op[b].group /\ list = op[b].list
        BY <4>1
      <4>3. GroupComplete(g, b, list)'
        BY <1>1, <1>4, <1>5, <4>1, <4>2, GroupStaysComplete
      <4> QED
        BY <3>1, <3>2, <4>2, <4>3 DEF Inviting, GroupComplete
    <3>4. CASE op[b].pc # "invite"
      BY <3>1, <3>2, <3>4 DEF Inviting
    <3> QED
      BY <3>3, <3>4
  <2> QED
    BY <2>1, <2>2
<1> QED
  BY <1>7, <1>8, <1>10, <1>11, <1>12 DEF SocialInv, GroupsInv

\* The owner is told.
LEMMA InviteInv ==
    ASSUME SocialInv, NEW a \in Accounts, Invite(a) PROVE SocialInv'
<1> DEFINE c == [id |-> op[a].group, owner |-> a, list |-> op[a].list]
<1>1. /\ TypeOK /\ PairsInv /\ GroupsInv /\ op[a].pc = "invite" /\ Done(a)
      /\ UNCHANGED <<requests, friends, groups, members, misread, crossed, unsolicited>>
      /\ created' = created \cup {c}
  BY DEF SocialInv, Invite, files
<1>2. /\ op[a].group \in GroupIds /\ GroupComplete(op[a].group, a, op[a].list)
      /\ op[a].list \in Lists
  BY <1>1, OpFacts DEF GroupsInv, Inviting
<1>3. OpTyped(a) /\ op'[a].pc = "idle"
  BY <1>1, DoneOp
<1>4. TypeOK'
  BY <1>1, <1>2, <1>3 DEF TypeOK, OpTyped
<1>5. PairsInv'
  <2>1. CommandConsistent(a)'
    BY <1>3 DEF CommandConsistent
  <2> QED
    BY <1>1, <1>3, <2>1, NoPairInv
<1>6. PairsGrow
  BY <1>1 DEF TypeOK, PairsGrow
<1>7. MembersAreFriends'
  BY <1>1 DEF GroupsInv, MembersAreFriends, TakenForFriends, AreFriends
<1>8. CreatedGroupsComplete'
  <2>1. \A d \in created : GroupComplete(d.id, d.owner, d.list)
    BY <1>1 DEF GroupsInv, CreatedGroupsComplete, GroupComplete
  <2>2. \A d \in created' : GroupComplete(d.id, d.owner, d.list)
    BY <1>1, <1>2, <2>1 DEF GroupComplete
  <2>3. \A i \in DOMAIN groups :
            (\E x \in Accounts : members[groups[i].id][x] > 0)
                => members[groups[i].id][groups[i].owner] > 0
    BY <1>1 DEF GroupsInv, CreatedGroupsComplete
  <2> QED
    BY <1>1, <2>2, <2>3 DEF CreatedGroupsComplete, GroupComplete
<1>9. ASSUME NEW b \in Accounts PROVE FriendsOnly(b)' /\ Inviting(b)'
  <2>1. CASE b = a
    BY <1>3, <2>1 DEF FriendsOnly, Inviting
  <2>2. CASE b # a
    <3>1. op'[b] = op[b] /\ FriendsOnly(b) /\ Inviting(b)
      BY <1>1, <1>3, <2>2 DEF OpTyped, GroupsInv
    <3>2. FriendsOnly(b)'
      BY <1>1, <1>6, <3>1, FriendsOnlyStays
    <3> QED
      BY <1>1, <3>1, <3>2 DEF Inviting, GroupComplete
  <2> QED
    BY <2>1, <2>2
<1> QED
  BY <1>4, <1>5, <1>7, <1>8, <1>9 DEF SocialInv, GroupsInv

-----------------------------------------------------------------------------
(* The theorems *)

\* After a kill no command is half-way; the files are as they were.
LEMMA CrashInv == ASSUME SocialInv, Crash PROVE SocialInv'
<1>1. /\ TypeOK /\ PairsInv /\ GroupsInv
      /\ UNCHANGED <<requests, friends, groups, members, misread, crossed, created, unsolicited>>
      /\ op' = [a \in Accounts |-> Idle]
  BY DEF SocialInv, Crash, files
<1>2. Idle \in Op
  BY EmptyList DEF Idle, Op
<1>3. \A a \in Accounts : op'[a].pc = "idle"
  BY <1>1 DEF Idle
<1>4. TypeOK'
  BY <1>1, <1>2 DEF TypeOK
<1>5. PairsInv'
  <2>1. FriendshipsByConsent' /\ \A a \in Accounts : CommandConsistent(a)'
    BY <1>1, <1>3 DEF PairsInv, FriendshipsByConsent, CommandConsistent
  <2>2. ASSUME NEW a \in Accounts, NEW b \in Accounts \ {a}
        PROVE  RequestOnce(a, b)' /\ FriendshipOnce(a, b)'
    <3>1. RequestOnce(a, b) /\ FriendshipOnce(a, b)
      BY <1>1 DEF PairsInv
    <3>2. ~Saving(a, b)' /\ ~Appending(a, b)' /\ ~Appending(b, a)'
      BY <1>3 DEF Saving, Appending
    <3>3. Rows(a, b)' = Rows(a, b) /\ (FriendshipMissed(a, b)' <=> FriendshipMissed(a, b))
      BY <1>1 DEF Rows, FriendshipMissed
    <3> QED
      BY <1>1, <3>1, <3>2, <3>3 DEF RequestOnce, RequestMissed, FriendshipOnce
  <2> QED
    BY <2>1, <2>2 DEF PairsInv
<1>6. GroupsInv'
  BY <1>1, <1>3
  DEF GroupsInv, MembersAreFriends, TakenForFriends, AreFriends, CreatedGroupsComplete, FriendsOnly, Inviting
<1> QED
  BY <1>4, <1>5, <1>6 DEF SocialInv

LEMMA SocialInitInv == Init => SocialInv
<1> SUFFICES ASSUME Init PROVE SocialInv
  OBVIOUS
<1>1. /\ \A a \in Accounts : op[a].pc = "idle"
      /\ \A p \in Pairs : requests[p] = 0 /\ friends[p] = 0
      /\ groups = <<>> /\ created = {} /\ misread = {} /\ crossed = {}
      /\ \A g \in GroupIds, a \in Accounts : members[g][a] = 0
  BY DEF Init, Idle
<1>2. Idle \in Op
  BY EmptyList DEF Idle, Op
<1>3. TypeOK
  <2>0. 0 \in Nat /\ 0 \in 0 .. 2
    OBVIOUS
  <2>1. /\ requests \in [Pairs -> Nat] /\ friends \in [Pairs -> Nat]
        /\ unsolicited \in [Pairs -> 0 .. 2]
        /\ misread \subseteq Misread /\ crossed \subseteq SUBSET Accounts
    <3>1. requests \in [Pairs -> Nat] /\ friends \in [Pairs -> Nat]
      BY <2>0 DEF Init
    <3>2. unsolicited \in [Pairs -> 0 .. 2]
      BY <2>0 DEF Init
    <3>3. misread \subseteq Misread /\ crossed \subseteq SUBSET Accounts
      BY DEF Init
    <3> QED
      BY <3>1, <3>2, <3>3
  <2>2. op \in [Accounts -> Op] /\ members \in [GroupIds -> [Accounts -> Nat]]
    BY <1>2 DEF Init
  <2>3. groups \in Seq(Group)
    BY <1>1
  <2> QED
    BY <1>1, <2>1, <2>2, <2>3 DEF TypeOK
<1>4. FriendshipsByConsent
  BY <1>1 DEF FriendshipsByConsent, Pairs
<1>5. PairsInv
  <2>1. ASSUME NEW a \in Accounts, NEW b \in Accounts \ {a}
        PROVE  RequestOnce(a, b) /\ FriendshipOnce(a, b)
    <3>1. ~Saving(a, b) /\ ~Appending(a, b) /\ ~Appending(b, a)
      BY <1>1 DEF Saving, Appending
    <3>2. requests[<<a, b>>] = 0 /\ Rows(a, b) = 0
      BY <1>1 DEF Pairs, Rows
    <3> QED
      BY <3>1, <3>2 DEF RequestOnce, FriendshipOnce
  <2>2. \A a \in Accounts : CommandConsistent(a)
    BY <1>1 DEF CommandConsistent
  <2> QED
    BY <1>4, <2>1, <2>2 DEF PairsInv
<1>6. GroupsInv
  BY <1>1 DEF GroupsInv, MembersAreFriends, CreatedGroupsComplete, FriendsOnly, Inviting
<1> QED
  BY <1>3, <1>5, <1>6 DEF SocialInv

LEMMA SocialNextInv == SocialInv /\ [Next]_vars => SocialInv'
<1> SUFFICES ASSUME SocialInv, [Next]_vars PROVE SocialInv'
  OBVIOUS
<1>1. CASE Crash
  BY <1>1, CrashInv
<1>2. ASSUME NEW a \in Accounts, MessageStep(a) PROVE SocialInv'
  BY <1>2, BeginMessageInv, LookUpRequestInv, LookUpFriendInv, CheckPairInv, AppendPairInv,
     EndMessageInv DEF MessageStep
<1>3. ASSUME NEW a \in Accounts, GroupStep(a) PROVE SocialInv'
  <2>1. 0 .. MaxNamed + 1 \subseteq Nat
    BY SocialAssumption
  <2> QED
    BY <1>3, <2>1, CollectInv, CreateGroupInv, EndMessageInv, InviteInv DEF GroupStep
<1>4. CASE UNCHANGED vars
  <2>1. TypeOK'
    BY <1>4 DEF vars, SocialInv, TypeOK
  <2>2. PairsInv'
    BY <1>4 DEF vars, SocialInv, PairsInv, FriendshipsByConsent, CommandConsistent, AskedBy,
                RequestOnce, RequestMissed, Saving, FriendshipOnce, FriendshipMissed, Appending, Rows
  <2>3. GroupsInv'
    BY <1>4 DEF vars, SocialInv, GroupsInv, MembersAreFriends, TakenForFriends, AreFriends,
                CreatedGroupsComplete, FriendsOnly, Inviting, GroupComplete
  <2> QED
    BY <2>1, <2>2, <2>3 DEF SocialInv
<1> QED
  BY <1>1, <1>2, <1>3, <1>4 DEF Next

LEMMA SocialInvariant == Spec => []SocialInv
BY SocialInitInv, SocialNextInv, PTL DEF Spec

(* Types: what a thread keeps between two critical sections and what the   *)
(* files hold is what it is declared to be.                                *)
THEOREM SocialTypeCorrect == Spec => []TypeOK
<1>1. SocialInv => TypeOK
  BY DEF SocialInv
<1> QED
  BY <1>1, SocialInvariant, PTL

(* No request and no friendship is appended twice by one side, unless a    *)
(* scan was misread, crossed.                                                     *)
THEOREM RowsStayUnique == Spec => []RowsUnique
<1>1. SocialInv => RowsUnique
  BY PairsUnique DEF SocialInv
<1> QED
  BY <1>1, SocialInvariant, PTL

(* Nobody becomes a friend without having asked, but for one whose request *)
(* a scan saw that was not there.                                          *)
THEOREM FriendshipNeedsConsent == Spec => []FriendshipsByConsent
<1>1. SocialInv => FriendshipsByConsent
  BY DEF SocialInv, PairsInv
<1> QED
  BY <1>1, SocialInvariant, PTL

(* Every member of a group is its owner or a friend of its owner.          *)
THEOREM OnlyFriendsAreMembers == Spec => []MembersAreFriends
<1>1. SocialInv => MembersAreFriends
  BY DEF SocialInv, GroupsInv
<1> QED
  BY <1>1, SocialInvariant, PTL

(* A group whose owner was told that it exists is on file as a whole.      *)
THEOREM AnnouncedGroupsComplete == Spec => []CreatedGroupsComplete
<1>1. SocialInv => CreatedGroupsComplete
  BY DEF SocialInv, GroupsInv
<1> QED
  BY <1>1, SocialInvariant, PTL
=============================================================================

---------------------------- MODULE StrtokProofs ----------------------------
(***************************************************************************)
(* What remains of a record when the pointer of strtok is moved under its  *)
(* scan: for every set of names, every user file and every friends.db.     *)
(***************************************************************************)
EXTENDS Strtok, TLAPS

\* The file and the registering thread, typed; the fields of a line being split
\* start with the line's own first field.
SplitInv ==
    /\ users \in Seq(Requests)
    /\ register \in [pc      : {"idle", "read", "split"},
                     request : Requests \cup {<<>>},
                     line    : Nat,
                     fields  : Seq(Words)]
    /\ register.pc # "idle" => register.request \in Requests
    /\ register.pc = "read" => register.line >= 1
    /\ register.pc = "split" =>
          /\ register.line \in DOMAIN users
          /\ Len(register.fields) >= 1
          /\ register.fields[1] = users[register.line][1]

\* Nothing is being split at first.
LEMMA SplitInit ==
    ASSUME InitialUsers \subseteq Seq(Requests), Init PROVE SplitInv
BY DEF Init, SplitInv

\* The steps of user_register keep the first field.
LEMMA RegisterKeepsFirst ==
    ASSUME SplitInv,
           \/ \E request \in Requests : Begin(request)
           \/ ReadLine \/ SplitLine \/ Compare \/ AppendRecord
    PROVE  SplitInv'
<1>1. ASSUME NEW request \in Requests, Begin(request) PROVE SplitInv'
  BY <1>1 DEF Begin, SplitInv
<1>2. CASE ReadLine
  <2>1. PICK field \in Words :
           /\ First(users[register.line], field)
           /\ register' = [register EXCEPT !.pc = "split", !.fields = <<field>>]
    BY <1>2 DEF ReadLine
  <2>2. register.line \in DOMAIN users /\ field = users[register.line][1]
    <3>1. register.line \in Nat /\ 1 <= register.line /\ register.line <= Len(users)
      BY <1>2 DEF ReadLine, SplitInv
    <3>2. DOMAIN users = 1 .. Len(users)
      BY DEF SplitInv
    <3> QED
      BY <2>1, <3>1, <3>2 DEF First
  <2>3. <<field>> \in Seq(Words) /\ Len(<<field>>) = 1 /\ <<field>>[1] = field
    OBVIOUS
  <2>4. users' = users /\ register.pc = "read"
    BY <1>2 DEF ReadLine
  <2>5. register' = [pc |-> "split", request |-> register.request,
                    line |-> register.line, fields |-> <<field>>]
    BY <2>1 DEF SplitInv
  <2>6. register.request \in Requests /\ register.line \in Nat
    BY <2>4 DEF SplitInv
  <2> QED
    BY <2>2, <2>3, <2>4, <2>5, <2>6 DEF SplitInv
<1>3. CASE SplitLine
  <2>1. PICK field \in Words :
           register' = [register EXCEPT !.fields = Append(@, field)]
    BY <1>3 DEF SplitLine
  <2>2. register.pc = "split" /\ users' = users
    BY <1>3 DEF SplitLine
  <2>3. /\ register.fields \in Seq(Words)
        /\ Len(register.fields) >= 1
        /\ register.fields[1] = users[register.line][1]
    BY <2>2 DEF SplitInv
  <2>4. /\ Append(register.fields, field) \in Seq(Words)
        /\ Len(Append(register.fields, field)) >= 1
        /\ Append(register.fields, field)[1] = register.fields[1]
    BY <2>3
  <2>5. /\ register'.pc = "split"
        /\ register'.request = register.request
        /\ register'.line = register.line
        /\ register'.fields = Append(register.fields, field)
        /\ register' = [pc |-> "split", request |-> register.request,
                        line |-> register.line,
                        fields |-> Append(register.fields, field)]
    BY <2>1, <2>2 DEF SplitInv
  <2> QED
    BY <2>2, <2>3, <2>4, <2>5 DEF SplitInv
<1>4. CASE Compare
  <2>1. /\ users' = users
        /\ register.pc = "split"
        /\ \/ register' = [register EXCEPT !.pc = "idle"]
           \/ register' = [register EXCEPT !.pc = "read", !.line = @ + 1]
    BY <1>4 DEF Compare
  <2>2. CASE register' = [register EXCEPT !.pc = "idle"]
    <3>1. register' = [pc |-> "idle", request |-> register.request,
                      line |-> register.line, fields |-> register.fields]
      BY <2>2 DEF SplitInv
    <3> QED
      BY <2>1, <3>1 DEF SplitInv
  <2>3. CASE register' = [register EXCEPT !.pc = "read", !.line = @ + 1]
    <3>1. register' = [pc |-> "read", request |-> register.request,
                      line |-> register.line + 1, fields |-> register.fields]
      BY <2>3 DEF SplitInv
    <3> QED
      BY <2>1, <3>1 DEF SplitInv
  <2> QED
    BY <2>1, <2>2, <2>3
<1>5. CASE AppendRecord
  <2>1. /\ register.pc = "read"
        /\ users' = Append(users, register.request)
        /\ register' = [register EXCEPT !.pc = "idle"]
    BY <1>5 DEF AppendRecord
  <2>2. users' \in Seq(Requests)
    BY <2>1 DEF SplitInv
  <2>3. register' = [pc |-> "idle", request |-> register.request,
                    line |-> register.line, fields |-> register.fields]
    BY <2>1 DEF SplitInv
  <2> QED
    BY <2>2, <2>3 DEF SplitInv
<1> QED
  BY <1>1, <1>2, <1>3, <1>4, <1>5

\* The scan of friends.db moves the pointer and nothing of user_register's.
LEMMA ScanKeepsFirst ==
    ASSUME SplitInv,
           (\E line \in Friendships : ScanLine(line)) \/ ScanSecond \/ UNCHANGED vars
    PROVE  SplitInv'
BY DEF ScanLine, ScanSecond, vars, SplitInv

(* The first field a scan of users.db takes from a line is the line's own, *)
(* whatever scans of friends.db do to the pointer in between (the strtok   *)
(* calls of parse_user_record): a record may be skipped or given another   *)
(* password or nickname, and never another account.                        *)
THEOREM FirstFieldAlwaysOwn ==
    ASSUME InitialUsers \subseteq Seq(Requests) PROVE Spec => []FirstFieldIsOwn
<1>1. Init => SplitInv
  BY SplitInit
<1>2. SplitInv /\ [Next]_vars => SplitInv'
  BY RegisterKeepsFirst, ScanKeepsFirst DEF Next
<1>3. SplitInv => FirstFieldIsOwn
  BY DEF SplitInv, FirstFieldIsOwn
<1> QED
  BY <1>1, <1>2, <1>3, PTL DEF Spec
=============================================================================

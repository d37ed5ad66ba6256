------------------------------- MODULE Strtok -------------------------------
(***************************************************************************)
(* The pointer strtok keeps, shared by user.c and social.c.                *)
(*                                                                         *)
(* parse_user_record splits a line of users.db with three calls of strtok, *)
(* social_are_friends_unlocked and the other scans of social.c split their *)
(* lines with two or three.  strtok(line) starts at the line and           *)
(* strtok(NULL) where the last call left off, whoever made it: the place   *)
(* is one static variable of the C library.  users_file_mutex keeps the    *)
(* scans of users.db apart and social_mutex those of the social files, but *)
(* nothing keeps the one from the other.                                   *)
(*                                                                         *)
(* Two threads: one runs a REGISTER, command after command, and one runs   *)
(* FRIENDS or any other command that scans friends.db.  Each call of       *)
(* strtok is a step; what the two do inside a call at the same time is     *)
(* left out, and so is the reuse of a buffer a pointer still points to.    *)
(***************************************************************************)
EXTENDS Naturals, Sequences

CONSTANTS
    Accounts,
    Nicknames,
    Passwords,
    InitialUsers,   \* the contents users.db may have when the server starts
    Friendships,    \* the lines of friends.db: pairs of accounts
    Null,           \* strtok found no further field
    MaxUsers        \* bound: no record is appended beyond this many

VARIABLES
    users,          \* users.db: lines of three fields, in file order
    place,          \* the static pointer: the line and the field it is at
    register,       \* the thread in user_register
    scan            \* the thread in social_are_friends_unlocked

vars == <<users, place, register, scan>>

\* A request as REGISTER gives it, which is the line it appends.
Requests == Accounts \X Passwords \X Nicknames

Init ==
    /\ users \in InitialUsers
    /\ place = [line |-> <<>>, field |-> 1]
    /\ register = [pc |-> "idle", request |-> <<>>, line |-> 0, fields |-> <<>>]
    /\ scan = [pc |-> "idle", fields |-> <<>>]

\* strtok(line, ...): the first field, and the place after it.
First(line, field) ==
    /\ field = line[1]
    /\ place' = [line |-> line, field |-> 2]

\* strtok(NULL, ...): the field at the place, or none.
Following(field) ==
    IF place.field > Len(place.line)
      THEN field = Null /\ UNCHANGED place
      ELSE /\ field = place.line[place.field]
           /\ place' = [place EXCEPT !.field = @ + 1]

Words == Accounts \cup Nicknames \cup Passwords \cup {Null}

-----------------------------------------------------------------------------
(* user_register *)

Begin(request) ==
    /\ register.pc = "idle"
    /\ Len(users) < MaxUsers
    /\ register' = [pc |-> "read", request |-> request, line |-> 1, fields |-> <<>>]
    /\ UNCHANGED <<users, place, scan>>

\* fgets returns a line, and parse_user_record takes its first field.
ReadLine ==
    /\ register.pc = "read"
    /\ register.line <= Len(users)
    /\ \E field \in Words :
            /\ First(users[register.line], field)
            /\ register' = [register EXCEPT !.pc = "split", !.fields = <<field>>]
    /\ UNCHANGED <<users, scan>>

\* The second and the third field.
SplitLine ==
    /\ register.pc = "split"
    /\ Len(register.fields) < 3
    /\ \E field \in Words :
            /\ Following(field)
            /\ register' = [register EXCEPT !.fields = Append(@, field)]
    /\ UNCHANGED <<users, scan>>

\* A record that lacks a field is skipped; one that has the account or the
\* nickname asked for ends the command with USER_ALREADY_EXISTS.
Compare ==
    LET fields == register.fields  request == register.request IN
    /\ register.pc = "split"
    /\ Len(fields) = 3
    /\ IF Null \notin {fields[1], fields[2], fields[3]}
          /\ (fields[1] = request[1] \/ fields[3] = request[3])
         THEN register' = [register EXCEPT !.pc = "idle"]
         ELSE register' = [register EXCEPT !.pc = "read", !.line = @ + 1]
    /\ UNCHANGED <<users, place, scan>>

\* The end of the file is reached: the record is appended.
AppendRecord ==
    /\ register.pc = "read"
    /\ register.line > Len(users)
    /\ users' = Append(users, register.request)
    /\ register' = [register EXCEPT !.pc = "idle"]
    /\ UNCHANGED <<place, scan>>

-----------------------------------------------------------------------------
(* social_are_friends_unlocked *)

\* fgets returns a line of friends.db, and its first field is taken.
ScanLine(line) ==
    /\ scan.pc = "idle"
    /\ \E field \in Words :
            /\ First(line, field)
            /\ scan' = [pc |-> "split", fields |-> <<field>>]
    /\ UNCHANGED <<users, register>>

\* The second field; the two are compared and the scan goes on.
ScanSecond ==
    /\ scan.pc = "split"
    /\ \E field \in Words :
            /\ Following(field)
            /\ scan' = [pc |-> "idle", fields |-> Append(scan.fields, field)]
    /\ UNCHANGED <<users, register>>

-----------------------------------------------------------------------------

Next ==
    \/ \E request \in Requests : Begin(request)
    \/ ReadLine
    \/ SplitLine
    \/ Compare
    \/ AppendRecord
    \/ \E line \in Friendships : ScanLine(line)
    \/ ScanSecond

Spec == Init /\ [][Next]_vars

(* docs/backend_protocol.md: nicknames and accounts are unique.  A scan of *)
(* friends.db between two fields of a record makes user_register skip the  *)
(* record, and it appends the same account or nickname a second time.      *)
RegisteredOnce ==
    \A i, j \in DOMAIN users :
        users[i][1] = users[j][1] \/ users[i][3] = users[j][3] => i = j

(* The first field of a record is the line's own, whatever happens to the  *)
(* pointer: this much of a disturbed scan can be relied on, and UserStore  *)
(* relies on it.                                                           *)
FirstFieldIsOwn ==
    register.pc = "split" => register.fields[1] = users[register.line][1]
=============================================================================

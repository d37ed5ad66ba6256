------------------------------ MODULE UserStore ------------------------------
(***************************************************************************)
(* The user file (user.c): an append-only list of records that every       *)
(* REGISTER scans and extends, and that every lookup scans from its start. *)
(*                                                                         *)
(* users_file_mutex is held from the scan to the flush in user_register    *)
(* and for the whole scan in user_find and user_authenticate, so each of   *)
(* them is one action or one state function.  Accounts are nine digits;    *)
(* a nickname is any word, which may be nine digits too: Accounts and      *)
(* Nicknames are allowed to overlap.                                       *)
(*                                                                         *)
(* The mutex does not protect what a scan reads: parse_user_record splits  *)
(* a line with strtok, which keeps its place in one static pointer for the *)
(* whole process, and social.c calls strtok too, under a mutex of its own. *)
(* Module Strtok follows the pointer call by call.  Here, when Racing, a   *)
(* line may yield its own account with any other two fields, or nothing.   *)
(***************************************************************************)
EXTENDS Naturals, Sequences

CONSTANTS
    Accounts,       \* words user_valid_account accepts
    Nicknames,      \* words user_valid_nickname accepts
    Passwords,      \* words user_valid_password accepts
    InitialUsers,   \* the contents users.db may have when the server starts
    MaxUsers,       \* bound: no record is appended beyond this many
    Racing          \* commands that call strtok in social.c may run at the
                    \* same time as the scans of this file

VARIABLE users      \* the records of users.db, in file order

User == [account : Accounts, password : Passwords, nickname : Nicknames]

\* What LOGIN, SEARCH_USER and the other lookups may be asked for.
Logins == Accounts \cup Nicknames

\* The two names a user may be looked up by.
NamedBy(user, login) == user.account = login \/ user.nickname = login

\* Fault: a scan that keeps the last match instead of stopping at the first.
FoundAtLast(login, i) ==
    /\ i \in DOMAIN users
    /\ NamedBy(users[i], login)
    /\ \A j \in (i + 1) .. Len(users) : ~NamedBy(users[j], login)

(* The scan of find_unlocked stops at the first record that carries the    *)
(* name as its account or as its nickname: i is the index of that record.  *)
FoundAt(login, i) ==
    /\ i \in DOMAIN users
    /\ NamedBy(users[i], login)
    /\ \A j \in 1 .. (i - 1) : ~NamedBy(users[j], login)

(* What parse_user_record may make of a line.  The first strtok of a line  *)
(* is given the line and returns its first field, the account, whatever    *)
(* other threads do; the next two go on wherever the pointer is by then.   *)
Parses(user) ==
    IF Racing
      THEN [account : {user.account}, password : Passwords, nickname : Nicknames]
      ELSE {user}

Parsed == UNION {Parses(users[i]) : i \in DOMAIN users}

(* The record find_unlocked hands back.  A line that yields nothing is     *)
(* skipped, so when Racing the scan may stop further down.                 *)
Finds(login, record) ==
    \E i \in DOMAIN users :
        /\ Racing \/ FoundAt(login, i)
        /\ record \in Parses(users[i])
        /\ NamedBy(record, login)

(* user_authenticate compares the password with that of the record found,  *)
(* and with no other.                                                      *)
AuthenticatedAs(login, password, record) ==
    Finds(login, record) /\ record.password = password

\* Fault: a duplicate check that forgets the nicknames.
SeemsFreeByAccountOnly(account, nickname) ==
    ~\E i \in DOMAIN users : users[i].account = account

\* The duplicate check of user_register: account against account, nickname
\* against nickname, never one against the other.
Taken(account, nickname) ==
    \E i \in DOMAIN users :
        users[i].account = account \/ users[i].nickname = nickname

\* The scan of user_register meets no such record; when Racing it may skip one.
SeemsFree(account, nickname) == Racing \/ ~Taken(account, nickname)

-----------------------------------------------------------------------------

UniqueNames(file) ==
    \A i, j \in DOMAIN file :
        file[i].account = file[j].account \/ file[i].nickname = file[j].nickname
            => i = j

ASSUME InitialUsersAssumption ==
    InitialUsers \subseteq {file \in Seq(User) : UniqueNames(file)}

ASSUME StoreAssumption == MaxUsers \in Nat /\ Racing \in BOOLEAN

StoreInit == users \in InitialUsers

\* user_register that finds the names free and appends the record.  The last
\* fclose may still report an error after the flush: the reply is then an ERR,
\* and the record is in the file all the same.
RegisterStored(account, password, nickname) ==
    /\ Len(users) < MaxUsers
    /\ SeemsFree(account, nickname)
    /\ users' = Append(users, [account  |-> account,
                               password |-> password,
                               nickname |-> nickname])

\* user_register that answers an error and writes nothing: a name is taken, or
\* the file cannot be opened, read or written.
RegisterRefused == UNCHANGED users

StoreNext ==
    \/ \E a \in Accounts, p \in Passwords, n \in Nicknames :
            RegisterStored(a, p, n)
    \/ RegisterRefused

StoreSpec == StoreInit /\ [][StoreNext]_users

-----------------------------------------------------------------------------

\* The file holds user records only.
StoreTypeOK == users \in Seq(User)

(* No two records share an account and no two share a nickname, whatever   *)
(* connections register at the same time (user_register checks and appends *)
(* under users_file_mutex), as long as no scan is disturbed.  Strtok shows *)
(* that commands of social.c do disturb them.                              *)
NamesUnique == UniqueNames(users)

(* A login name that resolves to a user resolves to that same user for     *)
(* ever: later registrations, even of a nickname that spells the name of   *)
(* an older account, never take a name over (find_unlocked stops at the    *)
(* first match and user_register only appends).                            *)
NameNeverTakenOver ==
    [][\A login \in Logins, i \in 1 .. MaxUsers :
            FoundAt(login, i) => FoundAt(login, i)' /\ users'[i] = users[i]]_users
=============================================================================

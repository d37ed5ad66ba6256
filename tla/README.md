# Linux-BBS-Chat: a TLA+ verification project

Linux-BBS-Chat is a chat and bulletin-board server in C with one thread for each
connection, text files for storage, and three clients (terminal, Qt, a web page
behind a Python gateway). The modules here model who is logged in where, what the
files promise while many threads append to them, how threads write to each other's
sockets, what is left when a call fails or the process is killed, and what the
clients make of the stream they read. TLC checks every module on small instances;
TLAPS proves every safety property of the passing runs for all instances.

## The system

| Part | Source | State | Operations | What must hold |
| --- | --- | --- | --- | --- |
| User store | `src/user.c` | `users.db`, `users_file_mutex` | register, find, authenticate | names are unique; a name keeps its owner |
| Tokenizer | `strtok`, called by `user.c` and `social.c` | one static pointer of the C library | split a line | a record is read as it was written |
| Connections, slots, logins | `src/server.c` | `clients[64]`, `clients_mutex`, one descriptor and thread per peer | accept, register, LOGIN, LOGOUT, QUIT, disconnect, push | one session per account; no slot or descriptor leaks or is mixed up; pushes reach the right peer |
| BBS | `src/bbs.c`, BBS commands of `server.c` | `posts.db`, `replies.db`, `files.db`, upload directory, `bbs_mutex` | create, reply, attach, list, view, download | what is announced is stored; ids keep their meaning; attachments are whole and their authors' |
| Notifications | `src/notification.c` | `notifications.db` and its `.tmp`, `notification_mutex` | add, list, mark read, mark all read | none is lost; read stays read; only their account marks them |
| Requests, friends, groups | `src/social.c`, PRIVATE* and GROUP* of `server.c` | `private_requests.db`, `friends.db`, `groups.db`, `group_members.db`, `social_mutex` | ask, reply, list, create a group, send to a group | friendship by consent; members are friends; created groups are complete |
| Delivery, chat log | `src/chat.c`, `server.c` | `chat.log`, `chat_log_mutex`, a `send_mutex` per slot, the sockets | GROUP_SEND, PRIVATE, EVENTs, answers, history | one order for all members; the log agrees with what was received; nobody waits for ever |
| File transfer | `src/file_transfer.c`, UPLOAD and DOWNLOAD | upload directory, `files.db` | store, send, discard | whole files only; the byte stream stays in step |
| Storage and backup | `src/storage.c` | paths; snapshot directories | init, snapshot | a snapshot is consistent |
| Line protocol | `src/protocol.c` | the stream of a socket | read and write lines and bytes | lines come out as they went in |
| Clients | `src/client.c`, `frontend/qt_client`, `web/server.py`, `web/static/app.js` | pending request, event lists, cursors | send commands, match replies and events | a reply is matched with its request; no event is lost |

How they interact. `run_server` accepts a connection, takes a slot and starts
`client_thread`, which runs one command after the other in `handle_command`. A
command calls the stores, each of which opens its file, scans or appends, and
closes it under its own mutex. What concerns somebody else is written straight to
that peer's socket, found through the slot table, by the thread that runs the
command. Nothing is cached: files are read from the start by every command.
Mutexes are taken inside each other: under `social_mutex` the visitors of
`social.c` take `users_file_mutex`, `notification_mutex` and `clients_mutex`, one at
a time, and write to sockets; the visitor of NOTIFICATIONS writes to its own socket
under `notification_mutex`; under `clients_mutex` threads write to the sockets of
others; each line, and each file, is written under the `send_mutex` of its slot.

What is hard in it:

- *Interleavings.* Stores lock one scan or one append, and most commands are
  several of those: read the next id and append (BBS), look for a row and append it
  (requests, friends), look up an attachment and store one, `stat` a file and open
  it. Slots and descriptors are reused while other threads write through them. A
  snapshot is copied under no mutex.
- *A data race.* `strtok` keeps its place in one variable of the process.
  `user.c:27` and `social.c:47` (and 137, 168, 205, 240, 377) call it under two
  different mutexes.
- *Waiting.* Sockets are blocking, and lines are written under up to three mutexes at once.
- *Failures.* Every append and rename can fail, and each caller has an error path of
  its own. Nothing is repaired at start-up, so what a kill leaves behind stays.
- *Peers.* A peer may vanish at any time, in the middle of a payload too.
- *A stream without request numbers.* Answers, pushes and files share it; clients
  guess what belongs to what.

## The modules

| Module | Models | Corresponds to |
| --- | --- | --- |
| `UserStore` | `users.db` as a sequence of records | an action per call that appends; look-ups are state functions (`FoundAt`, `Finds`, `AuthenticatedAs`) because each holds `users_file_mutex` from start to end |
| `Strtok` | the pointer of `strtok`, one call a step | `parse_user_record` inside `user_register` against `social_are_friends_unlocked` |
| `Sessions` | accepting loop, slots, threads, peers, logins | `listener.pc` and `thread[f].pc` are the places between two critical sections of `run_server` and `client_thread`; extends `UserStore` |
| `Bbs` | posts, replies, attachments | a step per critical section, per file read and per file-system call of POST, REPLY, BBS_CREATE, BBS_REPLY, BBS_UPLOAD_* |
| `NotificationBoard` | the abstract promise of the notification store | |
| `Notifications` | the file, row by row | every row copied by `rewrite_marked` is a step; refines `NotificationBoard` |
| `Social` | requests, friends, groups | a step per critical section of PRIVATE_START, PRIVATE_REPLY, PRIVATE, GROUP_CREATE |
| `FileTransfer` | UPLOAD and DOWNLOAD, malformed lines too, the stored files and the bytes on the stream | a step per call of the file system; stored files have an identity, so that a name may come to name another one |
| `Backup` | BACKUP beside the transfers | a step per file that is found unreadable, opened, copied, or left in part; extends `FileTransfer` and implements it |
| `Delivery` | `social_mutex`, `notification_mutex`, `users_file_mutex`, `clients_mutex` and the `send_mutex` of each slot, the sockets, `chat.log` | a step per mutex taken, and per row, line, header or chunk |
| `QtClient` | pending request, downloads, windows and timers of the Qt client, and its connection | a step per line or chunk of `processBuffer`, per command of the server's thread and item it sends |
| `WebGateway` | the events of a gateway session and the polls of the page | `pop_events` in its two reads of the list |
| `*Proofs` | the theorems about the module of that name; `SessionsProofs` has those about `UserStore` too, `BackupProofs` those about `FileTransfer` | |

`MC*` modules give the constants values; operators commented *Fault* are plausible
bugs, used to see that each property can fail.

How modules rest on each other:

- `Sessions` extends `UserStore`: LOGIN uses its look-up, REGISTER its append.
  `ServerImplementsStore` (proved) says that all it does to `users.db` is what
  `UserStore` allows.
- `UserStore` has a constant `Racing`. When it is TRUE, a scan may skip a record or
  see its account with any other two fields. `Strtok` shows that this happens, and
  `FirstFieldAlwaysOwn` (proved) that the account is always the line's own.
- `Bbs`, `Social`, `FileTransfer` and `Delivery` name a thread by the account it is
  logged in as. That is `OneSessionPerAccount` of `Sessions`, proved with `Racing`
  either way. `Bbs` also takes a nickname for its owner, which is `NamesUnique` and
  needs undisturbed scans.
- `Social` lets a scan miss a row or see one that is not there, which covers the race
  of `Strtok` and a file that cannot be opened. `misread` keeps what was seen wrongly
  and of whom; properties except those alone. `crossed` keeps the pairs of whom both
  were about to append their friendship.
- `Backup` extends `FileTransfer`, and `BackupDisturbsNoTransfer` (proved) says that
  what holds of the transfers holds beside a BACKUP too.
- `QtClient` takes from `Delivery` that the server comes to the end of every command
  (`CommandsEnd`) and that nothing comes between the bytes of a file (`ReadersInStep`).

Premises, each about something a module leaves out:

- A record is appended whole or not at all, and `fclose` does not fail after a
  successful `fflush` (all stores). A file that exists can be opened for reading (in
  `Bbs`, `Notifications`, and for the id of a group in `Social`).
- Data survives a kill of the process. A power failure is not modelled; the code
  never calls `fsync`.
- A peer sends what follows its UPLOAD line in full, or hangs up (`FileTransfer`).
  The line may be malformed, and then what follows is read as commands. A chunk of
  such bytes stands for any number of lines, and the commands they may make are those
  of the module. The uploads of the BBS answer malformed lines in the same way
  (`server.c:1726`); `Bbs` has no stream.
- `files.db` stands for all tables a snapshot copies, and all BACKUPs have one label
  (`Backup`): tables are copied in one way, or passed over in one way, and snapshots
  of other labels are other directories. The copies of one file write the same bytes
  at the same places.
- All users of `Delivery` are members of one group and logged in; slots stay logged in
  until their thread has seen that the peer is gone. A member may have several rows
  (GROUP_CREATE takes a name twice), in any order. GROUP_SEND can open
  `group_members.db`: when it cannot, `social.c:412` returns 0 and the message is
  logged though nobody heard it, which `HistoryAgrees` leaves out. That scans under
  `social_mutex` may stop early is allowed for lists (`EndRows`) and not for groups.

## What the runs check

| Run | Bounds | Distinct states | Shows |
| --- | --- | --- | --- |
| `Sessions` | 3 descriptors, 2 slots, 2 accounts, disturbed scans | 1.6 million | slots, descriptors, sessions and pushes agree; one session per account |
| `SessionsLive` | 3 descriptors, 1 slot, 3 accounts of which one is a nickname too, 3 registrations, undisturbed scans | 133,830 | `NamesUnique`, `NameNeverTakenOver`, and `DeadPeersReleased`: who is gone leaves slot and login |
| `Bbs` | 2 authors, 2 file names; 2 posts and 1 reply with attachments, 3 posts and 2 replies without | 3.2 million | at most one attachment per object; recorded files are whole; only kills leave orphans; what is told is stored; replies have posts; an author never repeats an id; an id keeps its meaning |
| `Notifications` | 2 accounts, 2 threads, 4 rows | 37,471 | `ImplementsBoard`, increasing ids, acknowledgements kept |
| `Social` | 2 accounts, 2 groups, 1 name per group, each row at most twice, 2 different misreadings | 5.2 million | consent, uniqueness in both orders of a pair, membership, group completeness |
| `Transfers` | 2 users, 1 file name, files of 2 chunks, 2 uploads, any number of malformed lines and of BACKUPs | 7.4 million | `StreamInStep`, `RecordedFilesWhole`, `ListedDownloadsWhole`, `SnapshotComplete` |
| `Delivery` | 2 users, one of whom has two rows of the group, sockets of 1 item, 2 messages, 1 list of at most 1 row or download of 2 chunks | 1.4 million | `ReadersInStep`, `OneOrder`, `HistoryAgrees`, and `CommandsEnd`: no deadlock although threads write under mutexes |
| `QtClient` | 4 requests, downloads of 1 chunk, pushes while nothing else is on its way | 657,888 | `AnswersInStep`, `LoginGenuine`, `RequestsEnd`: the only ways in which the client mistakes an answer |
| `Strtok` | 2 users, one friendship, 1 more registration | counterexample | refutes `RegisteredOnce` |
| `BbsAttach` | 2 posts, 1 reply | counterexample | refutes `OnlyAuthorsAttach` |
| `SocialInitial` | 2 accounts | counterexample | refutes `OneInitialMessage` |
| `WebGateway` | a session that keeps 2 events, 2 polls at a time | counterexample of 11 states | refutes `NewEventsHandedOut` |

Why the bounds are enough for what is claimed. Uniqueness, ownership and permission
properties relate two records or two connections, and a third descriptor over two
slots makes slots and descriptors be reused while others are in use and the table be
full. A third post lets an id be handed out twice and a later one follow; four
notifications let a rewrite copy rows of both accounts before and after the one it
marks. Two accounts are all that a request or friendship relates; a third row would
need both to have looked before two appends, and each has one thread. Two misreadings
let both lookups of one command go wrong, or one of each account. The second group
checks that ids do not repeat. Two uploads to one path are enough for one to fail
while the other stores, and a file of two chunks can be there in part; two users can
run two BACKUPs at once, or one beside a transfer, and one after the other as often as
they like. A socket of one item makes every second write block. One row is enough for
a list to wait for its reader, or for `users_file_mutex`, under the mutex of its file,
while the other user's message needs that mutex; two messages give the orders of the
log, of the members and of the slots a chance to differ, and a third holder of a mutex
would wait as the second does. Four requests are LOGIN, the WHO it sets off and two
more, or begin with a request whose answer is lost with the connection. Each property
has been seen to fail when the definition it is about is replaced by its *Fault*. The
proofs below need no bounds.

`CHECK_DEADLOCK` is off in two runs: in `Delivery`, because the system stops when the
commands of the bound are used up (that it stops nowhere else is `CommandsEnd`), and
in `QtClient`, because a main window without a connection has no way to connect
again. Everywhere else some actor can always take a further step.

### What the refuting runs show

- **`Strtok`, accounts and nicknames are not always unique**
  (`docs/backend_protocol.md:24`). REGISTER reads the first field of a record; another
  thread's FRIENDS moves the pointer to a line of `friends.db`; the record ends early
  and is skipped; the same account is appended again. One shared mutex or `strtok_r`
  would do.
- **`BbsAttach`, an attachment that is not the author's** (`docs/backend_protocol.md:137`).
  Two authors read the same next post id and append. The first uploads; the second
  sees that attachment under his own post and is refused an upload of his own.
- **`SocialInitial`, more than one initial message** (`docs/backend_protocol.md:50`).
  `social_add_private_request` returns 0 for a request on file, and the message is
  delivered each time.
- **`WebGateway`, a page that goes silent** (`web/README.md:44` lists a console log
  for raw backend protocol responses). `_append_event` cuts the list to its last
  300 events (`server.py:89`), and `pop_events` uses the browser's cursor as an index
  into it. Once 300 events have come the cursor is 300, the slice behind it is
  always empty, and what comes later is never handed out. Numbering events by the
  session, and not by their place in the list, would do. The run keeps 2 events
  instead of 300.

### Fairness

- `SessionsLive`: weak fairness of the accepting loop and of each connection's
  thread. Threads of the operating system run until they block, and the model's
  threads block only for a line of their peer. Nothing is assumed of the peers'
  commands or of their hanging up. That a peer reads what it is sent is a premise
  there and a part of `Delivery`.
- `Delivery`: weak fairness of each thread and of each peer's reading. The clients
  read all the time: `receiver_thread` of `client.c`, the event loop of Qt and the
  reader thread of the gateway do nothing else. A peer that keeps its connection and
  does not read does stop the server, as `send_to_account` then blocks under `clients_mutex`
  (`server.c:269`), and a list under `social_mutex` or `notification_mutex`
  (`social.c:182`, `notification.c:270`): `CommandsEnd` says that this is the only
  cause.
  Weak fairness gives no fair mutex; it is enough as the commands of the bound are
  finite, so `CommandsEnd` excludes deadlock and not starvation under endless load.
- `QtClient`: weak fairness of the server's thread (by `CommandsEnd`) and of the
  client's reading. Nothing is assumed of the user, the timers or the network.

## What is proved

For all sets of accounts, nicknames, passwords, descriptors, file names and sizes,
any number of slots, records, groups, uploads, requests and threads, and sockets of
any size, under the named assumptions of the modules (`InitialUsersAssumption`,
`StoreAssumption`, `SessionsAssumption`, `BbsAssumption`, `NotificationsAssumption`,
`SocialAssumption`, `TransferAssumption`, `DeliveryAssumption`, `QtAssumption`): these
say that bounds are natural numbers (a socket holds something), that the values for
"nothing" are not real ones, that the initial user file has unique names, and that
all users of `Delivery` have a slot and a row in the group.

- Users (`SessionsProofs`): `StoreTypeCorrect`, `NamesStayUnique` (undisturbed scans),
  `NamesNeverTakenOver` hold of `UserStore`. `StoreInv` is the type of the file and
  the uniqueness of names; the third follows from the file being extended at its end
  only. `ServerImplementsStore` shows step by step that `Sessions` implements
  `UserStore`: REGISTER appends, everything else leaves the file. So the server keeps
  names too (`ServerKeepsNamesUnique`, `ServerKeepsNames`).
- `StrtokProofs`: `FirstFieldAlwaysOwn`, for every user file made of well-formed
  lines. `SplitInv` says that the fields collected so far begin with the first field
  of the line the scan is at. - Sessions (`SessionsProofs`): `TypeCorrect`,
  `SlotsAlwaysMatch`, `DescriptorsAlwaysOwned`. None of the last two is inductive
  alone. `Struct` joins them with `ThreadsConsistent`: a thread that serves a slot has
  a valid one, a LOGIN in progress is on a slot that is not logged in, and the
  connection the accepting loop holds has no thread. The key fact, `OwnSlot`, is that
  a slot has one user, so what a thread writes to its slot disturbs no other.
  `OneSession` and `SessionsAlwaysAuthenticated`: `SessionsInv` adds to `Struct` that
  no two online slots share an account and that an online slot carries the names LOGIN
  found for its thread. `PushesAlwaysReachTheirAccount`: a step writes through slots
  as they are in the state it starts in.
- `BbsProofs`: all properties of the run `Bbs`. Neither half of `BbsInv` can be read
  off a lock. `RecordConsistent`: the id a thread is about to append is above those
  of its author (`AboveOwn`) though not above all, because others may append in
  between; what it is about to announce is on file; the post it replies to is there.
  `UploadConsistent`: whoever is uploading to an object may do so and the object has
  no attachment. That a second upload cannot have begun is `OneAuthor`: the first
  record with an id has one author, he has one thread, and `DenotesStays` keeps the
  first record the first. The two action properties follow from the files only
  growing (`NextGrows`) and from every step leaving what is stored recorded, in work,
  or as it was (`CleansUp`).
- `NotificationsProofs`: `IdsAlwaysIncrease`, `AcknowledgedNeverUnread`,
  `MutexNeverLeftLocked`, and the refinement `FileImplementsBoard`. `NotesInv` adds
  that the copy in progress is the file up to where it is, with the rows in question
  marked, so that the rename is one step of the abstract board and every row copied
  before it a stutter; the mutex is in the invariant as only the thread inside may
  change the copy.
- `SocialProofs`: `RowsStayUnique`, `FriendshipNeedsConsent`, `OnlyFriendsAreMembers`,
  `AnnouncedGroupsComplete`. `RowsUnique` counts a friendship in both orders: one row,
  or two once both have replied at the same time (`crossed`), and never more unless the
  scan before an append missed one. `SocialInv` says what a thread has seen and still
  relies on in its next critical section: a request that is there stays, nobody else
  appends the row of this side, and who is about to append to a friendship of `crossed`
  finds at most the row of the other.
- Transfers (`BackupProofs`): `StreamsStayInStep`, `RecordedFilesStayWhole`,
  `ListedDownloadsAreWhole`. The first says where bytes of a file can be read as
  commands: only behind a malformed line, whatever else goes wrong with an UPLOAD.
  `TransferInv` says that the path of a thread that writes names its own file
  (`Owns`), that no two threads write to one path (`WritersApart`), and that written
  and payload add up to the size. The unlink of an error path removes the thread's own
  file for that reason only.
- Snapshots (`BackupProofs`): `BackupDisturbsNoTransfer`, a refinement, by which the
  three theorems about transfers hold beside a BACKUP, and `SnapshotsComplete`, over
  every history: BACKUPs that overlap, fail, are killed, or pass over a table, in any
  order. `promised` is what the BACKUPs answered OK have copied of `files.db`.
  `BackupInv` carries it from a BACKUP in progress to its answer: of the rows it has
  copied, each of their files is in the snapshot whole, or is unsettled, or is still an
  entry this BACKUP will come to. A file is unsettled while some BACKUP has it open,
  and after one has left it in part (`spoiled`), until the next one opens it.
- Delivery (`DeliveryProofs`). `CommandsInv`, on which the rest stands, says which
  mutexes a thread holds at each place, and that a message being sent is the last one
  of its sender. `ReadersStayInStep`: `Streams` says that the chunks in a socket are
  those its reader expects and those a header in it announces, and that a file in
  progress is short of exactly the chunks its sender has left; nobody else can write
  meanwhile, as its sender holds the `send_mutex`. `GroupHearsOneOrder`: while a
  thread visits the members under `social_mutex`, what anybody has heard but its own
  message all have, whoever has that message has everything else, and who is not left
  to be visited has it (`VisitInv`); between two visits nobody misses anything
  (`AllHeard`). `HistoryAlwaysAgrees`: what is about to be logged has reached whom it
  is for and is not in the log yet, and what a thread sends is the latest of its user,
  so that the log keeps his order without any mutex over both. `NobodyWaitsInACircle`,
  over all five kinds of mutexes: from `CommandsInv` alone, as long as a command runs
  some thread has what it waits for or some peer has something to read. The order
  behind it is `social_mutex`; then `notification_mutex`, `users_file_mutex` or
  `clients_mutex`, none of which is held while another of them is taken; then a
  `send_mutex`, under which only the socket is waited for. `NoDeadlock` spells the
  guards of the steps out, as `ENABLED` is beyond the prover; it is the part of
  `CommandsEnd` that is a safety property.
- Qt client (`QtClientProofs`): `AnswersStayInStep` and `MainWindowIsGenuine`. Until
  something is mistaken, `InStep` holds of all that is on its way to the client and of
  what its server thread has yet to send, taken as one sequence: every item is a push
  or of the request that waits, of one that is not waited for, or a chunk; the request
  that waits is either still on its way to the server or its answer has begun to come,
  never both; the line that ends an answer is its last one but for a payload; and
  chunks are where the client expects them. `Belongs` says what an answer to each
  request can be, and so that OK to a LOGIN means a session.

Not proved: the three liveness properties (`DeadPeersReleased`, `CommandsEnd`,
`RequestsEnd`), as fairness and `ENABLED` are beyond the prover, and TLC checks them
on the bounds above; the four properties that the code violates, of which the proofs
have the parts that hold (`NamesStayUnique` when scans are undisturbed,
`AuthorsNeverRepeatAnId`, `FriendshipNeedsConsent`; none for the gateway). What a
recursive definition computes would need induction over data, which is beyond the
prover too: the modules that are proved about use none, and say "in the order" of a
log or a socket with positions.

## Limits of the code

Met while modelling; the modules have the first three as they are.

- A malformed UPLOAD line is answered without taking its payload off the stream
  (`server.c:1376`, and 1726 for the BBS), which is then read as commands.
  `isValidFilename` of the page (`app.js:90`) and the gateway (`web/server.py:141`)
  have no limit of length, so a name of more than 127 bytes, which `sscanf` cuts, makes
  such a line. `StreamInStep` excepts these bytes, and only these.
- BACKUP answers OK when a table could not be read: `copy_if_readable` passes it over
  (`storage.c:436`). A snapshot then holds no copy of it, or that of an older BACKUP.
- FRIENDS lists a friend twice once both have replied at the same time
  (`social.c:167` lists every row, whichever of the two it names first).
- `server.py:119` reads a payload with the 0.2 s timeout of the socket. When it
  expires, the bytes read so far are dropped and the rest is taken for lines.
- The Qt client never uploads an attachment to a new post: the id is parsed from the
  last word of the answer, "created", and is 0 (`networkclient.cpp:451`;
  `README_QT_INTEGRATION.md:26` says an attachment may be chosen).
- A user whose nickname is the nine digits of an account registered later is found
  in place of its owner (`user.c:141` compares accounts with accounts and nicknames
  with nicknames). `NameNeverTakenOver` bounds the harm: it never changes later.

What `QtClient` shows beside its properties, in the causes that `AnswersInStep`
allows: the greeting starts with OK and may be taken for the answer to LOGIN; EVENT
and GMSG are unknown to the client and are taken for an answer; it still sends GROUP,
whose refusal is taken for one; the bytes of a file it could not create are read as
lines; and BBS_NOT_FOUND does not end a view, which blocks all requests. And what
`Backup` shows: a BACKUP that fails or is killed leaves the file it was writing in
part, also when a BACKUP of the same label had been answered OK for it; and one that
is still copying a file that was since replaced writes it over the good copy.

## What is not modelled

- The text of fields, their validation and encoding (`encode_field`, `decode_field`,
  the parsers), time stamps, formatting of replies: sequential code over single
  characters, of which a module would be a second copy.
- Listings, views and history commands of the BBS and the chat, which only read. The
  lists of `social.c` and `notification.c` are in `Delivery`, for the mutexes they
  hold.
- Torn lines, late failures of `fclose`, files that cannot be opened where a premise
  says so.
- How `recv_line` cuts the stream into lines, and lines that are too long.
- What two threads do inside one call of `strtok` at the same time.
- The choice and creation of storage paths, which happens before the first connection.
- Prompts and the saving of files of the terminal client; widgets and layout of the
  Qt client; the page's rendering; the gateway's forwarding of commands.

## How the project is laid out

The order in which the modules were written, and in which they are best read, is that
of what matters most in the program: `UserStore`, `Sessions`, `Bbs`,
`NotificationBoard` and `Notifications`, `Social`, `Strtok`, `FileTransfer`,
`Backup`, `Delivery`, `QtClient`, `WebGateway`; each with its proofs after it. What
would come next needs another kind of model: records as text (torn lines, encoding,
lines that are cut), and time (the timeout of the gateway).

------------------------------- MODULE Backup -------------------------------
(***************************************************************************)
(* BACKUP (storage_backup_snapshot of storage.c) beside UPLOAD and         *)
(* DOWNLOAD.                                                               *)
(*                                                                         *)
(* A snapshot is copied file by file under no mutex: first users.db,       *)
(* posts.db and replies.db, then files.db, then the remaining tables, then *)
(* the upload directory, entry by entry.  A table that cannot be read is   *)
(* passed over, and the BACKUP goes on to its OK.  The others are copied   *)
(* the way files.db is, and what UPLOAD stores has nothing to do with      *)
(* them, so files.db stands for them all.                                  *)
(*                                                                         *)
(* fopen "wb" cuts a destination to nothing, and storage_copy_file writes  *)
(* to it until it has read the end of its source.  What two copies of one  *)
(* file write over each other agrees as far as both go, so a copy is given *)
(* by its length.                                                          *)
(*                                                                         *)
(* There is one snapshot: every BACKUP has the same label ("manual" when   *)
(* none is given), and those with other labels write elsewhere.            *)
(***************************************************************************)
EXTENDS FileTransfer

VARIABLES
    snapshot,       \* what the snapshot directory holds
    copying,        \* the BACKUP each user's thread is running
    promised,       \* the most rows of files.db a BACKUP answered OK has copied
    spoiled         \* the files of the snapshot a BACKUP has left in a wrong state

backupVars == <<snapshot, copying, promised, spoiled>>

vars == <<dir, inodes, records, payload, stray, thread,
          snapshot, copying, promised, spoiled>>

\* The copy of files.db.  (It is not the path of an upload.)
RecordsFile == NoPath

NoFile == [inode |-> 0, written |-> 0]

\* blobs: which file was copied to each path, and how much of it.
Snapshot == [records : Nat,
             blobs   : [Paths -> [inode : Nat, written : Chunks]]]

\* rows: what it has copied of files.db, 0 when it passed it over.  entries:
\* what opendir found and readdir has yet to return.  path, inode and length:
\* the upload it is copying, the file it has open and how long that was.
Copying == [pc      : {"none", "tables", "records", "open uploads", "uploads", "copy"},
            rows    : Nat,
            entries : SUBSET Paths,
            path    : Paths \cup {NoPath},
            inode   : Nat,
            length  : Chunks]

NotCopying == [pc |-> "none", rows |-> 0, entries |-> {},
               path |-> NoPath, inode |-> 0, length |-> 0]

Init ==
    /\ TransferInit
    /\ snapshot = [records |-> 0, blobs |-> [p \in Paths |-> NoFile]]
    /\ copying = [u \in Users |-> NotCopying]
    /\ promised = 0
    /\ spoiled = {}

-----------------------------------------------------------------------------

Larger(m, n) == IF m > n THEN m ELSE n

\* A thread runs one command at a time.
CommandStep(u) ==
    /\ copying[u].pc = "none"
    /\ TransferStep(u)
    /\ UNCHANGED backupVars

CopyGoes(u, pc) == copying' = [copying EXCEPT ![u].pc = pc]

\* The directories are made.
BeginBackup(u) ==
    /\ copying[u].pc = "none"
    /\ OtherLine(u)
    /\ CopyGoes(u, "tables")
    /\ UNCHANGED <<snapshot, promised, spoiled>>

\* access finds files.db and storage_copy_file opens the two files.
OpenRecords(u) ==
    /\ copying[u].pc = "tables"
    /\ snapshot' = [snapshot EXCEPT !.records = 0]
    /\ spoiled' = spoiled \ {RecordsFile}
    /\ copying' = [copying EXCEPT ![u].pc = "records", ![u].rows = Len(records)]
    /\ UNCHANGED <<transferVars, promised>>

\* access does not let files.db be read: copy_if_readable returns 0.
SkipRecords(u) ==
    /\ copying[u].pc = "tables"
    /\ CopyGoes(u, "open uploads")
    /\ UNCHANGED <<transferVars, snapshot, promised, spoiled>>

\* The copy ends where the end of files.db was when it was read there.
CopyRecords(u) ==
    /\ copying[u].pc = "records"
    /\ \E n \in copying[u].rows .. Len(records) :
        /\ snapshot' = [snapshot EXCEPT !.records = Larger(@, n)]
        /\ copying' = [copying EXCEPT ![u].pc = "open uploads", ![u].rows = n]
    /\ UNCHANGED <<transferVars, promised, spoiled>>

\* opendir: entries that stay are returned by readdir, later ones may be.
OpenUploads(u) ==
    /\ copying[u].pc = "open uploads"
    /\ copying' = [copying EXCEPT ![u].pc = "uploads",
                                  ![u].entries = {p \in Paths : dir[p] # 0}]
    /\ UNCHANGED <<transferVars, snapshot, promised, spoiled>>

\* copy_tree opens what an entry names, and its destination.
OpenCopy(u, path) ==
    /\ copying[u].pc = "uploads"
    /\ dir[path] # 0
    /\ snapshot' = [snapshot EXCEPT !.blobs[path] = [inode |-> dir[path], written |-> 0]]
    /\ spoiled' = spoiled \ {path}
    /\ copying' = [copying EXCEPT ![u] =
            [copying[u] EXCEPT !.pc = "copy", !.entries = @ \ {path}, !.path = path,
                               !.inode = dir[path],
                               !.length = inodes[dir[path]].written]]
    /\ UNCHANGED <<transferVars, promised>>

\* The copy of an upload ends.  When the path has got another file since it was
\* opened, the destination may hold parts of both.
CopyUpload(u) ==
    LET path == copying[u].path
        inode == copying[u].inode
    IN
    /\ copying[u].pc = "copy"
    /\ \E n \in Chunks :
        /\ n >= copying[u].length
        /\ n <= inodes[inode].written
        /\ snapshot' = [snapshot EXCEPT !.blobs[path] =
                [inode |-> inode,
                 written |-> IF @.inode = inode THEN Larger(@.written, n) ELSE n]]
    /\ spoiled' = IF dir[path] = inode THEN spoiled ELSE spoiled \cup {path}
    /\ copying' = [copying EXCEPT ![u] =
            [copying[u] EXCEPT !.pc = "uploads", !.path = NoPath,
                               !.inode = 0, !.length = 0]]
    /\ UNCHANGED <<transferVars, promised>>

\* Fault: an entry that cannot be copied is passed over.
SkipUploadAnyway(u, path) ==
    /\ copying[u].pc = "uploads"
    /\ path \in copying[u].entries
    /\ copying' = [copying EXCEPT ![u].entries = @ \ {path}]
    /\ UNCHANGED <<transferVars, snapshot, promised, spoiled>>

\* An entry was unlinked before readdir came to it.
SkipUpload(u, path) ==
    /\ copying[u].pc = "uploads"
    /\ path \in copying[u].entries
    /\ dir[path] = 0
    /\ copying' = [copying EXCEPT ![u].entries = @ \ {path}]
    /\ UNCHANGED <<transferVars, snapshot, promised, spoiled>>

\* The file of the snapshot the BACKUP of u has open for writing.
Destinations(u) == CASE copying[u].pc = "records" -> {RecordsFile}
                     [] copying[u].pc = "copy"    -> {copying[u].path}
                     [] OTHER                     -> {}

\* "ERR backup failed": a directory cannot be made or opened, a file cannot be
\* opened, read or written (a table: after access found it readable), or an
\* entry was unlinked after readdir returned it.  What has been copied stays,
\* and the file that was being written is left in part.
BackupFails(u) ==
    /\ copying[u].pc # "none"
    /\ spoiled' = spoiled \cup Destinations(u)
    /\ copying' = [copying EXCEPT ![u] = NotCopying]
    /\ UNCHANGED <<transferVars, snapshot, promised>>

\* "OK backup created".
EndBackup(u) ==
    /\ copying[u].pc = "uploads"
    /\ copying[u].entries = {}
    /\ promised' = Larger(promised, copying[u].rows)
    /\ copying' = [copying EXCEPT ![u] = NotCopying]
    /\ UNCHANGED <<transferVars, snapshot, spoiled>>

Crash ==
    /\ TransferCrash
    /\ spoiled' = spoiled \cup UNION {Destinations(u) : u \in Users}
    /\ copying' = [u \in Users |-> NotCopying]
    /\ UNCHANGED <<snapshot, promised>>

BackupStep(u) ==
    \/ BeginBackup(u)
    \/ OpenRecords(u)
    \/ SkipRecords(u)
    \/ CopyRecords(u)
    \/ OpenUploads(u)
    \/ \E path \in Paths : OpenCopy(u, path) \/ SkipUpload(u, path)
    \/ CopyUpload(u)
    \/ BackupFails(u)
    \/ EndBackup(u)

Next ==
    \/ Crash
    \/ \E u \in Users : CommandStep(u) \/ BackupStep(u)

Spec == Init /\ [][Next]_vars

-----------------------------------------------------------------------------

TypeOK ==
    /\ TransferTypeOK
    /\ snapshot \in Snapshot
    /\ copying \in [Users -> Copying]
    /\ promised \in Nat
    /\ spoiled \subseteq Paths \cup {RecordsFile}

\* A BACKUP is writing the file of the snapshot, or has left it in a wrong state.
Unsettled(file) == file \in spoiled \/ \E u \in Users : file \in Destinations(u)

\* The snapshot has the whole file of the i-th record.
Saved(i) == snapshot.blobs[records[i].path] =
                [inode |-> dir[records[i].path], written |-> records[i].size]

(* What a BACKUP answered OK has copied of files.db stays in the snapshot, *)
(* and so does the whole file of every record it has copied, also of one   *)
(* appended while it ran: files.db is copied before the files, and a file  *)
(* stored before its record.  This holds whatever other BACKUPs to the     *)
(* same directory do, but for the files they touch last: one they have     *)
(* open, one they failed or were killed in, and one that was replaced      *)
(* under the path while they copied it.  A BACKUP that passed over an      *)
(* unreadable files.db is answered OK and promises no row of it.           *)
SnapshotComplete ==
    /\ snapshot.records >= promised \/ Unsettled(RecordsFile)
    /\ \A i \in 1 .. promised : Saved(i) \/ Unsettled(records[i].path)
=============================================================================

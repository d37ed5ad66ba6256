---------------------------- MODULE FileTransfer ----------------------------
(***************************************************************************)
(* UPLOAD and DOWNLOAD (file_transfer.c and the two commands of server.c). *)
(*                                                                         *)
(* A file is stored under its recipient and name.  fopen with "x" creates  *)
(* it, the bytes are written as they arrive, and a record is appended to   *)
(* files.db once they are all there.  No mutex protects a stored file:     *)
(* what a path names may change between any two calls of the file system,  *)
(* so files have an identity (inode) of their own, and each call is an     *)
(* action.  Names and sizes of files are unrelated to whose thread it is.  *)
(*                                                                         *)
(* The bytes of an upload follow its line on the stream of the connection. *)
(* They are counted in chunks, and a line is read only when it is at the   *)
(* front of the stream.  Peers send as many bytes as their line says, or   *)
(* less and hang up, as the terminal client does when its local file has   *)
(* become shorter.  The line itself may be malformed: the page lets names  *)
(* of more than 127 bytes pass (app.js:90), and so does web/server.py:141. *)
(*                                                                         *)
(* A user has one logged-in connection at most (OneSessionPerAccount of    *)
(* Sessions): a thread is named by its user.                               *)
(***************************************************************************)
EXTENDS Naturals, Sequences

CONSTANTS
    Users,          \* accounts
    Filenames,      \* names file_name_valid accepts
    Sizes,          \* sizes of uploads, in chunks
    MaxUploads,     \* bound: files that are ever created
    NoPath          \* not a path

VARIABLES
    dir,            \* the upload directory: the file each path names, 0 for none
    inodes,         \* all files ever created, in the order of their creation
    records,        \* the records UPLOAD appended to files.db
    payload,        \* chunks that precede the next line on each user's stream
    stray,          \* those of them a malformed UPLOAD line left there
    thread          \* the command each user's thread is running

transferVars == <<dir, inodes, records, payload, stray, thread>>

ASSUME TransferAssumption ==
    /\ Sizes \subseteq Nat
    /\ MaxUploads \in Nat
    /\ NoPath \notin [to : Users, name : Filenames]

Paths == [to : Users, name : Filenames]

\* How much of an upload there is at some time.
Chunks == {0} \cup UNION {0 .. n : n \in Sizes}

\* A stored file: the size its UPLOAD announced, and what has been written.
Inode == [path : Paths, size : Chunks, written : Chunks]

\* Who sent a file is left out.
Record == [path : Paths, size : Chunks]

\* left is what an UPLOAD has yet to take off the stream ("remaining" of
\* file_receive_contents and file_discard_contents).  inode is the
\* file a thread has open; listed says whether files.db had a record of the
\* path when a DOWNLOAD of it began.
Op == [pc     : {"line", "discard", "open", "receive", "drain", "record", "fopen",
                 "send"},
       path   : Paths \cup {NoPath},
       size   : Chunks,
       left   : Chunks,
       inode  : Nat,
       listed : BOOLEAN]

AtLine == [pc |-> "line", path |-> NoPath, size |-> 0, left |-> 0, inode |-> 0,
           listed |-> FALSE]

TransferInit ==
    /\ dir = [p \in Paths |-> 0]
    /\ inodes = <<>>
    /\ records = <<>>
    /\ payload = [u \in Users |-> 0]
    /\ stray = [u \in Users |-> 0]
    /\ thread = [u \in Users |-> AtLine]

-----------------------------------------------------------------------------

Recorded(path) == \E i \in DOMAIN records : records[i].path = path

Goes(u, pc) == thread' = [thread EXCEPT ![u].pc = pc]

\* The command of u has been answered.
Answered(u) == thread' = [thread EXCEPT ![u] = AtLine]

\* The connection of u ends, and what was still on its stream is gone.  From
\* now on the thread is that of the next connection of u.
Disconnected(u) ==
    /\ Answered(u)
    /\ payload' = [payload EXCEPT ![u] = 0]
    /\ stray' = [stray EXCEPT ![u] = 0]

\* client_thread takes the next line, which size chunks follow.  When there are
\* stray bytes the line is made of some of them, or of all.  (One chunk stands
\* for any number of them.)
TakesLine(u, size) ==
    /\ thread[u].pc = "line"
    /\ \E rest \in 0 .. stray[u] :
        /\ payload' = [payload EXCEPT ![u] = @ - (stray[u] - rest) + size]
        /\ stray' = [stray EXCEPT ![u] = rest]

\* unlink(path) removes the name, whatever file it names.
Unlink(path) == dir' = [dir EXCEPT ![path] = 0]

-----------------------------------------------------------------------------
(* UPLOAD *)

\* The line announces size chunks, and all checks pass.
Upload(u, path, size) ==
    /\ TakesLine(u, size)
    /\ thread' = [thread EXCEPT ![u] = [AtLine EXCEPT !.pc = "open", !.path = path,
                                                      !.size = size, !.left = size]]
    /\ UNCHANGED <<dir, inodes, records>>

\* Nobody is logged in, nobody has the name of the recipient, or the file name
\* is not valid.
UploadRefused(u, size) ==
    /\ TakesLine(u, size)
    /\ thread' = [thread EXCEPT ![u] = [AtLine EXCEPT !.pc = "discard", !.left = size]]
    /\ UNCHANGED <<dir, inodes, records>>

\* The line is not three words of the lengths allowed: "ERR usage", and the
\* bytes it announces stay on the stream.
UploadMalformed(u) ==
    /\ thread[u].pc = "line"
    /\ stray[u] = 0
    /\ payload' = [payload EXCEPT ![u] = @ + 1]
    /\ stray' = [stray EXCEPT ![u] = 1]
    /\ UNCHANGED <<dir, inodes, records, thread>>

\* A line that is no command of this module.
OtherLine(u) ==
    /\ TakesLine(u, 0)
    /\ UNCHANGED <<dir, inodes, records, thread>>

\* The peer hangs up between two lines, or the size of an UPLOAD is not a
\* number: client_thread ends the connection.
Leave(u) ==
    /\ thread[u].pc = "line"
    /\ Disconnected(u)
    /\ UNCHANGED <<dir, inodes, records>>

\* file_discard_contents takes all of the payload, and the answer is sent.
Discard(u) ==
    /\ thread[u].pc = "discard"
    /\ payload' = [payload EXCEPT ![u] = @ - thread[u].left]
    /\ Answered(u)
    /\ UNCHANGED <<dir, inodes, records, stray>>

\* The peer hung up.
DiscardFails(u) ==
    /\ thread[u].pc = "discard"
    /\ thread[u].left > 0
    /\ Disconnected(u)
    /\ UNCHANGED <<dir, inodes, records>>

\* Fault: the file is opened without "x".
OpenUploadOver(u) ==
    /\ thread[u].pc = "open"
    /\ Len(inodes) < MaxUploads
    /\ inodes' = Append(inodes, [path |-> thread[u].path, size |-> thread[u].size,
                                 written |-> 0])
    /\ dir' = [dir EXCEPT ![thread[u].path] = Len(inodes) + 1]
    /\ thread' = [thread EXCEPT ![u].pc = "receive", ![u].inode = Len(inodes) + 1]
    /\ UNCHANGED <<records, payload, stray>>

\* fopen(path, "wbx") creates the file.
OpenUpload(u) ==
    /\ thread[u].pc = "open"
    /\ dir[thread[u].path] = 0
    /\ Len(inodes) < MaxUploads
    /\ inodes' = Append(inodes, [path |-> thread[u].path, size |-> thread[u].size,
                                 written |-> 0])
    /\ dir' = [dir EXCEPT ![thread[u].path] = Len(inodes) + 1]
    /\ thread' = [thread EXCEPT ![u].pc = "receive", ![u].inode = Len(inodes) + 1]
    /\ UNCHANGED <<records, payload, stray>>

\* Fault: the answer goes out at once.
OpenUploadFailsUndrained(u) ==
    /\ thread[u].pc = "open"
    /\ Answered(u)
    /\ UNCHANGED <<dir, inodes, records, payload, stray>>

\* fopen fails, because the file exists or for another reason.
OpenUploadFails(u) ==
    /\ thread[u].pc = "open"
    /\ Goes(u, "discard")
    /\ UNCHANGED <<dir, inodes, records, payload, stray>>

\* recv_all has received a chunk.
Receives(u, pc) ==
    /\ thread[u].left > 0
    /\ payload[u] > 0
    /\ payload' = [payload EXCEPT ![u] = @ - 1]
    /\ thread' = [thread EXCEPT ![u].pc = pc, ![u].left = @ - 1]

\* Fault: one chunk too many is received.
ReceiveChunkTooMany(u) ==
    /\ thread[u].pc = "receive"
    /\ payload' = [payload EXCEPT ![u] = @ - 1]
    /\ inodes' = [inodes EXCEPT ![thread[u].inode].written = @ + 1]
    /\ UNCHANGED <<dir, records, stray, thread>>

\* recv_all and fwrite succeed.
ReceiveChunk(u) ==
    /\ thread[u].pc = "receive"
    /\ Receives(u, "receive")
    /\ inodes' = [inodes EXCEPT ![thread[u].inode].written = @ + 1]
    /\ UNCHANGED <<dir, records, stray>>

\* fwrite fails; what is left of the payload is still received.
WriteFails(u) ==
    /\ thread[u].pc = "receive"
    /\ Receives(u, "drain")
    /\ UNCHANGED <<dir, inodes, records, stray>>

Drain(u) ==
    /\ thread[u].pc = "drain"
    /\ Receives(u, "drain")
    /\ UNCHANGED <<dir, inodes, records, stray>>

\* The peer hung up.
ReceiveFails(u) ==
    /\ thread[u].pc \in {"receive", "drain"}
    /\ thread[u].left > 0
    /\ Unlink(thread[u].path)
    /\ Disconnected(u)
    /\ UNCHANGED <<inodes, records>>

\* All has been received, and fflush and fclose succeed.
EndReceive(u) ==
    /\ thread[u].pc = "receive"
    /\ thread[u].left = 0
    /\ Goes(u, "record")
    /\ UNCHANGED <<dir, inodes, records, payload, stray>>

\* Fault: a failed fwrite is forgotten once the payload has been received.
EndReceiveFailsUnnoticed(u) ==
    /\ thread[u].pc \in {"receive", "drain"}
    /\ thread[u].left = 0
    /\ Goes(u, "record")
    /\ UNCHANGED <<dir, inodes, records, payload, stray>>

\* All has been received, and an fwrite, fflush or fclose failed.
EndReceiveFails(u) ==
    /\ thread[u].pc \in {"receive", "drain"}
    /\ thread[u].left = 0
    /\ Unlink(thread[u].path)
    /\ Answered(u)
    /\ UNCHANGED <<inodes, records, payload, stray>>

RecordOf(u) == [path |-> thread[u].path, size |-> thread[u].size]

\* append_uploaded_file_record succeeds.  The recipient gets a notification and
\* FILE_READY, then the sender its OK.
AppendRecord(u) ==
    /\ thread[u].pc = "record"
    /\ records' = Append(records, RecordOf(u))
    /\ Answered(u)
    /\ UNCHANGED <<dir, inodes, payload, stray>>

AppendRecordFails(u) ==
    /\ thread[u].pc = "record"
    /\ Unlink(thread[u].path)
    /\ Answered(u)
    /\ UNCHANGED <<inodes, records, payload, stray>>

-----------------------------------------------------------------------------
(* DOWNLOAD *)

\* stat finds the file.  files.db is not asked.
Download(u, name) ==
    LET path == [to |-> u, name |-> name] IN
    /\ TakesLine(u, 0)
    /\ dir[path] # 0
    /\ thread' = [thread EXCEPT ![u] =
            [AtLine EXCEPT !.pc = "fopen", !.path = path,
                           !.size = inodes[dir[path]].written,
                           !.listed = Recorded(path)]]
    /\ UNCHANGED <<dir, inodes, records>>

\* fopen(path, "rb") opens the file the path names by now.
OpenDownload(u) ==
    /\ thread[u].pc = "fopen"
    /\ dir[thread[u].path] # 0
    /\ thread' = [thread EXCEPT ![u].pc = "send", ![u].inode = dir[thread[u].path]]
    /\ UNCHANGED <<dir, inodes, records, payload, stray>>

\* "ERR file not found".
OpenDownloadFails(u) ==
    /\ thread[u].pc = "fopen"
    /\ Answered(u)
    /\ UNCHANGED <<dir, inodes, records, payload, stray>>

\* The peer is gone, or fread comes short because the file is not as long as it
\* was said to be: client_thread ends the connection.
SendFails(u) ==
    /\ thread[u].pc = "send"
    /\ Disconnected(u)
    /\ UNCHANGED <<dir, inodes, records>>

\* file_send_contents has found and sent size chunks.
EndDownload(u) ==
    /\ thread[u].pc = "send"
    /\ thread[u].size <= inodes[thread[u].inode].written
    /\ Answered(u)
    /\ UNCHANGED <<dir, inodes, records, payload, stray>>

-----------------------------------------------------------------------------

\* The server is killed and started again: files stay, connections do not.
TransferCrash ==
    /\ thread' = [u \in Users |-> AtLine]
    /\ payload' = [u \in Users |-> 0]
    /\ stray' = [u \in Users |-> 0]
    /\ UNCHANGED <<dir, inodes, records>>

UploadStep(u) ==
    \/ \E path \in Paths, size \in Sizes : Upload(u, path, size)
    \/ \E size \in Sizes : UploadRefused(u, size)
    \/ UploadMalformed(u)
    \/ OtherLine(u)
    \/ Leave(u)
    \/ Discard(u)
    \/ DiscardFails(u)
    \/ OpenUpload(u)
    \/ OpenUploadFails(u)
    \/ ReceiveChunk(u)
    \/ WriteFails(u)
    \/ Drain(u)
    \/ ReceiveFails(u)
    \/ EndReceive(u)
    \/ EndReceiveFails(u)
    \/ AppendRecord(u)
    \/ AppendRecordFails(u)

DownloadStep(u) ==
    \/ \E name \in Filenames : Download(u, name)
    \/ OpenDownload(u)
    \/ OpenDownloadFails(u)
    \/ SendFails(u)
    \/ EndDownload(u)

TransferStep(u) == UploadStep(u) \/ DownloadStep(u)

TransferNext == TransferCrash \/ \E u \in Users : TransferStep(u)

TransferSpec == TransferInit /\ [][TransferNext]_transferVars

-----------------------------------------------------------------------------

TransferTypeOK ==
    /\ dir \in [Paths -> Nat]
    /\ inodes \in Seq(Inode)
    /\ records \in Seq(Record)
    /\ payload \in [Users -> Nat]
    /\ stray \in [Users -> {0, 1}]
    /\ thread \in [Users -> Op]
    /\ \A p \in Paths : dir[p] # 0 => dir[p] \in DOMAIN inodes
    /\ \A u \in Users : thread[u].inode # 0 => thread[u].inode \in DOMAIN inodes

(* However an UPLOAD ends, by a refusal, a file that exists, a write that  *)
(* fails or a record that is not appended, exactly the bytes it announced  *)
(* have been taken off the stream.  Bytes of a file are read as commands   *)
(* only after a malformed UPLOAD line, whose bytes server.c:1373 leaves on *)
(* the stream, and on that connection only.                                *)
StreamInStep == \A u \in Users : thread[u].pc = "line" => payload[u] = stray[u]

\* A path names a file that has arrived as a whole, of the size given.
Holds(path, size) ==
    /\ dir[path] # 0
    /\ inodes[dir[path]].size = size
    /\ inodes[dir[path]].written = size

(* The file of a record, which FILE_READY announces, is whole: no error    *)
(* path of another UPLOAD to the same name removes or shortens it, and no  *)
(* kill between two steps leaves a record without its file.                *)
RecordedFilesWhole ==
    \A i \in DOMAIN records : Holds(records[i].path, records[i].size)

(* A DOWNLOAD takes the size from the path and the contents from what the  *)
(* path names a moment later.  One that begins when the file is recorded   *)
(* sends all of it, of the upload that was recorded.  (One that begins     *)
(* before may send a part as if it were the whole.)                        *)
ListedDownloadsWhole ==
    \A u \in Users :
        thread[u].pc = "send" /\ thread[u].listed =>
            /\ thread[u].inode = dir[thread[u].path]
            /\ thread[u].size = inodes[thread[u].inode].size
            /\ thread[u].size = inodes[thread[u].inode].written
=============================================================================

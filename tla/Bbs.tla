-------------------------------- MODULE Bbs --------------------------------
(***************************************************************************)
(* Posts, replies and attachments (bbs.c and the BBS commands of           *)
(* server.c).                                                              *)
(*                                                                         *)
(* posts.db, replies.db and files.db are append-only.  bbs_mutex is held   *)
(* for one read of the next id and for one append, and not in between, so  *)
(* other threads may run between the two; records are read without it.     *)
(* Each critical section, read of a file and call of the file system is an *)
(* action.  What the server holds in memory is lost when it is killed, and *)
(* files stay as they are.                                                 *)
(*                                                                         *)
(* An author has one logged-in connection at most and one nickname of his  *)
(* own (OneSessionPerAccount of Sessions and NamesUnique of UserStore): a  *)
(* thread that runs a BBS command is named by its author.  POST and        *)
(* BBS_CREATE run the same steps, and so do REPLY and BBS_REPLY.  The id   *)
(* of an attachment record is left out: no command looks one up by it.     *)
(***************************************************************************)
EXTENDS Naturals, Sequences

CONSTANTS
    Authors,        \* registered users, by nickname
    Filenames,      \* names file_name_valid accepts
    MaxPosts,       \* bound: posts.db gets no more records than this
    MaxReplies,     \* bound: replies.db gets no more records than this
    NoPath          \* not a path: no upload is in progress

VARIABLES
    posts,          \* the records of posts.db, in file order
    replies,        \* the records of replies.db
    files,          \* the attachment records of files.db
    blobs,          \* the attachment files of the upload directory
    op,             \* the BBS command each author's thread is running
    told,           \* records some client has been told of (OK or EVENT)
    notices         \* BBS_REPLY_CREATED notifications

vars == <<posts, replies, files, blobs, op, told, notices>>

ASSUME BbsAssumption ==
    /\ MaxPosts \in Nat
    /\ MaxReplies \in Nat
    /\ NoPath \notin [owner : [kind : {"post", "reply"}, id : Nat],
                      name : Filenames]

PostIds  == 1 .. MaxPosts
ReplyIds == 1 .. MaxReplies

Post  == [id : PostIds, author : Authors]
Reply == [id : ReplyIds, post : PostIds, author : Authors]

\* What an attachment belongs to: the owner "post:<id>" or "reply:<id>".
Objects == [kind : {"post"}, id : PostIds] \cup [kind : {"reply"}, id : ReplyIds]

\* Where an attachment is stored: the file name carries the owner.
Paths == [owner : Objects, name : Filenames]

Attachment == [path : Paths, sender : Authors]

Notice == [to : Authors, reply : Reply]

Op == [pc   : {"idle", "append post", "announce post",
               "append reply", "notify reply", "announce reply",
               "open", "receive", "record"},
       id   : PostIds \cup ReplyIds \cup {0},
       post : PostIds \cup {0},
       path : Paths \cup {NoPath}]

Idle == [pc |-> "idle", id |-> 0, post |-> 0, path |-> NoPath]

Init ==
    /\ posts = <<>>
    /\ replies = <<>>
    /\ files = <<>>
    /\ blobs = [p \in Paths |-> "absent"]
    /\ op = [u \in Authors |-> Idle]
    /\ told = {}
    /\ notices = {}

-----------------------------------------------------------------------------
(* Reading the files *)

\* Fault: the largest id is handed out again.
NextIdUnincremented(file, id) ==
    /\ \A i \in DOMAIN file : file[i].id <= id
    /\ id = 1 \/ \E i \in DOMAIN file : file[i].id = id

\* read_last_id finds the largest id, and the next one follows it.
NextId(file, id) ==
    /\ \A i \in DOMAIN file : file[i].id < id
    /\ id = 1 \/ \E i \in DOMAIN file : file[i].id = id - 1

\* Fault: the scan keeps the last match instead of stopping at the first.
DenotesLast(file, id, i) ==
    /\ i \in DOMAIN file
    /\ file[i].id = id
    /\ \A j \in (i + 1) .. Len(file) : file[j].id # id

\* bbs_read_post and bbs_read_reply stop at the first record with the id.
Denotes(file, id, i) ==
    /\ i \in DOMAIN file
    /\ file[i].id = id
    /\ \A j \in 1 .. (i - 1) : file[j].id # id

FileOf(object) == IF object.kind = "post" THEN posts ELSE replies

\* Fault: whoever is logged in may upload.
MayAttachAnybody(u, object) ==
    \E i \in DOMAIN FileOf(object) : FileOf(object)[i].id = object.id

\* The object exists, and the author of the record its id denotes is u.
MayAttach(u, object) ==
    \E i \in DOMAIN FileOf(object) :
        Denotes(FileOf(object), object.id, i) /\ FileOf(object)[i].author = u

\* find_bbs_attachment finds a record of the object.
Attached(object) == \E i \in DOMAIN files : files[i].path.owner = object

\* The thread of u goes on with its command at pc.
Goes(u, pc) == op' = [op EXCEPT ![u].pc = pc]

\* The thread of u is done with its command, whatever it answered.
Done(u) == op' = [op EXCEPT ![u] = Idle]

-----------------------------------------------------------------------------
(* POST, BBS_CREATE *)

\* bbs_next_post_id.
CreatePost(u) ==
    /\ op[u].pc = "idle"
    /\ \E id \in PostIds :
            /\ NextId(posts, id)
            /\ op' = [op EXCEPT ![u] = [Idle EXCEPT !.pc = "append post", !.id = id]]
    /\ UNCHANGED <<posts, replies, files, blobs, told, notices>>

PostOf(u) == [id |-> op[u].id, author |-> u]

\* bbs_append_post succeeds.
AppendPost(u) ==
    /\ op[u].pc = "append post"
    /\ Len(posts) < MaxPosts
    /\ posts' = Append(posts, PostOf(u))
    /\ Goes(u, "announce post")
    /\ UNCHANGED <<replies, files, blobs, told, notices>>

\* bbs_append_post fails: "ERR post save failed".
AppendPostFails(u) ==
    /\ op[u].pc = "append post"
    /\ Done(u)
    /\ UNCHANGED <<posts, replies, files, blobs, told, notices>>

\* The EVENT to the others, then the OK.
AnnouncePost(u) ==
    /\ op[u].pc = "announce post"
    /\ told' = told \cup {PostOf(u)}
    /\ Done(u)
    /\ UNCHANGED <<posts, replies, files, blobs, notices>>

-----------------------------------------------------------------------------
(* REPLY, BBS_REPLY *)

\* Fault: the post is not looked up.
CreateReplyUnchecked(u, post) ==
    /\ op[u].pc = "idle"
    /\ \E id \in ReplyIds :
            /\ NextId(replies, id)
            /\ op' = [op EXCEPT ![u] = [Idle EXCEPT !.pc = "append reply",
                                                    !.id = id, !.post = post]]
    /\ UNCHANGED <<posts, replies, files, blobs, told, notices>>

\* bbs_read_post finds the post, then bbs_next_reply_id.  Posts stay once they
\* are there, so the two reads are one action.
CreateReply(u, post) ==
    /\ op[u].pc = "idle"
    /\ \E i \in DOMAIN posts : posts[i].id = post
    /\ \E id \in ReplyIds :
            /\ NextId(replies, id)
            /\ op' = [op EXCEPT ![u] = [Idle EXCEPT !.pc = "append reply",
                                                    !.id = id, !.post = post]]
    /\ UNCHANGED <<posts, replies, files, blobs, told, notices>>

\* Fault: the two ids exchanged.
ReplyOfSwapped(u) == [id |-> op[u].post, post |-> op[u].id, author |-> u]

ReplyOf(u) == [id |-> op[u].id, post |-> op[u].post, author |-> u]

\* Fault: the author of the post is notified whether or not the append worked.
AppendReplyFailsUnnoticed(u) ==
    /\ op[u].pc = "append reply"
    /\ Goes(u, "notify reply")
    /\ UNCHANGED <<posts, replies, files, blobs, told, notices>>

\* bbs_append_reply succeeds.
AppendReply(u) ==
    /\ op[u].pc = "append reply"
    /\ Len(replies) < MaxReplies
    /\ replies' = Append(replies, ReplyOf(u))
    /\ Goes(u, "notify reply")
    /\ UNCHANGED <<posts, files, blobs, told, notices>>

\* bbs_append_reply fails: "ERR reply save failed".
AppendReplyFails(u) ==
    /\ op[u].pc = "append reply"
    /\ Done(u)
    /\ UNCHANGED <<posts, replies, files, blobs, told, notices>>

\* The author of the post is notified, unless he is the one who replies; the
\* outcome of notification_add is not looked at.
NotifyReply(u) ==
    /\ op[u].pc = "notify reply"
    /\ \/ UNCHANGED notices
       \/ \E i \in DOMAIN posts :
            /\ Denotes(posts, op[u].post, i)
            /\ posts[i].author # u
            /\ notices' = notices \cup {[to |-> posts[i].author, reply |-> ReplyOf(u)]}
    /\ Goes(u, "announce reply")
    /\ UNCHANGED <<posts, replies, files, blobs, told>>

\* The EVENT to the others, then the OK.
AnnounceReply(u) ==
    /\ op[u].pc = "announce reply"
    /\ told' = told \cup {ReplyOf(u)}
    /\ Done(u)
    /\ UNCHANGED <<posts, replies, files, blobs, notices>>

-----------------------------------------------------------------------------
(* BBS_UPLOAD_POST, BBS_UPLOAD_REPLY *)

(* The object is looked up, then its attachment.  What the first look-up   *)
(* finds does not change any more (DenotationStable), so the two are one   *)
(* action; that there is no attachment may change before the next step.    *)
StartUpload(u, path) ==
    /\ op[u].pc = "idle"
    /\ MayAttach(u, path.owner)
    /\ ~Attached(path.owner)
    /\ op' = [op EXCEPT ![u] = [Idle EXCEPT !.pc = "open", !.path = path]]
    /\ UNCHANGED <<posts, replies, files, blobs, told, notices>>

\* fopen(stored_path, "wbx") creates the file.
OpenBlob(u) ==
    /\ op[u].pc = "open"
    /\ blobs[op[u].path] = "absent"
    /\ blobs' = [blobs EXCEPT ![op[u].path] = "partial"]
    /\ Goes(u, "receive")
    /\ UNCHANGED <<posts, replies, files, told, notices>>

\* fopen fails, because the file exists or for another reason: the contents are
\* drained and "ERR upload failed" is answered.
OpenBlobFails(u) ==
    /\ op[u].pc = "open"
    /\ Done(u)
    /\ UNCHANGED <<posts, replies, files, blobs, told, notices>>

\* Fault: what was received is kept although it is not all there.
ReceiveBlobFailsKeeping(u) ==
    /\ op[u].pc = "receive"
    /\ Goes(u, "record")
    /\ UNCHANGED <<posts, replies, files, blobs, told, notices>>

\* All the bytes have been received and written.
ReceiveBlob(u) ==
    /\ op[u].pc = "receive"
    /\ blobs' = [blobs EXCEPT ![op[u].path] = "complete"]
    /\ Goes(u, "record")
    /\ UNCHANGED <<posts, replies, files, told, notices>>

\* The peer went away or the disk is full: the file is unlinked.
ReceiveBlobFails(u) ==
    /\ op[u].pc = "receive"
    /\ blobs' = [blobs EXCEPT ![op[u].path] = "absent"]
    /\ Done(u)
    /\ UNCHANGED <<posts, replies, files, told, notices>>

\* bbs_next_file_id and bbs_append_file_record succeed.
RecordAttachment(u) ==
    /\ op[u].pc = "record"
    /\ files' = Append(files, [path |-> op[u].path, sender |-> u])
    /\ Done(u)
    /\ UNCHANGED <<posts, replies, blobs, told, notices>>

\* Fault: the file stays when its record could not be written.
RecordAttachmentFailsKeeping(u) ==
    /\ op[u].pc = "record"
    /\ Done(u)
    /\ UNCHANGED <<posts, replies, files, blobs, told, notices>>

\* One of the two fails: the file is unlinked.
RecordAttachmentFails(u) ==
    /\ op[u].pc = "record"
    /\ blobs' = [blobs EXCEPT ![op[u].path] = "absent"]
    /\ Done(u)
    /\ UNCHANGED <<posts, replies, files, told, notices>>

-----------------------------------------------------------------------------

\* The server is killed and started again: nothing in the files is repaired.
Crash ==
    /\ op' = [u \in Authors |-> Idle]
    /\ UNCHANGED <<posts, replies, files, blobs, told, notices>>

PostStep(u) ==
    CreatePost(u) \/ AppendPost(u) \/ AppendPostFails(u) \/ AnnouncePost(u)

ReplyStep(u) ==
    \/ \E post \in PostIds : CreateReply(u, post)
    \/ AppendReply(u)
    \/ AppendReplyFails(u)
    \/ NotifyReply(u)
    \/ AnnounceReply(u)

UploadStep(u) ==
    \/ \E path \in Paths : StartUpload(u, path)
    \/ OpenBlob(u)
    \/ OpenBlobFails(u)
    \/ ReceiveBlob(u)
    \/ ReceiveBlobFails(u)
    \/ RecordAttachment(u)
    \/ RecordAttachmentFails(u)

Next ==
    \/ Crash
    \/ \E u \in Authors : PostStep(u) \/ ReplyStep(u) \/ UploadStep(u)

Spec == Init /\ [][Next]_vars

-----------------------------------------------------------------------------

TypeOK ==
    /\ posts \in Seq(Post)
    /\ replies \in Seq(Reply)
    /\ files \in Seq(Attachment)
    /\ blobs \in [Paths -> {"absent", "partial", "complete"}]
    /\ op \in [Authors -> Op]
    /\ told \subseteq Post \cup Reply
    /\ notices \subseteq Notice

Stored(file, record) == \E i \in DOMAIN file : file[i] = record

(* Nobody is told of a record that is not in its file: not by the OK, not  *)
(* by an EVENT, not by a notification, whichever append failed and         *)
(* whenever the server was killed.                                         *)
AnnouncementsStored ==
    /\ \A record \in told : Stored(posts, record) \/ Stored(replies, record)
    /\ \A notice \in notices : Stored(replies, notice.reply)

(* A reply refers to a post that exists: the look-up is not in the         *)
(* critical section that appends the reply.                                *)
RepliesReferToPosts ==
    \A r \in DOMAIN replies : \E p \in DOMAIN posts : posts[p].id = replies[r].post

(* Several records may get the same id, but no two by the same author: a   *)
(* thread reads the next id after its author's last record was appended,   *)
(* also when other threads have appended smaller ids in between.           *)
AuthorsNeverRepeatAnId ==
    /\ \A i, j \in DOMAIN posts : posts[i] = posts[j] => i = j
    /\ \A i, j \in DOMAIN replies :
            replies[i].id = replies[j].id /\ replies[i].author = replies[j].author
                => i = j

(* An id that denotes a record denotes the same record for ever, although  *)
(* later records may repeat the id: the replies, the attachment and the    *)
(* permission to upload stay with the first one.                           *)
DenotationStable ==
    [][/\ \A id \in PostIds, i \in 1 .. MaxPosts :
            Denotes(posts, id, i) => Denotes(posts, id, i)' /\ posts'[i] = posts[i]
       /\ \A id \in ReplyIds, i \in 1 .. MaxReplies :
            Denotes(replies, id, i) => Denotes(replies, id, i)' /\ replies'[i] = replies[i]]_vars

(* An object has one attachment at most, although the look-up for one and  *)
(* the record of a new one are far apart and under no common lock.         *)
OneAttachment ==
    \A i, j \in DOMAIN files : files[i].path.owner = files[j].path.owner => i = j

(* The file of an attachment record is complete, also after a kill between *)
(* any two steps of an upload: BBS_DOWNLOAD_* finds what BBS_VIEW lists.   *)
RecordedBlobsComplete ==
    \A i \in DOMAIN files : blobs[files[i].path] = "complete"

\* Stored files that no record names and no upload is working on: as fopen
\* refuses to overwrite them, their names cannot be used for the object again.
Orphans ==
    {path \in Paths :
        /\ blobs[path] # "absent"
        /\ ~\E i \in DOMAIN files : files[i].path = path
        /\ ~\E u \in Authors : op[u].pc \in {"receive", "record"} /\ op[u].path = path}

(* Only a kill leaves an orphan: every error path of an upload cleans up   *)
(* its own file, and never one that another upload has stored.             *)
OnlyCrashesOrphan == [][Crash \/ Orphans' \subseteq Orphans]_vars

(* docs/backend_protocol.md: only the post author may upload a post        *)
(* attachment, and only the reply author a reply attachment.  Two records  *)
(* with one id have one attachment between them: the second author sees    *)
(* that of the first under his own record, and cannot upload his.          *)
OnlyAuthorsAttach ==
    \A f \in DOMAIN files :
        LET owner == files[f].path.owner IN
        \A i \in DOMAIN FileOf(owner) :
            FileOf(owner)[i].id = owner.id => FileOf(owner)[i].author = files[f].sender
=============================================================================

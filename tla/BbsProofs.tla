----------------------------- MODULE BbsProofs -----------------------------
(***************************************************************************)
(* Theorems about posts, replies and attachments, for any authors and any  *)
(* sizes of the files.                                                     *)
(***************************************************************************)
EXTENDS Bbs, SequenceTheorems, TLAPS

-----------------------------------------------------------------------------
(* The inductive invariant *)

\* The records of the author, if any, have smaller ids.
AboveOwn(file, u, id) == \A i \in DOMAIN file : file[i].author = u => file[i].id < id

\* What a thread relies on between two critical sections on records.
RecordConsistent(u) ==
    /\ op[u].pc \in {"append post", "announce post"} => op[u].id \in PostIds
    /\ op[u].pc \in {"append reply", "notify reply", "announce reply"} =>
        /\ op[u].id \in ReplyIds
        /\ op[u].post \in PostIds
        /\ \E p \in DOMAIN posts : posts[p].id = op[u].post
    /\ op[u].pc = "append post" => AboveOwn(posts, u, op[u].id)
    /\ op[u].pc = "append reply" => AboveOwn(replies, u, op[u].id)
    /\ op[u].pc = "announce post" => Stored(posts, PostOf(u))
    /\ op[u].pc \in {"notify reply", "announce reply"} => Stored(replies, ReplyOf(u))

(* Only the author of the record that an object denotes can be uploading   *)
(* for it, and he has one thread.                                          *)
UploadConsistent(u) ==
    op[u].pc \in {"open", "receive", "record"} =>
        /\ op[u].path \in Paths
        /\ MayAttach(u, op[u].path.owner)
        /\ ~Attached(op[u].path.owner)
        /\ op[u].pc = "record" => blobs[op[u].path] = "complete"

RecordsInv ==
    /\ AnnouncementsStored
    /\ RepliesReferToPosts
    /\ AuthorsNeverRepeatAnId
    /\ \A u \in Authors : RecordConsistent(u)

UploadsInv ==
    /\ OneAttachment
    /\ RecordedBlobsComplete
    /\ \A u \in Authors : UploadConsistent(u)

BbsInv == TypeOK /\ RecordsInv /\ UploadsInv

-----------------------------------------------------------------------------
(* Facts *)

LEMMA FileTypes ==
    ASSUME TypeOK
    PROVE  /\ Len(posts) \in Nat /\ DOMAIN posts = 1 .. Len(posts)
           /\ Len(replies) \in Nat /\ DOMAIN replies = 1 .. Len(replies)
           /\ Len(files) \in Nat /\ DOMAIN files = 1 .. Len(files)
           /\ \A i \in DOMAIN posts :
                posts[i] \in Post /\ posts[i].id \in PostIds /\ posts[i].author \in Authors
           /\ \A i \in DOMAIN replies :
                /\ replies[i] \in Reply /\ replies[i].id \in ReplyIds
                /\ replies[i].post \in PostIds /\ replies[i].author \in Authors
           /\ \A i \in DOMAIN files :
                files[i] \in Attachment /\ files[i].path \in Paths /\ files[i].path.owner \in Objects
<1>1. posts \in Seq(Post) /\ replies \in Seq(Reply) /\ files \in Seq(Attachment)
  BY DEF TypeOK
<1>2. /\ Len(posts) \in Nat /\ DOMAIN posts = 1 .. Len(posts)
      /\ Len(replies) \in Nat /\ DOMAIN replies = 1 .. Len(replies)
      /\ Len(files) \in Nat /\ DOMAIN files = 1 .. Len(files)
  BY <1>1, LenProperties
<1>3. ASSUME NEW i \in DOMAIN posts
      PROVE  posts[i] \in Post /\ posts[i].id \in PostIds /\ posts[i].author \in Authors
  <2>1. posts[i] \in Post
    BY <1>1, <1>2, ElementOfSeq
  <2> QED
    BY <2>1 DEF Post
<1>4. ASSUME NEW i \in DOMAIN replies
      PROVE  /\ replies[i] \in Reply /\ replies[i].id \in ReplyIds
             /\ replies[i].post \in PostIds /\ replies[i].author \in Authors
  <2>1. replies[i] \in Reply
    BY <1>1, <1>2, ElementOfSeq
  <2> QED
    BY <2>1 DEF Reply
<1>5. ASSUME NEW i \in DOMAIN files
      PROVE  files[i] \in Attachment /\ files[i].path \in Paths /\ files[i].path.owner \in Objects
  <2>1. files[i] \in Attachment
    BY <1>1, <1>2, ElementOfSeq
  <2> QED
    BY <2>1 DEF Attachment, Paths
<1> QED
  BY <1>2, <1>3, <1>4, <1>5

\* What a file is after an append.
LEMMA AppendFacts ==
    ASSUME NEW S, NEW file \in Seq(S), NEW record \in S
    PROVE  /\ Append(file, record) \in Seq(S)
           /\ DOMAIN Append(file, record) = 1 .. Len(file) + 1
           /\ Append(file, record)[Len(file) + 1] = record
           /\ \A i \in DOMAIN file : Append(file, record)[i] = file[i]
<1>1. DOMAIN file = 1 .. Len(file)
  BY LenProperties
<1>2. Append(file, record) \in Seq(S) /\ Len(Append(file, record)) = Len(file) + 1
  BY AppendProperties
<1>3. DOMAIN Append(file, record) = 1 .. Len(file) + 1
  BY <1>2, LenProperties
<1> QED
  BY <1>1, <1>2, <1>3, AppendProperties

LEMMA IdleOp == Idle \in Op
BY DEF Idle, Op

LEMMA OpFacts ==
    ASSUME TypeOK, NEW u \in Authors
    PROVE  /\ op[u] \in Op /\ op \in [Authors -> Op]
           /\ op[u].id \in PostIds \cup ReplyIds \cup {0}
           /\ op[u].post \in PostIds \cup {0}
           /\ op[u].path \in Paths \cup {NoPath}
<1>1. op[u] \in Op /\ op \in [Authors -> Op]
  BY DEF TypeOK
<1> QED
  BY <1>1 DEF Op

\* The threads of the others do nothing meanwhile.
OpTyped(u) ==
    /\ op' \in [Authors -> Op]
    /\ \A v \in Authors \ {u} : op'[v] = op[v]

LEMMA GoesOp ==
    ASSUME TypeOK, NEW u \in Authors,
           NEW pc \in {"announce post", "notify reply", "announce reply", "receive", "record"},
           Goes(u, pc)
    PROVE  /\ OpTyped(u) /\ op'[u].pc = pc /\ op'[u].id = op[u].id
           /\ op'[u].post = op[u].post /\ op'[u].path = op[u].path
<1> DEFINE new == [op[u] EXCEPT !.pc = pc]
<1>1. /\ new \in Op /\ new.pc = pc /\ new.id = op[u].id /\ new.post = op[u].post
      /\ new.path = op[u].path
  BY OpFacts DEF Op
<1>2. op \in [Authors -> Op] /\ op' = [op EXCEPT ![u] = new]
  BY DEF TypeOK, Goes
<1> QED
  BY <1>1, <1>2 DEF OpTyped

LEMMA DoneOp ==
    ASSUME TypeOK, NEW u \in Authors, Done(u)
    PROVE  OpTyped(u) /\ op'[u].pc = "idle"
<1>1. op \in [Authors -> Op] /\ op' = [op EXCEPT ![u] = Idle]
  BY DEF TypeOK, Done
<1> QED
  BY <1>1, IdleOp DEF OpTyped, Idle

-----------------------------------------------------------------------------
(* Records *)

\* posts.db and replies.db only grow, by what the thread of u appends.
RecordsGrow ==
    /\ posts' \in Seq(Post) /\ replies' \in Seq(Reply)
    /\ DOMAIN posts \subseteq DOMAIN posts' /\ DOMAIN replies \subseteq DOMAIN replies'
    /\ \A i \in DOMAIN posts : posts'[i] = posts[i]
    /\ \A i \in DOMAIN replies : replies'[i] = replies[i]

AppendsOwn(u) ==
    /\ \A i \in DOMAIN posts' : i \in DOMAIN posts \/ posts'[i].author = u
    /\ \A i \in DOMAIN replies' : i \in DOMAIN replies \/ replies'[i].author = u

\* What somebody else does leaves a thread what it relies on.
LEMMA OthersKeepRecords ==
    ASSUME RecordsInv, NEW u \in Authors, NEW v \in Authors \ {u},
           RecordsGrow, AppendsOwn(u), OpTyped(u)
    PROVE  RecordConsistent(v)'
<1>1. RecordConsistent(v) /\ op'[v] = op[v]
  BY DEF RecordsInv, OpTyped
<1>2. /\ PostOf(v)' = PostOf(v) /\ ReplyOf(v)' = ReplyOf(v)
  BY <1>1 DEF PostOf, ReplyOf
<1>3. ASSUME NEW p, \E i \in DOMAIN posts : posts[i].id = p
      PROVE  \E i \in DOMAIN posts' : posts'[i].id = p
  BY <1>3 DEF RecordsGrow
<1>4. ASSUME NEW id, AboveOwn(posts, v, id) PROVE AboveOwn(posts', v, id)
  BY <1>4 DEF RecordsGrow, AppendsOwn, AboveOwn
<1>5. ASSUME NEW id, AboveOwn(replies, v, id) PROVE AboveOwn(replies', v, id)
  BY <1>5 DEF RecordsGrow, AppendsOwn, AboveOwn
<1>6. ASSUME NEW record, Stored(posts, record) PROVE Stored(posts', record)
  BY <1>6 DEF RecordsGrow, Stored
<1>7. ASSUME NEW record, Stored(replies, record) PROVE Stored(replies', record)
  BY <1>7 DEF RecordsGrow, Stored
<1> QED
  BY <1>1, <1>2, <1>3, <1>4, <1>5, <1>6, <1>7 DEF RecordConsistent

\* A step that appends no record.
LEMMA NoRecordInv ==
    ASSUME TypeOK, RecordsInv, NEW u \in Authors, UNCHANGED <<posts, replies>>, OpTyped(u),
           \A record \in told' : Stored(posts, record) \/ Stored(replies, record),
           \A notice \in notices' : Stored(replies, notice.reply),
           RecordConsistent(u)'
    PROVE  RecordsInv'
<1>1. RecordsGrow /\ AppendsOwn(u)
  BY DEF TypeOK, RecordsGrow, AppendsOwn
<1>2. \A v \in Authors : RecordConsistent(v)'
  BY <1>1, OthersKeepRecords
<1>3. AnnouncementsStored'
  BY DEF AnnouncementsStored
<1>4. RepliesReferToPosts' /\ AuthorsNeverRepeatAnId'
  BY DEF RecordsInv, RepliesReferToPosts, AuthorsNeverRepeatAnId
<1> QED
  BY <1>2, <1>3, <1>4 DEF RecordsInv

\* A post is appended.
LEMMA AppendPostRecords ==
    ASSUME TypeOK, RecordsInv, NEW u \in Authors, AppendPost(u)
    PROVE  RecordsInv' /\ RecordsGrow
<1> DEFINE post == PostOf(u)
           n == Len(posts) + 1
<1>1. /\ RecordConsistent(u) /\ op[u].pc = "append post"
      /\ posts' = Append(posts, post) /\ Goes(u, "announce post")
      /\ UNCHANGED <<replies, told, notices>>
  BY DEF AppendPost, RecordsInv
<1>2. post \in Post /\ post.id = op[u].id /\ post.author = u /\ AboveOwn(posts, u, op[u].id)
  BY <1>1 DEF RecordConsistent, PostOf, Post
<1>3. /\ posts \in Seq(Post) /\ Len(posts) \in Nat /\ DOMAIN posts = 1 .. Len(posts)
      /\ replies \in Seq(Reply)
  BY FileTypes DEF TypeOK
<1>p. post' = post
  BY <1>1, GoesOp DEF PostOf
<1> HIDE DEF post
<1>4. /\ posts' \in Seq(Post) /\ DOMAIN posts' = 1 .. n /\ posts'[n] = post
      /\ \A i \in DOMAIN posts : posts'[i] = posts[i]
  <2>1. posts \in Seq(Post) /\ post \in Post
    BY <1>2, <1>3
  <2>2. /\ Append(posts, post) \in Seq(Post)
        /\ DOMAIN Append(posts, post) = 1 .. n
        /\ Append(posts, post)[n] = post
        /\ \A i \in DOMAIN posts : Append(posts, post)[i] = posts[i]
    BY <2>1, AppendFacts
  <2> QED
    BY <1>1, <2>2
<1>5. n \in DOMAIN posts' /\ DOMAIN posts \subseteq DOMAIN posts'
      /\ \A i \in DOMAIN posts' : i \in DOMAIN posts \/ i = n
  BY <1>3, <1>4
<1>6. RecordsGrow /\ AppendsOwn(u)
  BY <1>1, <1>2, <1>3, <1>4, <1>5 DEF RecordsGrow, AppendsOwn
<1>7. OpTyped(u) /\ op'[u].pc = "announce post" /\ op'[u].id = op[u].id
  BY <1>1, GoesOp
<1>8. RecordConsistent(u)'
  <2>1. Stored(posts', post)
    BY <1>4, <1>5 DEF Stored
  <2>2. op'[u].id \in PostIds
    BY <1>1, <1>7 DEF RecordConsistent
  <2> QED
    BY <1>7, <1>p, <2>1, <2>2 DEF RecordConsistent, post
<1>9. \A v \in Authors : RecordConsistent(v)'
  BY <1>6, <1>7, <1>8, OthersKeepRecords
<1>10. AnnouncementsStored'
  BY <1>1, <1>4, <1>5 DEF RecordsInv, AnnouncementsStored, Stored
<1>11. RepliesReferToPosts'
  BY <1>1, <1>4, <1>5 DEF RecordsInv, RepliesReferToPosts
<1>12. AuthorsNeverRepeatAnId'
  <2> SUFFICES ASSUME NEW i \in DOMAIN posts', NEW j \in DOMAIN posts', posts'[i] = posts'[j]
               PROVE  i = j
    BY <1>1 DEF RecordsInv, AuthorsNeverRepeatAnId
  <2>1. ASSUME NEW k \in DOMAIN posts PROVE posts[k] # post
    BY <1>2, <2>1, FileTypes DEF AboveOwn, PostIds
  <2> QED
    BY <1>4, <1>5, <2>1 DEF RecordsInv, AuthorsNeverRepeatAnId
<1> QED
  BY <1>6, <1>9, <1>10, <1>11, <1>12 DEF RecordsInv

\* A reply is appended.
LEMMA AppendReplyRecords ==
    ASSUME TypeOK, RecordsInv, NEW u \in Authors, AppendReply(u)
    PROVE  RecordsInv' /\ RecordsGrow
<1> DEFINE reply == ReplyOf(u)
           n == Len(replies) + 1
<1>1. /\ RecordConsistent(u) /\ op[u].pc = "append reply"
      /\ replies' = Append(replies, reply) /\ Goes(u, "notify reply")
      /\ UNCHANGED <<posts, told, notices>>
  BY DEF AppendReply, RecordsInv
<1>2. /\ reply \in Reply /\ reply.id = op[u].id /\ reply.author = u
      /\ reply.post = op[u].post /\ AboveOwn(replies, u, op[u].id)
      /\ \E p \in DOMAIN posts : posts[p].id = op[u].post
  BY <1>1 DEF RecordConsistent, ReplyOf, Reply
<1>3. /\ replies \in Seq(Reply) /\ Len(replies) \in Nat /\ DOMAIN replies = 1 .. Len(replies)
      /\ posts \in Seq(Post)
  BY FileTypes DEF TypeOK
<1>p. reply' = reply
  BY <1>1, GoesOp DEF ReplyOf
<1> HIDE DEF reply
<1>4. /\ replies' \in Seq(Reply) /\ DOMAIN replies' = 1 .. n /\ replies'[n] = reply
      /\ \A i \in DOMAIN replies : replies'[i] = replies[i]
  <2>1. replies \in Seq(Reply) /\ reply \in Reply
    BY <1>2, <1>3
  <2>2. /\ Append(replies, reply) \in Seq(Reply)
        /\ DOMAIN Append(replies, reply) = 1 .. n
        /\ Append(replies, reply)[n] = reply
        /\ \A i \in DOMAIN replies : Append(replies, reply)[i] = replies[i]
    BY <2>1, AppendFacts
  <2> QED
    BY <1>1, <2>2
<1>5. n \in DOMAIN replies' /\ DOMAIN replies \subseteq DOMAIN replies'
      /\ \A i \in DOMAIN replies' : i \in DOMAIN replies \/ i = n
  BY <1>3, <1>4
<1>6. RecordsGrow /\ AppendsOwn(u)
  BY <1>1, <1>2, <1>3, <1>4, <1>5 DEF RecordsGrow, AppendsOwn
<1>7. /\ OpTyped(u) /\ op'[u].pc = "notify reply" /\ op'[u].id = op[u].id
      /\ op'[u].post = op[u].post
  BY <1>1, GoesOp
<1>8. RecordConsistent(u)'
  <2>1. Stored(replies', reply)
    BY <1>4, <1>5 DEF Stored
  <2>2. /\ op'[u].id \in ReplyIds /\ op'[u].post \in PostIds
        /\ \E p \in DOMAIN posts' : posts'[p].id = op'[u].post
    BY <1>1, <1>7 DEF RecordConsistent
  <2> QED
    BY <1>7, <1>p, <2>1, <2>2 DEF RecordConsistent, reply
<1>9. \A v \in Authors : RecordConsistent(v)'
  BY <1>6, <1>7, <1>8, OthersKeepRecords
<1>10. AnnouncementsStored'
  BY <1>1, <1>4, <1>5 DEF RecordsInv, AnnouncementsStored, Stored
<1>11. RepliesReferToPosts'
  BY <1>1, <1>2, <1>4, <1>5 DEF RecordsInv, RepliesReferToPosts
<1>12. AuthorsNeverRepeatAnId'
  <2> SUFFICES ASSUME NEW i \in DOMAIN replies', NEW j \in DOMAIN replies',
                      replies'[i].id = replies'[j].id, replies'[i].author = replies'[j].author
               PROVE  i = j
    BY <1>1 DEF RecordsInv, AuthorsNeverRepeatAnId
  <2>1. ASSUME NEW k \in DOMAIN replies PROVE replies[k].id # reply.id \/ replies[k].author # u
    BY <1>2, <2>1, FileTypes DEF AboveOwn, ReplyIds
  <2> QED
    BY <1>2, <1>4, <1>5, <2>1 DEF RecordsInv, AuthorsNeverRepeatAnId
<1> QED
  BY <1>6, <1>9, <1>10, <1>11, <1>12 DEF RecordsInv

-----------------------------------------------------------------------------
(* Uploads *)

Uploading(u) == op[u].pc \in {"open", "receive", "record"}

\* The thread of u changes nothing but the file it is uploading.
TouchesOwn(u) ==
    /\ \A p \in Paths : blobs'[p] = blobs[p] \/ (Uploading(u) /\ p = op[u].path)
    /\ \A i \in DOMAIN files' :
        \/ i \in DOMAIN files /\ files'[i] = files[i]
        \/ Uploading(u) /\ files'[i].path = op[u].path

LEMMA DenotesOne ==
    ASSUME NEW file, NEW id, NEW i \in Nat, NEW j \in Nat, i # 0, j # 0,
           Denotes(file, id, i), Denotes(file, id, j)
    PROVE  i = j
<1>1. file[i].id = id /\ file[j].id = id
  BY DEF Denotes
<1>2. i < j => i \in 1 .. (j - 1)
  OBVIOUS
<1>3. j < i => j \in 1 .. (i - 1)
  OBVIOUS
<1> QED
  BY <1>1, <1>2, <1>3 DEF Denotes

\* An object has one author.
LEMMA OneAuthor ==
    ASSUME TypeOK, NEW object \in Objects, NEW u, NEW v,
           MayAttach(u, object), MayAttach(v, object)
    PROVE  u = v
<1>1. PICK i \in DOMAIN FileOf(object) :
            Denotes(FileOf(object), object.id, i) /\ FileOf(object)[i].author = u
  BY DEF MayAttach
<1>2. PICK j \in DOMAIN FileOf(object) :
            Denotes(FileOf(object), object.id, j) /\ FileOf(object)[j].author = v
  BY DEF MayAttach
<1>3. DOMAIN FileOf(object) \subseteq Nat \ {0}
  BY FileTypes DEF FileOf
<1>4. i = j
  BY <1>1, <1>2, <1>3, DenotesOne
<1> QED
  BY <1>1, <1>2, <1>4

\* What an id denotes does not change when records are appended.
LEMMA DenotesStays ==
    ASSUME NEW file, NEW new, NEW n \in Nat, NEW id, NEW i,
           DOMAIN file = 1 .. n, DOMAIN file \subseteq DOMAIN new,
           \A j \in DOMAIN file : new[j] = file[j], Denotes(file, id, i)
    PROVE  Denotes(new, id, i) /\ new[i] = file[i]
<1>1. i \in 1 .. n /\ i \in DOMAIN new /\ new[i] = file[i] /\ file[i].id = id
  BY DEF Denotes
<1>2. ASSUME NEW j \in 1 .. (i - 1) PROVE new[j].id # id
  <2>1. j \in DOMAIN file
    BY <1>1
  <2> QED
    BY <2>1 DEF Denotes
<1> QED
  BY <1>1, <1>2 DEF Denotes

LEMMA MayAttachStays ==
    ASSUME TypeOK, RecordsGrow, NEW u, NEW object \in Objects, MayAttach(u, object)
    PROVE  MayAttach(u, object)'
<1>1. CASE object.kind = "post"
  <2>1. PICK i \in DOMAIN posts : Denotes(posts, object.id, i) /\ posts[i].author = u
    BY <1>1 DEF MayAttach, FileOf
  <2>2. /\ Len(posts) \in Nat /\ DOMAIN posts = 1 .. Len(posts)
        /\ DOMAIN posts \subseteq DOMAIN posts' /\ \A j \in DOMAIN posts : posts'[j] = posts[j]
    BY FileTypes DEF RecordsGrow
  <2>3. Denotes(posts', object.id, i) /\ posts'[i] = posts[i]
    BY <2>1, <2>2, DenotesStays
  <2> QED
    BY <1>1, <2>1, <2>2, <2>3 DEF MayAttach, FileOf
<1>2. CASE object.kind # "post"
  <2>1. PICK i \in DOMAIN replies : Denotes(replies, object.id, i) /\ replies[i].author = u
    BY <1>2 DEF MayAttach, FileOf
  <2>2. Denotes(replies', object.id, i) /\ replies'[i] = replies[i] /\ i \in DOMAIN replies'
    BY <2>1, FileTypes, DenotesStays DEF RecordsGrow
  <2> QED
    BY <1>2, <2>1, <2>2 DEF MayAttach, FileOf
<1> QED
  BY <1>1, <1>2

\* What somebody else does leaves an upload what it relies on.
LEMMA OthersKeepUploads ==
    ASSUME TypeOK, UploadsInv, NEW u \in Authors, NEW v \in Authors \ {u},
           RecordsGrow, OpTyped(u), TouchesOwn(u)
    PROVE  UploadConsistent(v)'
<1>1. op'[v] = op[v] /\ UploadConsistent(v) /\ UploadConsistent(u)
  BY DEF OpTyped, UploadsInv
<1> SUFFICES ASSUME Uploading(v) PROVE UploadConsistent(v)'
  BY <1>1 DEF Uploading, UploadConsistent
<1>2. PICK path \in Paths : path = op[v].path
  BY <1>1 DEF Uploading, UploadConsistent
<1>3. PICK owner \in Objects : owner = path.owner
  BY DEF Paths
<1>4. /\ MayAttach(v, owner) /\ ~Attached(owner)
      /\ op[v].pc = "record" => blobs[path] = "complete"
  BY <1>1, <1>2, <1>3 DEF Uploading, UploadConsistent
<1>5. ~(Uploading(u) /\ op[u].path.owner = owner)
  <2> SUFFICES ASSUME Uploading(u), op[u].path.owner = owner PROVE FALSE
    OBVIOUS
  <2>1. MayAttach(u, owner)
    BY <1>1 DEF Uploading, UploadConsistent
  <2> QED
    BY <1>4, <2>1, OneAuthor
<1>6. MayAttach(v, owner)'
  BY <1>4, MayAttachStays
<1>7. ~Attached(owner)'
  BY <1>4, <1>5 DEF TouchesOwn, Attached
<1>8. blobs'[path] = blobs[path]
  BY <1>3, <1>5 DEF TouchesOwn
<1> QED
  BY <1>1, <1>2, <1>3, <1>4, <1>6, <1>7, <1>8 DEF UploadConsistent

LEMMA UploadStepInv ==
    ASSUME TypeOK, UploadsInv, NEW u \in Authors, RecordsGrow, OpTyped(u), TouchesOwn(u),
           OneAttachment', RecordedBlobsComplete', UploadConsistent(u)'
    PROVE  UploadsInv'
BY OthersKeepUploads DEF UploadsInv

-----------------------------------------------------------------------------
(* The steps *)

\* A step that changes no file.
LEMMA QuietInv ==
    ASSUME BbsInv, NEW u \in Authors, UNCHANGED <<posts, replies, files, blobs>>, OpTyped(u),
           told' \subseteq Post \cup Reply,
           \A record \in told' : Stored(posts, record) \/ Stored(replies, record),
           notices' \subseteq Notice, \A notice \in notices' : Stored(replies, notice.reply),
           RecordConsistent(u)', UploadConsistent(u)'
    PROVE  BbsInv'
<1>1. TypeOK /\ RecordsInv /\ UploadsInv
  BY DEF BbsInv
<1>2. TypeOK'
  BY <1>1 DEF TypeOK, OpTyped
<1>3. RecordsInv'
  BY <1>1, NoRecordInv
<1>4. RecordsGrow /\ TouchesOwn(u)
  BY <1>1 DEF TypeOK, RecordsGrow, TouchesOwn
<1>5. OneAttachment' /\ RecordedBlobsComplete'
  BY <1>1 DEF UploadsInv, OneAttachment, RecordedBlobsComplete
<1>6. UploadsInv'
  BY <1>1, <1>4, <1>5, UploadStepInv
<1> QED
  BY <1>2, <1>3, <1>6 DEF BbsInv

\* A post or a reply is appended.
LEMMA AppendInv ==
    ASSUME BbsInv, NEW u \in Authors, AppendPost(u) \/ AppendReply(u)
    PROVE  BbsInv'
<1>1. TypeOK /\ RecordsInv /\ UploadsInv /\ UNCHANGED <<files, blobs, told, notices>>
  BY DEF BbsInv, AppendPost, AppendReply
<1>2. RecordsInv' /\ RecordsGrow
  BY <1>1, AppendPostRecords, AppendReplyRecords
<1>3. OpTyped(u) /\ op'[u].pc \in {"announce post", "notify reply"}
  BY <1>1, GoesOp DEF AppendPost, AppendReply
<1>4. TypeOK'
  BY <1>1, <1>2, <1>3 DEF TypeOK, RecordsGrow, OpTyped
<1>5. TouchesOwn(u) /\ UploadConsistent(u)'
  BY <1>1, <1>3 DEF TouchesOwn, UploadConsistent
<1>6. OneAttachment' /\ RecordedBlobsComplete'
  BY <1>1 DEF UploadsInv, OneAttachment, RecordedBlobsComplete
<1>7. UploadsInv'
  BY <1>1, <1>2, <1>3, <1>5, <1>6, UploadStepInv
<1> QED
  BY <1>2, <1>4, <1>7 DEF BbsInv

\* The next id is above those of all authors.
LEMMA CreateInv ==
    ASSUME BbsInv, NEW u \in Authors,
           CreatePost(u) \/ \E post \in PostIds : CreateReply(u, post)
    PROVE  BbsInv'
<1>1. /\ TypeOK /\ RecordsInv /\ op \in [Authors -> Op]
      /\ UNCHANGED <<posts, replies, files, blobs, told, notices>>
  BY DEF BbsInv, TypeOK, CreatePost, CreateReply
<1>2. CASE CreatePost(u)
  <2>1. PICK id \in PostIds :
            /\ NextId(posts, id)
            /\ op' = [op EXCEPT ![u] = [Idle EXCEPT !.pc = "append post", !.id = id]]
    BY <1>2 DEF CreatePost
  <2> DEFINE new == [Idle EXCEPT !.pc = "append post", !.id = id]
  <2>2. new \in Op /\ new.pc = "append post" /\ new.id = id
    BY DEF Idle, Op
  <2> HIDE DEF new
  <2>3. OpTyped(u) /\ op'[u] = new
    BY <1>1, <2>1, <2>2 DEF OpTyped, new
  <2>4. AboveOwn(posts, u, id)
    BY <2>1 DEF NextId, AboveOwn
  <2>5. RecordConsistent(u)' /\ UploadConsistent(u)'
    BY <1>1, <2>2, <2>3, <2>4 DEF RecordConsistent, UploadConsistent
  <2> QED
    BY <1>1, <2>3, <2>5, QuietInv DEF TypeOK, RecordsInv, AnnouncementsStored
<1>3. CASE \E post \in PostIds : CreateReply(u, post)
  <2>1. PICK post \in PostIds, id \in ReplyIds :
            /\ \E i \in DOMAIN posts : posts[i].id = post
            /\ NextId(replies, id)
            /\ op' = [op EXCEPT ![u] = [Idle EXCEPT !.pc = "append reply",
                                                   !.id = id, !.post = post]]
    BY <1>3 DEF CreateReply
  <2> DEFINE new == [Idle EXCEPT !.pc = "append reply", !.id = id, !.post = post]
  <2>2. new \in Op /\ new.pc = "append reply" /\ new.id = id /\ new.post = post
    BY DEF Idle, Op
  <2> HIDE DEF new
  <2>3. OpTyped(u) /\ op'[u] = new
    BY <1>1, <2>1, <2>2 DEF OpTyped, new
  <2>4. AboveOwn(replies, u, id)
    BY <2>1 DEF NextId, AboveOwn
  <2>5. RecordConsistent(u)' /\ UploadConsistent(u)'
    BY <1>1, <2>1, <2>2, <2>3, <2>4 DEF RecordConsistent, UploadConsistent
  <2> QED
    BY <1>1, <2>3, <2>5, QuietInv DEF TypeOK, RecordsInv, AnnouncementsStored
<1> QED
  BY <1>2, <1>3

\* A command ends, whatever was answered, without anybody being told.
LEMMA EndInv ==
    ASSUME BbsInv, NEW u \in Authors,
           AppendPostFails(u) \/ AppendReplyFails(u) \/ OpenBlobFails(u)
    PROVE  BbsInv'
<1>1. /\ TypeOK /\ RecordsInv /\ Done(u)
      /\ UNCHANGED <<posts, replies, files, blobs, told, notices>>
  BY DEF BbsInv, AppendPostFails, AppendReplyFails, OpenBlobFails
<1>2. OpTyped(u) /\ op'[u].pc = "idle"
  BY <1>1, DoneOp
<1>3. RecordConsistent(u)' /\ UploadConsistent(u)'
  BY <1>2 DEF RecordConsistent, UploadConsistent
<1> QED
  BY <1>1, <1>2, <1>3, QuietInv DEF TypeOK, RecordsInv, AnnouncementsStored

\* Somebody is told of a record, which is on file.
LEMMA AnnounceInv ==
    ASSUME BbsInv, NEW u \in Authors, AnnouncePost(u) \/ AnnounceReply(u) PROVE BbsInv'
<1>1. /\ TypeOK /\ RecordsInv /\ Done(u) /\ RecordConsistent(u)
      /\ UNCHANGED <<posts, replies, files, blobs, notices>>
  BY DEF BbsInv, RecordsInv, AnnouncePost, AnnounceReply
<1>2. OpTyped(u) /\ op'[u].pc = "idle"
  BY <1>1, DoneOp
<1>3. RecordConsistent(u)' /\ UploadConsistent(u)'
  BY <1>2 DEF RecordConsistent, UploadConsistent
<1>4. PICK record \in Post \cup Reply :
        told' = told \cup {record} /\ (Stored(posts, record) \/ Stored(replies, record))
  <2>1. CASE AnnouncePost(u)
    <3>1. PostOf(u) \in Post /\ Stored(posts, PostOf(u)) /\ told' = told \cup {PostOf(u)}
      BY <1>1, <2>1 DEF AnnouncePost, RecordConsistent, PostOf, Post
    <3> QED
      BY <3>1
  <2>2. CASE AnnounceReply(u)
    <3>1. ReplyOf(u) \in Reply /\ Stored(replies, ReplyOf(u)) /\ told' = told \cup {ReplyOf(u)}
      BY <1>1, <2>2 DEF AnnounceReply, RecordConsistent, ReplyOf, Reply
    <3> QED
      BY <3>1
  <2> QED
    BY <2>1, <2>2
<1>5. told' \subseteq Post \cup Reply /\ notices' \subseteq Notice
  BY <1>1, <1>4 DEF TypeOK
<1>6. /\ \A r \in told' : Stored(posts, r) \/ Stored(replies, r)
      /\ \A notice \in notices' : Stored(replies, notice.reply)
  BY <1>1, <1>4 DEF RecordsInv, AnnouncementsStored
<1> QED
  BY <1>1, <1>2, <1>3, <1>5, <1>6, QuietInv

\* The author of a post is notified of a reply, which is on file.
LEMMA NotifyReplyInv ==
    ASSUME BbsInv, NEW u \in Authors, NotifyReply(u) PROVE BbsInv'
<1>1. /\ TypeOK /\ RecordsInv /\ Goes(u, "announce reply") /\ RecordConsistent(u)
      /\ UNCHANGED <<posts, replies, files, blobs, told>> /\ op[u].pc = "notify reply"
  BY DEF BbsInv, RecordsInv, NotifyReply
<1>2. /\ OpTyped(u) /\ op'[u].pc = "announce reply" /\ op'[u].id = op[u].id
      /\ op'[u].post = op[u].post
  BY <1>1, GoesOp
<1>3. RecordConsistent(u)' /\ UploadConsistent(u)'
  BY <1>1, <1>2 DEF RecordConsistent, UploadConsistent, ReplyOf
<1>4. PICK reply \in Reply : reply = ReplyOf(u) /\ Stored(replies, reply)
  BY <1>1 DEF RecordConsistent, ReplyOf, Reply
<1>5. \/ notices' = notices
      \/ \E to \in Authors : notices' = notices \cup {[to |-> to, reply |-> reply]}
  BY <1>1, <1>4, FileTypes DEF NotifyReply
<1>6. /\ notices \subseteq Notice /\ \A notice \in notices : Stored(replies, notice.reply)
      /\ told' \subseteq Post \cup Reply
      /\ \A r \in told' : Stored(posts, r) \/ Stored(replies, r)
  BY <1>1 DEF TypeOK, RecordsInv, AnnouncementsStored
<1>7. notices' \subseteq Notice /\ \A notice \in notices' : Stored(replies, notice.reply)
  <2>1. CASE notices' = notices
    BY <1>6, <2>1
  <2>2. CASE \E to \in Authors : notices' = notices \cup {[to |-> to, reply |-> reply]}
    <3>1. PICK to \in Authors : notices' = notices \cup {[to |-> to, reply |-> reply]}
      BY <2>2
    <3> DEFINE new == [to |-> to, reply |-> reply]
    <3>2. new \in Notice /\ new.reply = reply
      BY DEF Notice
    <3> HIDE DEF new
    <3>3. notices' = notices \cup {new}
      BY <3>1 DEF new
    <3> QED
      BY <1>4, <1>6, <3>2, <3>3
  <2> QED
    BY <1>5, <2>1, <2>2
<1> QED
  BY <1>1, <1>2, <1>3, <1>6, <1>7, QuietInv

\* An upload begins.
LEMMA StartUploadInv ==
    ASSUME BbsInv, NEW u \in Authors, NEW path \in Paths, StartUpload(u, path)
    PROVE  BbsInv'
<1> DEFINE new == [Idle EXCEPT !.pc = "open", !.path = path]
<1>1. /\ TypeOK /\ RecordsInv /\ op \in [Authors -> Op]
      /\ UNCHANGED <<posts, replies, files, blobs, told, notices>>
      /\ op' = [op EXCEPT ![u] = new] /\ MayAttach(u, path.owner) /\ ~Attached(path.owner)
  BY DEF BbsInv, TypeOK, StartUpload
<1>2. new \in Op /\ new.pc = "open" /\ new.path = path
  BY DEF Idle, Op
<1> HIDE DEF new
<1>3. OpTyped(u) /\ op'[u] = new
  BY <1>1, <1>2 DEF OpTyped
<1>4. RecordConsistent(u)'
  BY <1>2, <1>3 DEF RecordConsistent
<1>5. UploadConsistent(u)'
  BY <1>1, <1>2, <1>3 DEF UploadConsistent, MayAttach, FileOf, Attached
<1> QED
  BY <1>1, <1>3, <1>4, <1>5, QuietInv DEF TypeOK, RecordsInv, AnnouncementsStored

\* The file of an upload is created, filled or unlinked.
LEMMA BlobInv ==
    ASSUME BbsInv, NEW u \in Authors,
           OpenBlob(u) \/ ReceiveBlob(u) \/ ReceiveBlobFails(u) \/ RecordAttachmentFails(u)
    PROVE  BbsInv'
<1>1. /\ TypeOK /\ RecordsInv /\ UploadsInv /\ Uploading(u) /\ UploadConsistent(u)
      /\ UNCHANGED <<posts, replies, files, told, notices>>
  BY DEF BbsInv, UploadsInv, Uploading, OpenBlob, ReceiveBlob, ReceiveBlobFails,
         RecordAttachmentFails
<1>2. PICK path \in Paths : path = op[u].path
  BY <1>1 DEF Uploading, UploadConsistent
<1>3. PICK state \in {"absent", "partial", "complete"} :
        /\ blobs' = [blobs EXCEPT ![path] = state]
        /\ \/ Done(u)
           \/ Goes(u, "receive")
           \/ Goes(u, "record") /\ state = "complete"
  BY <1>2 DEF OpenBlob, ReceiveBlob, ReceiveBlobFails, RecordAttachmentFails
<1>4. /\ OpTyped(u)
      /\ \/ op'[u].pc = "idle"
         \/ op'[u].pc = "receive" /\ op'[u].path = path
         \/ op'[u].pc = "record" /\ op'[u].path = path /\ state = "complete"
  BY <1>1, <1>2, <1>3, DoneOp, GoesOp
<1>5. /\ blobs' \in [Paths -> {"absent", "partial", "complete"}] /\ blobs'[path] = state
      /\ \A p \in Paths : p # path => blobs'[p] = blobs[p]
  BY <1>1, <1>3 DEF TypeOK
<1>6. TypeOK'
  BY <1>1, <1>4, <1>5 DEF TypeOK, OpTyped
<1>7. RecordsInv'
  <2>1. RecordConsistent(u)'
    BY <1>4 DEF RecordConsistent
  <2> QED
    BY <1>1, <1>4, <2>1, NoRecordInv DEF RecordsInv, AnnouncementsStored
<1>8. RecordsGrow /\ TouchesOwn(u)
  BY <1>1, <1>2, <1>5 DEF TypeOK, RecordsGrow, TouchesOwn
<1>9. /\ MayAttach(u, path.owner) /\ ~Attached(path.owner)
  BY <1>1, <1>2 DEF Uploading, UploadConsistent
<1>10. UploadConsistent(u)'
  BY <1>1, <1>4, <1>5, <1>9 DEF UploadConsistent, MayAttach, FileOf, Attached
<1>11. OneAttachment'
  BY <1>1 DEF UploadsInv, OneAttachment
<1>12. RecordedBlobsComplete'
  <2> SUFFICES ASSUME NEW i \in DOMAIN files PROVE blobs'[files[i].path] = "complete"
    BY <1>1 DEF RecordedBlobsComplete
  <2>1. files[i].path \in Paths /\ files[i].path # path /\ blobs[files[i].path] = "complete"
    BY <1>1, <1>9, FileTypes DEF Attached, UploadsInv, RecordedBlobsComplete
  <2> QED
    BY <1>5, <2>1
<1> QED
  BY <1>1, <1>4, <1>6, <1>7, <1>8, <1>10, <1>11, <1>12, UploadStepInv DEF BbsInv

\* The attachment is recorded.
LEMMA RecordAttachmentInv ==
    ASSUME BbsInv, NEW u \in Authors, RecordAttachment(u) PROVE BbsInv'
<1> DEFINE record == [path |-> op[u].path, sender |-> u]
           n == Len(files) + 1
<1>1. /\ TypeOK /\ RecordsInv /\ UploadsInv /\ op[u].pc = "record" /\ UploadConsistent(u)
      /\ UNCHANGED <<posts, replies, blobs, told, notices>>
      /\ files' = Append(files, record) /\ Done(u)
  BY DEF BbsInv, UploadsInv, RecordAttachment
<1>2. /\ op[u].path \in Paths /\ ~Attached(op[u].path.owner)
      /\ blobs[op[u].path] = "complete"
  BY <1>1 DEF UploadConsistent
<1>3. record \in Attachment /\ record.path = op[u].path
  BY <1>2 DEF Attachment
<1>4. files \in Seq(Attachment) /\ Len(files) \in Nat /\ DOMAIN files = 1 .. Len(files)
  BY <1>1, FileTypes DEF TypeOK
<1> HIDE DEF record
<1>5. /\ files' \in Seq(Attachment) /\ DOMAIN files' = 1 .. n /\ files'[n] = record
      /\ \A i \in DOMAIN files : files'[i] = files[i]
  <2>1. /\ Append(files, record) \in Seq(Attachment)
        /\ DOMAIN Append(files, record) = 1 .. n
        /\ Append(files, record)[n] = record
        /\ \A i \in DOMAIN files : Append(files, record)[i] = files[i]
    BY <1>3, <1>4, AppendFacts
  <2> QED
    BY <1>1, <2>1
<1>6. \A i \in DOMAIN files' : i \in DOMAIN files \/ i = n
  BY <1>4, <1>5
<1>7. OpTyped(u) /\ op'[u].pc = "idle"
  BY <1>1, DoneOp
<1>8. TypeOK'
  BY <1>1, <1>5, <1>7 DEF TypeOK, OpTyped
<1>9. RecordConsistent(u)' /\ UploadConsistent(u)'
  BY <1>7 DEF RecordConsistent, UploadConsistent
<1>10. RecordsInv'
  BY <1>1, <1>7, <1>9, NoRecordInv DEF RecordsInv, AnnouncementsStored
<1>11. RecordsGrow /\ TouchesOwn(u)
  BY <1>1, <1>3, <1>5, <1>6 DEF TypeOK, RecordsGrow, TouchesOwn, Uploading
<1>12. OneAttachment'
  <2> SUFFICES ASSUME NEW i \in DOMAIN files', NEW j \in DOMAIN files',
                      files'[i].path.owner = files'[j].path.owner
               PROVE  i = j
    BY DEF OneAttachment
  <2>1. \A k \in DOMAIN files : files[k].path.owner # op[u].path.owner
    BY <1>2 DEF Attached
  <2> QED
    BY <1>1, <1>3, <1>5, <1>6, <2>1 DEF UploadsInv, OneAttachment
<1>13. RecordedBlobsComplete'
  BY <1>1, <1>2, <1>3, <1>5, <1>6 DEF UploadsInv, RecordedBlobsComplete
<1> QED
  BY <1>1, <1>7, <1>8, <1>9, <1>10, <1>11, <1>12, <1>13, UploadStepInv DEF BbsInv

\* A kill ends all commands and touches no file.
LEMMA CrashInv ==
    ASSUME BbsInv, Crash PROVE BbsInv'
<1>1. /\ TypeOK /\ RecordsInv /\ UploadsInv
      /\ UNCHANGED <<posts, replies, files, blobs, told, notices>>
      /\ op' = [u \in Authors |-> Idle]
  BY DEF BbsInv, Crash
<1>2. TypeOK'
  BY <1>1, IdleOp DEF TypeOK
<1>3. \A u \in Authors : op'[u].pc = "idle"
  BY <1>1 DEF Idle
<1>4. RecordsInv'
  BY <1>1, <1>3 DEF RecordsInv, AnnouncementsStored, RepliesReferToPosts,
                   AuthorsNeverRepeatAnId, RecordConsistent
<1>5. UploadsInv'
  BY <1>1, <1>3 DEF UploadsInv, OneAttachment, RecordedBlobsComplete, UploadConsistent
<1> QED
  BY <1>2, <1>4, <1>5 DEF BbsInv

LEMMA BbsInitInv == Init => BbsInv
<1> SUFFICES ASSUME Init PROVE BbsInv
  OBVIOUS
<1>1. <<>> \in Seq(Post) /\ <<>> \in Seq(Reply) /\ <<>> \in Seq(Attachment)
  BY EmptySeq
<1>2. TypeOK
  BY <1>1, IdleOp DEF Init, TypeOK
<1>3. DOMAIN posts = {} /\ DOMAIN replies = {} /\ DOMAIN files = {}
  BY <1>2, FileTypes DEF Init
<1>4. \A u \in Authors : op[u].pc = "idle"
  BY DEF Init, Idle
<1>5. RecordsInv
  BY <1>3, <1>4 DEF Init, RecordsInv, AnnouncementsStored, RepliesReferToPosts,
                    AuthorsNeverRepeatAnId, RecordConsistent
<1>6. UploadsInv
  BY <1>3, <1>4 DEF UploadsInv, OneAttachment, RecordedBlobsComplete, UploadConsistent
<1> QED
  BY <1>2, <1>5, <1>6 DEF BbsInv

LEMMA BbsNextInv == BbsInv /\ [Next]_vars => BbsInv'
<1>1. ASSUME BbsInv, Crash PROVE BbsInv'
  BY <1>1, CrashInv
<1>2. ASSUME BbsInv, NEW u \in Authors, PostStep(u) PROVE BbsInv'
  BY <1>2, CreateInv, AppendInv, EndInv, AnnounceInv DEF PostStep
<1>3. ASSUME BbsInv, NEW u \in Authors, ReplyStep(u) PROVE BbsInv'
  BY <1>3, CreateInv, AppendInv, EndInv, NotifyReplyInv, AnnounceInv DEF ReplyStep
<1>4. ASSUME BbsInv, NEW u \in Authors, UploadStep(u) PROVE BbsInv'
  BY <1>4, StartUploadInv, BlobInv, EndInv, RecordAttachmentInv DEF UploadStep
<1>5. ASSUME BbsInv, UNCHANGED vars PROVE BbsInv'
  <2>1. TypeOK'
    BY <1>5 DEF BbsInv, TypeOK, vars
  <2>2. RecordsInv'
    <3>1. /\ UNCHANGED <<posts, replies, told, notices, op>>
          /\ RecordsInv
      BY <1>5 DEF BbsInv, vars
    <3>2. (AnnouncementsStored /\ RepliesReferToPosts /\ AuthorsNeverRepeatAnId)'
      BY <3>1 DEF RecordsInv, AnnouncementsStored, Stored, RepliesReferToPosts,
                  AuthorsNeverRepeatAnId
    <3>3. ASSUME NEW u \in Authors PROVE RecordConsistent(u)'
      <4>1. RecordConsistent(u) /\ PostOf(u)' = PostOf(u) /\ ReplyOf(u)' = ReplyOf(u)
        BY <3>1 DEF RecordsInv, PostOf, ReplyOf
      <4> QED
        BY <3>1, <4>1 DEF RecordConsistent
    <3> QED
      BY <3>2, <3>3 DEF RecordsInv
  <2>3. UploadsInv'
    BY <1>5 DEF BbsInv, vars, UploadsInv, OneAttachment, RecordedBlobsComplete,
                UploadConsistent, MayAttach, FileOf, Attached
  <2> QED
    BY <2>1, <2>2, <2>3 DEF BbsInv
<1> QED
  BY <1>1, <1>2, <1>3, <1>4, <1>5 DEF Next

LEMMA BbsInvariant == Spec => []BbsInv
<1>1. Init => BbsInv
  BY BbsInitInv
<1>2. BbsInv /\ [Next]_vars => BbsInv'
  BY BbsNextInv
<1> QED
  BY <1>1, <1>2, PTL DEF Spec

-----------------------------------------------------------------------------
(* What is promised about states *)

\* The records, the files and the threads have their types, however the
\* commands interleave and whenever the server is killed.
THEOREM BbsTypeCorrect == Spec => []TypeOK
<1>1. BbsInv => TypeOK
  BY DEF BbsInv
<1> QED
  BY <1>1, BbsInvariant, PTL

\* Nobody is told of a record that was not stored.
THEOREM OnlyStoredAnnounced == Spec => []AnnouncementsStored
<1>1. BbsInv => AnnouncementsStored
  BY DEF BbsInv, RecordsInv
<1> QED
  BY <1>1, BbsInvariant, PTL

\* The post of a reply exists, although it is looked up in another critical
\* section than the one that appends the reply.
THEOREM RepliesHavePosts == Spec => []RepliesReferToPosts
<1>1. BbsInv => RepliesReferToPosts
  BY DEF BbsInv, RecordsInv
<1> QED
  BY <1>1, BbsInvariant, PTL

\* An author's records have different ids, although other threads append
\* between the read of the next id and the append.
THEOREM AuthorsIdsDistinct == Spec => []AuthorsNeverRepeatAnId
<1>1. BbsInv => AuthorsNeverRepeatAnId
  BY DEF BbsInv, RecordsInv
<1> QED
  BY <1>1, BbsInvariant, PTL

\* No two uploads store an attachment for one object, although the look-up and
\* the record are under no common lock.
THEOREM AttachmentsUnique == Spec => []OneAttachment
<1>1. BbsInv => OneAttachment
  BY DEF BbsInv, UploadsInv
<1> QED
  BY <1>1, BbsInvariant, PTL

\* What an attachment record names is there and complete, also after a kill.
THEOREM AttachmentsComplete == Spec => []RecordedBlobsComplete
<1>1. BbsInv => RecordedBlobsComplete
  BY DEF BbsInv, UploadsInv
<1> QED
  BY <1>1, BbsInvariant, PTL

-----------------------------------------------------------------------------
(* What is promised about steps *)

LEMMA NextGrows == BbsInv /\ Next => RecordsGrow
<1> SUFFICES ASSUME BbsInv, Next PROVE RecordsGrow
  OBVIOUS
<1>1. TypeOK /\ RecordsInv
  BY DEF BbsInv
<1>2. \/ UNCHANGED <<posts, replies>>
      \/ \E u \in Authors : AppendPost(u) \/ AppendReply(u)
  BY DEF Next, Crash, PostStep, CreatePost, AppendPostFails, AnnouncePost,
         ReplyStep, CreateReply, AppendReplyFails, NotifyReply, AnnounceReply,
         UploadStep, StartUpload, OpenBlob, OpenBlobFails, ReceiveBlob, ReceiveBlobFails,
         RecordAttachment, RecordAttachmentFails
<1>3. CASE UNCHANGED <<posts, replies>>
  BY <1>1, <1>3 DEF TypeOK, RecordsGrow
<1> QED
  BY <1>1, <1>2, <1>3, AppendPostRecords, AppendReplyRecords

\* The record that an id denotes is the same for ever, whatever is appended.
THEOREM DenotationsStay == Spec => DenotationStable
<1> DEFINE Stay ==
        /\ \A id \in PostIds, i \in 1 .. MaxPosts :
             Denotes(posts, id, i) => Denotes(posts, id, i)' /\ posts'[i] = posts[i]
        /\ \A id \in ReplyIds, i \in 1 .. MaxReplies :
             Denotes(replies, id, i) => Denotes(replies, id, i)' /\ replies'[i] = replies[i]
<1>1. BbsInv /\ [Next]_vars => [Stay]_vars
  <2> SUFFICES ASSUME BbsInv, Next PROVE Stay
    OBVIOUS
  <2>1. /\ Len(posts) \in Nat /\ DOMAIN posts = 1 .. Len(posts)
        /\ DOMAIN posts \subseteq DOMAIN posts' /\ \A j \in DOMAIN posts : posts'[j] = posts[j]
    BY FileTypes, NextGrows DEF BbsInv, RecordsGrow
  <2>2. /\ Len(replies) \in Nat /\ DOMAIN replies = 1 .. Len(replies)
        /\ DOMAIN replies \subseteq DOMAIN replies'
        /\ \A j \in DOMAIN replies : replies'[j] = replies[j]
    BY FileTypes, NextGrows DEF BbsInv, RecordsGrow
  <2>3. ASSUME NEW id \in PostIds, NEW i \in 1 .. MaxPosts, Denotes(posts, id, i)
        PROVE  Denotes(posts', id, i) /\ posts'[i] = posts[i]
    BY <2>1, <2>3, DenotesStays
  <2>4. ASSUME NEW id \in ReplyIds, NEW i \in 1 .. MaxReplies, Denotes(replies, id, i)
        PROVE  Denotes(replies', id, i) /\ replies'[i] = replies[i]
    BY <2>2, <2>4, DenotesStays
  <2> QED
    BY <2>3, <2>4
<1> QED
  BY <1>1, BbsInvariant, PTL DEF Spec, DenotationStable

\* The thread of u has created the file and will record or unlink it.
WorksOn(u, path) == op[u].pc \in {"receive", "record"} /\ op[u].path = path

Recorded(path) == \E i \in DOMAIN files : files[i].path = path

\* After a step of u, what is stored is recorded, is being worked on by u, or
\* was already stored and none of u's business.
CleansUp(u) ==
    /\ OpTyped(u)
    /\ \A path \in Paths : Recorded(path) => Recorded(path)'
    /\ \A path \in Paths : blobs'[path] # "absent" =>
        \/ Recorded(path)'
        \/ WorksOn(u, path)'
        \/ blobs[path] # "absent" /\ ~WorksOn(u, path)

LEMMA CleanStep ==
    ASSUME NEW u \in Authors, CleansUp(u) PROVE Orphans' \subseteq Orphans
<1> SUFFICES ASSUME NEW path \in Orphans' PROVE path \in Orphans
  OBVIOUS
<1>1. /\ path \in Paths /\ blobs'[path] # "absent" /\ ~Recorded(path)'
      /\ \A v \in Authors : ~WorksOn(v, path)'
  BY DEF Orphans, Recorded, WorksOn
<1>2. blobs[path] # "absent" /\ ~WorksOn(u, path) /\ ~Recorded(path)
  BY <1>1 DEF CleansUp
<1>3. ASSUME NEW v \in Authors \ {u} PROVE ~WorksOn(v, path)
  BY <1>1 DEF CleansUp, OpTyped, WorksOn
<1> QED
  BY <1>1, <1>2, <1>3 DEF Orphans, Recorded, WorksOn

\* A step that has nothing to do with an upload, or ends one before its file
\* is created.
LEMMA QuietCleansUp ==
    ASSUME NEW u \in Authors, OpTyped(u), UNCHANGED <<files, blobs>>,
           op[u].pc \notin {"receive", "record"}
    PROVE  CleansUp(u)
BY DEF CleansUp, Recorded, WorksOn

LEMMA RecordsCleanUp ==
    ASSUME BbsInv, NEW u \in Authors, PostStep(u) \/ ReplyStep(u) PROVE CleansUp(u)
<1>1. TypeOK /\ op \in [Authors -> Op]
  BY DEF BbsInv, TypeOK
<1>2. /\ UNCHANGED <<files, blobs>> /\ op[u].pc \notin {"receive", "record"}
      /\ \/ Done(u)
         \/ \E pc \in {"announce post", "notify reply", "announce reply"} : Goes(u, pc)
         \/ CreatePost(u)
         \/ \E post \in PostIds : CreateReply(u, post)
  BY DEF PostStep, CreatePost, AppendPost, AppendPostFails, AnnouncePost,
         ReplyStep, CreateReply, AppendReply, AppendReplyFails, NotifyReply, AnnounceReply
<1>3. CASE CreatePost(u) \/ \E post \in PostIds : CreateReply(u, post)
  <2>1. \/ \E id \in PostIds :
              op' = [op EXCEPT ![u] = [Idle EXCEPT !.pc = "append post", !.id = id]]
        \/ \E post \in PostIds, id \in ReplyIds :
              op' = [op EXCEPT ![u] = [Idle EXCEPT !.pc = "append reply",
                                                  !.id = id, !.post = post]]
    BY <1>3 DEF CreatePost, CreateReply
  <2>2. /\ \A id \in PostIds : [Idle EXCEPT !.pc = "append post", !.id = id] \in Op
        /\ \A post \in PostIds, id \in ReplyIds :
             [Idle EXCEPT !.pc = "append reply", !.id = id, !.post = post] \in Op
    BY DEF Idle, Op
  <2>3. OpTyped(u)
    <3>1. CASE \E id \in PostIds :
                 op' = [op EXCEPT ![u] = [Idle EXCEPT !.pc = "append post", !.id = id]]
      BY <1>1, <2>2, <3>1 DEF OpTyped
    <3>2. CASE \E post \in PostIds, id \in ReplyIds :
                 op' = [op EXCEPT ![u] = [Idle EXCEPT !.pc = "append reply",
                                                     !.id = id, !.post = post]]
      BY <1>1, <2>2, <3>2 DEF OpTyped
    <3> QED
      BY <2>1, <3>1, <3>2
  <2> QED
    BY <1>2, <2>3, QuietCleansUp
<1>4. CASE ~(CreatePost(u) \/ \E post \in PostIds : CreateReply(u, post))
  <2>1. OpTyped(u)
    BY <1>1, <1>2, <1>4, DoneOp, GoesOp
  <2> QED
    BY <1>2, <2>1, QuietCleansUp
<1> QED
  BY <1>3, <1>4

LEMMA UploadCleansUp ==
    ASSUME BbsInv, NEW u \in Authors, UploadStep(u) PROVE CleansUp(u)
<1>1. /\ TypeOK /\ op \in [Authors -> Op] /\ UploadConsistent(u)
      /\ blobs \in [Paths -> {"absent", "partial", "complete"}]
  BY DEF BbsInv, TypeOK, UploadsInv
<1>2. CASE \E path \in Paths : StartUpload(u, path)
  <2>1. PICK path \in Paths :
            op' = [op EXCEPT ![u] = [pc |-> "open", id |-> 0, post |-> 0, path |-> path]]
    BY <1>2 DEF StartUpload, Idle
  <2>t. [pc |-> "open", id |-> 0, post |-> 0, path |-> path] \in Op
    BY DEF Op
  <2>2. OpTyped(u)
    BY <1>1, <2>1, <2>t DEF OpTyped
  <2> QED
    BY <1>2, <2>2, QuietCleansUp DEF StartUpload
<1>3. CASE OpenBlobFails(u)
  BY <1>1, <1>3, DoneOp, QuietCleansUp DEF OpenBlobFails
<1>4. CASE OpenBlob(u) \/ ReceiveBlob(u)
  <2>1. /\ UNCHANGED files /\ \E pc \in {"receive", "record"} : Goes(u, pc)
        /\ \E state : blobs' = [blobs EXCEPT ![op[u].path] = state]
    BY <1>4 DEF OpenBlob, ReceiveBlob
  <2>2. OpTyped(u) /\ WorksOn(u, op[u].path)'
    BY <1>1, <2>1, GoesOp DEF WorksOn
  <2>3. \A path \in Paths : path # op[u].path => blobs'[path] = blobs[path] /\ ~WorksOn(u, path)
    BY <1>1, <2>1 DEF WorksOn
  <2>4. op'[u].path = op[u].path
    BY <1>1, <2>1, GoesOp
  <2> QED
    BY <2>1, <2>2, <2>3, <2>4 DEF CleansUp, Recorded, WorksOn
<1>5. CASE ReceiveBlobFails(u) \/ RecordAttachmentFails(u)
  <2>1. /\ UNCHANGED files /\ Done(u) /\ Uploading(u)
        /\ blobs' = [blobs EXCEPT ![op[u].path] = "absent"]
    BY <1>5 DEF ReceiveBlobFails, RecordAttachmentFails, Uploading
  <2>2. OpTyped(u)
    BY <1>1, <2>1, DoneOp
  <2>3. \A path \in Paths :
            IF path = op[u].path THEN blobs'[path] = "absent"
                                 ELSE blobs'[path] = blobs[path] /\ ~WorksOn(u, path)
    BY <1>1, <2>1 DEF WorksOn
  <2> QED
    BY <2>1, <2>2, <2>3 DEF CleansUp, Recorded
<1>6. CASE RecordAttachment(u)
  <2>p. PICK own \in Paths : own = op[u].path
    BY <1>1, <1>6 DEF RecordAttachment, UploadConsistent
  <2> DEFINE record == [path |-> own, sender |-> u]
  <2>1. UNCHANGED blobs /\ Done(u) /\ files' = Append(files, record)
    BY <1>6, <2>p DEF RecordAttachment
  <2>2. OpTyped(u)
    BY <1>1, <2>1, DoneOp
  <2>3. record \in Attachment /\ record.path = own
    BY DEF Attachment
  <2>4. files \in Seq(Attachment) /\ Len(files) \in Nat /\ DOMAIN files = 1 .. Len(files)
    BY <1>1, FileTypes DEF TypeOK
  <2> HIDE DEF record
  <2>5. /\ DOMAIN files' = 1 .. Len(files) + 1
        /\ files'[Len(files) + 1] = record
        /\ \A i \in DOMAIN files : files'[i] = files[i]
    BY <2>1, <2>3, <2>4, AppendFacts
  <2>6. \E i \in DOMAIN files' : files'[i].path = own
    BY <2>3, <2>4, <2>5 DEF Recorded
  <2>7. \A path \in Paths : Recorded(path) => Recorded(path)'
    BY <2>4, <2>5 DEF Recorded
  <2>8. \A path \in Paths : path # own => ~WorksOn(u, path)
    BY <2>p DEF WorksOn
  <2>9. ASSUME NEW path \in Paths, blobs'[path] # "absent"
        PROVE  Recorded(path)' \/ (blobs[path] # "absent" /\ ~WorksOn(u, path))
    <3>1. CASE path = own
      <4>1. \E i \in DOMAIN files' : files'[i].path = path
        BY <2>6, <3>1
      <4> QED
        BY <4>1 DEF Recorded
    <3>2. CASE path # own
      BY <2>1, <2>8, <2>9, <3>2
    <3> QED
      BY <3>1, <3>2
  <2> QED
    BY <2>2, <2>7, <2>9 DEF CleansUp
<1> QED
  BY <1>2, <1>3, <1>4, <1>5, <1>6 DEF UploadStep

\* No error path leaves an attachment file behind that nothing names, or takes
\* away one that another upload has stored.
THEOREM ErrorPathsCleanUp == Spec => OnlyCrashesOrphan
<1>1. BbsInv /\ [Next]_vars => [Crash \/ Orphans' \subseteq Orphans]_vars
  <2> SUFFICES ASSUME BbsInv, Next, ~Crash PROVE Orphans' \subseteq Orphans
    OBVIOUS
  <2>1. PICK u \in Authors : PostStep(u) \/ ReplyStep(u) \/ UploadStep(u)
    BY DEF Next
  <2>2. CleansUp(u)
    BY <2>1, RecordsCleanUp, UploadCleansUp
  <2> QED
    BY <2>2, CleanStep
<1> QED
  BY <1>1, BbsInvariant, PTL DEF Spec, OnlyCrashesOrphan
=============================================================================

---------------------------- MODULE BackupProofs ----------------------------
(***************************************************************************)
(* Theorems about UPLOAD, DOWNLOAD and the BACKUP beside them, for all     *)
(* sets of users, names and sizes and any number of uploads and of         *)
(* snapshots that are made at the same time.                               *)
(***************************************************************************)
EXTENDS Backup, TLAPS, SequenceTheorems

-----------------------------------------------------------------------------
(* Transfers: the inductive invariant *)

\* The places where the thread has created a file that is not recorded yet.
Writing(u) == thread[u].pc \in {"receive", "drain", "record"}

\* The file a thread writes is the one its path names, and nobody was told.
Owns(u) ==
    /\ thread[u].path \in Paths
    /\ thread[u].inode # 0
    /\ dir[thread[u].path] = thread[u].inode
    /\ inodes[thread[u].inode].size = thread[u].size
    /\ ~Recorded(thread[u].path)

\* How the payload, the file and the sizes relate, at each place of a thread.
ThreadConsistent(u) ==
    /\ payload[u] = thread[u].left + stray[u]
    /\ thread[u].pc \in {"line", "record", "fopen", "send"} => thread[u].left = 0
    /\ thread[u].pc = "open" => thread[u].path \in Paths /\ thread[u].left = thread[u].size
    /\ Writing(u) => Owns(u)
    /\ thread[u].pc = "receive" =>
            inodes[thread[u].inode].written + thread[u].left = thread[u].size
    /\ thread[u].pc = "record" => inodes[thread[u].inode].written = thread[u].size
    /\ thread[u].pc = "fopen" => thread[u].path \in Paths
    /\ thread[u].pc = "send" => thread[u].path \in Paths /\ thread[u].inode # 0
    /\ thread[u].pc \in {"fopen", "send"} /\ thread[u].listed =>
            /\ Recorded(thread[u].path)
            /\ thread[u].size = inodes[dir[thread[u].path]].written
    /\ thread[u].pc = "send" /\ thread[u].listed => thread[u].inode = dir[thread[u].path]

\* The files of two paths are different ones.
PathsApart == \A p \in Paths : dir[p] # 0 => inodes[dir[p]].path = p

\* Two threads write to different paths.
WritersApart ==
    \A u, v \in Users :
        Writing(u) /\ Writing(v) /\ thread[u].path = thread[v].path => u = v

TransferInv ==
    /\ TransferTypeOK
    /\ RecordedFilesWhole
    /\ PathsApart
    /\ WritersApart
    /\ \A u \in Users : ThreadConsistent(u)

-----------------------------------------------------------------------------
(* Facts about sizes, threads and files *)

\* Less than there can be is also something there can be.
LEMMA ChunksBelow ==
    /\ Chunks \subseteq Nat
    /\ 0 \in Chunks
    /\ \A n \in Sizes : 0 .. n \subseteq Chunks
    /\ \A m \in Chunks, n \in Nat : n <= m => n \in Chunks
BY TransferAssumption DEF Chunks

\* A thread that waits for a line has nothing to take and no file.
LEMMA AtLineFacts == AtLine.pc = "line" /\ AtLine.left = 0 /\ AtLine.inode = 0
BY DEF AtLine

\* What the type says of one thread.
LEMMA ThreadTypes ==
    ASSUME TransferTypeOK, NEW u \in Users
    PROVE  /\ thread[u] \in Op
           /\ payload[u] \in Nat /\ stray[u] \in {0, 1}
           /\ thread[u].size \in Chunks /\ thread[u].left \in Chunks
           /\ thread[u].inode \in Nat
           /\ thread[u].inode # 0 => thread[u].inode \in 1 .. Len(inodes)
           /\ thread[u].path \in Paths \cup {NoPath}
BY DEF TransferTypeOK, Op

\* What the type says of a file.
LEMMA InodeTypes ==
    ASSUME TransferTypeOK, NEW i \in 1 .. Len(inodes)
    PROVE  /\ inodes[i] \in Inode
           /\ inodes[i].size \in Chunks /\ inodes[i].written \in Chunks
           /\ inodes[i].path \in Paths
<1>1. inodes \in Seq(Inode)
  BY DEF TransferTypeOK
<1>2. inodes[i] \in Inode
  BY <1>1, ElementOfSeq
<1> QED
  BY <1>2 DEF Inode

\* What the type says of a record.
LEMMA RecordTypes ==
    ASSUME TransferTypeOK, NEW i \in DOMAIN records
    PROVE  records[i].path \in Paths /\ records[i].size \in Chunks
<1>1. records \in Seq(Record)
  BY DEF TransferTypeOK
<1>2. records[i] \in Record
  BY <1>1, ElementOfSeq, LenProperties
<1> QED
  BY <1>2 DEF Record

\* The other threads do not notice a step of u.
OthersKeep(u) ==
    \A v \in Users \ {u} :
        thread'[v] = thread[v] /\ payload'[v] = payload[v] /\ stray'[v] = stray[v]

(* A step of u that touches neither a file nor files.db.                   *)
LEMMA NoFileTouched ==
    ASSUME TransferInv, NEW u \in Users, OthersKeep(u),
           UNCHANGED <<dir, inodes, records>>,
           TransferTypeOK', ThreadConsistent(u)',
           Writing(u)' => Writing(u) /\ thread'[u].path = thread[u].path
    PROVE  TransferInv'
<1>1. RecordedFilesWhole' /\ PathsApart'
  BY DEF TransferInv, RecordedFilesWhole, Holds, PathsApart
<1>2. WritersApart'
  BY DEF TransferInv, WritersApart, Writing, OthersKeep
<1>3. ASSUME NEW v \in Users \ {u} PROVE ThreadConsistent(v)'
  BY DEF TransferInv, ThreadConsistent, Writing, Owns, Recorded, OthersKeep
<1> QED
  BY <1>1, <1>2, <1>3 DEF TransferInv

(* A step of u that touches one path only, which is not recorded and which *)
(* no other thread writes to.                                              *)
LEMMA OnePathTouched ==
    ASSUME TransferInv, NEW u \in Users, OthersKeep(u),
           NEW path \in Paths, ~Recorded(path),
           \A v \in Users \ {u} : Writing(v) => thread[v].path # path,
           \A p \in Paths \ {path} :
                /\ dir'[p] = dir[p]
                /\ dir[p] # 0 => inodes'[dir[p]] = inodes[dir[p]]
                /\ Recorded(p)' <=> Recorded(p),
           \A i \in DOMAIN records' :
                \/ i \in DOMAIN records /\ records'[i] = records[i]
                \/ /\ records'[i].path = path
                   /\ dir'[path] # 0
                   /\ inodes'[dir'[path]].size = records'[i].size
                   /\ inodes'[dir'[path]].written = records'[i].size,
           dir'[path] # 0 => inodes'[dir'[path]].path = path,
           TransferTypeOK', ThreadConsistent(u)',
           Writing(u)' => thread'[u].path = path
    PROVE  TransferInv'
<1>1. \A i \in DOMAIN records : records[i].path \in Paths \ {path}
  BY RecordTypes DEF TransferInv, Recorded
<1>2. RecordedFilesWhole'
  <2> SUFFICES ASSUME NEW i \in DOMAIN records'
               PROVE  /\ dir'[records'[i].path] # 0
                      /\ inodes'[dir'[records'[i].path]].size = records'[i].size
                      /\ inodes'[dir'[records'[i].path]].written = records'[i].size
    BY DEF RecordedFilesWhole, Holds
  <2>1. CASE i \in DOMAIN records /\ records'[i] = records[i]
    BY <2>1, <1>1 DEF TransferInv, RecordedFilesWhole, Holds
  <2> QED
    BY <2>1
<1>3. PathsApart'
  BY DEF TransferInv, PathsApart
<1>4. WritersApart'
  BY DEF TransferInv, WritersApart, Writing, OthersKeep
<1>5. ASSUME NEW v \in Users \ {u} PROVE ThreadConsistent(v)'
  <2>1. /\ ThreadConsistent(v) /\ thread'[v] = thread[v]
        /\ payload'[v] = payload[v] /\ stray'[v] = stray[v]
    BY DEF TransferInv, OthersKeep
  <2>2. Writing(v) => Owns(v)' /\ inodes'[thread[v].inode] = inodes[thread[v].inode]
    BY <2>1 DEF ThreadConsistent, Owns, Writing
  <2>3. ASSUME thread[v].pc \in {"fopen", "send"}, thread[v].listed
        PROVE  /\ Recorded(thread[v].path)'
               /\ dir'[thread[v].path] = dir[thread[v].path]
               /\ inodes'[dir[thread[v].path]] = inodes[dir[thread[v].path]]
    <3>1. thread[v].path \in Paths \ {path} /\ Recorded(thread[v].path)
      BY <2>1, <2>3 DEF ThreadConsistent
    <3>2. dir[thread[v].path] # 0
      BY <3>1 DEF TransferInv, Recorded, RecordedFilesWhole, Holds
    <3> QED
      BY <2>1, <3>1, <3>2 DEF Recorded
  <2> QED
    BY <2>1, <2>2, <2>3 DEF ThreadConsistent, Writing
<1> QED
  BY <1>2, <1>3, <1>4, <1>5 DEF TransferInv

(* A step of u that leaves the files alone keeps the invariant when the    *)
(* place u comes to is consistent.                                         *)
LEMMA QuietStep ==
    ASSUME TransferInv, NEW u \in Users, OthersKeep(u),
           UNCHANGED <<dir, inodes, records>>,
           thread' \in [Users -> Op], payload' \in [Users -> Nat],
           stray' \in [Users -> {0, 1}],
           thread'[u].inode \in {0, thread[u].inode},
           ThreadConsistent(u)',
           Writing(u)' => Writing(u) /\ thread'[u].path = thread[u].path
    PROVE  TransferInv'
<1>1. TransferTypeOK'
  BY DEF TransferInv, TransferTypeOK, OthersKeep
<1> QED
  BY <1>1, NoFileTouched

\* AtLine and the other places a thread can come to have the type of one.
LEMMA OpTypes ==
    ASSUME TransferTypeOK, NEW u \in Users
    PROVE  /\ AtLine \in Op
           /\ \A pc \in {"discard", "open", "receive", "drain", "record"} :
                [thread[u] EXCEPT !.pc = pc] \in Op
BY ThreadTypes, ChunksBelow DEF Op, AtLine

\* A thread that only goes to another place keeps all it knows.
LEMMA GoesOn ==
    ASSUME TransferTypeOK, NEW u \in Users,
           NEW pc \in {"discard", "open", "receive", "drain", "record"},
           Goes(u, pc)
    PROVE  /\ thread' \in [Users -> Op]
           /\ thread'[u].pc = pc
           /\ thread'[u].inode = thread[u].inode /\ thread'[u].path = thread[u].path
           /\ thread'[u].size = thread[u].size /\ thread'[u].left = thread[u].left
           /\ \A v \in Users \ {u} : thread'[v] = thread[v]
<1> DEFINE op == [thread[u] EXCEPT !.pc = pc]
<1>1. thread \in [Users -> Op] /\ thread[u] \in Op
  BY DEF TransferTypeOK
<1>2. op \in Op
  BY OpTypes
<1>3. op.pc = pc /\ op.inode = thread[u].inode /\ op.path = thread[u].path
      /\ op.size = thread[u].size /\ op.left = thread[u].left
  BY <1>1 DEF Op
<1>4. thread' = [thread EXCEPT ![u] = op]
  BY DEF Goes
<1> QED
  BY <1>1, <1>2, <1>3, <1>4

-----------------------------------------------------------------------------
(* UPLOAD *)

\* A line that is taken leaves stray bytes and what follows it on the stream.
LEMMA TakesLineFacts ==
    ASSUME TransferInv, NEW u \in Users, NEW size \in Chunks, TakesLine(u, size)
    PROVE  /\ thread[u].pc = "line"
           /\ payload' \in [Users -> Nat] /\ stray' \in [Users -> {0, 1}]
           /\ payload'[u] = size + stray'[u]
           /\ \A v \in Users \ {u} : payload'[v] = payload[v] /\ stray'[v] = stray[v]
<1>1. /\ TransferTypeOK /\ ThreadConsistent(u) /\ thread[u].pc = "line"
      /\ payload \in [Users -> Nat] /\ stray \in [Users -> {0, 1}] /\ size \in Nat
  BY ChunksBelow DEF TransferInv, TransferTypeOK, TakesLine
<1>2. payload[u] = stray[u]
  BY <1>1, ThreadTypes DEF ThreadConsistent
<1>3. PICK rest \in 0 .. stray[u] :
          /\ payload' = [payload EXCEPT ![u] = @ - (stray[u] - rest) + size]
          /\ stray' = [stray EXCEPT ![u] = rest]
  BY DEF TakesLine
<1>4. rest \in {0, 1} /\ stray[u] \in Nat /\ stray[u] - (stray[u] - rest) + size = size + rest
  <2>1. stray[u] \in {0, 1}
    BY <1>1
  <2> QED
    BY <1>1, <2>1
<1>5. payload' = [payload EXCEPT ![u] = size + rest]
  BY <1>2, <1>3, <1>4
<1>6. size + rest \in Nat
  BY <1>1, <1>4
<1> QED
  BY <1>1, <1>3, <1>4, <1>5, <1>6

\* A line after which the thread is at place op keeps the invariant.
LEMMA LineTaken ==
    ASSUME TransferInv, NEW u \in Users, NEW size \in Chunks, TakesLine(u, size),
           UNCHANGED <<dir, inodes, records>>,
           NEW op \in Op, thread' = [thread EXCEPT ![u] = op], op.left = size, op.inode = 0,
           \/ op.pc = "discard"
           \/ op.pc = "line" /\ size = 0
           \/ op.pc = "open" /\ op.path \in Paths /\ op.size = size
           \/ /\ op.pc = "fopen" /\ op.path \in Paths /\ size = 0
              /\ op.listed => Recorded(op.path) /\ op.size = inodes[dir[op.path]].written
    PROVE  TransferInv'
<1>1. /\ payload' \in [Users -> Nat] /\ stray' \in [Users -> {0, 1}]
      /\ payload'[u] = size + stray'[u]
      /\ \A v \in Users \ {u} : payload'[v] = payload[v] /\ stray'[v] = stray[v]
  BY TakesLineFacts
<1>2. thread \in [Users -> Op]
  BY DEF TransferInv, TransferTypeOK
<1>3. thread' \in [Users -> Op] /\ thread'[u] = op /\ OthersKeep(u)
  BY <1>1, <1>2 DEF OthersKeep
<1>4. ThreadConsistent(u)' /\ ~Writing(u)'
  BY <1>1, <1>3 DEF ThreadConsistent, Writing, Recorded
<1> QED
  BY <1>1, <1>3, <1>4, QuietStep

\* A thread that is idle again, and whose stream is right, keeps the invariant.
LEMMA AnsweredInv ==
    ASSUME TransferInv, NEW u \in Users, Answered(u), UNCHANGED <<dir, inodes, records>>,
           payload' \in [Users -> Nat], stray' \in [Users -> {0, 1}],
           payload'[u] = stray'[u],
           \A v \in Users \ {u} : payload'[v] = payload[v] /\ stray'[v] = stray[v]
    PROVE  TransferInv'
<1>1. thread \in [Users -> Op] /\ AtLine \in Op
  BY OpTypes DEF TransferInv, TransferTypeOK
<1>2. thread' \in [Users -> Op] /\ thread'[u] = AtLine /\ OthersKeep(u)
  BY <1>1 DEF Answered, OthersKeep
<1>3. payload'[u] = AtLine.left + stray'[u]
  BY DEF AtLine
<1>4. ThreadConsistent(u)' /\ ~Writing(u)' /\ thread'[u].inode = 0
  BY <1>2, <1>3 DEF AtLine, ThreadConsistent, Writing
<1> QED
  BY <1>2, <1>4, QuietStep

\* The end of a connection keeps the invariant when no file is touched.
LEMMA DisconnectedInv ==
    ASSUME TransferInv, NEW u \in Users, Disconnected(u), UNCHANGED <<dir, inodes, records>>
    PROVE  TransferInv'
<1>1. payload \in [Users -> Nat] /\ stray \in [Users -> {0, 1}]
  BY DEF TransferInv, TransferTypeOK
<1> QED
  BY <1>1, AnsweredInv DEF Disconnected

\* The steps of an UPLOAD before the file is created keep the invariant.
LEMMA UploadBeginsInv ==
    ASSUME TransferInv, NEW u \in Users,
           \/ \E path \in Paths, size \in Sizes : Upload(u, path, size)
           \/ \E size \in Sizes : UploadRefused(u, size)
           \/ UploadMalformed(u)
           \/ OtherLine(u)
           \/ Leave(u)
           \/ Discard(u)
           \/ DiscardFails(u)
           \/ OpenUploadFails(u)
    PROVE  TransferInv'
<1>0. /\ TransferTypeOK /\ thread \in [Users -> Op] /\ thread[u] \in Op
      /\ payload \in [Users -> Nat] /\ stray \in [Users -> {0, 1}]
      /\ ThreadConsistent(u) /\ 0 \in Chunks /\ AtLine \in Op
  BY OpTypes, ChunksBelow DEF TransferInv, TransferTypeOK
<1>1. ASSUME NEW path \in Paths, NEW size \in Sizes, Upload(u, path, size)
      PROVE  TransferInv'
  <2> DEFINE op == [AtLine EXCEPT !.pc = "open", !.path = path,
                                  !.size = size, !.left = size]
  <2>1. size \in Chunks
    BY ChunksBelow, TransferAssumption
  <2>2. /\ op \in Op /\ op.pc = "open" /\ op.path = path /\ op.size = size
        /\ op.left = size /\ op.inode = 0
    BY <2>1, ChunksBelow DEF Op, AtLine
  <2>3. /\ TakesLine(u, size) /\ thread' = [thread EXCEPT ![u] = op]
        /\ UNCHANGED <<dir, inodes, records>>
    BY <1>1 DEF Upload
  <2> HIDE DEF op
  <2> QED
    BY <2>1, <2>2, <2>3, LineTaken
<1>2. ASSUME NEW size \in Sizes, UploadRefused(u, size)
      PROVE  TransferInv'
  <2> DEFINE op == [AtLine EXCEPT !.pc = "discard", !.left = size]
  <2>1. size \in Chunks
    BY ChunksBelow, TransferAssumption
  <2>2. op \in Op /\ op.pc = "discard" /\ op.left = size /\ op.inode = 0
    BY <2>1, ChunksBelow DEF Op, AtLine
  <2>3. /\ TakesLine(u, size) /\ thread' = [thread EXCEPT ![u] = op]
        /\ UNCHANGED <<dir, inodes, records>>
    BY <1>2 DEF UploadRefused
  <2> HIDE DEF op
  <2> QED
    BY <2>1, <2>2, <2>3, LineTaken
<1>3. CASE UploadMalformed(u)
  <2>1. /\ thread' = thread /\ thread[u].pc = "line" /\ stray[u] = 0
        /\ payload' = [payload EXCEPT ![u] = @ + 1] /\ stray' = [stray EXCEPT ![u] = 1]
        /\ UNCHANGED <<dir, inodes, records>>
    BY <1>3 DEF UploadMalformed
  <2>2. thread[u].left = 0 /\ payload[u] = 0
    BY <1>0, <2>1 DEF ThreadConsistent
  <2>3. /\ payload' \in [Users -> Nat] /\ stray' \in [Users -> {0, 1}]
        /\ payload'[u] = 1 /\ stray'[u] = 1 /\ OthersKeep(u)
    BY <1>0, <2>1, <2>2 DEF OthersKeep
  <2>4. ThreadConsistent(u)' /\ ~Writing(u)'
    BY <2>1, <2>2, <2>3 DEF ThreadConsistent, Writing
  <2> QED
    BY <1>0, <2>1, <2>3, <2>4, QuietStep
<1>4. CASE OtherLine(u)
  <2>1. TakesLine(u, 0) /\ UNCHANGED <<dir, inodes, records, thread>>
    BY <1>4 DEF OtherLine
  <2>2. /\ thread[u].pc = "line" /\ payload' \in [Users -> Nat]
        /\ stray' \in [Users -> {0, 1}] /\ payload'[u] = 0 + stray'[u]
        /\ \A v \in Users \ {u} : payload'[v] = payload[v] /\ stray'[v] = stray[v]
    BY <1>0, <2>1, TakesLineFacts
  <2>3. thread[u].left = 0 /\ OthersKeep(u)
    BY <1>0, <2>1, <2>2 DEF ThreadConsistent, OthersKeep
  <2>4. ThreadConsistent(u)' /\ ~Writing(u)'
    BY <2>1, <2>2, <2>3 DEF ThreadConsistent, Writing
  <2> QED
    BY <1>0, <2>1, <2>2, <2>3, <2>4, QuietStep
<1>5. CASE Leave(u) \/ DiscardFails(u)
  BY <1>5, DisconnectedInv DEF Leave, DiscardFails
<1>6. CASE Discard(u)
  <2>1. /\ payload' = [payload EXCEPT ![u] = @ - thread[u].left] /\ Answered(u)
        /\ UNCHANGED <<dir, inodes, records, stray>>
    BY <1>6 DEF Discard
  <2>2. payload[u] = thread[u].left + stray[u] /\ thread[u].left \in Nat /\ stray[u] \in Nat
    <3>1. stray[u] \in {0, 1} /\ payload[u] = thread[u].left + stray[u]
      BY <1>0 DEF ThreadConsistent
    <3>2. thread[u].left \in Nat
      BY <1>0, ThreadTypes, ChunksBelow
    <3> QED
      BY <3>1, <3>2
  <2>3. payload[u] - thread[u].left = stray[u]
    BY <2>2
  <2>4. payload' \in [Users -> Nat] /\ payload'[u] = stray[u]
    BY <1>0, <2>1, <2>2, <2>3
  <2> QED
    BY <1>0, <2>1, <2>4, AnsweredInv
<1>7. CASE OpenUploadFails(u)
  <2>1. Goes(u, "discard") /\ UNCHANGED <<dir, inodes, records, payload, stray>>
    BY <1>7 DEF OpenUploadFails
  <2>2. /\ thread' \in [Users -> Op] /\ thread'[u].pc = "discard"
        /\ thread'[u].inode = thread[u].inode /\ thread'[u].left = thread[u].left
        /\ OthersKeep(u)
    BY <1>0, <2>1, GoesOn DEF OthersKeep
  <2>3. ThreadConsistent(u)' /\ ~Writing(u)'
    BY <1>0, <2>1, <2>2 DEF ThreadConsistent, Writing
  <2> QED
    BY <1>0, <2>1, <2>2, <2>3, QuietStep
<1> QED
  BY <1>1, <1>2, <1>3, <1>4, <1>5, <1>6, <1>7

\* What a thread that writes knows of its file.
LEMMA WriterFacts ==
    ASSUME TransferInv, NEW u \in Users, Writing(u)
    PROVE  /\ Owns(u)
           /\ thread[u].path \in Paths
           /\ thread[u].inode \in 1 .. Len(inodes)
           /\ inodes[thread[u].inode].path = thread[u].path
           /\ \A v \in Users \ {u} : Writing(v) => thread[v].path # thread[u].path
           /\ \A p \in Paths \ {thread[u].path} : dir[p] # thread[u].inode
<1>1. Owns(u)
  BY DEF TransferInv, ThreadConsistent
<1>2. thread[u].inode \in 1 .. Len(inodes)
  BY <1>1, ThreadTypes DEF TransferInv, Owns
<1>3. inodes[thread[u].inode].path = thread[u].path
  BY <1>1 DEF TransferInv, Owns, PathsApart
<1>4. \A v \in Users \ {u} : Writing(v) => thread[v].path # thread[u].path
  BY DEF TransferInv, WritersApart
<1>5. \A p \in Paths \ {thread[u].path} : dir[p] # thread[u].inode
  BY <1>1, <1>3 DEF TransferInv, PathsApart, Owns
<1> QED
  BY <1>1, <1>2, <1>3, <1>4, <1>5 DEF Owns

\* fopen of an UPLOAD keeps the invariant: the file is a new one.
LEMMA OpenUploadInv ==
    ASSUME TransferInv, NEW u \in Users, OpenUpload(u)
    PROVE  TransferInv'
<1> DEFINE path == thread[u].path
           new  == [path |-> path, size |-> thread[u].size, written |-> 0]
           op   == [thread[u] EXCEPT !.pc = "receive", !.inode = Len(inodes) + 1]
<1>1. /\ TransferTypeOK /\ ThreadConsistent(u)
      /\ inodes \in Seq(Inode) /\ Len(inodes) \in Nat
      /\ DOMAIN inodes = 1 .. Len(inodes)
  BY DEF TransferInv, TransferTypeOK
<1>2. /\ path \in Paths /\ thread[u].left = thread[u].size /\ dir[path] = 0
      /\ payload[u] = thread[u].left + stray[u]
  BY <1>1 DEF OpenUpload, ThreadConsistent
<1>3. new \in Inode /\ op \in Op
  <2>1. thread[u] \in Op /\ thread[u].size \in Chunks /\ 0 \in Chunks
    BY <1>1, ThreadTypes, ChunksBelow
  <2>2. new \in Inode
    BY <1>2, <2>1 DEF Inode
  <2>3. Len(inodes) + 1 \in Nat
    BY <1>1
  <2>4. op \in Op
    BY <2>1, <2>3 DEF Op
  <2> QED
    BY <2>2, <2>4
<1>4. /\ thread' = [thread EXCEPT ![u] = op]
      /\ inodes' = Append(inodes, new)
      /\ dir' = [dir EXCEPT ![path] = Len(inodes) + 1]
      /\ UNCHANGED <<records, payload, stray>>
  BY DEF OpenUpload
<1>5. /\ inodes' \in Seq(Inode) /\ Len(inodes') = Len(inodes) + 1
      /\ DOMAIN inodes' = 1 .. Len(inodes) + 1
      /\ inodes'[Len(inodes) + 1] = new
      /\ \A i \in 1 .. Len(inodes) : inodes'[i] = inodes[i]
  BY <1>1, <1>3, <1>4
<1>6. TransferTypeOK'
  BY <1>1, <1>2, <1>3, <1>4, <1>5 DEF TransferTypeOK
<1>7. ~Recorded(path)
  BY <1>2 DEF TransferInv, RecordedFilesWhole, Holds, Recorded
<1>8. \A v \in Users \ {u} : Writing(v) => thread[v].path # path
  BY <1>2, WriterFacts DEF Owns
<1>9. /\ thread'[u] = op /\ dir'[path] = Len(inodes) + 1 /\ OthersKeep(u)
      /\ \A p \in Paths \ {path} : dir'[p] = dir[p]
      /\ Recorded(path)' <=> Recorded(path)
  BY <1>1, <1>2, <1>4 DEF TransferTypeOK, OthersKeep, Recorded
<1>10. ThreadConsistent(u)'
  <2>1. /\ op.pc = "receive" /\ op.path = path /\ op.size = thread[u].size
        /\ op.inode = Len(inodes) + 1 /\ op.left = thread[u].left
    BY <1>1 DEF TransferTypeOK, Op
  <2>2. 0 + thread[u].size = thread[u].size /\ thread[u].size \in Nat
    BY <1>1, <1>2, <1>4, ThreadTypes, ChunksBelow
  <2>3. ~Recorded(path)'
    BY <1>7, <1>9
  <2>4. /\ thread'[u].path = path /\ thread'[u].pc = "receive"
        /\ thread'[u].size = thread[u].size /\ thread'[u].left = thread[u].size
        /\ thread'[u].inode = Len(inodes) + 1 /\ Len(inodes) + 1 # 0
    BY <1>1, <1>2, <1>9, <2>1
  <2>5. payload'[u] = thread'[u].left + stray'[u] /\ dir'[path] = Len(inodes) + 1
    BY <1>2, <1>4, <1>9, <2>4
  <2>6. new.written = 0 /\ new.size = thread[u].size
    OBVIOUS
  <2>7. /\ inodes'[thread'[u].inode].written + thread'[u].left = thread'[u].size
        /\ inodes'[thread'[u].inode].size = thread'[u].size
    BY <1>5, <2>2, <2>4, <2>6
  <2> QED
    BY <1>2, <2>3, <2>4, <2>5, <2>7
    DEF ThreadConsistent, Writing, Owns, Recorded
<1>11. /\ \A p \in Paths \ {path} :
             /\ dir[p] # 0 => inodes'[dir[p]] = inodes[dir[p]]
             /\ Recorded(p)' <=> Recorded(p)
       /\ inodes'[dir'[path]].path = path
       /\ thread'[u].path = path
  BY <1>1, <1>4, <1>5, <1>9 DEF TransferTypeOK, Recorded, Op
<1> QED
  BY <1>2, <1>4, <1>6, <1>7, <1>8, <1>9, <1>10, <1>11, OnePathTouched

\* A step of u that takes its unrecorded path away keeps the invariant.
LEMMA UnlinkInv ==
    ASSUME TransferInv, NEW u \in Users, Writing(u), Unlink(thread[u].path), Answered(u),
           payload' \in [Users -> Nat], stray' \in [Users -> {0, 1}],
           payload'[u] = stray'[u],
           \A v \in Users \ {u} : payload'[v] = payload[v] /\ stray'[v] = stray[v],
           UNCHANGED <<inodes, records>>
    PROVE  TransferInv'
<1> DEFINE path == thread[u].path
<1>1. /\ TransferTypeOK /\ Owns(u) /\ path \in Paths /\ ~Recorded(path)
      /\ \A v \in Users \ {u} : Writing(v) => thread[v].path # path
  BY WriterFacts DEF TransferInv, Owns
<1>2. /\ thread'[u] = AtLine /\ OthersKeep(u)
      /\ dir' \in [Paths -> Nat] /\ dir'[path] = 0
      /\ \A p \in Paths \ {path} : dir'[p] = dir[p]
      /\ thread' \in [Users -> Op]
  BY <1>1, OpTypes DEF Unlink, Answered, OthersKeep, TransferTypeOK
<1>3. TransferTypeOK'
  <2>1. \A p \in Paths : dir'[p] # 0 => dir'[p] \in DOMAIN inodes
    BY <1>1, <1>2 DEF TransferTypeOK
  <2>2. \A v \in Users : thread'[v].inode # 0 => thread'[v].inode \in DOMAIN inodes
    BY <1>1, <1>2, AtLineFacts DEF TransferTypeOK, OthersKeep
  <2> QED
    BY <1>1, <1>2, <2>1, <2>2 DEF TransferTypeOK
<1>4. ThreadConsistent(u)' /\ ~Writing(u)'
  <2>1. payload'[u] = AtLine.left + stray'[u]
    <3>1. payload'[u] \in Nat
      OBVIOUS
    <3> QED
      BY <3>1, AtLineFacts
  <2> QED
    BY <1>2, <2>1 DEF ThreadConsistent, Writing, AtLine
<1>5. \A p \in Paths \ {path} :
          /\ dir[p] # 0 => inodes'[dir[p]] = inodes[dir[p]]
          /\ Recorded(p)' <=> Recorded(p)
  BY DEF Recorded
<1> QED
  BY <1>1, <1>2, <1>3, <1>4, <1>5, OnePathTouched

\* What a thread knows after it has received a chunk.
LEMMA ReceivesFacts ==
    ASSUME TransferInv, NEW u \in Users, NEW pc \in {"receive", "drain"}, Receives(u, pc)
    PROVE  /\ thread' \in [Users -> Op] /\ payload' \in [Users -> Nat]
           /\ thread'[u].pc = pc /\ thread'[u].inode = thread[u].inode
           /\ thread'[u].path = thread[u].path /\ thread'[u].size = thread[u].size
           /\ thread'[u].left = thread[u].left - 1 /\ thread[u].left > 0
           /\ thread[u].left \in Nat
           /\ payload'[u] = thread'[u].left + stray[u]
           /\ \A v \in Users \ {u} : thread'[v] = thread[v] /\ payload'[v] = payload[v]
<1> DEFINE op == [thread[u] EXCEPT !.pc = pc, !.left = @ - 1]
<1>1. /\ TransferTypeOK /\ thread \in [Users -> Op] /\ payload \in [Users -> Nat]
      /\ thread[u] \in Op /\ thread[u].left \in Chunks /\ payload[u] = thread[u].left + stray[u]
      /\ stray[u] \in {0, 1}
  BY ThreadTypes DEF TransferInv, TransferTypeOK, ThreadConsistent
<1>2. /\ thread[u].left \in Nat /\ thread[u].left > 0 /\ payload[u] > 0
      /\ payload' = [payload EXCEPT ![u] = @ - 1]
      /\ thread' = [thread EXCEPT ![u] = op]
  BY <1>1, ChunksBelow DEF Receives
<1>3. /\ thread[u].left - 1 \in Chunks
      /\ payload[u] - 1 = (thread[u].left - 1) + stray[u] /\ payload[u] - 1 \in Nat
  <2>1. thread[u].left - 1 \in Nat /\ thread[u].left - 1 <= thread[u].left
    BY <1>2
  <2>2. stray[u] \in Nat
    BY <1>1
  <2> QED
    BY <1>1, <1>2, <2>1, <2>2, ChunksBelow
<1>4. /\ op \in Op /\ op.pc = pc /\ op.inode = thread[u].inode /\ op.path = thread[u].path
      /\ op.size = thread[u].size /\ op.left = thread[u].left - 1
  BY <1>1, <1>3 DEF Op
<1> QED
  BY <1>1, <1>2, <1>3, <1>4

\* A chunk that is written to the file keeps the invariant.
LEMMA ReceiveChunkInv ==
    ASSUME TransferInv, NEW u \in Users, ReceiveChunk(u)
    PROVE  TransferInv'
<1> DEFINE path == thread[u].path
           i    == thread[u].inode
           new  == [inodes[i] EXCEPT !.written = @ + 1]
<1>1. /\ TransferTypeOK /\ ThreadConsistent(u) /\ Writing(u)
      /\ Owns(u) /\ path \in Paths /\ i \in 1 .. Len(inodes)
      /\ inodes[i].path = path
      /\ \A v \in Users \ {u} : Writing(v) => thread[v].path # path
      /\ \A p \in Paths \ {path} : dir[p] # i
  BY WriterFacts DEF TransferInv, ReceiveChunk, Writing
<1>2. /\ Receives(u, "receive") /\ thread[u].pc = "receive"
      /\ inodes' = [inodes EXCEPT ![i] = new]
      /\ UNCHANGED <<dir, records, stray>>
  BY DEF ReceiveChunk
<1>3. /\ thread' \in [Users -> Op] /\ payload' \in [Users -> Nat]
      /\ thread'[u].pc = "receive" /\ thread'[u].inode = i
      /\ thread'[u].path = path /\ thread'[u].size = thread[u].size
      /\ thread'[u].left = thread[u].left - 1 /\ thread[u].left > 0 /\ thread[u].left \in Nat
      /\ payload'[u] = thread'[u].left + stray'[u] /\ OthersKeep(u)
  BY <1>2, ReceivesFacts DEF OthersKeep
<1>4. /\ inodes[i] \in Inode /\ inodes[i].written + 1 \in Chunks
      /\ inodes[i].written + 1 + (thread[u].left - 1) = thread[u].size
  <2>1. /\ inodes[i] \in Inode /\ inodes[i].written \in Nat
        /\ thread[u].size \in Chunks /\ thread[u].size \in Nat
        /\ inodes[i].written + thread[u].left = thread[u].size
    BY <1>1, <1>2, InodeTypes, ThreadTypes, ChunksBelow DEF ThreadConsistent
  <2>2. /\ inodes[i].written + 1 \in Nat /\ inodes[i].written + 1 <= thread[u].size
        /\ inodes[i].written + 1 + (thread[u].left - 1) = thread[u].size
    BY <1>3, <2>1
  <2> QED
    BY <2>1, <2>2, ChunksBelow
<1>5. /\ new \in Inode /\ new.path = path /\ new.size = inodes[i].size
      /\ new.written = inodes[i].written + 1
  BY <1>1, <1>4 DEF Inode
<1>6. /\ inodes' \in Seq(Inode) /\ Len(inodes') = Len(inodes)
      /\ DOMAIN inodes' = DOMAIN inodes /\ DOMAIN inodes = 1 .. Len(inodes)
      /\ inodes'[i] = new
      /\ \A j \in 1 .. Len(inodes) : j # i => inodes'[j] = inodes[j]
  <2>1. inodes \in Seq(Inode)
    BY <1>1 DEF TransferTypeOK
  <2> QED
    BY <1>1, <1>2, <1>5, <2>1, ExceptSeq, LenProperties
<1>7. TransferTypeOK'
  BY <1>1, <1>2, <1>3, <1>6 DEF TransferTypeOK, OthersKeep
<1>8. ThreadConsistent(u)' /\ Writing(u)'
  BY <1>1, <1>2, <1>3, <1>4, <1>5, <1>6 DEF ThreadConsistent, Writing, Owns, Recorded
<1>9. ~Recorded(path)
  BY <1>1 DEF Owns
<1>10. /\ \A p \in Paths \ {path} :
             /\ dir'[p] = dir[p]
             /\ dir[p] # 0 => inodes'[dir[p]] = inodes[dir[p]]
             /\ Recorded(p)' <=> Recorded(p)
       /\ dir'[path] # 0 => inodes'[dir'[path]].path = path
  <2>1. dir[path] = i
    BY <1>1 DEF Owns
  <2>2. \A p \in Paths : dir[p] # 0 => dir[p] \in 1 .. Len(inodes)
    BY <1>1, <1>6 DEF TransferTypeOK
  <2> QED
    BY <1>1, <1>2, <1>5, <1>6, <2>1, <2>2 DEF Recorded
<1> QED
  BY <1>1, <1>2, <1>3, <1>7, <1>8, <1>9, <1>10, OnePathTouched

\* The other steps that receive a payload keep the invariant.
LEMMA ReceivingInv ==
    ASSUME TransferInv, NEW u \in Users,
           \/ WriteFails(u) \/ Drain(u) \/ EndReceive(u)
           \/ ReceiveFails(u) \/ EndReceiveFails(u) \/ AppendRecordFails(u)
    PROVE  TransferInv'
<1>0. /\ TransferTypeOK /\ thread \in [Users -> Op] /\ payload \in [Users -> Nat]
      /\ stray \in [Users -> {0, 1}] /\ ThreadConsistent(u)
  BY DEF TransferInv, TransferTypeOK
<1>2. CASE WriteFails(u) \/ Drain(u)
  <2>1. /\ Receives(u, "drain") /\ Writing(u)
        /\ UNCHANGED <<dir, inodes, records, stray>>
    BY <1>2 DEF WriteFails, Drain, Writing
  <2>2. /\ thread' \in [Users -> Op] /\ payload' \in [Users -> Nat]
        /\ thread'[u].pc = "drain" /\ thread'[u].inode = thread[u].inode
        /\ thread'[u].path = thread[u].path /\ thread'[u].size = thread[u].size
        /\ payload'[u] = thread'[u].left + stray[u] /\ OthersKeep(u)
    BY <2>1, ReceivesFacts DEF OthersKeep
  <2>3. ThreadConsistent(u)'
    BY <1>0, <2>1, <2>2 DEF ThreadConsistent, Writing, Owns, Recorded
  <2> QED
    BY <1>0, <2>1, <2>2, <2>3, QuietStep
<1>3. CASE EndReceive(u)
  <2>1. /\ thread'[u].pc = "record" /\ thread' \in [Users -> Op]
        /\ thread'[u].inode = thread[u].inode /\ thread'[u].path = thread[u].path
        /\ thread'[u].size = thread[u].size
        /\ thread'[u].left = thread[u].left /\ thread[u].left = 0
        /\ OthersKeep(u) /\ Writing(u) /\ thread[u].pc = "receive"
        /\ UNCHANGED <<dir, inodes, records, payload, stray>>
    BY <1>0, <1>3, GoesOn DEF EndReceive, OthersKeep, Writing
  <2>2. Owns(u) /\ inodes[thread[u].inode].written = thread[u].size
    <3>1. Owns(u) /\ thread[u].inode \in 1 .. Len(inodes)
      BY <2>1, WriterFacts
    <3>2. inodes[thread[u].inode].written \in Nat
      BY <1>0, <3>1, InodeTypes, ChunksBelow
    <3> QED
      BY <1>0, <2>1, <3>1, <3>2 DEF ThreadConsistent
  <2>3. ThreadConsistent(u)'
    BY <1>0, <2>1, <2>2 DEF ThreadConsistent, Writing, Owns, Recorded
  <2> QED
    BY <1>0, <2>1, <2>3, QuietStep
<1>4. CASE ReceiveFails(u)
  <2>1. /\ Writing(u) /\ Unlink(thread[u].path) /\ Answered(u)
        /\ payload' \in [Users -> Nat] /\ stray' \in [Users -> {0, 1}]
        /\ payload'[u] = stray'[u]
        /\ \A v \in Users \ {u} : payload'[v] = payload[v] /\ stray'[v] = stray[v]
        /\ UNCHANGED <<inodes, records>>
    BY <1>0, <1>4 DEF ReceiveFails, Disconnected, Writing
  <2> QED
    BY <2>1, UnlinkInv
<1>5. CASE EndReceiveFails(u) \/ AppendRecordFails(u)
  <2>1. /\ Writing(u) /\ Unlink(thread[u].path) /\ Answered(u) /\ thread[u].left = 0
        /\ UNCHANGED <<inodes, records, payload, stray>>
    BY <1>0, <1>5 DEF EndReceiveFails, AppendRecordFails, Writing, ThreadConsistent
  <2>2. payload[u] = stray[u]
    <3>1. stray[u] \in {0, 1}
      BY <1>0
    <3> QED
      BY <1>0, <2>1, <3>1 DEF ThreadConsistent
  <2> QED
    BY <1>0, <2>1, <2>2, UnlinkInv
<1> QED
  BY <1>2, <1>3, <1>4, <1>5

\* A record that is appended keeps the invariant: its file is whole.
LEMMA AppendRecordInv ==
    ASSUME TransferInv, NEW u \in Users, AppendRecord(u)
    PROVE  TransferInv'
<1> DEFINE path == thread[u].path
<1>1. /\ TransferTypeOK /\ ThreadConsistent(u) /\ Writing(u) /\ Owns(u)
      /\ path \in Paths /\ ~Recorded(path)
      /\ \A v \in Users \ {u} : Writing(v) => thread[v].path # path
  BY WriterFacts DEF TransferInv, AppendRecord, Writing, Owns
<1>2. /\ RecordOf(u) \in Record
      /\ RecordOf(u).path = path /\ RecordOf(u).size = thread[u].size
  BY <1>1, ThreadTypes DEF RecordOf, Record
<1>3. records \in Seq(Record) /\ records' = Append(records, RecordOf(u))
  BY <1>1 DEF TransferTypeOK, AppendRecord
<1>4. /\ records' \in Seq(Record)
      /\ DOMAIN records = 1 .. Len(records) /\ Len(records) \in Nat
      /\ DOMAIN records' = 1 .. Len(records) + 1
      /\ records'[Len(records) + 1] = RecordOf(u)
      /\ \A i \in 1 .. Len(records) : records'[i] = records[i]
  BY <1>2, <1>3
<1>5. /\ thread'[u] = AtLine /\ thread' \in [Users -> Op]
      /\ UNCHANGED <<dir, inodes, payload, stray>> /\ OthersKeep(u)
  BY <1>1, OpTypes DEF AppendRecord, Answered, OthersKeep, TransferTypeOK
<1>6. TransferTypeOK'
  <2>1. \A v \in Users : thread'[v].inode # 0 => thread'[v].inode \in DOMAIN inodes
    BY <1>1, <1>5, AtLineFacts DEF TransferTypeOK, OthersKeep
  <2> QED
    BY <1>1, <1>4, <1>5, <2>1 DEF TransferTypeOK
<1>7. /\ thread[u].left = 0 /\ payload[u] = thread[u].left + stray[u] /\ dir[path] # 0
      /\ inodes[dir[path]].size = thread[u].size
      /\ inodes[dir[path]].written = thread[u].size
  BY <1>1 DEF ThreadConsistent, AppendRecord, Owns
<1>8. ThreadConsistent(u)' /\ ~Writing(u)'
  BY <1>5, <1>7 DEF ThreadConsistent, Writing, AtLine
<1>9. \A p \in Paths \ {path} : Recorded(p)' <=> Recorded(p)
  BY <1>2, <1>4 DEF Recorded
<1>10. \A i \in DOMAIN records' :
          \/ i \in DOMAIN records /\ records'[i] = records[i]
          \/ /\ records'[i].path = path
             /\ dir'[path] # 0
             /\ inodes'[dir'[path]].size = records'[i].size
             /\ inodes'[dir'[path]].written = records'[i].size
  BY <1>2, <1>4, <1>5, <1>7
<1>11. dir'[path] # 0 => inodes'[dir'[path]].path = path
  BY <1>1, <1>5 DEF TransferInv, PathsApart
<1> QED
  BY <1>1, <1>5, <1>6, <1>8, <1>9, <1>10, <1>11, OnePathTouched

(* Every step of an UPLOAD keeps the invariant.                            *)
LEMMA UploadInv ==
    ASSUME TransferInv, NEW u \in Users, UploadStep(u) PROVE TransferInv'
BY UploadBeginsInv, OpenUploadInv, ReceiveChunkInv, ReceivingInv, AppendRecordInv
   DEF UploadStep

-----------------------------------------------------------------------------
(* DOWNLOAD *)

\* The file of a recorded path is there, and whole.
LEMMA RecordedFacts ==
    ASSUME TransferInv, NEW path \in Paths, Recorded(path)
    PROVE  /\ dir[path] \in 1 .. Len(inodes)
           /\ inodes[dir[path]].size = inodes[dir[path]].written
<1>1. PICK i \in DOMAIN records : records[i].path = path
  BY DEF Recorded
<1>2. Holds(path, records[i].size)
  BY <1>1 DEF TransferInv, RecordedFilesWhole
<1>3. DOMAIN inodes = 1 .. Len(inodes)
  BY LenProperties DEF TransferInv, TransferTypeOK
<1> QED
  BY <1>2, <1>3 DEF Holds, TransferInv, TransferTypeOK

(* Every step of a DOWNLOAD keeps the invariant.                           *)
LEMMA DownloadInv ==
    ASSUME TransferInv, NEW u \in Users, DownloadStep(u) PROVE TransferInv'
<1>0. /\ TransferTypeOK /\ thread \in [Users -> Op] /\ payload \in [Users -> Nat]
      /\ stray \in [Users -> {0, 1}]
      /\ ThreadConsistent(u) /\ 0 \in Chunks /\ thread[u] \in Op
      /\ DOMAIN inodes = 1 .. Len(inodes)
  BY ChunksBelow, LenProperties DEF TransferInv, TransferTypeOK
<1>1. ASSUME NEW name \in Filenames, Download(u, name) PROVE TransferInv'
  <2> DEFINE path == [to |-> u, name |-> name]
             op   == [AtLine EXCEPT !.pc = "fopen", !.path = path,
                                    !.size = inodes[dir[path]].written,
                                    !.listed = Recorded(path)]
  <2>1. path \in Paths /\ dir[path] \in 1 .. Len(inodes)
    BY <1>0, <1>1 DEF Paths, Download, TransferTypeOK
  <2>2. inodes[dir[path]].written \in Chunks
    BY <1>0, <2>1, InodeTypes
  <2>3. op \in Op /\ op.pc = "fopen" /\ op.path = path /\ op.inode = 0
        /\ op.left = 0 /\ op.size = inodes[dir[path]].written /\ op.listed = Recorded(path)
    BY <1>0, <2>1, <2>2 DEF Op, AtLine, Recorded
  <2>4. /\ thread' = [thread EXCEPT ![u] = op] /\ TakesLine(u, 0)
        /\ UNCHANGED <<dir, inodes, records>>
    BY <1>1 DEF Download
  <2> HIDE DEF op
  <2> QED
    BY <1>0, <2>1, <2>3, <2>4, LineTaken
<1>2. CASE OpenDownload(u)
  <2> DEFINE path == thread[u].path
             op   == [thread[u] EXCEPT !.pc = "send", !.inode = dir[path]]
  <2>1. /\ path \in Paths /\ dir[path] \in Nat /\ dir[path] # 0
        /\ dir[path] \in DOMAIN inodes
    BY <1>0, <1>2 DEF OpenDownload, ThreadConsistent, TransferTypeOK
  <2>2. op \in Op /\ op.pc = "send" /\ op.path = path /\ op.inode = dir[path]
        /\ op.size = thread[u].size /\ op.listed = thread[u].listed
        /\ op.left = thread[u].left
    BY <1>0, <2>1 DEF Op
  <2>3. /\ thread' = [thread EXCEPT ![u] = op]
        /\ UNCHANGED <<dir, inodes, records, payload, stray>>
    BY <1>2 DEF OpenDownload
  <2>4. thread'[u] = op /\ thread' \in [Users -> Op] /\ OthersKeep(u)
    BY <1>0, <2>2, <2>3 DEF OthersKeep
  <2>5. ThreadConsistent(u)' /\ ~Writing(u)'
    BY <1>0, <1>2, <2>1, <2>2, <2>3, <2>4
    DEF ThreadConsistent, Writing, Recorded, OpenDownload
  <2>6. TransferTypeOK'
    BY <1>0, <2>1, <2>2, <2>3, <2>4 DEF TransferTypeOK, OthersKeep
  <2> QED
    BY <2>3, <2>4, <2>5, <2>6, NoFileTouched
<1>3. CASE SendFails(u)
  BY <1>3, DisconnectedInv DEF SendFails
<1>4. CASE OpenDownloadFails(u) \/ EndDownload(u)
  <2>1. /\ Answered(u) /\ thread[u].left = 0
        /\ UNCHANGED <<dir, inodes, records, payload, stray>>
    BY <1>0, <1>4 DEF OpenDownloadFails, EndDownload, ThreadConsistent
  <2>2. payload[u] = stray[u]
    <3>1. stray[u] \in {0, 1}
      BY <1>0
    <3> QED
      BY <1>0, <2>1, <3>1 DEF ThreadConsistent
  <2> QED
    BY <1>0, <2>1, <2>2, AnsweredInv
<1> QED
  BY <1>1, <1>2, <1>3, <1>4 DEF DownloadStep

-----------------------------------------------------------------------------
(* The theorems *)

\* The invariant holds at first and is kept by every step.
LEMMA TransferInitInv == TransferInit => TransferInv
<1> SUFFICES ASSUME TransferInit PROVE TransferInv
  OBVIOUS
<1>1. AtLine \in Op /\ 0 \in Chunks
  BY ChunksBelow DEF Op, AtLine
<1>2. TransferTypeOK
  BY <1>1 DEF TransferInit, TransferTypeOK, AtLine
<1>3. \A u \in Users : ThreadConsistent(u) /\ ~Writing(u)
  <2> SUFFICES ASSUME NEW u \in Users PROVE ThreadConsistent(u) /\ ~Writing(u)
    OBVIOUS
  <2>1. thread[u] = AtLine /\ payload[u] = 0 /\ stray[u] = 0
    BY DEF TransferInit
  <2> QED
    BY <2>1, AtLineFacts DEF ThreadConsistent, Writing
<1>4. RecordedFilesWhole /\ PathsApart
  BY DEF TransferInit, RecordedFilesWhole, PathsApart
<1> QED
  BY <1>2, <1>3, <1>4 DEF TransferInv, WritersApart

\* A kill keeps the invariant: no record is without its file at any time.
LEMMA TransferCrashInv == TransferInv /\ TransferCrash => TransferInv'
<1> SUFFICES ASSUME TransferInv, TransferCrash PROVE TransferInv'
  OBVIOUS
<1>1. AtLine \in Op /\ 0 \in Chunks
  BY ChunksBelow DEF Op, AtLine
<1>2. TransferTypeOK'
  BY <1>1 DEF TransferCrash, TransferInv, TransferTypeOK, AtLine
<1>3. \A u \in Users : ThreadConsistent(u)' /\ ~Writing(u)'
  BY AtLineFacts DEF TransferCrash, ThreadConsistent, Writing
<1>4. RecordedFilesWhole' /\ PathsApart'
  BY DEF TransferCrash, TransferInv, RecordedFilesWhole, Holds, PathsApart
<1> QED
  BY <1>2, <1>3, <1>4 DEF TransferInv, WritersApart

LEMMA TransferNextInv == TransferInv /\ [TransferNext]_transferVars => TransferInv'
<1> SUFFICES ASSUME TransferInv, [TransferNext]_transferVars PROVE TransferInv'
  OBVIOUS
<1>1. CASE UNCHANGED transferVars
  BY <1>1 DEF transferVars, TransferInv, TransferTypeOK, RecordedFilesWhole, Holds,
              PathsApart, WritersApart, Writing, ThreadConsistent, Owns, Recorded
<1> QED
  BY <1>1, TransferCrashInv, UploadInv, DownloadInv DEF TransferNext, TransferStep

\* What the invariant says of the properties.
LEMMA TransferInvGives ==
    TransferInv => StreamInStep /\ RecordedFilesWhole /\ ListedDownloadsWhole
<1> SUFFICES ASSUME TransferInv
             PROVE  StreamInStep /\ RecordedFilesWhole /\ ListedDownloadsWhole
  OBVIOUS
<1>1. StreamInStep /\ RecordedFilesWhole
  <2>1. \A u \in Users : stray[u] \in {0, 1}
    BY DEF TransferInv, TransferTypeOK
  <2> QED
    BY <2>1 DEF TransferInv, ThreadConsistent, StreamInStep
<1>2. ASSUME NEW u \in Users, thread[u].pc = "send", thread[u].listed
      PROVE  /\ thread[u].inode = dir[thread[u].path]
             /\ thread[u].size = inodes[thread[u].inode].size
             /\ thread[u].size = inodes[thread[u].inode].written
  BY <1>2, RecordedFacts DEF TransferInv, ThreadConsistent
<1> QED
  BY <1>1, <1>2 DEF ListedDownloadsWhole

(* The types, for any number of users, names and uploads.                  *)
THEOREM TransferTypeCorrect == TransferSpec => []TransferTypeOK
<1>1. TransferInv => TransferTypeOK
  BY DEF TransferInv
<1> QED
  BY <1>1, TransferInitInv, TransferNextInv, PTL DEF TransferSpec

(* However an UPLOAD ends, it has taken exactly the bytes it announced off *)
(* the stream; those of a malformed line are all that can be stray.        *)
THEOREM StreamsStayInStep == TransferSpec => []StreamInStep
BY TransferInitInv, TransferNextInv, TransferInvGives, PTL DEF TransferSpec

(* A record of files.db always has its whole file.                         *)
THEOREM RecordedFilesStayWhole == TransferSpec => []RecordedFilesWhole
BY TransferInitInv, TransferNextInv, TransferInvGives, PTL DEF TransferSpec

(* A DOWNLOAD of a recorded file sends all of it.                          *)
THEOREM ListedDownloadsAreWhole == TransferSpec => []ListedDownloadsWhole
BY TransferInitInv, TransferNextInv, TransferInvGives, PTL DEF TransferSpec

-----------------------------------------------------------------------------
(* BACKUP beside the transfers *)

\* A step of the whole is a step of the transfers, or none.
LEMMA NextTransfers == [Next]_vars => [TransferNext]_transferVars
BY DEF Next, vars, transferVars, Crash, CommandStep, BackupStep, TransferNext, BeginBackup,
       OpenRecords, SkipRecords, CopyRecords, OpenUploads, OpenCopy, CopyUpload, SkipUpload,
       BackupFails, EndBackup, TransferStep, UploadStep

(* Uploads and downloads with a BACKUP beside them behave as they do       *)
(* without: what holds of FileTransfer holds here.                         *)
THEOREM BackupDisturbsNoTransfer == Spec => TransferSpec
<1>1. Init => TransferInit
  BY DEF Init
<1> QED
  BY <1>1, NextTransfers, PTL DEF Spec, TransferSpec

-----------------------------------------------------------------------------
(* The inductive invariant *)

\* n rows of files.db are in the snapshot, or a BACKUP has the copy open that
\* will hold them, or the copy has been left in part.
RowsSaved(n) ==
    \/ snapshot.records >= n
    \/ RecordsFile \in spoiled
    \/ \E w \in Users : copying[w].pc = "records" /\ copying[w].rows >= n

\* The same of the file of the i-th record: a BACKUP that has its copy open
\* opened it when it was whole.
FileSaved(i) ==
    \/ Saved(i)
    \/ records[i].path \in spoiled
    \/ \E w \in Users : /\ copying[w].pc = "copy"
                        /\ copying[w].path = records[i].path
                        /\ copying[w].inode = dir[records[i].path]
                        /\ copying[w].length = records[i].size

\* What a BACKUP has done so far is there, at each of its places.
CopyConsistent(u) ==
    /\ copying[u].rows <= Len(records)
    /\ copying[u].pc \in {"none", "tables"} => copying[u].rows = 0
    /\ copying[u].pc = "copy" => /\ copying[u].path \in Paths
                                 /\ copying[u].inode \in 1 .. Len(inodes)
    /\ copying[u].pc \in {"open uploads", "uploads", "copy"} => RowsSaved(copying[u].rows)
    /\ copying[u].pc \in {"uploads", "copy"} =>
            \A i \in 1 .. copying[u].rows :
                records[i].path \in copying[u].entries \/ FileSaved(i)

\* What was promised is there.
PromiseKept ==
    /\ promised <= Len(records)
    /\ RowsSaved(promised)
    /\ \A i \in 1 .. promised : FileSaved(i)

\* No copy of a file is longer than the file.
BlobsBounded ==
    \A p \in Paths :
        snapshot.blobs[p].inode # 0 =>
            /\ snapshot.blobs[p].inode \in 1 .. Len(inodes)
            /\ snapshot.blobs[p].written <= inodes[snapshot.blobs[p].inode].written

BackupTypeOK ==
    /\ snapshot \in Snapshot
    /\ copying \in [Users -> Copying]
    /\ promised \in Nat
    /\ spoiled \subseteq Paths \cup {RecordsFile}

BackupInv ==
    /\ TransferInv
    /\ BackupTypeOK
    /\ BlobsBounded
    /\ PromiseKept
    /\ \A u \in Users : CopyConsistent(u)

-----------------------------------------------------------------------------
(* Facts *)

\* An upload does not have the path of the copy of files.db.
LEMMA RecordsFileApart == RecordsFile \notin Paths
BY TransferAssumption DEF RecordsFile, Paths

\* Records and their files stay as they are while others are uploaded.
LEMMA RecordedStay ==
    ASSUME TransferInv, [TransferNext]_transferVars
    PROVE  /\ Len(records) \in Nat /\ Len(records') \in Nat
           /\ Len(records') >= Len(records)
           /\ \A i \in 1 .. Len(records) :
                 records'[i] = records[i] /\ dir'[records[i].path] = dir[records[i].path]
<1>1. TransferTypeOK /\ records \in Seq(Record) /\ DOMAIN records = 1 .. Len(records)
      /\ Len(records) \in Nat /\ dir \in [Paths -> Nat]
  BY DEF TransferInv, TransferTypeOK
<1>2. ASSUME NEW i \in 1 .. Len(records)
      PROVE  records[i].path \in Paths /\ Recorded(records[i].path)
  BY <1>1, RecordTypes DEF Recorded
<1>3. \/ UNCHANGED records
      \/ \E u \in Users : thread[u].pc = "record" /\ records' = Append(records, RecordOf(u))
  BY DEF TransferNext, TransferStep, UploadStep, DownloadStep, TransferCrash, Upload,
         UploadRefused, UploadMalformed, OtherLine, Leave, Discard, DiscardFails, OpenUpload, OpenUploadFails, ReceiveChunk, WriteFails, Drain,
         ReceiveFails, EndReceive, EndReceiveFails, AppendRecord, AppendRecordFails,
         Download, OpenDownload, OpenDownloadFails, SendFails,
         EndDownload, transferVars
<1>4. /\ Len(records') \in Nat /\ Len(records') >= Len(records)
      /\ \A i \in 1 .. Len(records) : records'[i] = records[i]
  <2>1. ASSUME NEW u \in Users, thread[u].pc = "record",
               records' = Append(records, RecordOf(u))
        PROVE  /\ Len(records') \in Nat /\ Len(records') >= Len(records)
               /\ \A i \in 1 .. Len(records) : records'[i] = records[i]
    <3>1. RecordOf(u) \in Record
      BY <1>1, <2>1, WriterFacts, ThreadTypes DEF RecordOf, Record, Writing
    <3> QED
      BY <1>1, <2>1, <3>1
  <2> QED
    BY <1>1, <1>3, <2>1
<1>5. \/ UNCHANGED dir
      \/ \E u \in Users :
            /\ dir[thread[u].path] = 0 \/ Writing(u)
            /\ \E n \in Nat : dir' = [dir EXCEPT ![thread[u].path] = n]
  <2>1. ASSUME NEW u \in Users, OpenUpload(u)
        PROVE  /\ dir[thread[u].path] = 0
               /\ \E n \in Nat : dir' = [dir EXCEPT ![thread[u].path] = n]
    <3>1. Len(inodes) + 1 \in Nat
      BY <1>1 DEF TransferTypeOK
    <3> QED
      BY <2>1, <3>1 DEF OpenUpload
  <2>2. ASSUME NEW u \in Users,
               ReceiveFails(u) \/ EndReceiveFails(u) \/ AppendRecordFails(u)
        PROVE  /\ Writing(u)
               /\ \E n \in Nat : dir' = [dir EXCEPT ![thread[u].path] = n]
    BY <2>2 DEF ReceiveFails, EndReceiveFails, AppendRecordFails, Unlink, Writing
  <2>3. \/ UNCHANGED dir
        \/ \E u \in Users : \/ OpenUpload(u)
                            \/ ReceiveFails(u) \/ EndReceiveFails(u) \/ AppendRecordFails(u)
    BY DEF TransferNext, TransferStep, UploadStep, DownloadStep, TransferCrash, Upload,
         UploadRefused, UploadMalformed, OtherLine, Leave, Discard, DiscardFails, OpenUploadFails, ReceiveChunk, WriteFails, Drain,
         EndReceive, AppendRecord, Download, OpenDownload,
         OpenDownloadFails, SendFails, EndDownload, transferVars
  <2> QED
    BY <2>1, <2>2, <2>3
<1>6. ASSUME NEW i \in 1 .. Len(records)
      PROVE  dir'[records[i].path] = dir[records[i].path]
  <2>1. dir[records[i].path] # 0
    BY <1>2, RecordedFacts, LenProperties DEF TransferInv, TransferTypeOK
  <2>2. ASSUME NEW u \in Users, dir[thread[u].path] = 0 \/ Writing(u)
        PROVE  thread[u].path # records[i].path
    BY <1>2, <2>1, <2>2, WriterFacts DEF Owns
  <2> QED
    BY <1>1, <1>2, <1>5, <2>2
<1> QED
  BY <1>1, <1>4, <1>6

\* Files stay, and only get longer.
LEMMA InodesGrow ==
    ASSUME TransferInv, [TransferNext]_transferVars
    PROVE  /\ Len(inodes) \in Nat /\ Len(inodes') \in Nat /\ Len(inodes') >= Len(inodes)
           /\ \A j \in 1 .. Len(inodes) :
                 /\ inodes[j].written \in Nat /\ inodes'[j].written \in Nat
                 /\ inodes'[j].written >= inodes[j].written
<1>1. /\ TransferTypeOK /\ inodes \in Seq(Inode) /\ DOMAIN inodes = 1 .. Len(inodes)
      /\ Len(inodes) \in Nat
  BY DEF TransferInv, TransferTypeOK
<1>2. \A j \in 1 .. Len(inodes) : inodes[j] \in Inode /\ inodes[j].written \in Nat
  BY <1>1, InodeTypes, ChunksBelow
<1>3. \/ UNCHANGED inodes
      \/ \E u \in Users : OpenUpload(u) \/ ReceiveChunk(u)
  BY DEF TransferNext, TransferStep, UploadStep, DownloadStep, TransferCrash, Upload,
         UploadRefused, UploadMalformed, OtherLine, Leave, Discard, DiscardFails,
         OpenUploadFails, WriteFails, Drain, ReceiveFails, EndReceive, EndReceiveFails,
         AppendRecord, AppendRecordFails, Download, OpenDownload, OpenDownloadFails,
         SendFails, EndDownload, transferVars
<1>4. CASE UNCHANGED inodes
  BY <1>1, <1>2, <1>4
<1>5. ASSUME NEW u \in Users, OpenUpload(u)
      PROVE  /\ Len(inodes') \in Nat /\ Len(inodes') >= Len(inodes)
             /\ \A j \in 1 .. Len(inodes) : inodes'[j] = inodes[j]
  <2> DEFINE new == [path |-> thread[u].path, size |-> thread[u].size, written |-> 0]
  <2>1. inodes' = Append(inodes, new)
    BY <1>5 DEF OpenUpload
  <2> HIDE DEF new
  <2> QED
    BY <1>1, <2>1
<1>6. ASSUME NEW u \in Users, ReceiveChunk(u)
      PROVE  /\ Len(inodes') = Len(inodes)
             /\ \A j \in 1 .. Len(inodes) :
                   /\ inodes'[j].written \in Nat
                   /\ inodes'[j].written >= inodes[j].written
  <2> DEFINE i == thread[u].inode
             new == [inodes[i] EXCEPT !.written = @ + 1]
  <2>1. i \in 1 .. Len(inodes)
    BY <1>6, WriterFacts DEF ReceiveChunk, Writing
  <2>2. inodes' = [inodes EXCEPT ![i] = new]
    BY <1>6 DEF ReceiveChunk
  <2>3. new.written = inodes[i].written + 1
    BY <1>2, <2>1 DEF Inode
  <2> HIDE DEF new
  <2>4. \A j \in 1 .. Len(inodes) : inodes'[j] = IF j = i THEN new ELSE inodes[j]
    BY <1>1, <2>1, <2>2
  <2>5. Len(inodes') = Len(inodes)
    BY <1>1, <2>1, <2>2
  <2>6. inodes[i].written + 1 \in Nat /\ inodes[i].written + 1 >= inodes[i].written
    BY <1>2, <2>1
  <2> QED
    BY <1>2, <2>3, <2>4, <2>5, <2>6
<1> QED
  BY <1>1, <1>2, <1>3, <1>4, <1>5, <1>6

\* What a path of a record names is the whole file.
LEMMA RecordedNow ==
    ASSUME TransferInv, NEW i \in 1 .. Len(records)
    PROVE  /\ records[i].path \in Paths
           /\ dir[records[i].path] # 0
           /\ inodes[dir[records[i].path]].written = records[i].size
<1>1. DOMAIN records = 1 .. Len(records)
  BY LenProperties DEF TransferInv, TransferTypeOK
<1> QED
  BY <1>1, RecordTypes DEF TransferInv, RecordedFilesWhole, Holds

\* What the types say.
LEMMA BackupTypes ==
    ASSUME BackupInv
    PROVE  /\ snapshot \in Snapshot /\ snapshot.records \in Nat
           /\ snapshot.blobs \in [Paths -> [inode : Nat, written : Chunks]]
           /\ copying \in [Users -> Copying]
           /\ \A u \in Users : copying[u] \in Copying /\ copying[u].rows \in Nat
           /\ Len(records) \in Nat /\ Len(inodes) \in Nat
           /\ promised \in Nat /\ promised <= Len(records)
           /\ spoiled \subseteq Paths \cup {RecordsFile}
           /\ dir \in [Paths -> Nat]
           /\ NotCopying \in Copying /\ NotCopying.pc = "none" /\ NotCopying.rows = 0
<1>1. records \in Seq(Record) /\ inodes \in Seq(Inode) /\ dir \in [Paths -> Nat]
  BY DEF BackupInv, TransferInv, TransferTypeOK
<1>2. NotCopying \in Copying /\ NotCopying.pc = "none" /\ NotCopying.rows = 0
  BY ChunksBelow DEF NotCopying, Copying
<1>3. \A u \in Users : copying[u] \in Copying /\ copying[u].rows \in Nat
  BY DEF BackupInv, BackupTypeOK, Copying
<1>4. snapshot.records \in Nat /\ snapshot.blobs \in [Paths -> [inode : Nat, written : Chunks]]
  BY DEF BackupInv, BackupTypeOK, Snapshot
<1> QED
  BY <1>1, <1>2, <1>3, <1>4 DEF BackupInv, BackupTypeOK, PromiseKept

\* The rows a BACKUP has copied are rows of files.db.
LEMMA RowsBounded ==
    ASSUME BackupInv, NEW u \in Users
    PROVE  /\ CopyConsistent(u) /\ Len(records) \in Nat /\ copying[u].rows \in Nat
           /\ copying[u].rows <= Len(records) /\ copying[u].rows \in 0 .. Len(records)
<1>1. CopyConsistent(u)
  BY DEF BackupInv
<1>2. Len(records) \in Nat /\ copying[u].rows \in Nat
  BY BackupTypes
<1>3. copying[u].rows <= Len(records)
  BY <1>1 DEF CopyConsistent
<1> QED
  BY <1>1, <1>2, <1>3

\* Zero rows are always there.
LEMMA NoRows == ASSUME BackupInv PROVE RowsSaved(0)
BY BackupTypes DEF RowsSaved

-----------------------------------------------------------------------------
(* The steps *)

\* Rows and files that are saved remain so.
SavedStay ==
    /\ \A n \in 0 .. Len(records) : RowsSaved(n) => RowsSaved(n)'
    /\ \A i \in 1 .. Len(records) : FileSaved(i) => FileSaved(i)'

(* A step of the transfers, or a kill, keeps the invariant: what has been  *)
(* copied of recorded files stays right.                                   *)
LEMMA TransfersKeepBackup ==
    ASSUME BackupInv, [TransferNext]_transferVars,
           UNCHANGED <<snapshot, promised>>,
           \/ UNCHANGED <<copying, spoiled>>
           \/ /\ copying' = [u \in Users |-> NotCopying]
              /\ spoiled' = spoiled \cup UNION {Destinations(u) : u \in Users}
    PROVE  BackupInv'
<1>1. TransferInv'
  BY TransferNextInv DEF BackupInv
<1>2. /\ Len(records) \in Nat /\ Len(records') \in Nat /\ Len(records') >= Len(records)
      /\ \A i \in 1 .. Len(records) :
            records'[i] = records[i] /\ dir'[records[i].path] = dir[records[i].path]
  BY RecordedStay DEF BackupInv
<1>3. /\ Len(inodes) \in Nat /\ Len(inodes') \in Nat /\ Len(inodes') >= Len(inodes)
      /\ \A j \in 1 .. Len(inodes) :
            /\ inodes[j].written \in Nat /\ inodes'[j].written \in Nat
            /\ inodes'[j].written >= inodes[j].written
  BY InodesGrow DEF BackupInv
<1>4. BlobsBounded'
  <2> SUFFICES ASSUME NEW p \in Paths, snapshot.blobs[p].inode # 0
               PROVE  /\ snapshot.blobs[p].inode \in 1 .. Len(inodes')
                      /\ snapshot.blobs[p].written <= inodes'[snapshot.blobs[p].inode].written
    BY DEF BlobsBounded
  <2> DEFINE j == snapshot.blobs[p].inode
  <2>1. j \in 1 .. Len(inodes) /\ snapshot.blobs[p].written <= inodes[j].written
    BY DEF BackupInv, BlobsBounded
  <2>2. snapshot.blobs[p].written \in Nat
    BY BackupTypes, ChunksBelow
  <2>3. inodes[j].written \in Nat /\ inodes'[j].written \in Nat
        /\ inodes'[j].written >= inodes[j].written
    BY <1>3, <2>1
  <2> HIDE DEF j
  <2> QED
    BY <1>3, <2>1, <2>2, <2>3 DEF j
<1>5. SavedStay
  <2>1. CASE UNCHANGED <<copying, spoiled>>
    <3>1. ASSUME NEW n \in 0 .. Len(records), RowsSaved(n) PROVE RowsSaved(n)'
      BY <2>1, <3>1 DEF RowsSaved
    <3>2. ASSUME NEW i \in 1 .. Len(records), FileSaved(i) PROVE FileSaved(i)'
      BY <1>2, <2>1, <3>2 DEF FileSaved, Saved
    <3> QED
      BY <3>1, <3>2 DEF SavedStay
  <2>2. CASE /\ copying' = [u \in Users |-> NotCopying]
             /\ spoiled' = spoiled \cup UNION {Destinations(u) : u \in Users}
    <3>1. \A w \in Users : Destinations(w) \subseteq spoiled'
      BY <2>2
    <3>2. ASSUME NEW n \in 0 .. Len(records), RowsSaved(n) PROVE RowsSaved(n)'
      <4>1. ASSUME NEW w \in Users, copying[w].pc = "records" PROVE RecordsFile \in spoiled'
        BY <3>1, <4>1 DEF Destinations
      <4> QED
        BY <2>2, <3>2, <4>1 DEF RowsSaved
    <3>3. ASSUME NEW i \in 1 .. Len(records), FileSaved(i) PROVE FileSaved(i)'
      <4>1. ASSUME NEW w \in Users, copying[w].pc = "copy",
                   copying[w].path = records[i].path
            PROVE  records'[i].path \in spoiled'
        BY <1>2, <3>1, <4>1 DEF Destinations
      <4>2. Saved(i) => Saved(i)'
        BY <1>2 DEF Saved
      <4>3. records[i].path \in spoiled => records'[i].path \in spoiled'
        BY <1>2, <2>2
      <4> QED
        BY <3>3, <4>1, <4>2, <4>3 DEF FileSaved
    <3> QED
      BY <3>2, <3>3 DEF SavedStay
  <2> QED
    BY <2>1, <2>2
<1>6. PromiseKept'
  <2>1. promised \in 0 .. Len(records) /\ promised <= Len(records')
    BY <1>2, BackupTypes
  <2>2. \A i \in 1 .. promised : FileSaved(i)'
    BY <1>2, <1>5, <2>1 DEF BackupInv, PromiseKept, SavedStay
  <2> QED
    BY <1>5, <2>1, <2>2 DEF BackupInv, PromiseKept, SavedStay
<1>7. ASSUME NEW v \in Users PROVE CopyConsistent(v)'
  <2>1. CASE copying' = copying
    <3>1. /\ CopyConsistent(v) /\ copying'[v] = copying[v]
          /\ copying[v].rows \in 0 .. Len(records) /\ copying[v].rows <= Len(records')
      BY <1>2, <2>1, RowsBounded
    <3>2. copying[v].pc = "copy" =>
              copying[v].path \in Paths /\ copying[v].inode \in 1 .. Len(inodes')
      BY <1>3, <3>1 DEF CopyConsistent
    <3>3. RowsSaved(copying[v].rows) => RowsSaved(copying[v].rows)'
      BY <1>5, <2>1, <3>1 DEF SavedStay, RowsSaved
    <3>4. \A i \in 1 .. copying[v].rows :
              /\ records'[i] = records[i]
              /\ FileSaved(i) => FileSaved(i)'
      BY <1>2, <1>5, <3>1 DEF SavedStay
    <3> QED
      BY <3>1, <3>2, <3>3, <3>4 DEF CopyConsistent
  <2>2. CASE copying' = [u \in Users |-> NotCopying]
    <3>1. copying'[v].pc = "none" /\ copying'[v].rows = 0
      BY <2>2, BackupTypes
    <3> QED
      BY <1>2, <3>1 DEF CopyConsistent
  <2> QED
    BY <2>1, <2>2
<1>8. BackupTypeOK'
  <2>1. \A u \in Users : Destinations(u) \subseteq Paths \cup {RecordsFile}
    BY DEF BackupInv, CopyConsistent, Destinations
  <2>2. copying' \in [Users -> Copying]
    BY BackupTypes
  <2>3. spoiled' \subseteq Paths \cup {RecordsFile}
    BY <2>1, BackupTypes
  <2> QED
    BY <2>2, <2>3 DEF BackupInv, BackupTypeOK
<1> QED
  BY <1>1, <1>4, <1>6, <1>7, <1>8 DEF BackupInv

(* A step of u's BACKUP keeps the invariant when what is saved remains so, *)
(* and what u knows and promises of its own is right.                      *)
LEMMA CopyingStep ==
    ASSUME BackupInv, NEW u \in Users, UNCHANGED transferVars,
           NEW c \in Copying, copying' = [copying EXCEPT ![u] = c],
           snapshot' \in Snapshot, BlobsBounded',
           spoiled' \subseteq Paths \cup {RecordsFile},
           SavedStay, CopyConsistent(u)',
           \/ promised' = promised
           \/ /\ promised' \in 0 .. Len(records)
              /\ RowsSaved(promised') /\ \A i \in 1 .. promised' : FileSaved(i)
    PROVE  BackupInv'
<1>1. TransferInv' /\ UNCHANGED <<dir, inodes, records>>
  BY TransferNextInv DEF BackupInv, transferVars
<1>2. /\ copying' \in [Users -> Copying] /\ \A v \in Users \ {u} : copying'[v] = copying[v]
  BY BackupTypes
<1>3. /\ promised' \in 0 .. Len(records) /\ Len(records) \in Nat
      /\ RowsSaved(promised') /\ \A i \in 1 .. promised' : FileSaved(i)
  BY BackupTypes DEF BackupInv, PromiseKept
<1>4. PromiseKept'
  <2>1. RowsSaved(promised)'
    BY <1>3 DEF SavedStay, RowsSaved
  <2>2. \A i \in 1 .. promised' : FileSaved(i)'
    BY <1>3 DEF SavedStay
  <2> QED
    BY <1>1, <1>3, <2>1, <2>2 DEF PromiseKept
<1>5. ASSUME NEW v \in Users \ {u} PROVE CopyConsistent(v)'
  <2>1. /\ CopyConsistent(v) /\ copying'[v] = copying[v]
        /\ copying[v].rows \in 0 .. Len(records)
    BY <1>2, RowsBounded
  <2>2. RowsSaved(copying[v].rows) => RowsSaved(copying[v].rows)'
    BY <2>1 DEF SavedStay, RowsSaved
  <2>3. \A i \in 1 .. copying[v].rows : FileSaved(i) => FileSaved(i)'
    BY <1>3, <2>1 DEF SavedStay
  <2> QED
    BY <1>1, <2>1, <2>2, <2>3 DEF CopyConsistent
<1>6. BackupTypeOK'
  BY <1>2, <1>3, BackupTypes DEF BackupTypeOK
<1> QED
  BY <1>1, <1>4, <1>5, <1>6 DEF BackupInv

(* What is saved remains so when u has no file of the snapshot open, and   *)
(* does not touch the snapshot.                                            *)
LEMMA SnapshotUntouched ==
    ASSUME BackupInv, NEW u \in Users, UNCHANGED transferVars, UNCHANGED <<snapshot, spoiled>>,
           NEW c \in Copying, copying' = [copying EXCEPT ![u] = c],
           copying[u].pc \notin {"records", "copy"}
    PROVE  SavedStay /\ BlobsBounded' /\ snapshot' \in Snapshot
           /\ spoiled' \subseteq Paths \cup {RecordsFile}
<1>1. UNCHANGED <<dir, inodes, records>>
  BY DEF transferVars
<1>2. \A v \in Users \ {u} : copying'[v] = copying[v]
  BY BackupTypes
<1>3. ASSUME NEW n \in 0 .. Len(records), RowsSaved(n) PROVE RowsSaved(n)'
  BY <1>2, <1>3 DEF RowsSaved
<1>4. ASSUME NEW i \in 1 .. Len(records), FileSaved(i) PROVE FileSaved(i)'
  BY <1>1, <1>2, <1>4 DEF FileSaved, Saved
<1>5. BlobsBounded'
  BY <1>1 DEF BackupInv, BlobsBounded
<1> QED
  BY <1>3, <1>4, <1>5, BackupTypes DEF SavedStay

\* BACKUP begins: to the transfers it is a line like others.
LEMMA BeginBackupInv ==
    ASSUME BackupInv, NEW u \in Users, BeginBackup(u) PROVE BackupInv'
<1> DEFINE c == [copying[u] EXCEPT !.pc = "tables"]
<1>1. /\ [TransferNext]_transferVars /\ OtherLine(u)
      /\ copying' = [copying EXCEPT ![u] = c]
      /\ UNCHANGED <<snapshot, promised, spoiled>> /\ copying[u].pc = "none"
  BY DEF BeginBackup, CopyGoes, TransferNext, TransferStep, UploadStep
<1>2. TransferInv' /\ UNCHANGED <<dir, inodes, records>>
  BY <1>1, TransferNextInv DEF BackupInv, OtherLine
<1>3. c \in Copying /\ c.pc = "tables" /\ c.rows = 0
  BY <1>1, BackupTypes DEF BackupInv, CopyConsistent, Copying
<1> HIDE DEF c
<1>4. /\ copying' \in [Users -> Copying] /\ copying'[u] = c
      /\ \A v \in Users \ {u} : copying'[v] = copying[v]
  BY <1>1, <1>3, BackupTypes
<1>5. ASSUME NEW n, RowsSaved(n) PROVE RowsSaved(n)'
  BY <1>1, <1>4, <1>5 DEF RowsSaved
<1>6. ASSUME NEW i, FileSaved(i) PROVE FileSaved(i)'
  BY <1>1, <1>2, <1>4, <1>6 DEF FileSaved, Saved
<1>7. PromiseKept'
  <2>1. promised <= Len(records) /\ RowsSaved(promised) /\ \A i \in 1 .. promised : FileSaved(i)
    BY DEF BackupInv, PromiseKept
  <2>2. RowsSaved(promised)'
    BY <1>1, <1>5, <2>1 DEF RowsSaved
  <2> QED
    BY <1>1, <1>2, <1>6, <2>1, <2>2 DEF PromiseKept
<1>8. ASSUME NEW v \in Users PROVE CopyConsistent(v)'
  <2>1. CASE v = u
    <3>1. copying'[v].pc = "tables" /\ copying'[v].rows = 0
      BY <1>3, <1>4, <2>1
    <3>2. 0 <= Len(records')
      BY <1>2, RowsBounded
    <3> QED
      BY <3>1, <3>2 DEF CopyConsistent
  <2>2. CASE v # u
    <3>1. CopyConsistent(v) /\ copying'[v] = copying[v]
      BY <1>4, <2>2 DEF BackupInv
    <3>2. RowsSaved(copying[v].rows) => RowsSaved(copying[v].rows)'
      BY <1>5, <3>1 DEF RowsSaved
    <3> QED
      BY <1>2, <1>6, <3>1, <3>2 DEF CopyConsistent
  <2> QED
    BY <2>1, <2>2
<1>9. BlobsBounded' /\ BackupTypeOK'
  BY <1>1, <1>2, <1>4 DEF BackupInv, BlobsBounded, BackupTypeOK
<1> QED
  BY <1>2, <1>7, <1>8, <1>9 DEF BackupInv

\* The copy of files.db is opened: it will hold all rows there are now.
LEMMA OpenRecordsInv ==
    ASSUME BackupInv, NEW u \in Users, OpenRecords(u) PROVE BackupInv'
<1> DEFINE c == [copying[u] EXCEPT !.pc = "records", !.rows = Len(records)]
<1>1. /\ UNCHANGED transferVars /\ copying' = [copying EXCEPT ![u] = c]
      /\ snapshot' = [snapshot EXCEPT !.records = 0]
      /\ spoiled' = spoiled \ {RecordsFile}
      /\ UNCHANGED promised /\ copying[u].pc = "tables"
  BY DEF OpenRecords
<1>2. c \in Copying /\ c.pc = "records" /\ c.rows = Len(records)
  BY BackupTypes DEF Copying
<1> HIDE DEF c
<1>3. /\ copying'[u] = c /\ \A v \in Users \ {u} : copying'[v] = copying[v]
  BY <1>1, BackupTypes
<1>4. UNCHANGED <<dir, inodes, records>>
  BY <1>1 DEF transferVars
<1>5. snapshot' \in Snapshot /\ snapshot'.blobs = snapshot.blobs
  BY <1>1, BackupTypes DEF Snapshot
<1>6. SavedStay
  <2>1. ASSUME NEW n \in 0 .. Len(records) PROVE RowsSaved(n)'
    BY <1>2, <1>3, <2>1, BackupTypes DEF RowsSaved
  <2>2. ASSUME NEW i \in 1 .. Len(records), FileSaved(i) PROVE FileSaved(i)'
    <3>1. records[i].path # RecordsFile
      BY RecordedNow, RecordsFileApart DEF BackupInv
    <3> QED
      BY <1>1, <1>3, <1>4, <1>5, <2>2, <3>1 DEF FileSaved, Saved
  <2> QED
    BY <2>1, <2>2 DEF SavedStay
<1>7. BlobsBounded'
  BY <1>4, <1>5 DEF BackupInv, BlobsBounded
<1>8. CopyConsistent(u)'
  <2>1. copying'[u].pc = "records" /\ copying'[u].rows = Len(records)
    BY <1>2, <1>3
  <2>2. copying'[u].rows <= Len(records')
    BY <1>4, <2>1, RowsBounded
  <2> QED
    BY <2>1, <2>2 DEF CopyConsistent
<1>9. spoiled' \subseteq Paths \cup {RecordsFile}
  BY <1>1, BackupTypes
<1> QED
  BY <1>1, <1>2, <1>5, <1>6, <1>7, <1>8, <1>9, CopyingStep

\* files.db is passed over: no row of it is promised.
LEMMA SkipRecordsInv ==
    ASSUME BackupInv, NEW u \in Users, SkipRecords(u) PROVE BackupInv'
<1> DEFINE c == [copying[u] EXCEPT !.pc = "open uploads"]
<1>1. /\ UNCHANGED transferVars /\ copying' = [copying EXCEPT ![u] = c]
      /\ UNCHANGED <<snapshot, promised, spoiled>> /\ copying[u].pc = "tables"
  BY DEF SkipRecords, CopyGoes
<1>2. c \in Copying /\ c.pc = "open uploads" /\ c.rows = 0
  BY <1>1, BackupTypes DEF BackupInv, CopyConsistent, Copying
<1> HIDE DEF c
<1>3. copying'[u] = c /\ UNCHANGED records
  BY <1>1, BackupTypes DEF transferVars
<1>4. SavedStay /\ BlobsBounded' /\ snapshot' \in Snapshot
      /\ spoiled' \subseteq Paths \cup {RecordsFile}
  BY <1>1, <1>2, SnapshotUntouched
<1>5. RowsSaved(0)'
  BY <1>1, BackupTypes DEF RowsSaved
<1>6. CopyConsistent(u)'
  <2>1. copying'[u].pc = "open uploads" /\ copying'[u].rows = 0
    BY <1>2, <1>3
  <2>2. copying'[u].rows <= Len(records')
    <3>1. Len(records) \in Nat
      BY RowsBounded
    <3>2. 0 <= Len(records)
      BY <3>1
    <3> QED
      BY <1>3, <2>1, <3>2, ZenonT(30)
  <2>3. RowsSaved(copying[u].rows)'
    BY <1>5, <2>1 DEF RowsSaved
  <2> QED
    BY <2>1, <2>2, <2>3 DEF CopyConsistent
<1> QED
  BY <1>1, <1>2, <1>4, <1>6, CopyingStep

\* The rows of files.db are copied: no less than there were at the open.
LEMMA CopyRecordsInv ==
    ASSUME BackupInv, NEW u \in Users, CopyRecords(u) PROVE BackupInv'
<1>0. PICK n \in copying[u].rows .. Len(records) :
          /\ snapshot' = [snapshot EXCEPT !.records = Larger(@, n)]
          /\ copying' = [copying EXCEPT ![u].pc = "open uploads", ![u].rows = n]
  BY DEF CopyRecords
<1> DEFINE c == [copying[u] EXCEPT !.pc = "open uploads", !.rows = n]
<1>1. /\ UNCHANGED transferVars /\ copying' = [copying EXCEPT ![u] = c]
      /\ UNCHANGED <<promised, spoiled>> /\ copying[u].pc = "records"
  BY <1>0 DEF CopyRecords
<1>2. /\ n \in Nat /\ n >= copying[u].rows /\ n <= Len(records)
      /\ copying[u].rows \in Nat /\ Len(records) \in Nat
  BY BackupTypes
<1>3. c \in Copying /\ c.pc = "open uploads" /\ c.rows = n
  BY <1>2, BackupTypes DEF Copying
<1> HIDE DEF c
<1>4. /\ copying'[u] = c /\ \A v \in Users \ {u} : copying'[v] = copying[v]
  BY <1>1, BackupTypes
<1>5. UNCHANGED <<dir, inodes, records>>
  BY <1>1 DEF transferVars
<1>6. /\ Larger(snapshot.records, n) \in Nat
      /\ Larger(snapshot.records, n) >= snapshot.records /\ Larger(snapshot.records, n) >= n
  BY <1>2, BackupTypes DEF Larger
<1>7. /\ snapshot' \in Snapshot /\ snapshot'.blobs = snapshot.blobs
      /\ snapshot'.records \in Nat /\ snapshot.records \in Nat
      /\ snapshot'.records >= snapshot.records /\ snapshot'.records >= n
  BY <1>0, <1>6, BackupTypes DEF Snapshot
<1>8. SavedStay
  <2>1. ASSUME NEW k \in 0 .. Len(records), RowsSaved(k) PROVE RowsSaved(k)'
    <3>1. CASE snapshot.records >= k
      BY <1>7, <3>1 DEF RowsSaved
    <3>2. CASE RecordsFile \in spoiled
      BY <1>1, <3>2 DEF RowsSaved
    <3>3. ASSUME NEW w \in Users, copying[w].pc = "records", copying[w].rows >= k
          PROVE  RowsSaved(k)'
      <4>1. CASE w = u
        BY <1>2, <1>7, <3>3, <4>1 DEF RowsSaved
      <4>2. CASE w # u
        BY <1>4, <3>3, <4>2 DEF RowsSaved
      <4> QED
        BY <4>1, <4>2
    <3> QED
      BY <2>1, <3>1, <3>2, <3>3 DEF RowsSaved
  <2>2. ASSUME NEW i \in 1 .. Len(records), FileSaved(i) PROVE FileSaved(i)'
    BY <1>1, <1>4, <1>5, <1>7, <2>2 DEF FileSaved, Saved
  <2> QED
    BY <2>1, <2>2 DEF SavedStay
<1>9. BlobsBounded'
  BY <1>5, <1>7 DEF BackupInv, BlobsBounded
<1>10. CopyConsistent(u)'
  <2>1. copying'[u].pc = "open uploads" /\ copying'[u].rows = n
    BY <1>3, <1>4
  <2>2. copying'[u].rows <= Len(records')
    BY <1>2, <1>5, <2>1
  <2>3. RowsSaved(copying[u].rows)'
    BY <1>7, <2>1 DEF RowsSaved
  <2> QED
    BY <2>1, <2>2, <2>3 DEF CopyConsistent
<1>11. spoiled' \subseteq Paths \cup {RecordsFile}
  BY <1>1, BackupTypes
<1> QED
  BY <1>1, <1>3, <1>7, <1>8, <1>9, <1>10, <1>11, CopyingStep

\* The upload directory is opened: all recorded files are among its entries.
LEMMA OpenUploadsInv ==
    ASSUME BackupInv, NEW u \in Users, OpenUploads(u) PROVE BackupInv'
<1> DEFINE found == {p \in Paths : dir[p] # 0}
           c == [copying[u] EXCEPT !.pc = "uploads", !.entries = found]
<1>1. /\ UNCHANGED transferVars /\ copying' = [copying EXCEPT ![u] = c]
      /\ UNCHANGED <<snapshot, promised, spoiled>> /\ copying[u].pc = "open uploads"
  BY DEF OpenUploads
<1>2. c \in Copying /\ c.pc = "uploads" /\ c.rows = copying[u].rows /\ c.entries = found
  BY BackupTypes DEF Copying
<1> HIDE DEF c
<1>3. copying'[u] = c /\ UNCHANGED <<dir, inodes, records>>
  BY <1>1, BackupTypes DEF transferVars
<1>4. SavedStay /\ BlobsBounded' /\ snapshot' \in Snapshot
      /\ spoiled' \subseteq Paths \cup {RecordsFile}
  BY <1>1, <1>2, SnapshotUntouched
<1>5. /\ copying[u].rows \in 0 .. Len(records) /\ RowsSaved(copying[u].rows)
      /\ Len(records) \in Nat
  <2>1. RowsSaved(copying[u].rows)
    BY <1>1, RowsBounded DEF CopyConsistent
  <2> QED
    BY <2>1, RowsBounded
<1>6. RowsSaved(copying[u].rows)'
  BY <1>4, <1>5, <1>2, <1>3 DEF SavedStay, RowsSaved
<1>7. \A i \in 1 .. copying[u].rows : records[i].path \in found
  BY <1>5, RecordedNow DEF BackupInv
<1>8. CopyConsistent(u)'
  <2>1. /\ copying'[u].pc = "uploads" /\ copying'[u].rows = copying[u].rows
        /\ copying'[u].entries = found
    BY <1>2, <1>3
  <2>2. copying'[u].rows <= Len(records')
    BY <1>3, <2>1, RowsBounded
  <2>3. \A i \in 1 .. copying'[u].rows : records'[i].path \in copying'[u].entries
    BY <1>3, <1>7, <2>1
  <2> QED
    BY <1>6, <2>1, <2>2, <2>3 DEF CopyConsistent
<1> QED
  BY <1>1, <1>2, <1>4, <1>8, CopyingStep

\* A file is opened to be copied: the copy of a recorded one will be whole.
LEMMA OpenCopyInv ==
    ASSUME BackupInv, NEW u \in Users, NEW path \in Paths, OpenCopy(u, path)
    PROVE  BackupInv'
<1> DEFINE j == dir[path]
           blob == [inode |-> j, written |-> 0]
           c == [copying[u] EXCEPT !.pc = "copy", !.entries = @ \ {path}, !.path = path,
                                   !.inode = j, !.length = inodes[j].written]
<1>1. /\ UNCHANGED transferVars /\ copying' = [copying EXCEPT ![u] = c]
      /\ snapshot' = [snapshot EXCEPT !.blobs[path] = blob]
      /\ spoiled' = spoiled \ {path}
      /\ UNCHANGED promised /\ copying[u].pc = "uploads" /\ j # 0
  BY DEF OpenCopy
<1>2. UNCHANGED <<dir, inodes, records>>
  BY <1>1 DEF transferVars
<1>3. /\ j \in Nat /\ j \in 1 .. Len(inodes) /\ inodes[j].written \in Chunks
      /\ inodes[j].written \in Nat /\ 0 \in Chunks
  <2>1. TransferTypeOK /\ DOMAIN inodes = 1 .. Len(inodes)
    BY LenProperties DEF BackupInv, TransferInv, TransferTypeOK
  <2>2. j \in 1 .. Len(inodes)
    BY <1>1, <2>1 DEF TransferTypeOK
  <2>3. inodes[j].written \in Chunks
    BY <2>1, <2>2, InodeTypes
  <2>4. 0 \in Chunks /\ \A n \in Chunks : n \in Nat
    BY ChunksBelow
  <2> QED
    BY <2>1, <2>2, <2>3, <2>4
<1>4. /\ c \in Copying /\ c.pc = "copy" /\ c.rows = copying[u].rows
      /\ c.entries = copying[u].entries \ {path} /\ c.path = path /\ c.inode = j
      /\ c.length = inodes[j].written
  BY <1>3, BackupTypes DEF Copying
<1>5. blob \in [inode : Nat, written : Chunks] /\ blob.inode = j /\ blob.written = 0
  BY <1>3
<1> HIDE DEF c, blob
<1>6. /\ copying'[u] = c /\ \A v \in Users \ {u} : copying'[v] = copying[v]
  BY <1>1, BackupTypes
<1>7. /\ snapshot' \in Snapshot /\ snapshot'.records = snapshot.records
      /\ snapshot'.blobs[path] = blob
      /\ \A p \in Paths \ {path} : snapshot'.blobs[p] = snapshot.blobs[p]
  BY <1>1, <1>5, BackupTypes DEF Snapshot
<1>8. BlobsBounded'
  <2> SUFFICES ASSUME NEW p \in Paths, snapshot'.blobs[p].inode # 0
               PROVE  /\ snapshot'.blobs[p].inode \in 1 .. Len(inodes)
                      /\ snapshot'.blobs[p].written <= inodes[snapshot'.blobs[p].inode].written
    BY <1>2 DEF BlobsBounded
  <2>1. CASE p = path
    BY <1>3, <1>5, <1>7, <2>1
  <2>2. CASE p # path
    BY <1>7, <2>2 DEF BackupInv, BlobsBounded
  <2> QED
    BY <2>1, <2>2
<1>9. ASSUME NEW n, RowsSaved(n) PROVE RowsSaved(n)'
  <2>1. RecordsFile # path
    BY RecordsFileApart
  <2> QED
    BY <1>1, <1>6, <1>7, <1>9, <2>1 DEF RowsSaved
<1>10. ASSUME NEW i \in 1 .. Len(records), records[i].path = path PROVE FileSaved(i)'
  <2>1. inodes[j].written = records[i].size
    BY <1>10, RecordedNow DEF BackupInv
  <2> QED
    BY <1>2, <1>4, <1>6, <1>10, <2>1 DEF FileSaved
<1>11. ASSUME NEW i \in 1 .. Len(records), records[i].path # path, FileSaved(i)
       PROVE  FileSaved(i)'
  <2>1. records[i].path \in Paths
    BY RecordedNow DEF BackupInv
  <2> QED
    BY <1>1, <1>2, <1>6, <1>7, <1>11, <2>1 DEF FileSaved, Saved
<1>12. SavedStay
  BY <1>9, <1>10, <1>11 DEF SavedStay
<1>13. CopyConsistent(u)'
  <2>1. RowsSaved(copying[u].rows)'
    <3>1. RowsSaved(copying[u].rows)
      BY <1>1, RowsBounded DEF CopyConsistent
    <3>2. RowsSaved(c.rows)
      BY <1>4, <3>1
    <3>3. copying'[u].rows = copying[u].rows
      BY <1>4, <1>6
    <3> QED
      BY <1>9, <3>1, <3>3 DEF RowsSaved
  <2>2. copying'[u].pc = "copy" /\ copying'[u].rows = copying[u].rows
        /\ copying'[u].path \in Paths /\ copying'[u].inode \in 1 .. Len(inodes')
        /\ copying'[u].entries = copying[u].entries \ {path}
    BY <1>2, <1>3, <1>4, <1>6
  <2>3. copying'[u].rows <= Len(records')
    BY <1>2, <2>2, RowsBounded
  <2>4. ASSUME NEW i \in 1 .. copying'[u].rows
        PROVE  records'[i].path \in copying'[u].entries \/ FileSaved(i)'
    <3>1. i \in 1 .. Len(records) /\ i \in 1 .. copying[u].rows
      BY <2>2, RowsBounded
    <3>2. records[i].path \in copying[u].entries \/ FileSaved(i)
      BY <1>1, <3>1, RowsBounded DEF CopyConsistent
    <3>3. CASE records[i].path = path
      BY <1>10, <3>1, <3>3
    <3>4. CASE records[i].path # path
      BY <1>2, <1>11, <2>2, <3>1, <3>2, <3>4
    <3> QED
      BY <3>3, <3>4
  <2> QED
    BY <2>1, <2>2, <2>3, <2>4 DEF CopyConsistent
<1>14. spoiled' \subseteq Paths \cup {RecordsFile}
  BY <1>1, BackupTypes
<1> QED
  BY <1>1, <1>4, <1>7, <1>8, <1>12, <1>13, <1>14, CopyingStep

\* The copy of a file ends.
LEMMA CopyUploadInv ==
    ASSUME BackupInv, NEW u \in Users, CopyUpload(u) PROVE BackupInv'
<1> DEFINE path == copying[u].path
           j == copying[u].inode
           old == snapshot.blobs[path]
<1>0. PICK n \in Chunks :
          /\ n >= copying[u].length /\ n <= inodes[j].written
          /\ snapshot' = [snapshot EXCEPT !.blobs[path] =
                [inode |-> j, written |-> IF @.inode = j THEN Larger(@.written, n) ELSE n]]
  BY DEF CopyUpload
<1> DEFINE blob == [inode |-> j,
                    written |-> IF old.inode = j THEN Larger(old.written, n) ELSE n]
           c == [copying[u] EXCEPT !.pc = "uploads", !.path = NoPath, !.inode = 0, !.length = 0]
<1>1. /\ UNCHANGED transferVars /\ copying' = [copying EXCEPT ![u] = c]
      /\ snapshot' = [snapshot EXCEPT !.blobs[path] = blob]
      /\ spoiled' = IF dir[path] = j THEN spoiled ELSE spoiled \cup {path}
      /\ UNCHANGED promised /\ copying[u].pc = "copy"
  BY <1>0 DEF CopyUpload
<1>2. UNCHANGED <<dir, inodes, records>>
  BY <1>1 DEF transferVars
<1>3. /\ path \in Paths /\ j \in 1 .. Len(inodes) /\ CopyConsistent(u)
      /\ copying[u].length \in Chunks
  BY <1>1, BackupTypes, RowsBounded DEF CopyConsistent, Copying
<1>4. /\ n \in Nat /\ inodes[j].written \in Nat /\ copying[u].length \in Nat
      /\ old.written \in Chunks /\ old.written \in Nat
      /\ old.inode = j => old.written <= inodes[j].written
      /\ j \in Nat /\ j # 0
  <2>1. TransferTypeOK /\ Len(inodes) \in Nat
    BY BackupTypes DEF BackupInv, TransferInv
  <2>2. inodes[j].written \in Nat
    BY <1>3, <2>1, InodeTypes, ChunksBelow
  <2>3. old.written \in Chunks /\ j \in Nat /\ j # 0
    BY <1>3, <2>1, BackupTypes
  <2>4. old.inode = j => old.written <= inodes[j].written
    BY <1>3, <2>3 DEF BackupInv, BlobsBounded
  <2> QED
    BY <1>3, <2>2, <2>3, <2>4, ChunksBelow
<1>5. /\ blob.inode = j /\ blob.written \in Chunks /\ blob.written \in Nat
      /\ blob.written >= n /\ blob.written <= inodes[j].written
      /\ old.inode = j => blob.written >= old.written
      /\ blob \in [inode : Nat, written : Chunks]
  <2>1. CASE old.inode = j /\ old.written > n
    BY <1>0, <1>4, <2>1 DEF Larger
  <2>2. CASE old.inode = j /\ ~(old.written > n)
    BY <1>0, <1>4, <2>2 DEF Larger
  <2>3. CASE old.inode # j
    BY <1>0, <1>4, <2>3
  <2> QED
    BY <2>1, <2>2, <2>3
<1>6. c \in Copying /\ c.pc = "uploads" /\ c.rows = copying[u].rows
      /\ c.entries = copying[u].entries
  BY BackupTypes, ChunksBelow DEF Copying
<1> HIDE DEF c, blob
<1>7. copying'[u] = c /\ \A v \in Users \ {u} : copying'[v] = copying[v]
  BY <1>1, BackupTypes
<1>8. /\ snapshot' \in Snapshot /\ snapshot'.records = snapshot.records
      /\ snapshot'.blobs[path] = blob
      /\ \A p \in Paths \ {path} : snapshot'.blobs[p] = snapshot.blobs[p]
  BY <1>1, <1>3, <1>5, BackupTypes DEF Snapshot
<1>9. BlobsBounded'
  <2> SUFFICES ASSUME NEW p \in Paths, snapshot'.blobs[p].inode # 0
               PROVE  /\ snapshot'.blobs[p].inode \in 1 .. Len(inodes)
                      /\ snapshot'.blobs[p].written <= inodes[snapshot'.blobs[p].inode].written
    BY <1>2 DEF BlobsBounded
  <2>1. CASE p = path
    BY <1>3, <1>5, <1>8, <2>1
  <2>2. CASE p # path
    BY <1>8, <2>2 DEF BackupInv, BlobsBounded
  <2> QED
    BY <2>1, <2>2
<1>10. ASSUME NEW k, RowsSaved(k) PROVE RowsSaved(k)'
  <2>1. spoiled \subseteq spoiled'
    BY <1>1
  <2> QED
    BY <1>1, <1>7, <1>8, <1>10, <2>1 DEF RowsSaved
<1>11. ASSUME NEW i \in 1 .. Len(records), records[i].path = path, FileSaved(i)
       PROVE  FileSaved(i)'
  <2>1. dir[path] # 0 /\ inodes[dir[path]].written = records[i].size
    BY <1>11, RecordedNow DEF BackupInv
  <2>2. CASE dir[path] # j
    BY <1>1, <1>2, <1>11, <2>2 DEF FileSaved
  <2>3. CASE dir[path] = j
    <3>1. CASE Saved(i)
      <4>1. old.inode = j /\ old.written = records[i].size
        BY <1>11, <2>3, <3>1 DEF Saved
      <4>2. blob.written = records[i].size
        BY <1>4, <1>5, <2>1, <2>3, <4>1
      <4>3. blob = [inode |-> dir[path], written |-> records[i].size]
        BY <1>5, <2>3, <4>2
      <4> QED
        BY <1>2, <1>8, <1>11, <4>3 DEF FileSaved, Saved
    <3>2. CASE records[i].path \in spoiled
      BY <1>1, <1>2, <3>2 DEF FileSaved
    <3>3. CASE copying[u].length = records[i].size
      <4>1. blob.written = records[i].size
        BY <1>0, <1>4, <1>5, <2>1, <2>3, <3>3
      <4>2. blob = [inode |-> dir[path], written |-> records[i].size]
        BY <1>5, <2>3, <4>1
      <4> QED
        BY <1>2, <1>8, <1>11, <4>2 DEF FileSaved, Saved
    <3>4. ASSUME NEW w \in Users \ {u}, copying[w].pc = "copy",
                 copying[w].path = records[i].path,
                 copying[w].inode = dir[records[i].path],
                 copying[w].length = records[i].size
          PROVE  FileSaved(i)'
      BY <1>2, <1>7, <3>4 DEF FileSaved
    <3> QED
      BY <1>11, <3>1, <3>2, <3>3, <3>4 DEF FileSaved
  <2> QED
    BY <2>2, <2>3
<1>12. ASSUME NEW i \in 1 .. Len(records), records[i].path # path, FileSaved(i)
       PROVE  FileSaved(i)'
  <2>1. records[i].path \in Paths /\ spoiled \subseteq spoiled'
    BY <1>1, RecordedNow DEF BackupInv
  <2> QED
    BY <1>2, <1>7, <1>8, <1>12, <2>1 DEF FileSaved, Saved
<1>13. SavedStay
  BY <1>10, <1>11, <1>12 DEF SavedStay
<1>14. CopyConsistent(u)'
  <2>1. /\ copying'[u].pc = "uploads" /\ copying'[u].rows = copying[u].rows
        /\ copying'[u].entries = copying[u].entries
    BY <1>6, <1>7
  <2>2. copying'[u].rows <= Len(records')
    BY <1>2, <2>1, RowsBounded
  <2>3. RowsSaved(copying[u].rows)'
    <3>1. RowsSaved(copying[u].rows)
      BY <1>1, <1>3 DEF CopyConsistent
    <3> QED
      BY <1>10, <2>1, <3>1 DEF RowsSaved
  <2>4. ASSUME NEW i \in 1 .. copying'[u].rows
        PROVE  records'[i].path \in copying'[u].entries \/ FileSaved(i)'
    <3>1. i \in 1 .. Len(records) /\ i \in 1 .. copying[u].rows
      BY <2>1, RowsBounded
    <3>2. records[i].path \in copying[u].entries \/ FileSaved(i)
      BY <1>1, <1>3, <3>1 DEF CopyConsistent
    <3> QED
      BY <1>2, <1>11, <1>12, <2>1, <3>1, <3>2
  <2> QED
    BY <2>1, <2>2, <2>3, <2>4 DEF CopyConsistent
<1>15. spoiled' \subseteq Paths \cup {RecordsFile}
  BY <1>1, <1>3, BackupTypes
<1> QED
  BY <1>1, <1>6, <1>8, <1>9, <1>13, <1>14, <1>15, CopyingStep

\* An entry that is gone is not one of a recorded file.
LEMMA SkipUploadInv ==
    ASSUME BackupInv, NEW u \in Users, NEW path \in Paths, SkipUpload(u, path)
    PROVE  BackupInv'
<1> DEFINE c == [copying[u] EXCEPT !.entries = @ \ {path}]
<1>1. /\ UNCHANGED transferVars /\ copying' = [copying EXCEPT ![u] = c]
      /\ UNCHANGED <<snapshot, promised, spoiled>> /\ copying[u].pc = "uploads"
      /\ dir[path] = 0
  BY DEF SkipUpload
<1>2. /\ c \in Copying /\ c.pc = "uploads" /\ c.rows = copying[u].rows
      /\ c.entries = copying[u].entries \ {path}
  BY <1>1, BackupTypes DEF Copying
<1> HIDE DEF c
<1>3. copying'[u] = c /\ UNCHANGED <<dir, inodes, records>>
  BY <1>1, BackupTypes DEF transferVars
<1>4. SavedStay /\ BlobsBounded' /\ snapshot' \in Snapshot
      /\ spoiled' \subseteq Paths \cup {RecordsFile}
  BY <1>1, <1>2, SnapshotUntouched
<1>5. CopyConsistent(u)'
  <2>1. /\ copying'[u].pc = "uploads" /\ copying'[u].rows = copying[u].rows
        /\ copying'[u].entries = copying[u].entries \ {path}
    BY <1>2, <1>3
  <2>2. copying'[u].rows <= Len(records')
    BY <1>3, <2>1, RowsBounded
  <2>3. RowsSaved(copying[u].rows)'
    <3>1. RowsSaved(copying[u].rows) /\ copying[u].rows \in 0 .. Len(records)
      BY <1>1, RowsBounded DEF CopyConsistent
    <3> QED
      BY <1>4, <2>1, <3>1 DEF SavedStay, RowsSaved
  <2>4. ASSUME NEW i \in 1 .. copying'[u].rows
        PROVE  records'[i].path \in copying'[u].entries \/ FileSaved(i)'
    <3>1. i \in 1 .. Len(records) /\ i \in 1 .. copying[u].rows
      BY <2>1, RowsBounded
    <3>2. records[i].path \in copying[u].entries \/ FileSaved(i)
      BY <1>1, <3>1, RowsBounded DEF CopyConsistent
    <3>3. records[i].path # path
      BY <1>1, <3>1, RecordedNow DEF BackupInv
    <3> QED
      BY <1>3, <1>4, <2>1, <3>1, <3>2, <3>3 DEF SavedStay
  <2> QED
    BY <2>1, <2>2, <2>3, <2>4 DEF CopyConsistent
<1> QED
  BY <1>1, <1>2, <1>4, <1>5, CopyingStep

\* A BACKUP that fails leaves the file it was writing in part, and says so.
LEMMA BackupFailsInv ==
    ASSUME BackupInv, NEW u \in Users, BackupFails(u) PROVE BackupInv'
<1>1. /\ UNCHANGED transferVars /\ copying' = [copying EXCEPT ![u] = NotCopying]
      /\ spoiled' = spoiled \cup Destinations(u)
      /\ UNCHANGED <<snapshot, promised>>
  BY DEF BackupFails
<1>2. UNCHANGED <<dir, inodes, records>>
  BY <1>1 DEF transferVars
<1>3. copying'[u] = NotCopying /\ \A v \in Users \ {u} : copying'[v] = copying[v]
  BY <1>1, BackupTypes
<1>4. ASSUME NEW n, RowsSaved(n) PROVE RowsSaved(n)'
  <2>1. copying[u].pc = "records" => RecordsFile \in spoiled'
    BY <1>1 DEF Destinations
  <2> QED
    BY <1>1, <1>3, <1>4, <2>1 DEF RowsSaved
<1>5. ASSUME NEW i, FileSaved(i) PROVE FileSaved(i)'
  <2>1. copying[u].pc = "copy" => copying[u].path \in spoiled'
    BY <1>1 DEF Destinations
  <2> QED
    BY <1>1, <1>2, <1>3, <1>5, <2>1 DEF FileSaved, Saved
<1>6. SavedStay
  BY <1>4, <1>5 DEF SavedStay
<1>7. BlobsBounded'
  BY <1>1, <1>2 DEF BackupInv, BlobsBounded
<1>8. CopyConsistent(u)'
  <2>1. copying'[u].pc = "none" /\ copying'[u].rows = 0
    BY <1>3, BackupTypes
  <2>2. 0 <= Len(records')
    BY <1>2, RowsBounded
  <2> QED
    BY <2>1, <2>2 DEF CopyConsistent
<1>9. spoiled' \subseteq Paths \cup {RecordsFile}
  <2>1. copying[u].pc = "copy" => copying[u].path \in Paths
    BY RowsBounded DEF CopyConsistent
  <2>2. Destinations(u) \subseteq Paths \cup {RecordsFile}
    BY <2>1 DEF Destinations
  <2> QED
    BY <1>1, <2>2, BackupTypes
<1>10. snapshot' \in Snapshot /\ NotCopying \in Copying
  BY <1>1, BackupTypes
<1> QED
  BY <1>1, <1>6, <1>7, <1>8, <1>9, <1>10, CopyingStep

\* A BACKUP that is answered OK promises what it has copied.
LEMMA EndBackupInv ==
    ASSUME BackupInv, NEW u \in Users, EndBackup(u) PROVE BackupInv'
<1>1. /\ UNCHANGED transferVars /\ copying' = [copying EXCEPT ![u] = NotCopying]
      /\ promised' = Larger(promised, copying[u].rows)
      /\ UNCHANGED <<snapshot, spoiled>>
      /\ copying[u].pc = "uploads" /\ copying[u].entries = {}
  BY DEF EndBackup
<1>2. SavedStay /\ BlobsBounded' /\ snapshot' \in Snapshot /\ NotCopying \in Copying
      /\ spoiled' \subseteq Paths \cup {RecordsFile}
  BY <1>1, BackupTypes, SnapshotUntouched
<1>3. copying'[u] = NotCopying /\ UNCHANGED records
  BY <1>1, BackupTypes DEF transferVars
<1>4. CopyConsistent(u)'
  <2>1. copying'[u].pc = "none" /\ copying'[u].rows = 0
    BY <1>3, BackupTypes
  <2>2. 0 <= Len(records')
    BY <1>3, RowsBounded
  <2> QED
    BY <2>1, <2>2 DEF CopyConsistent
<1>5. /\ RowsSaved(copying[u].rows) /\ copying[u].rows \in 0 .. Len(records)
      /\ \A i \in 1 .. copying[u].rows : FileSaved(i)
  BY <1>1, RowsBounded DEF CopyConsistent
<1>6. /\ RowsSaved(promised) /\ promised \in 0 .. Len(records)
      /\ \A i \in 1 .. promised : FileSaved(i)
  BY BackupTypes DEF BackupInv, PromiseKept
<1>7. promised' \in {promised, copying[u].rows}
  BY <1>1 DEF Larger
<1>8. /\ promised' \in 0 .. Len(records)
      /\ RowsSaved(promised') /\ \A i \in 1 .. promised' : FileSaved(i)
  <2>1. CASE promised' = promised
    BY <1>6, <2>1
  <2>2. CASE promised' = copying[u].rows
    BY <1>5, <2>2
  <2> QED
    BY <1>7, <2>1, <2>2
<1> QED
  BY <1>1, <1>2, <1>4, <1>8, CopyingStep

-----------------------------------------------------------------------------
(* The theorems *)

LEMMA BackupInitInv == Init => BackupInv
<1> SUFFICES ASSUME Init PROVE BackupInv
  OBVIOUS
<1>1. TransferInv /\ records = <<>> /\ Len(records) = 0
  BY TransferInitInv DEF Init, TransferInit
<1>2. BackupTypeOK
  BY ChunksBelow DEF Init, BackupTypeOK, Snapshot, NoFile, NotCopying, Copying
<1>3. BlobsBounded
  BY DEF Init, BlobsBounded, NoFile
<1>4. PromiseKept
  BY <1>1 DEF Init, PromiseKept, RowsSaved
<1>5. ASSUME NEW u \in Users PROVE CopyConsistent(u)
  <2>1. copying[u] = NotCopying
    BY DEF Init
  <2>2. copying[u].pc = "none" /\ copying[u].rows = 0
    BY <2>1 DEF NotCopying
  <2>3. copying[u].rows <= Len(records) /\ 0 <= Len(records)
    BY <1>1, <2>2
  <2> QED
    BY <2>2, <2>3 DEF CopyConsistent
<1> QED
  BY <1>1, <1>2, <1>3, <1>4, <1>5 DEF BackupInv

LEMMA BackupNextInv == BackupInv /\ [Next]_vars => BackupInv'
<1> SUFFICES ASSUME BackupInv, [Next]_vars PROVE BackupInv'
  OBVIOUS
<1>1. CASE UNCHANGED vars
  BY <1>1, TransfersKeepBackup DEF vars, transferVars
<1>2. CASE Crash
  BY <1>2, TransfersKeepBackup DEF Crash, TransferNext
<1>3. ASSUME NEW u \in Users, CommandStep(u) PROVE BackupInv'
  BY <1>3, TransfersKeepBackup DEF CommandStep, TransferNext, backupVars
<1>4. ASSUME NEW u \in Users, BackupStep(u) PROVE BackupInv'
  BY <1>4, BeginBackupInv, OpenRecordsInv, SkipRecordsInv, CopyRecordsInv, OpenUploadsInv,
     OpenCopyInv, CopyUploadInv, SkipUploadInv, BackupFailsInv, EndBackupInv
     DEF BackupStep
<1> QED
  BY <1>1, <1>2, <1>3, <1>4 DEF Next

LEMMA BackupInvariant == Spec => []BackupInv
BY BackupInitInv, BackupNextInv, PTL DEF Spec

(* The types of snapshots, and of the transfers beside them.               *)
THEOREM BackupTypeCorrect == Spec => []TypeOK
<1>1. BackupInv => TypeOK
  BY DEF BackupInv, BackupTypeOK, TransferInv, TypeOK
<1> QED
  BY <1>1, BackupInvariant, PTL

(* What a BACKUP answered OK has copied stays in the snapshot, whatever    *)
(* other BACKUPs fail, are killed or run at the same time, except in files *)
(* that one of them has open or has left in a wrong state.                 *)
THEOREM SnapshotsComplete == Spec => []SnapshotComplete
<1>1. BackupInv => SnapshotComplete
  <2> SUFFICES ASSUME BackupInv PROVE SnapshotComplete
    OBVIOUS
  <2>1. \A n : RowsSaved(n) => snapshot.records >= n \/ Unsettled(RecordsFile)
    BY DEF RowsSaved, Unsettled, Destinations
  <2>2. \A i : FileSaved(i) => Saved(i) \/ Unsettled(records[i].path)
    BY DEF FileSaved, Unsettled, Destinations
  <2> QED
    BY <2>1, <2>2 DEF BackupInv, PromiseKept, SnapshotComplete
<1> QED
  BY <1>1, BackupInvariant, PTL

(* However an UPLOAD ends beside a BACKUP, its stream is in step.          *)
THEOREM StreamsInStepBesideBackup == Spec => []StreamInStep
BY BackupDisturbsNoTransfer, StreamsStayInStep, PTL

(* The records of files.db keep their whole files beside a BACKUP.         *)
THEOREM RecordedFilesWholeBesideBackup == Spec => []RecordedFilesWhole
BY BackupDisturbsNoTransfer, RecordedFilesStayWhole, PTL

(* And downloads of them are whole.                                        *)
THEOREM ListedDownloadsWholeBesideBackup == Spec => []ListedDownloadsWhole
BY BackupDisturbsNoTransfer, ListedDownloadsAreWhole, PTL
=============================================================================

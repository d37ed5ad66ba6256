------------------------ MODULE NotificationsProofs ------------------------
(***************************************************************************)
(* Theorems about the notification file, for any number of threads,        *)
(* accounts and rows.                                                      *)
(***************************************************************************)
EXTENDS Notifications, SequenceTheorems, TLAPS

-----------------------------------------------------------------------------
(* The inductive invariant *)

(* The id a thread is about to append is above those on file; the second   *)
(* file is the first one as far as it goes, with the rows in question      *)
(* marked.                                                                 *)
ThreadConsistent(t) ==
    /\ op[t].pc = "append" =>
        /\ op[t].account \in Accounts
        /\ op[t].id # 0
        /\ \A i \in 1 .. Len(rows) : rows[i].id < op[t].id
    /\ op[t].pc = "copy" =>
        /\ op[t].account \in Accounts
        /\ Len(copy) <= Len(rows)
        /\ \A i \in 1 .. Len(copy) : copy[i] = Marked(rows[i], op[t].account, op[t].id)

NotesInv ==
    /\ TypeOK
    /\ MutexHeldInside
    /\ IdsIncrease
    /\ AcknowledgedStaysRead
    /\ \A t \in Threads : ThreadConsistent(t)

-----------------------------------------------------------------------------
(* Facts *)

LEMMA NoteTypes ==
    ASSUME TypeOK
    PROVE  /\ Len(rows) \in Nat /\ DOMAIN rows = 1 .. Len(rows)
           /\ Len(copy) \in Nat /\ DOMAIN copy = 1 .. Len(copy)
           /\ \A i \in 1 .. Len(rows) :
                /\ rows[i] \in Row /\ rows[i].id \in 1 .. MaxRows
                /\ rows[i].account \in Accounts
           /\ \A t \in Threads : op[t] \in Op /\ op[t].id \in 0 .. MaxRows
           /\ Idle \in Op
<1>1. rows \in Seq(Row) /\ copy \in Seq(Row) /\ op \in [Threads -> Op]
  BY DEF TypeOK
<1>2. /\ Len(rows) \in Nat /\ DOMAIN rows = 1 .. Len(rows)
      /\ Len(copy) \in Nat /\ DOMAIN copy = 1 .. Len(copy)
  BY <1>1, LenProperties
<1>3. ASSUME NEW i \in 1 .. Len(rows)
      PROVE  rows[i] \in Row /\ rows[i].id \in 1 .. MaxRows /\ rows[i].account \in Accounts
  <2>1. rows[i] \in Row
    BY <1>1, <1>3, ElementOfSeq
  <2> QED
    BY <2>1 DEF Row
<1>4. ASSUME NEW t \in Threads PROVE op[t] \in Op /\ op[t].id \in 0 .. MaxRows
  BY <1>1 DEF Op
<1>5. Idle \in Op
  BY NotificationsAssumption DEF Idle, Op
<1> QED
  BY <1>2, <1>3, <1>4, <1>5

\* Marking a row makes it read, if anything.
LEMMA MarkedRow ==
    ASSUME NEW row \in Row, NEW account, NEW id
    PROVE  /\ Marked(row, account, id) \in Row
           /\ Marked(row, account, id).id = row.id
           /\ Marked(row, account, id).account = row.account
           /\ row.read => Marked(row, account, id).read
           /\ Concerns(row, account, id) => Marked(row, account, id).read
<1>1. CASE Concerns(row, account, id)
  BY <1>1 DEF Marked, Row
<1>2. CASE ~Concerns(row, account, id)
  BY <1>2 DEF Marked
<1> QED
  BY <1>1, <1>2

\* Only the thread that holds the mutex is inside.
LEMMA OthersIdle ==
    ASSUME MutexHeldInside, NEW t \in Threads, op[t].pc # "idle"
    PROVE  mutex = t /\ \A v \in Threads \ {t} : op[v].pc = "idle"
BY DEF MutexHeldInside

-----------------------------------------------------------------------------
(* The steps *)

\* A thread leaves; what is on file is still in order.
LEMMA LeaveInv ==
    ASSUME NotesInv, NEW t \in Threads, op[t].pc # "idle", Release(t),
           rows' \in Seq(Row), copy' \in Seq(Row), acked' \subseteq 1 .. MaxRows,
           IdsIncrease', AcknowledgedStaysRead'
    PROVE  NotesInv'
<1>1. \A v \in Threads \ {t} : op[v].pc = "idle"
  BY OthersIdle DEF NotesInv
<1>2. /\ mutex' = NoThread /\ op' = [op EXCEPT ![t] = Idle]
      /\ op \in [Threads -> Op] /\ Idle \in Op
  BY NoteTypes DEF NotesInv, TypeOK, Release
<1>3. \A v \in Threads : op'[v].pc = "idle"
  BY <1>1, <1>2 DEF Idle
<1>4. TypeOK'
  BY <1>2 DEF TypeOK
<1>5. MutexHeldInside'
  BY <1>2, <1>3, NotificationsAssumption DEF MutexHeldInside
<1>6. ASSUME NEW v \in Threads PROVE ThreadConsistent(v)'
  BY <1>3 DEF ThreadConsistent
<1> QED
  BY <1>4, <1>5, <1>6 DEF NotesInv

\* A thread enters.
LEMMA EnterInv ==
    ASSUME NotesInv, NEW t \in Threads, op[t].pc = "idle", Acquire(t),
           NEW new \in Op, op' = [op EXCEPT ![t] = new], new.pc # "idle",
           UNCHANGED <<rows, acked>>, copy' \in Seq(Row), ThreadConsistent(t)'
    PROVE  NotesInv'
<1>1. /\ op \in [Threads -> Op] /\ mutex = NoThread /\ mutex' = t
  BY DEF NotesInv, TypeOK, Acquire
<1>2. \A v \in Threads : op[v].pc = "idle"
  BY <1>1, NotificationsAssumption DEF NotesInv, MutexHeldInside
<1>3. op'[t] = new /\ \A v \in Threads \ {t} : op'[v] = op[v]
  BY <1>1
<1>4. TypeOK'
  BY <1>1 DEF NotesInv, TypeOK
<1>5. MutexHeldInside'
  BY <1>1, <1>2, <1>3 DEF MutexHeldInside
<1>6. IdsIncrease' /\ AcknowledgedStaysRead'
  BY DEF NotesInv, IdsIncrease, AcknowledgedStaysRead
<1>7. ASSUME NEW v \in Threads \ {t} PROVE ThreadConsistent(v)'
  BY <1>2, <1>3 DEF ThreadConsistent
<1> QED
  BY <1>4, <1>5, <1>6, <1>7 DEF NotesInv

\* notification_add reads the largest id.
LEMMA BeginAddInv ==
    ASSUME NotesInv, NEW t \in Threads, NEW account \in Accounts, BeginAdd(t, account)
    PROVE  NotesInv'
<1>1. PICK id \in 0 .. MaxRows :
            IsNextId(id) /\ op' = [op EXCEPT ![t] =
                                    [pc |-> "append", account |-> account, id |-> id]]
  BY DEF BeginAdd
<1> DEFINE new == [pc |-> "append", account |-> account, id |-> id]
<1>2. TypeOK /\ op \in [Threads -> Op]
  BY DEF NotesInv, TypeOK
<1>3. new \in Op
  BY DEF Op
<1>4. id # 0
  <2>1. ASSUME NEW i \in DOMAIN rows, rows[i].id + 1 = id PROVE id # 0
    <3>1. rows[i].id \in 1 .. MaxRows
      BY <1>2, NoteTypes
    <3> QED
      BY <2>1, <3>1
  <2> QED
    BY <1>1, <2>1 DEF IsNextId
<1>5. ThreadConsistent(t)'
  <2>1. op'[t] = new /\ rows' = rows
    BY <1>1, <1>2 DEF BeginAdd
  <2>2. \A i \in 1 .. Len(rows) : rows[i].id < id
    BY <1>1, <1>2, NoteTypes DEF IsNextId
  <2> QED
    BY <1>4, <2>1, <2>2 DEF ThreadConsistent
<1>6. op[t].pc = "idle" /\ Acquire(t) /\ UNCHANGED <<rows, acked>> /\ copy' \in Seq(Row)
  BY <1>2 DEF BeginAdd, TypeOK
<1> QED
  BY <1>1, <1>3, <1>5, <1>6, EnterInv

\* rewrite_marked opens the second file.
LEMMA BeginMarkInv ==
    ASSUME NotesInv, NEW t \in Threads, NEW account \in Accounts, NEW id \in 0 .. MaxRows,
           BeginMark(t, account, id)
    PROVE  NotesInv'
<1> DEFINE new == [pc |-> "copy", account |-> account, id |-> id]
<1>1. /\ op[t].pc = "idle" /\ Acquire(t) /\ UNCHANGED <<rows, acked>>
      /\ op' = [op EXCEPT ![t] = new] /\ copy' = <<>>
  BY DEF BeginMark
<1>2. TypeOK /\ op \in [Threads -> Op]
  BY DEF NotesInv, TypeOK
<1>3. new \in Op
  BY DEF Op
<1>4. ThreadConsistent(t)'
  <2>1. op'[t] = new /\ rows' = rows /\ Len(copy') = 0 /\ Len(rows) \in Nat
    BY <1>1, <1>2, NoteTypes
  <2> QED
    BY <2>1 DEF ThreadConsistent
<1>5. copy' \in Seq(Row)
  BY <1>1
<1> QED
  BY <1>1, <1>3, <1>4, <1>5, EnterInv

\* The new row is the last and has the largest id.
LEMMA AppendRowInv ==
    ASSUME NotesInv, NEW t \in Threads, AppendRow(t) PROVE NotesInv'
<1> DEFINE row == [id |-> op[t].id, account |-> op[t].account, read |-> FALSE]
<1>1. /\ op[t].pc = "append" /\ rows' = Append(rows, row)
      /\ Release(t) /\ UNCHANGED <<copy, acked>>
  BY DEF AppendRow
<1>2. /\ TypeOK /\ rows \in Seq(Row) /\ Len(rows) \in Nat /\ DOMAIN rows = 1 .. Len(rows)
      /\ op[t].id \in 0 .. MaxRows
      /\ copy \in Seq(Row) /\ acked \subseteq 1 .. MaxRows
  BY NoteTypes DEF NotesInv, TypeOK
<1>3. /\ op[t].account \in Accounts /\ op[t].id # 0
      /\ \A i \in 1 .. Len(rows) : rows[i].id < op[t].id
  BY <1>1 DEF NotesInv, ThreadConsistent
<1>4. row \in Row /\ row.id = op[t].id
  BY <1>2, <1>3, NotificationsAssumption DEF Row
<1> HIDE DEF row
<1>5. /\ rows' \in Seq(Row) /\ DOMAIN rows' = 1 .. Len(rows) + 1
      /\ \A i \in 1 .. Len(rows) : rows'[i] = rows[i]
      /\ rows'[Len(rows) + 1] = row
  BY <1>1, <1>2, <1>4, AppendProperties
<1>6. IdsIncrease'
  <2> SUFFICES ASSUME NEW i \in 1 .. Len(rows) + 1, NEW j \in 1 .. Len(rows) + 1, i < j
               PROVE  rows'[i].id < rows'[j].id
    BY <1>5 DEF IdsIncrease
  <2>1. i \in 1 .. Len(rows) /\ rows'[i] = rows[i]
    BY <1>2, <1>5
  <2>2. CASE j = Len(rows) + 1
    BY <1>3, <1>4, <1>5, <2>1, <2>2
  <2>3. CASE j # Len(rows) + 1
    <3>1. j \in 1 .. Len(rows)
      BY <1>2, <2>3
    <3>2. rows[i].id < rows[j].id
      BY <1>2, <2>1, <3>1 DEF NotesInv, IdsIncrease
    <3> QED
      BY <1>5, <2>1, <3>1, <3>2
  <2> QED
    BY <2>2, <2>3
<1>7. AcknowledgedStaysRead'
  <2> SUFFICES ASSUME NEW id \in acked
               PROVE  \E i \in DOMAIN rows' : rows'[i].id = id /\ rows'[i].read
    BY <1>1 DEF AcknowledgedStaysRead
  <2>1. PICK i \in 1 .. Len(rows) : rows[i].id = id /\ rows[i].read
    BY <1>2 DEF NotesInv, AcknowledgedStaysRead
  <2>2. i \in DOMAIN rows' /\ rows'[i] = rows[i]
    BY <1>2, <1>5
  <2> QED
    BY <2>1, <2>2
<1> QED
  BY <1>1, <1>2, <1>5, <1>6, <1>7, LeaveInv

\* The next row is copied, marked or not.
LEMMA CopyRowInv ==
    ASSUME NotesInv, NEW t \in Threads, CopyRow(t) PROVE NotesInv'
<1> DEFINE n   == Len(copy) + 1
           row == Marked(rows[n], op[t].account, op[t].id)
<1>1. /\ op[t].pc = "copy" /\ Len(copy) < Len(rows)
      /\ copy' = Append(copy, row) /\ UNCHANGED <<rows, mutex, op, acked>>
  BY DEF CopyRow
<1>2. /\ TypeOK /\ copy \in Seq(Row) /\ Len(copy) \in Nat /\ Len(rows) \in Nat
      /\ n \in 1 .. Len(rows)
  BY <1>1, NoteTypes DEF NotesInv, TypeOK
<1>3. row \in Row
  BY <1>2, NoteTypes, MarkedRow
<1> HIDE DEF row
<1>4. /\ copy' \in Seq(Row) /\ Len(copy') = n
      /\ \A i \in 1 .. Len(copy) : copy'[i] = copy[i]
      /\ copy'[n] = row
  BY <1>1, <1>2, <1>3, AppendProperties
<1>5. ThreadConsistent(t)'
  <2>1. /\ op[t].account \in Accounts
        /\ \A i \in 1 .. Len(copy) : copy[i] = Marked(rows[i], op[t].account, op[t].id)
    BY <1>1 DEF NotesInv, ThreadConsistent
  <2>2. ASSUME NEW i \in 1 .. n
        PROVE  copy'[i] = Marked(rows[i], op[t].account, op[t].id)
    BY <1>2, <1>4, <2>1 DEF row
  <2>3. Len(copy') <= Len(rows)
    BY <1>2, <1>4
  <2>4. \A i \in 1 .. Len(copy') : copy'[i] = Marked(rows[i], op[t].account, op[t].id)'
    BY <1>1, <1>4, <2>2 DEF Marked, Concerns
  <2> QED
    BY <1>1, <2>1, <2>3, <2>4 DEF ThreadConsistent
<1>6. ASSUME NEW v \in Threads PROVE ThreadConsistent(v)'
  <2>1. CASE v = t
    BY <1>5, <2>1
  <2>2. CASE v # t
    <3>1. op'[v].pc = "idle"
      BY <1>1, <2>2, OthersIdle DEF NotesInv
    <3> QED
      BY <3>1 DEF ThreadConsistent
  <2> QED
    BY <2>1, <2>2
<1>7. TypeOK' /\ MutexHeldInside' /\ IdsIncrease' /\ AcknowledgedStaysRead'
  BY <1>1, <1>4 DEF NotesInv, TypeOK, MutexHeldInside, IdsIncrease, AcknowledgedStaysRead
<1> QED
  BY <1>6, <1>7 DEF NotesInv

\* What the second file is when every row has been copied.
LEMMA CopiedRows ==
    ASSUME NotesInv, NEW t \in Threads, Copied(t)
    PROVE  /\ op[t].account \in Accounts /\ Len(copy) = Len(rows)
           /\ \A i \in 1 .. Len(rows) :
                /\ copy[i] = Marked(rows[i], op[t].account, op[t].id)
                /\ copy[i].id = rows[i].id
                /\ rows[i].read => copy[i].read
                /\ Concerns(rows[i], op[t].account, op[t].id) => copy[i].read
<1>1. /\ op[t].account \in Accounts /\ Len(copy) = Len(rows)
      /\ \A i \in 1 .. Len(rows) : copy[i] = Marked(rows[i], op[t].account, op[t].id)
  BY DEF Copied, NotesInv, ThreadConsistent
<1>2. \A i \in 1 .. Len(rows) : rows[i] \in Row
  BY NoteTypes DEF NotesInv
<1> QED
  BY <1>1, <1>2, MarkedRow

\* The second file takes the place of the first.
LEMMA RenameInv ==
    ASSUME NotesInv, NEW t \in Threads, Rename(t) PROVE NotesInv'
<1>1. /\ Copied(t) /\ rows' = copy /\ copy' = <<>> /\ Release(t)
      /\ acked' = acked \cup Acknowledged(t) /\ op[t].pc # "idle"
  BY DEF Rename, Copied
<1>2. /\ TypeOK /\ copy \in Seq(Row) /\ copy' \in Seq(Row) /\ acked \subseteq 1 .. MaxRows
      /\ Len(rows) \in Nat
      /\ DOMAIN rows = 1 .. Len(rows) /\ DOMAIN rows' = 1 .. Len(rows)
  BY <1>1, NoteTypes, CopiedRows DEF NotesInv, TypeOK
<1>3. \A i \in 1 .. Len(rows) :
        /\ rows'[i].id = rows[i].id
        /\ rows[i].read => rows'[i].read
        /\ Concerns(rows[i], op[t].account, op[t].id) => rows'[i].read
  BY <1>1, CopiedRows
<1>4. IdsIncrease'
  BY <1>2, <1>3 DEF NotesInv, IdsIncrease
<1>5. AcknowledgedStaysRead'
  <2> SUFFICES ASSUME NEW id \in acked'
               PROVE  \E i \in DOMAIN rows' : rows'[i].id = id /\ rows'[i].read
    BY DEF AcknowledgedStaysRead
  <2>1. CASE id \in acked
    BY <1>2, <1>3, <2>1 DEF NotesInv, AcknowledgedStaysRead
  <2>2. CASE id \in Acknowledged(t)
    BY <1>2, <1>3, <2>2 DEF Acknowledged
  <2> QED
    BY <1>1, <2>1, <2>2
<1>6. acked' \subseteq 1 .. MaxRows
  <2>1. Acknowledged(t) \subseteq 1 .. MaxRows
    BY <1>2, NoteTypes DEF Acknowledged
  <2> QED
    BY <1>1, <1>2, <2>1
<1> QED
  BY <1>1, <1>2, <1>4, <1>5, <1>6, LeaveInv

\* What fails, or finds nothing, leaves the first file as it is.
LEMMA LeaveRowsInv ==
    ASSUME NotesInv, NEW t \in Threads,
           AppendRowFails(t) \/ RenameFails(t) \/ NotFound(t) \/ CopyFails(t)
    PROVE  NotesInv'
<1>1. /\ op[t].pc # "idle" /\ Release(t) /\ UNCHANGED <<rows, acked>>
      /\ copy' = <<>> \/ copy' = copy
  BY DEF AppendRowFails, RenameFails, NotFound, CopyFails, Copied
<1>2. rows' \in Seq(Row) /\ copy' \in Seq(Row) /\ acked' \subseteq 1 .. MaxRows
  <2>1. <<>> \in Seq(Row)
    OBVIOUS
  <2> QED
    BY <1>1, <2>1 DEF NotesInv, TypeOK
<1>3. IdsIncrease' /\ AcknowledgedStaysRead'
  BY <1>1 DEF NotesInv, IdsIncrease, AcknowledgedStaysRead
<1> QED
  BY <1>1, <1>2, <1>3, LeaveInv

\* After a kill nobody is inside.
LEMMA CrashInv == ASSUME NotesInv, Crash PROVE NotesInv'
<1>1. \A t \in Threads : op'[t].pc = "idle"
  BY DEF Crash, Idle
<1>2. TypeOK'
  <2>1. Idle \in Op
    BY NoteTypes DEF NotesInv
  <2> QED
    BY <2>1 DEF NotesInv, TypeOK, Crash
<1>3. MutexHeldInside'
  BY <1>1, NotificationsAssumption DEF MutexHeldInside, Crash
<1>4. IdsIncrease' /\ AcknowledgedStaysRead'
  BY DEF NotesInv, IdsIncrease, AcknowledgedStaysRead, Crash
<1>5. \A t \in Threads : ThreadConsistent(t)'
  BY <1>1 DEF ThreadConsistent
<1> QED
  BY <1>2, <1>3, <1>4, <1>5 DEF NotesInv

LEMMA NotesInitInv == Init => NotesInv
<1> SUFFICES ASSUME Init PROVE NotesInv
  OBVIOUS
<1>1. /\ rows = <<>> /\ copy = <<>> /\ mutex = NoThread /\ acked = {}
      /\ op = [t \in Threads |-> Idle]
  BY DEF Init
<1>2. \A t \in Threads : op[t].pc = "idle"
  BY <1>1 DEF Idle
<1>3. Idle \in Op
  BY NotificationsAssumption DEF Idle, Op
<1> QED
  BY <1>1, <1>2, <1>3, NotificationsAssumption
  DEF NotesInv, TypeOK, MutexHeldInside, IdsIncrease, AcknowledgedStaysRead, ThreadConsistent

LEMMA NotesNextInv == NotesInv /\ [Next]_vars => NotesInv'
<1> SUFFICES ASSUME NotesInv, [Next]_vars PROVE NotesInv'
  OBVIOUS
<1>1. CASE Crash
  BY <1>1, CrashInv
<1>2. ASSUME NEW t \in Threads, AddStep(t) PROVE NotesInv'
  BY <1>2, BeginAddInv, AppendRowInv, LeaveRowsInv DEF AddStep
<1>3. ASSUME NEW t \in Threads, MarkStep(t) PROVE NotesInv'
  BY <1>3, BeginMarkInv, CopyRowInv, RenameInv, LeaveRowsInv DEF MarkStep
<1>4. CASE UNCHANGED vars
  BY <1>4 DEF vars, NotesInv, TypeOK, MutexHeldInside, IdsIncrease, AcknowledgedStaysRead,
              ThreadConsistent, Marked, Concerns
<1> QED
  BY <1>1, <1>2, <1>3, <1>4 DEF Next

LEMMA NotesInvariant == Spec => []NotesInv
BY NotesInitInv, NotesNextInv, PTL DEF Spec

-----------------------------------------------------------------------------
(* The refinement *)

FileBoard == {rows[i] : i \in DOMAIN rows}

LEMMA BoardInit == Init => Board!Init
BY DEF Init, Board!Init

\* Appending a row puts a notification up.
LEMMA AppendRowAdds ==
    ASSUME NotesInv, NEW t \in Threads, AppendRow(t)
    PROVE  \E a \in Accounts : Board!Add(a)
<1> DEFINE row == [id |-> op[t].id, account |-> op[t].account, read |-> FALSE]
<1>1. op[t].pc = "append" /\ rows' = Append(rows, row)
  BY DEF AppendRow
<1>2. /\ rows \in Seq(Row) /\ Len(rows) \in Nat /\ DOMAIN rows = 1 .. Len(rows)
      /\ op[t].id \in 0 .. MaxRows
  BY NoteTypes DEF NotesInv, TypeOK
<1>3. /\ op[t].account \in Accounts /\ op[t].id # 0
      /\ \A i \in 1 .. Len(rows) : rows[i].id < op[t].id
  BY <1>1 DEF NotesInv, ThreadConsistent
<1>4. row \in Row /\ op[t].id \in 1 .. MaxRows
  BY <1>2, <1>3, NotificationsAssumption DEF Row
<1>5. /\ DOMAIN rows' = 1 .. Len(rows) + 1
      /\ \A i \in 1 .. Len(rows) : rows'[i] = rows[i]
      /\ rows'[Len(rows) + 1] = row
  BY <1>1, <1>2, <1>4, AppendProperties
<1>6. FileBoard' = FileBoard \cup {row}
  <2> HIDE DEF row
  <2>1. \A i \in 1 .. Len(rows) + 1 : i = Len(rows) + 1 \/ i \in 1 .. Len(rows)
    BY <1>2
  <2>2. 1 .. Len(rows) \subseteq 1 .. Len(rows) + 1 /\ Len(rows) + 1 \in 1 .. Len(rows) + 1
    BY <1>2
  <2>3. FileBoard' \subseteq FileBoard \cup {row}
    BY <1>2, <1>5, <2>1 DEF FileBoard
  <2>4. FileBoard \cup {row} \subseteq FileBoard'
    BY <1>2, <1>5, <2>2 DEF FileBoard
  <2> QED
    BY <2>3, <2>4
<1>7. \A n \in FileBoard : n.id < op[t].id
  BY <1>2, <1>3 DEF FileBoard
<1>8. PICK a \in Accounts : a = op[t].account
  BY <1>3
<1>9. Board!Add(a)
  BY <1>4, <1>6, <1>7, <1>8 DEF Board!Add, FileBoard
<1> QED
  BY <1>9

\* Renaming takes notifications of one account down as read, and no others.
LEMMA RenameReads ==
    ASSUME NotesInv, NEW t \in Threads, Rename(t)
    PROVE  \E a \in Accounts : Board!ReadOne(a) \/ Board!ReadAll(a)
<1>0. PICK account \in Accounts, id \in 0 .. MaxRows : account = op[t].account /\ id = op[t].id
  <2>1. Copied(t) /\ op[t].id \in 0 .. MaxRows
    BY NoteTypes DEF Rename, NotesInv
  <2> QED
    BY <2>1, CopiedRows
<1> DEFINE Mark(n) == IF Concerns(n, account, id) THEN [n EXCEPT !.read = TRUE] ELSE n
<1>1. Copied(t) /\ rows' = copy /\ (id = All \/ Found(t))
  BY <1>0 DEF Rename
<1>2. /\ DOMAIN rows = 1 .. Len(rows) /\ DOMAIN rows' = 1 .. Len(rows)
      /\ \A i \in 1 .. Len(rows) : rows'[i] = Mark(rows[i])
  <2>1. /\ DOMAIN rows = 1 .. Len(rows) /\ DOMAIN copy = 1 .. Len(rows)
        /\ \A i \in 1 .. Len(rows) : copy[i] = Marked(rows[i], account, id)
    BY <1>0, <1>1, NoteTypes, CopiedRows DEF NotesInv
  <2> QED
    BY <1>1, <2>1 DEF Marked
<1>3. FileBoard' = {Mark(n) : n \in FileBoard}
  <2> HIDE DEF Mark
  <2> QED
    BY <1>2 DEF FileBoard
<1>4. CASE id = All
  <2>1. \A n \in FileBoard :
          Mark(n) = IF n.account = account /\ n.id \in {m.id : m \in FileBoard}
                      THEN [n EXCEPT !.read = TRUE] ELSE n
    BY <1>4 DEF Concerns
  <2>2. FileBoard' = {IF n.account = account /\ n.id \in {m.id : m \in FileBoard}
                        THEN [n EXCEPT !.read = TRUE] ELSE n : n \in FileBoard}
    BY <1>3, <2>1
  <2>3. Board!ReadAll(account)
    BY <2>2 DEF Board!ReadAll, Board!Read, FileBoard
  <2> QED
    BY <2>3
<1>5. CASE id # All
  <2>1. PICK i \in DOMAIN rows : Concerns(rows[i], account, id)
    BY <1>0, <1>1, <1>5 DEF Found
  <2>2. PICK n \in FileBoard : n.account = account /\ n.id = id
    BY <1>5, <2>1 DEF Concerns, FileBoard
  <2>3. \A m \in FileBoard :
          Mark(m) = IF m.account = account /\ m.id \in {n.id}
                      THEN [m EXCEPT !.read = TRUE] ELSE m
    BY <1>5, <2>2 DEF Concerns
  <2>4. FileBoard' = {IF m.account = account /\ m.id \in {n.id}
                        THEN [m EXCEPT !.read = TRUE] ELSE m : m \in FileBoard}
    BY <1>3, <2>3
  <2>5. Board!Read(account, {n.id})
    BY <2>4 DEF Board!Read, FileBoard
  <2>6. Board!ReadOne(account)
    BY <2>2, <2>5 DEF Board!ReadOne, FileBoard
  <2> QED
    BY <2>6
<1> QED
  BY <1>4, <1>5

\* Every step of the file is a step of the board or leaves it as it is.
LEMMA BoardNext == NotesInv /\ [Next]_vars => Board!Next \/ FileBoard' = FileBoard
<1> SUFFICES ASSUME NotesInv, [Next]_vars PROVE Board!Next \/ FileBoard' = FileBoard
  OBVIOUS
<1>1. ASSUME NEW t \in Threads, AppendRow(t) PROVE Board!Next
  BY <1>1, AppendRowAdds DEF Board!Next
<1>2. ASSUME NEW t \in Threads, Rename(t) PROVE Board!Next
  BY <1>2, RenameReads DEF Board!Next
<1>3. \/ UNCHANGED rows
      \/ \E t \in Threads : AppendRow(t) \/ Rename(t)
  BY DEF Next, vars, Crash, AddStep, MarkStep, BeginAdd, AppendRowFails, BeginMark, CopyRow,
         RenameFails, NotFound, CopyFails
<1> QED
  BY <1>1, <1>2, <1>3 DEF FileBoard

-----------------------------------------------------------------------------
(* The theorems *)

(* Types: the second file holds nothing that is not a notification either, *)
(* and a command is for an account.                                        *)
THEOREM NotificationTypeCorrect == Spec => []TypeOK
<1>1. NotesInv => TypeOK
  BY DEF NotesInv
<1> QED
  BY <1>1, NotesInvariant, PTL

(* However a command ends, notification_mutex is free when no thread is    *)
(* inside notification.c, and held by the one that is.                     *)
THEOREM MutexNeverLeftLocked == Spec => []MutexHeldInside
<1>1. NotesInv => MutexHeldInside
  BY DEF NotesInv
<1> QED
  BY <1>1, NotesInvariant, PTL

(* Ids grow along the file: MARK_READ is about one notification.           *)
THEOREM IdsAlwaysIncrease == Spec => []IdsIncrease
<1>1. NotesInv => IdsIncrease
  BY DEF NotesInv
<1> QED
  BY <1>1, NotesInvariant, PTL

(* What an account was told is read is never unread again.                 *)
THEOREM AcknowledgedNeverUnread == Spec => []AcknowledgedStaysRead
<1>1. NotesInv => AcknowledgedStaysRead
  BY DEF NotesInv
<1> QED
  BY <1>1, NotesInvariant, PTL

(* The file with its rewriting, failures and kills is a board on which     *)
(* notifications are put up, and read by their accounts, in one step each. *)
THEOREM FileImplementsBoard == Spec => ImplementsBoard
<1>1. NotesInv /\ [Next]_vars => [Board!Next]_FileBoard
  BY BoardNext
<1> QED
  BY <1>1, BoardInit, NotesInvariant, PTL DEF Spec, ImplementsBoard, Board!Spec, FileBoard
=============================================================================

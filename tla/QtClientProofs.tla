--------------------------- MODULE QtClientProofs ---------------------------
(***************************************************************************)
(* Theorems about the Qt client and its connection, for any number of      *)
(* requests, of pushes on their way and of chunks of an attachment.        *)
(***************************************************************************)
EXTENDS QtClient, SequenceTheorems, TLAPS

-----------------------------------------------------------------------------
(* The inductive invariant *)

(* What comes to the client is s, of which it has l chunks to take for     *)
(* chunks; r are the requests so far, p the one that waits (0: none), ts   *)
(* those on their way to the server.                                       *)

\* An answer of one line, or the line that ends one of several.
Final(kind, text) ==
    \/ kind \notin {"list", "view"}
    \/ kind = "list" /\ text = "endlist"
    \/ kind = "view" /\ text = "endview"
    \/ text = "err"

Expected(e, r, p) ==
    \/ e.request \in {0, p}
    \/ r[e.request] \in Unawaited
    \/ e.text = "chunk"

\* The request that waits is at the server or its answer has begun to come.
Asked(s, r, p, ts) ==
    \A i \in DOMAIN ts :
        \/ r[ts[i]] \in Unawaited
        \/ /\ ts[i] = p
           /\ \A j \in DOMAIN ts : ts[j] = p => j = i
           /\ \A k \in DOMAIN s : s[k].request # p

\* Nothing but a payload follows the end of an answer.
EndsLast(s, r, p) ==
    \A i, j \in DOMAIN s :
        i < j /\ p # 0 /\ s[i].request = p /\ s[j].request = p =>
            s[j].text = "chunk" \/ ~Final(r[p], s[i].text)

InFile(s, h, i) == s[h].text = "file" /\ h < i /\ i <= h + s[h].size

\* Chunks are where the client expects them or where a header announces them.
Framed(s, l) ==
    /\ l <= Len(s)
    /\ \A h \in DOMAIN s : s[h].text = "file" => h + s[h].size <= Len(s)
    /\ \A i \in DOMAIN s :
          s[i].text = "chunk" <=> i <= l \/ \E h \in DOMAIN s : InFile(s, h, i)

InStep(s, r, p, ts, l) ==
    /\ \A i \in DOMAIN s : Expected(s[i], r, p)
    /\ Asked(s, r, p, ts)
    /\ EndsLast(s, r, p)
    /\ Framed(s, l)

\* What is on its way to the client, or not yet sent.
Coming == buffer \o answering

\* What an item can be, of the request it belongs to.
Belongs(e) ==
    /\ e.request \in 0 .. Len(requests)
    /\ e.request = 0 => \/ e.text = "greeting"
                        \/ (session /\ e.text \in {"message", "event"})
    /\ e.request # 0 =>
          LET kind == requests[e.request] IN
          /\ kind = "login" => e.text = "err" \/ (session /\ e.text = "ok")
          /\ kind \in {"register", "group"} => e.text = "err"
          /\ kind = "history" => e.text = "message" \/ stray # "none"
          /\ e.text \in {"file", "chunk"} => kind = "download"

Items == \A i \in DOMAIN Coming : Belongs(Coming[i])

Windows ==
    /\ window = "login" => requests \in Seq(LoginKinds) /\ timers = {} /\ left = 0
    /\ ~up => toServer = <<>> /\ buffer = <<>> /\ answering = <<>>
    /\ session => up
    /\ pending # 0 => requests[pending] \notin Unawaited
    /\ stray \in {"none", "greeting", "event", "group", "payload"}
    /\ up /\ stray \notin {"none", "greeting"} => session

\* Until something is mistaken, the client is in step with the server.
Together == InStep(Coming, requests, pending, toServer, left)

Inv ==
    /\ TypeOK
    /\ Items
    /\ Windows
    /\ LoginGenuine
    /\ up /\ stray = "none" => Together

-----------------------------------------------------------------------------
(* Facts *)

LEMMA AppendFacts ==
    ASSUME NEW S, NEW s \in Seq(S), NEW e \in S
    PROVE  /\ Append(s, e) \in Seq(S)
           /\ Len(Append(s, e)) = Len(s) + 1
           /\ Len(s) \in Nat /\ DOMAIN s = 1 .. Len(s)
           /\ DOMAIN Append(s, e) = 1 .. Len(s) + 1
           /\ Append(s, e)[Len(s) + 1] = e
           /\ \A i \in DOMAIN s : Append(s, e)[i] = s[i]
           /\ ToSet(Append(s, e)) = ToSet(s) \cup {e}
<1>1. DOMAIN s = 1 .. Len(s) /\ Len(s) \in Nat
  BY LenProperties
<1>2. Append(s, e) \in Seq(S) /\ Len(Append(s, e)) = Len(s) + 1
  BY AppendProperties
<1>3. DOMAIN Append(s, e) = 1 .. Len(s) + 1
  BY <1>2, LenProperties
<1>4. /\ Append(s, e)[Len(s) + 1] = e
      /\ \A i \in DOMAIN s : Append(s, e)[i] = s[i]
  BY <1>1, <1>3, AppendProperties
<1>5. ToSet(Append(s, e)) = ToSet(s) \cup {e}
  BY <1>1, <1>3, <1>4 DEF ToSet
<1> QED
  BY <1>1, <1>2, <1>3, <1>4, <1>5

LEMMA TailFacts ==
    ASSUME NEW S, NEW s \in Seq(S), s # <<>>
    PROVE  /\ Head(s) \in S
           /\ Tail(s) \in Seq(S)
           /\ Len(Tail(s)) = Len(s) - 1 /\ Len(s) \in Nat \ {0}
           /\ DOMAIN s = 1 .. Len(s)
           /\ DOMAIN Tail(s) = 1 .. Len(s) - 1
           /\ s[1] = Head(s)
           /\ \A i \in 1 .. Len(s) - 1 : Tail(s)[i] = s[i + 1]
           /\ ToSet(s) = ToSet(Tail(s)) \cup {Head(s)}
<1>1. DOMAIN s = 1 .. Len(s) /\ Len(s) \in Nat \ {0}
  BY LenProperties, EmptySeq
<1>2. Head(s) \in S /\ Tail(s) \in Seq(S) /\ Len(Tail(s)) = Len(s) - 1 /\ s[1] = Head(s)
  BY HeadTailProperties
<1>3. DOMAIN Tail(s) = 1 .. Len(s) - 1
  BY <1>2, LenProperties
<1>4. \A i \in 1 .. Len(s) - 1 : Tail(s)[i] = s[i + 1]
  BY <1>1, <1>2, <1>3, HeadTailProperties
<1>5. \A i \in DOMAIN s : i = 1 \/ (i - 1 \in DOMAIN Tail(s) /\ Tail(s)[i - 1] = s[i])
  BY <1>1, <1>3, <1>4
<1>6. \A i \in DOMAIN Tail(s) : i + 1 \in DOMAIN s /\ Tail(s)[i] = s[i + 1]
  BY <1>1, <1>3, <1>4
<1>7. 1 \in DOMAIN s
  BY <1>1
<1>8. ToSet(s) = ToSet(Tail(s)) \cup {Head(s)}
  BY <1>2, <1>5, <1>6, <1>7 DEF ToSet
<1> QED
  BY <1>1, <1>2, <1>3, <1>4, <1>8

LEMMA EmptySeqs ==
    ASSUME NEW S PROVE <<>> \in Seq(S) /\ Len(<<>>) = 0 /\ DOMAIN <<>> = {} /\ ToSet(<<>>) = {}
<1>1. <<>> \in Seq(S) /\ Len(<<>>) = 0 /\ DOMAIN <<>> = {}
  OBVIOUS
<1> QED
  BY <1>1 DEF ToSet


LEMMA ConcatFacts ==
    ASSUME NEW S, NEW s \in Seq(S), NEW t \in Seq(S)
    PROVE  /\ s \o t \in Seq(S)
           /\ Len(s) \in Nat /\ Len(t) \in Nat /\ Len(s \o t) = Len(s) + Len(t)
           /\ DOMAIN s = 1 .. Len(s) /\ DOMAIN t = 1 .. Len(t)
           /\ DOMAIN (s \o t) = 1 .. Len(s) + Len(t)
           /\ \A i \in DOMAIN s : (s \o t)[i] = s[i]
           /\ \A i \in DOMAIN t : (s \o t)[Len(s) + i] = t[i]
           /\ \A i \in DOMAIN (s \o t) : i \notin DOMAIN s =>
                 i - Len(s) \in DOMAIN t /\ (s \o t)[i] = t[i - Len(s)]
<1>1. /\ Len(s) \in Nat /\ DOMAIN s = 1 .. Len(s)
      /\ Len(t) \in Nat /\ DOMAIN t = 1 .. Len(t)
  BY LenProperties
<1>2. /\ s \o t \in Seq(S) /\ Len(s \o t) = Len(s) + Len(t)
      /\ \A i \in 1 .. Len(s) + Len(t) :
            (s \o t)[i] = IF i <= Len(s) THEN s[i] ELSE t[i - Len(s)]
  BY ConcatProperties
<1>3. DOMAIN (s \o t) = 1 .. Len(s) + Len(t)
  BY <1>2, LenProperties
<1> QED
  BY <1>1, <1>2, <1>3

LEMMA TailOfConcat ==
    ASSUME NEW S, NEW s \in Seq(S), NEW t \in Seq(S), s # <<>>
    PROVE  /\ s \o t # <<>>
           /\ Head(s \o t) = Head(s)
           /\ Tail(s) \o t = Tail(s \o t)
<1> DEFINE st == s \o t
<1>1. /\ st \in Seq(S) /\ Len(st) = Len(s) + Len(t) /\ Len(t) \in Nat
      /\ \A i \in DOMAIN s : st[i] = s[i]
      /\ \A i \in DOMAIN st : i \notin DOMAIN s => st[i] = t[i - Len(s)]
      /\ DOMAIN st = 1 .. Len(s) + Len(t)
  BY ConcatFacts
<1>2. /\ Tail(s) \in Seq(S) /\ Len(Tail(s)) = Len(s) - 1 /\ Len(s) \in Nat \ {0}
      /\ DOMAIN s = 1 .. Len(s) /\ s[1] = Head(s)
      /\ \A i \in 1 .. Len(s) - 1 : Tail(s)[i] = s[i + 1]
  BY TailFacts
<1> HIDE DEF st
<1>3. st # <<>>
  BY <1>1, <1>2, EmptySeq
<1>4. /\ Tail(st) \in Seq(S) /\ Len(Tail(st)) = Len(st) - 1 /\ st[1] = Head(st)
      /\ \A i \in 1 .. Len(st) - 1 : Tail(st)[i] = st[i + 1]
  BY <1>1, <1>3, TailFacts
<1>5. /\ Tail(s) \o t \in Seq(S) /\ Len(Tail(s) \o t) = Len(s) - 1 + Len(t)
      /\ \A i \in 1 .. Len(s) - 1 + Len(t) :
            (Tail(s) \o t)[i] = IF i <= Len(s) - 1 THEN Tail(s)[i] ELSE t[i - (Len(s) - 1)]
  BY <1>2, ConcatProperties
<1>6. \A i \in 1 .. Len(st) - 1 : (Tail(s) \o t)[i] = Tail(st)[i]
  <2> TAKE i \in 1 .. Len(st) - 1
  <2>1. Tail(st)[i] = st[i + 1]
    BY <1>4
  <2>2. CASE i <= Len(s) - 1
    BY <2>1, <2>2, <1>1, <1>2, <1>5
  <2>3. CASE ~(i <= Len(s) - 1)
    <3>1. i + 1 \in DOMAIN st /\ i + 1 \notin DOMAIN s
      BY <2>3, <1>1, <1>2
    <3>2. st[i + 1] = t[(i + 1) - Len(s)]
      BY <3>1, <1>1
    <3> QED
      BY <2>1, <2>3, <3>2, <1>1, <1>2, <1>5
  <2> QED
    BY <2>2, <2>3
<1>7. Tail(s) \o t = Tail(st)
  <2> DEFINE a == Tail(s) \o t
             b == Tail(st)
  <2>1. a \in Seq(S) /\ b \in Seq(S) /\ Len(a) = Len(b) /\ Len(b) = Len(st) - 1
    BY <1>1, <1>2, <1>4, <1>5
  <2>2. \A i \in 1 .. Len(a) : a[i] = b[i]
    BY <2>1, <1>6
  <2> HIDE DEF a, b
  <2>3. a = b
    BY <2>1, <2>2, SeqEqual
  <2> QED
    BY <2>3 DEF a, b
<1>8. 1 \in DOMAIN s
  BY <1>2
<1>9. Head(st) = Head(s)
  BY <1>1, <1>2, <1>4, <1>8
<1> QED
  BY <1>3, <1>7, <1>9 DEF st

LEMMA MoveFacts ==
    ASSUME NEW S, NEW s \in Seq(S), NEW t \in Seq(S), t # <<>>
    PROVE  Append(s, Head(t)) \o Tail(t) = s \o t
<1>1. /\ Head(t) \in S /\ Tail(t) \in Seq(S) /\ Len(Tail(t)) = Len(t) - 1
      /\ Len(t) \in Nat \ {0} /\ t[1] = Head(t)
      /\ \A i \in 1 .. Len(t) - 1 : Tail(t)[i] = t[i + 1]
  BY TailFacts
<1>2. <<Head(t)>> \in Seq(S) /\ Len(<<Head(t)>>) = 1 /\ <<Head(t)>>[1] = Head(t)
  BY <1>1
<1>3. Append(s, Head(t)) = s \o <<Head(t)>>
  BY <1>1, AppendIsConcat
<1>4. (s \o <<Head(t)>>) \o Tail(t) = s \o (<<Head(t)>> \o Tail(t))
  BY <1>1, <1>2, ConcatAssociative
<1> DEFINE a == <<Head(t)>> \o Tail(t)
<1>5. /\ a \in Seq(S) /\ Len(a) = 1 + (Len(t) - 1)
      /\ \A i \in 1 .. 1 + (Len(t) - 1) :
            a[i] = IF i <= 1 THEN <<Head(t)>>[i] ELSE Tail(t)[i - 1]
  <2>1. /\ a \in Seq(S) /\ Len(a) = Len(<<Head(t)>>) + Len(Tail(t))
        /\ \A i \in 1 .. Len(<<Head(t)>>) + Len(Tail(t)) :
              a[i] = IF i <= Len(<<Head(t)>>) THEN <<Head(t)>>[i] ELSE Tail(t)[i - Len(<<Head(t)>>)]
    BY <1>1, <1>2, ConcatProperties
  <2> QED
    BY <2>1, <1>1, <1>2
<1> HIDE DEF a
<1>6. \A i \in 1 .. Len(t) : a[i] = t[i]
  <2> TAKE i \in 1 .. Len(t)
  <2>1. CASE i = 1
    BY <2>1, <1>1, <1>2, <1>5
  <2>2. CASE i # 1
    <3>1. i - 1 \in 1 .. Len(t) - 1 /\ (i - 1) + 1 = i
      BY <2>2, <1>1
    <3>2. Tail(t)[i - 1] = t[(i - 1) + 1]
      BY <3>1, <1>1
    <3>3. a[i] = Tail(t)[i - 1]
      BY <2>2, <1>1, <1>5
    <3> QED
      BY <3>1, <3>2, <3>3
  <2> QED
    BY <2>1, <2>2
<1>7. a = t
  BY <1>1, <1>5, <1>6, SeqEqual
<1> QED
  BY <1>3, <1>4, <1>7 DEF a

-----------------------------------------------------------------------------
(* What comes to the client, and what is done to it *)

LEMMA ItemFacts ==
    ASSUME NEW e \in Item
    PROVE  e.text \in Texts /\ e.request \in Nat /\ e.size \in Nat /\ e.size \in 0 .. MaxChunks
BY QtAssumption DEF Item

LEMMA HeadFramed ==
    ASSUME NEW s \in Seq(Item), s # <<>>, NEW l \in Nat, Framed(s, l)
    PROVE  Head(s).text = "chunk" <=> l > 0
<1>1. s[1] = Head(s) /\ DOMAIN s = 1 .. Len(s) /\ Len(s) \in Nat \ {0}
  BY TailFacts
<1>2. 1 \in DOMAIN s /\ \A h \in DOMAIN s : ~InFile(s, h, 1)
  BY <1>1 DEF InFile
<1>3. s[1].text = "chunk" <=> 1 <= l
  BY <1>2 DEF Framed
<1> QED
  BY <1>1, <1>3

\* A chunk that is expected is read, or a line that is no header, or a header.
LEMMA TailFramed ==
    ASSUME NEW s \in Seq(Item), s # <<>>, NEW l \in Nat, NEW m \in Nat, Framed(s, l),
           \/ l > 0 /\ m = l - 1
           \/ l = 0 /\ m = IF Head(s).text = "file" THEN Head(s).size ELSE 0
    PROVE  Framed(Tail(s), m)
<1> DEFINE t == Tail(s)
<1>1. /\ Len(t) = Len(s) - 1 /\ Len(s) \in Nat \ {0}
      /\ DOMAIN s = 1 .. Len(s) /\ DOMAIN t = 1 .. Len(s) - 1
      /\ s[1] = Head(s) /\ Head(s) \in Item
      /\ \A i \in 1 .. Len(s) - 1 : t[i] = s[i + 1]
  BY TailFacts
<1> HIDE DEF t
<1>2. \A i \in DOMAIN s : s[i].size \in Nat
  BY <1>1, ElementOfSeq, ItemFacts
<1>3. 1 \in DOMAIN s /\ (l > 0 => s[1].text = "chunk")
  BY <1>1, HeadFramed
<1>4. \A h \in DOMAIN s : s[h].text = "file" => h + s[h].size <= Len(s)
  BY DEF Framed
<1>5. m <= Len(t)
  <2>1. CASE l > 0
    BY <2>1, <1>1 DEF Framed
  <2>2. CASE l = 0 /\ s[1].text = "file"
    BY <2>2, <1>1, <1>2, <1>3, <1>4
  <2>3. CASE l = 0 /\ s[1].text # "file"
    BY <2>3, <1>1
  <2> QED
    BY <2>1, <2>2, <2>3
<1>6. ASSUME NEW h \in DOMAIN t, t[h].text = "file" PROVE h + t[h].size <= Len(t)
  <2>1. h + 1 \in DOMAIN s /\ t[h] = s[h + 1]
    BY <1>1
  <2>2. (h + 1) + s[h + 1].size <= Len(s)
    BY <2>1, <1>4, <1>6
  <2> QED
    BY <2>1, <2>2, <1>1, <1>2
<1>7. ASSUME NEW i \in DOMAIN t
      PROVE  t[i].text = "chunk" <=> i <= m \/ \E h \in DOMAIN t : InFile(t, h, i)
  <2>1. i + 1 \in DOMAIN s /\ t[i] = s[i + 1] /\ i \in Nat \ {0}
    BY <1>1
  <2>2. s[i + 1].text = "chunk" <=> i + 1 <= l \/ \E h \in DOMAIN s : InFile(s, h, i + 1)
    BY <2>1 DEF Framed
  <2>3. \A h \in DOMAIN t : h + 1 \in DOMAIN s /\ (InFile(t, h, i) <=> InFile(s, h + 1, i + 1))
    <3> TAKE h \in DOMAIN t
    <3>1. h + 1 \in DOMAIN s /\ t[h] = s[h + 1] /\ h \in Nat
      BY <1>1
    <3> QED
      BY <3>1, <2>1, <1>2 DEF InFile
  <2>4. InFile(s, 1, i + 1) <=> s[1].text = "file" /\ i <= s[1].size
    BY <2>1, <1>2, <1>3 DEF InFile
  <2>5. i <= m <=> i + 1 <= l \/ InFile(s, 1, i + 1)
    <3>1. CASE l > 0
      BY <3>1, <2>1, <2>4, <1>3
    <3>2. CASE l = 0 /\ s[1].text = "file"
      BY <3>2, <2>1, <2>4, <1>1
    <3>3. CASE l = 0 /\ s[1].text # "file"
      BY <3>3, <2>1, <2>4, <1>1
    <3> QED
      BY <3>1, <3>2, <3>3
  <2>6. (\E h \in DOMAIN s : InFile(s, h, i + 1)) <=>
           InFile(s, 1, i + 1) \/ \E h \in DOMAIN t : InFile(t, h, i)
    <3>1. ASSUME NEW h \in DOMAIN s, InFile(s, h, i + 1), h # 1
          PROVE  \E g \in DOMAIN t : InFile(t, g, i)
      <4>1. h - 1 \in DOMAIN t /\ (h - 1) + 1 = h
        BY <3>1, <1>1
      <4> QED
        BY <4>1, <3>1, <2>3
    <3> QED
      BY <3>1, <2>3, <1>3
  <2> QED
    BY <2>1, <2>2, <2>5, <2>6
<1>8. Framed(t, m)
  BY <1>5, <1>6, <1>7 DEF Framed
<1> QED
  BY <1>8 DEF t

\* Two streams one after the other.
LEMMA ConcatFramed ==
    ASSUME NEW s \in Seq(Item), NEW t \in Seq(Item), NEW l \in Nat, Framed(s, l), Framed(t, 0)
    PROVE  Framed(s \o t, l)
<1> DEFINE st == s \o t
<1>1. /\ Len(s) \in Nat /\ Len(t) \in Nat /\ Len(st) = Len(s) + Len(t)
      /\ DOMAIN s = 1 .. Len(s) /\ DOMAIN t = 1 .. Len(t)
      /\ DOMAIN st = 1 .. Len(s) + Len(t)
      /\ \A i \in DOMAIN s : st[i] = s[i]
      /\ \A i \in DOMAIN t : st[Len(s) + i] = t[i]
      /\ \A i \in DOMAIN st : i \notin DOMAIN s => i - Len(s) \in DOMAIN t /\ st[i] = t[i - Len(s)]
  BY ConcatFacts
<1> HIDE DEF st
<1>2. (\A i \in DOMAIN s : s[i].size \in Nat) /\ (\A i \in DOMAIN t : t[i].size \in Nat)
  BY <1>1, ElementOfSeq, ItemFacts
<1>3. l <= Len(st)
  BY <1>1 DEF Framed
<1>4. ASSUME NEW h \in DOMAIN st, st[h].text = "file" PROVE h + st[h].size <= Len(st)
  <2>1. CASE h \in DOMAIN s
    <3>1. h + s[h].size <= Len(s)
      BY <2>1, <1>1, <1>4 DEF Framed
    <3> QED
      BY <3>1, <2>1, <1>1, <1>2
  <2>2. CASE h \notin DOMAIN s
    <3>1. h - Len(s) \in DOMAIN t /\ st[h] = t[h - Len(s)]
      BY <2>2, <1>1
    <3>2. (h - Len(s)) + t[h - Len(s)].size <= Len(t)
      BY <3>1, <1>4 DEF Framed
    <3> QED
      BY <3>1, <3>2, <1>1, <1>2
  <2> QED
    BY <2>1, <2>2
<1>5. ASSUME NEW i \in DOMAIN st
      PROVE  st[i].text = "chunk" <=> i <= l \/ \E h \in DOMAIN st : InFile(st, h, i)
  <2>1. CASE i \in DOMAIN s
    <3>1. s[i].text = "chunk" <=> i <= l \/ \E h \in DOMAIN s : InFile(s, h, i)
      BY <2>1 DEF Framed
    <3>2. \A h \in DOMAIN s : h \in DOMAIN st /\ (InFile(st, h, i) <=> InFile(s, h, i))
      BY <1>1 DEF InFile
    <3>3. \A h \in DOMAIN st : InFile(st, h, i) => h \in DOMAIN s
      BY <2>1, <1>1 DEF InFile
    <3> QED
      BY <2>1, <3>1, <3>2, <3>3, <1>1
  <2>2. CASE i \notin DOMAIN s
    <3> DEFINE k == i - Len(s)
    <3>1. k \in DOMAIN t /\ st[i] = t[k] /\ i = Len(s) + k /\ k \in Nat \ {0}
      BY <2>2, <1>1
    <3> HIDE DEF k
    <3>2. t[k].text = "chunk" <=> k <= 0 \/ \E h \in DOMAIN t : InFile(t, h, k)
      BY <3>1 DEF Framed
    <3>3. ~(i <= l)
      BY <3>1, <1>1 DEF Framed
    <3>4. ASSUME NEW h \in DOMAIN t
          PROVE  Len(s) + h \in DOMAIN st /\ (InFile(st, Len(s) + h, i) <=> InFile(t, h, k))
      <4>1. Len(s) + h \in DOMAIN st /\ st[Len(s) + h] = t[h] /\ h \in Nat
        BY <3>4, <1>1
      <4> QED
        BY <4>1, <3>1, <1>1, <1>2 DEF InFile
    <3>5. ASSUME NEW h \in DOMAIN st, InFile(st, h, i)
          PROVE  \E g \in DOMAIN t : h = Len(s) + g
      <4>1. CASE h \in DOMAIN s
        <5>1. h + s[h].size <= Len(s)
          BY <4>1, <3>5, <1>1 DEF Framed, InFile
        <5> QED
          BY <5>1, <4>1, <3>1, <3>5, <1>1, <1>2 DEF InFile
      <4>2. CASE h \notin DOMAIN s
        <5>1. h - Len(s) \in DOMAIN t /\ h = Len(s) + (h - Len(s))
          BY <4>2, <3>5, <1>1
        <5> QED
          BY <5>1
      <4> QED
        BY <4>1, <4>2
    <3>6. (\E h \in DOMAIN st : InFile(st, h, i)) <=> \E h \in DOMAIN t : InFile(t, h, k)
      BY <3>4, <3>5
    <3>7. ~(k <= 0)
      BY <3>1
    <3> QED
      BY <3>1, <3>2, <3>3, <3>6, <3>7
  <2> QED
    BY <2>1, <2>2
<1>6. Framed(st, l)
  BY <1>3, <1>4, <1>5 DEF Framed
<1> QED
  BY <1>6 DEF st

\* A stream can be cut where no chunk follows.
LEMMA CutFramed ==
    ASSUME NEW s \in Seq(Item), NEW t \in Seq(Item), NEW l \in Nat, Framed(s \o t, l),
           t # <<>> => Head(t).text # "chunk"
    PROVE  Framed(s, l) /\ Framed(t, 0)
<1> DEFINE st == s \o t
<1>1. /\ Len(s) \in Nat /\ Len(t) \in Nat /\ Len(st) = Len(s) + Len(t)
      /\ DOMAIN s = 1 .. Len(s) /\ DOMAIN t = 1 .. Len(t)
      /\ DOMAIN st = 1 .. Len(s) + Len(t)
      /\ \A i \in DOMAIN s : st[i] = s[i]
      /\ \A i \in DOMAIN t : st[Len(s) + i] = t[i]
      /\ \A i \in DOMAIN st : i \notin DOMAIN s => i - Len(s) \in DOMAIN t /\ st[i] = t[i - Len(s)]
  BY ConcatFacts
<1>2. (\A i \in DOMAIN s : s[i].size \in Nat) /\ (\A i \in DOMAIN t : t[i].size \in Nat)
  BY <1>1, ElementOfSeq, ItemFacts
<1>3. /\ l <= Len(st)
      /\ \A h \in DOMAIN st : st[h].text = "file" => h + st[h].size <= Len(st)
      /\ \A i \in DOMAIN st :
            st[i].text = "chunk" <=> i <= l \/ \E h \in DOMAIN st : InFile(st, h, i)
  BY DEF Framed
<1>4. t # <<>> => Len(s) + 1 \in DOMAIN st /\ st[Len(s) + 1].text # "chunk"
  <2>1. ASSUME t # <<>> PROVE 1 \in DOMAIN t /\ t[1] = Head(t)
    BY <2>1, TailFacts
  <2> QED
    BY <2>1, <1>1
<1>4a. t = <<>> => Len(t) = 0
  BY EmptySeqs
<1> HIDE DEF st
<1>5. l <= Len(s)
  <2>1. CASE t = <<>>
    BY <2>1, <1>1, <1>3, <1>4a
  <2>2. CASE t # <<>>
    BY <2>2, <1>1, <1>3, <1>4
  <2> QED
    BY <2>1, <2>2
<1>6. ASSUME NEW h \in DOMAIN s, s[h].text = "file" PROVE h + s[h].size <= Len(s)
  <2>1. h \in DOMAIN st /\ st[h] = s[h] /\ h \in Nat /\ s[h].size \in Nat
    BY <1>1, <1>2
  <2>2. CASE t = <<>>
    BY <2>1, <2>2, <1>1, <1>3, <1>4a, <1>6
  <2>3. CASE t # <<>>
    <3>1. ~InFile(st, h, Len(s) + 1)
      BY <2>1, <2>3, <1>3, <1>4
    <3> QED
      BY <3>1, <2>1, <1>1, <1>6 DEF InFile
  <2> QED
    BY <2>2, <2>3
<1>7. ASSUME NEW i \in DOMAIN s
      PROVE  s[i].text = "chunk" <=> i <= l \/ \E h \in DOMAIN s : InFile(s, h, i)
  <2>1. s[i].text = "chunk" <=> i <= l \/ \E h \in DOMAIN st : InFile(st, h, i)
    BY <1>1, <1>3
  <2>2. \A h \in DOMAIN s : h \in DOMAIN st /\ (InFile(st, h, i) <=> InFile(s, h, i))
    BY <1>1 DEF InFile
  <2>3. \A h \in DOMAIN st : InFile(st, h, i) => h \in DOMAIN s
    BY <1>1 DEF InFile
  <2> QED
    BY <2>1, <2>2, <2>3
<1>8. Framed(s, l)
  BY <1>5, <1>6, <1>7 DEF Framed
<1>9. ASSUME NEW h \in DOMAIN t, t[h].text = "file" PROVE h + t[h].size <= Len(t)
  <2>1. Len(s) + h \in DOMAIN st /\ st[Len(s) + h] = t[h] /\ h \in Nat /\ t[h].size \in Nat
    BY <1>1, <1>2
  <2>2. (Len(s) + h) + t[h].size <= Len(st)
    BY <2>1, <1>3, <1>9
  <2> QED
    BY <2>1, <2>2, <1>1
<1>10. ASSUME NEW i \in DOMAIN t
       PROVE  t[i].text = "chunk" <=> i <= 0 \/ \E h \in DOMAIN t : InFile(t, h, i)
  <2>1. Len(s) + i \in DOMAIN st /\ st[Len(s) + i] = t[i] /\ i \in Nat \ {0}
    BY <1>1
  <2>2. t[i].text = "chunk" <=> Len(s) + i <= l \/ \E h \in DOMAIN st : InFile(st, h, Len(s) + i)
    BY <2>1, <1>3
  <2>3. \A h \in DOMAIN t :
           Len(s) + h \in DOMAIN st /\ (InFile(st, Len(s) + h, Len(s) + i) <=> InFile(t, h, i))
    <3> TAKE h \in DOMAIN t
    <3>1. Len(s) + h \in DOMAIN st /\ st[Len(s) + h] = t[h] /\ h \in Nat /\ t[h].size \in Nat
      BY <1>1, <1>2
    <3> QED
      BY <3>1, <2>1, <1>1 DEF InFile
  <2>4. ASSUME NEW h \in DOMAIN st, InFile(st, h, Len(s) + i)
        PROVE  \E g \in DOMAIN t : h = Len(s) + g
    <3>1. CASE h \in DOMAIN s
      <4>1. st[h] = s[h] /\ h + s[h].size <= Len(s)
        BY <3>1, <2>4, <1>1, <1>6 DEF InFile
      <4> QED
        BY <4>1, <3>1, <2>1, <2>4, <1>1, <1>2 DEF InFile
    <3>2. CASE h \notin DOMAIN s
      <4>1. h - Len(s) \in DOMAIN t /\ h = Len(s) + (h - Len(s))
        BY <3>2, <2>4, <1>1
      <4> QED
        BY <4>1
    <3> QED
      BY <3>1, <3>2
  <2>5. (\E h \in DOMAIN st : InFile(st, h, Len(s) + i)) <=> \E h \in DOMAIN t : InFile(t, h, i)
    BY <2>3, <2>4
  <2>6. ~(Len(s) + i <= l) /\ ~(i <= 0)
    BY <2>1, <1>1, <1>5
  <2> QED
    BY <2>2, <2>5, <2>6
<1>11. Framed(t, 0)
  BY <1>1, <1>9, <1>10 DEF Framed
<1> QED
  BY <1>8, <1>11

\* A line that is no header comes between two others.
LEMMA InsertFramed ==
    ASSUME NEW s \in Seq(Item), NEW t \in Seq(Item), NEW l \in Nat, Framed(s \o t, l),
           t # <<>> => Head(t).text # "chunk",
           NEW e \in Item, e.text \notin {"file", "chunk"}
    PROVE  Framed(Append(s, e) \o t, l)
<1>1. Framed(s, l) /\ Framed(t, 0)
  BY CutFramed
<1>2. Framed(<<e>>, 0)
  BY DEF Framed, InFile
<1>3. <<e>> \in Seq(Item)
  OBVIOUS
<1>4. s \o <<e>> \in Seq(Item) /\ Append(s, e) = s \o <<e>>
  BY <1>3, ConcatFacts, AppendIsConcat
<1>5. Framed(s \o <<e>>, l)
  BY <1>1, <1>2, <1>3, ConcatFramed
<1> QED
  BY <1>1, <1>4, <1>5, ConcatFramed

\* The items of a stream into which e has been put.
LEMMA InsertFacts ==
    ASSUME NEW s \in Seq(Item), NEW t \in Seq(Item), NEW e \in Item,
           NEW i \in DOMAIN (Append(s, e) \o t)
    PROVE  \/ (Append(s, e) \o t)[i] = e
           \/ \E k \in DOMAIN (s \o t) :
                 /\ (Append(s, e) \o t)[i] = (s \o t)[k]
                 /\ i # Len(s) + 1 /\ k = IF i <= Len(s) THEN i ELSE i - 1
<1> DEFINE st  == s \o t
           set == Append(s, e) \o t
<1>1. /\ Append(s, e) \in Seq(Item) /\ Len(Append(s, e)) = Len(s) + 1
      /\ DOMAIN Append(s, e) = 1 .. Len(s) + 1
      /\ Append(s, e)[Len(s) + 1] = e
      /\ \A k \in DOMAIN s : Append(s, e)[k] = s[k]
  BY AppendFacts
<1>2. /\ Len(s) \in Nat /\ Len(t) \in Nat /\ DOMAIN s = 1 .. Len(s) /\ DOMAIN t = 1 .. Len(t)
      /\ DOMAIN st = 1 .. Len(s) + Len(t)
      /\ \A k \in DOMAIN s : st[k] = s[k]
      /\ \A k \in DOMAIN t : st[Len(s) + k] = t[k]
  BY ConcatFacts
<1>3. /\ DOMAIN set = 1 .. (Len(s) + 1) + Len(t)
      /\ \A k \in DOMAIN Append(s, e) : set[k] = Append(s, e)[k]
      /\ \A k \in DOMAIN t : set[(Len(s) + 1) + k] = t[k]
  <2>1. /\ DOMAIN set = 1 .. Len(Append(s, e)) + Len(t)
        /\ \A k \in DOMAIN Append(s, e) : set[k] = Append(s, e)[k]
        /\ \A k \in DOMAIN t : set[Len(Append(s, e)) + k] = t[k]
    BY <1>1, ConcatFacts
  <2> QED
    BY <2>1, <1>1
<1> HIDE DEF st, set
<1>0. i \in DOMAIN set
  BY DEF set
<1>4. CASE i <= Len(s)
  <2>1. i \in DOMAIN s /\ i \in DOMAIN st /\ i \in DOMAIN Append(s, e)
    BY <1>0, <1>1, <1>2, <1>3, <1>4
  <2>2. set[i] = st[i]
    BY <2>1, <1>1, <1>2, <1>3
  <2> QED
    BY <2>1, <2>2, <1>4 DEF st, set
<1>5. CASE i = Len(s) + 1
  <2>1. i \in DOMAIN Append(s, e)
    BY <1>5, <1>1, <1>2
  <2>2. set[i] = e
    BY <2>1, <1>1, <1>3, <1>5
  <2> QED
    BY <2>2 DEF set
<1>6. CASE i > Len(s) + 1
  <2> DEFINE k == i - (Len(s) + 1)
  <2>0. Len(s) \in Nat /\ Len(t) \in Nat /\ i \in 1 .. (Len(s) + 1) + Len(t) /\ DOMAIN t = 1 .. Len(t)
    BY <1>0, <1>2, <1>3
  <2>1. k \in DOMAIN t /\ i = (Len(s) + 1) + k /\ i - 1 = Len(s) + k /\ k \in Nat \ {0}
    BY <2>0, <1>6
  <2> HIDE DEF k
  <2>2. set[i] = t[k] /\ st[i - 1] = t[k]
    BY <2>1, <1>2, <1>3
  <2>3. i - 1 \in DOMAIN st /\ ~(i <= Len(s))
    BY <2>1, <1>2
  <2> QED
    BY <2>2, <2>3 DEF st, set
<1> QED
  BY <1>0, <1>2, <1>3, <1>4, <1>5, <1>6

-----------------------------------------------------------------------------
(* The steps of a connection that is in step *)

LEMMA PayloadRead ==
    ASSUME NEW s \in Seq(Item), s # <<>>, NEW r, NEW p, NEW ts, NEW l \in Nat, NEW m \in Nat,
           InStep(s, r, p, ts, l),
           \/ l > 0 /\ m = l - 1
           \/ l = 0 /\ m = IF Head(s).text = "file" THEN Head(s).size ELSE 0
    PROVE  InStep(Tail(s), r, p, ts, m)
<1> DEFINE t == Tail(s)
<1>1. /\ Len(s) \in Nat \ {0} /\ DOMAIN s = 1 .. Len(s) /\ DOMAIN t = 1 .. Len(s) - 1
      /\ \A i \in 1 .. Len(s) - 1 : t[i] = s[i + 1]
  BY TailFacts
<1>2. Framed(t, m)
  BY TailFramed DEF InStep
<1> HIDE DEF t
<1>3. \A i \in DOMAIN t : i \in Nat /\ i + 1 \in DOMAIN s /\ t[i] = s[i + 1]
  BY <1>1
<1>4. (\A i \in DOMAIN t : Expected(t[i], r, p)) /\ Asked(t, r, p, ts)
  BY <1>3 DEF InStep, Asked
<1>5. EndsLast(t, r, p)
  <2> SUFFICES ASSUME NEW i \in DOMAIN t, NEW j \in DOMAIN t, i < j, p # 0,
                      t[i].request = p, t[j].request = p
               PROVE  t[j].text = "chunk" \/ ~Final(r[p], t[i].text)
    BY DEF EndsLast
  <2>1. i + 1 < j + 1
    BY <1>3
  <2> QED
    BY <2>1, <1>3 DEF InStep, EndsLast
<1>6. InStep(t, r, p, ts, m)
  BY <1>2, <1>4, <1>5 DEF InStep
<1> QED
  BY <1>6 DEF t

\* The end of the answer to the request that waits is read.
LEMMA EndRead ==
    ASSUME NEW r \in Seq(Kinds), NEW p \in DOMAIN r, NEW ts \in Seq(DOMAIN r),
           NEW s \in Seq(Item), s # <<>>, NEW m \in Nat,
           InStep(s, r, p, ts, 0),
           m = IF Head(s).text = "file" THEN Head(s).size ELSE 0,
           Head(s).request = p, Final(r[p], Head(s).text)
    PROVE  InStep(Tail(s), r, 0, ts, m)
<1> DEFINE t == Tail(s)
<1>1. /\ Len(s) \in Nat \ {0} /\ DOMAIN s = 1 .. Len(s) /\ DOMAIN t = 1 .. Len(s) - 1
      /\ \A i \in 1 .. Len(s) - 1 : t[i] = s[i + 1]
      /\ s[1] = Head(s)
  BY TailFacts
<1>2. InStep(t, r, p, ts, m)
  BY PayloadRead
<1>3. DOMAIN r = 1 .. Len(r) /\ Len(r) \in Nat
  BY LenProperties
<1> HIDE DEF t
<1>4. 1 \in DOMAIN s /\ \A i \in DOMAIN t : i + 1 \in DOMAIN s /\ 1 < i + 1 /\ t[i] = s[i + 1]
  BY <1>1
<1>5. p # 0
  BY <1>3
<1>6. ASSUME NEW i \in DOMAIN t PROVE Expected(t[i], r, 0)
  <2>1. Expected(t[i], r, p)
    BY <1>2 DEF InStep
  <2>2. t[i].request = p => t[i].text = "chunk"
    BY <1>1, <1>4, <1>5 DEF InStep, EndsLast
  <2> QED
    BY <2>1, <2>2 DEF Expected
<1>7. Asked(t, r, 0, ts)
  BY <1>1, <1>4 DEF InStep, Asked
<1>8. EndsLast(t, r, 0)
  BY DEF EndsLast
<1>9. InStep(t, r, 0, ts, m)
  BY <1>2, <1>6, <1>7, <1>8 DEF InStep
<1> QED
  BY <1>9 DEF t

\* Nothing waits, and a request begins to.
LEMMA RequestBegins ==
    ASSUME NEW r \in Seq(Kinds), NEW ts \in Seq(DOMAIN r), NEW s \in Seq(Item), NEW l,
           \A i \in DOMAIN s : s[i].request \in 0 .. Len(r),
           InStep(s, r, 0, ts, l), NEW kind \in Kinds
    PROVE  InStep(s, Append(r, kind), Len(r) + 1, Append(ts, Len(r) + 1), l)
<1> DEFINE p  == Len(r) + 1
           rk == Append(r, kind)
           tp == Append(ts, p)
<1>1. Len(r) \in Nat /\ DOMAIN r = 1 .. Len(r) /\ \A i \in DOMAIN r : rk[i] = r[i]
  BY AppendFacts
<1>2. p \in Nat /\ p \notin DOMAIN r
  BY <1>1
<1>3. /\ Len(ts) \in Nat /\ DOMAIN ts = 1 .. Len(ts) /\ DOMAIN tp = 1 .. Len(ts) + 1
      /\ tp[Len(ts) + 1] = p /\ \A i \in DOMAIN ts : tp[i] = ts[i]
  <2>1. ts \in Seq(Nat)
    BY <1>1, SeqMonotonic
  <2> QED
    BY <2>1, <1>2, AppendFacts
<1>4. \A i \in DOMAIN ts : ts[i] \in DOMAIN r
  BY <1>3, ElementOfSeq
<1> HIDE DEF p, rk, tp
<1>5. \A k \in DOMAIN s : s[k].request # p /\ (s[k].request = 0 \/ s[k].request \in DOMAIN r)
  BY <1>1 DEF p
<1>6. \A k \in DOMAIN s : Expected(s[k], rk, p)
  BY <1>1, <1>5 DEF InStep, Expected
<1>7. Asked(s, rk, p, tp)
  <2>1. ASSUME NEW i \in DOMAIN tp
        PROVE  \/ i \in DOMAIN ts /\ tp[i] = ts[i] /\ ts[i] \in DOMAIN r /\ tp[i] # p
               \/ i = Len(ts) + 1 /\ tp[i] = p
    BY <1>2, <1>3, <1>4
  <2>2. ASSUME NEW i \in DOMAIN ts PROVE r[ts[i]] \in Unawaited
    <3>1. ts[i] # 0
      BY <2>2, <1>1, <1>4
    <3> QED
      BY <3>1 DEF InStep, Asked
  <2> QED
    BY <2>1, <2>2, <1>1, <1>5 DEF Asked
<1>8. EndsLast(s, rk, p)
  BY <1>5 DEF EndsLast
<1>9. InStep(s, rk, p, tp, l)
  BY <1>6, <1>7, <1>8 DEF InStep
<1> QED
  BY <1>9 DEF p, rk, tp

\* A command is sent whose answer nobody waits for.
LEMMA UnawaitedSent ==
    ASSUME NEW r \in Seq(Kinds), NEW p \in 0 .. Len(r), NEW ts \in Seq(DOMAIN r),
           NEW s \in Seq(Item), NEW l,
           \A i \in DOMAIN s : s[i].request \in 0 .. Len(r),
           InStep(s, r, p, ts, l), NEW kind \in Unawaited
    PROVE  InStep(s, Append(r, kind), p, Append(ts, Len(r) + 1), l)
<1> DEFINE n  == Len(r) + 1
           rk == Append(r, kind)
           tn == Append(ts, n)
<1>0. kind \in Kinds
  BY DEF Kinds
<1>1. /\ Len(r) \in Nat /\ DOMAIN r = 1 .. Len(r) /\ \A i \in DOMAIN r : rk[i] = r[i]
      /\ rk[n] = kind
  BY <1>0, AppendFacts
<1>2. n \in Nat /\ n \notin DOMAIN r /\ n # p
  BY <1>1
<1>3. /\ Len(ts) \in Nat /\ DOMAIN ts = 1 .. Len(ts) /\ DOMAIN tn = 1 .. Len(ts) + 1
      /\ tn[Len(ts) + 1] = n /\ \A i \in DOMAIN ts : tn[i] = ts[i]
  <2>1. ts \in Seq(Nat)
    BY <1>1, SeqMonotonic
  <2> QED
    BY <2>1, <1>2, AppendFacts
<1>4. \A i \in DOMAIN ts : ts[i] \in DOMAIN r
  BY <1>3, ElementOfSeq
<1>5. p = 0 \/ p \in DOMAIN r
  BY <1>1
<1>6. \A k \in DOMAIN s : s[k].request = 0 \/ s[k].request \in DOMAIN r
  BY <1>1
<1> HIDE DEF n, rk, tn
<1>7. \A k \in DOMAIN s : Expected(s[k], rk, p)
  BY <1>1, <1>6 DEF InStep, Expected
<1>8. Asked(s, rk, p, tn)
  <2>1. \A i \in DOMAIN tn : \/ i \in DOMAIN ts /\ tn[i] = ts[i] /\ ts[i] \in DOMAIN r
                             \/ tn[i] = n
    BY <1>3, <1>4
  <2> QED
    BY <2>1, <1>1, <1>2 DEF InStep, Asked
<1>9. EndsLast(s, rk, p)
  BY <1>1, <1>5 DEF InStep, EndsLast
<1>10. InStep(s, rk, p, tn, l)
  BY <1>7, <1>8, <1>9 DEF InStep
<1> QED
  BY <1>10 DEF n, rk, tn

\* A push comes between two items.
LEMMA PushComes ==
    ASSUME NEW r \in Seq(Kinds), NEW p, NEW ts \in Seq(DOMAIN r),
           NEW s \in Seq(Item), NEW t \in Seq(Item), NEW l \in Nat,
           InStep(s \o t, r, p, ts, l),
           t # <<>> => Head(t).text # "chunk",
           NEW e \in Item, e.request = 0, e.text \notin {"file", "chunk"}
    PROVE  InStep(Append(s, e) \o t, r, p, ts, l)
<1> DEFINE st  == s \o t
           set == Append(s, e) \o t
<1>1. Framed(set, l)
  BY InsertFramed DEF InStep
<1>2. \A i \in DOMAIN set : \/ set[i] = e
                            \/ \E k \in DOMAIN st : /\ set[i] = st[k] /\ i # Len(s) + 1
                                                    /\ k = IF i <= Len(s) THEN i ELSE i - 1
  BY InsertFacts
<1>3. \A i \in DOMAIN set : i \in Nat
  <2>1. Append(s, e) \in Seq(Item)
    BY AppendFacts
  <2>2. DOMAIN set = 1 .. Len(Append(s, e)) + Len(t) /\ Len(Append(s, e)) \in Nat /\ Len(t) \in Nat
    BY <2>1, ConcatFacts
  <2> QED
    BY <2>2
<1>4. Len(s) \in Nat
  BY LenProperties
<1>5. InStep(st, r, p, ts, l)
  OBVIOUS
<1> HIDE DEF st, set
<1>6. \A i \in DOMAIN set : Expected(set[i], r, p)
  BY <1>2, <1>5 DEF InStep, Expected
<1>7. Asked(set, r, p, ts)
  <2>1. CASE p # 0
    BY <2>1, <1>2, <1>5 DEF InStep, Asked
  <2>2. CASE p = 0
    <3>1. DOMAIN r = 1 .. Len(r) /\ Len(r) \in Nat /\ DOMAIN ts = 1 .. Len(ts)
      BY LenProperties
    <3>2. \A i \in DOMAIN ts : ts[i] # p
      BY <2>2, <3>1, ElementOfSeq
    <3> QED
      BY <3>2, <1>5 DEF InStep, Asked
  <2> QED
    BY <2>1, <2>2
<1>8. EndsLast(set, r, p)
  <2> SUFFICES ASSUME NEW i \in DOMAIN set, NEW j \in DOMAIN set, i < j, p # 0,
                      set[i].request = p, set[j].request = p
               PROVE  set[j].text = "chunk" \/ ~Final(r[p], set[i].text)
    BY DEF EndsLast
  <2>1. PICK k \in DOMAIN st : set[i] = st[k] /\ i # Len(s) + 1 /\ k = IF i <= Len(s) THEN i ELSE i - 1
    BY <1>2
  <2>2. PICK m \in DOMAIN st : set[j] = st[m] /\ j # Len(s) + 1 /\ m = IF j <= Len(s) THEN j ELSE j - 1
    BY <1>2
  <2>3. k < m
    <3>1. i \in Nat /\ j \in Nat /\ Len(s) \in Nat
      BY <1>3, <1>4
    <3> QED
      BY <2>1, <2>2, <3>1
  <2> QED
    BY <2>1, <2>2, <2>3, <1>5 DEF InStep, EndsLast
<1> QED
  BY <1>1, <1>6, <1>7, <1>8 DEF InStep, set

\* What the server sends for an answer to the n-th request.
Answer(c, n, r) ==
    /\ \A i \in DOMAIN c : c[i].request = n
    /\ \A i, j \in DOMAIN c : i < j => c[j].text = "chunk" \/ ~Final(r[n], c[i].text)
    /\ Framed(c, 0)

LEMMA AnswerComes ==
    ASSUME NEW r \in Seq(Kinds), NEW p \in 0 .. Len(r), NEW ts \in Seq(DOMAIN r), ts # <<>>,
           NEW s \in Seq(Item), NEW c \in Seq(Item), NEW l \in Nat,
           p # 0 => r[p] \notin Unawaited,
           InStep(s, r, p, ts, l), Answer(c, Head(ts), r)
    PROVE  InStep(s \o c, r, p, Tail(ts), l)
<1> DEFINE n  == Head(ts)
           tt == Tail(ts)
           sc == s \o c
<1>1. /\ Len(ts) \in Nat \ {0} /\ DOMAIN ts = 1 .. Len(ts) /\ DOMAIN tt = 1 .. Len(ts) - 1
      /\ \A i \in 1 .. Len(ts) - 1 : tt[i] = ts[i + 1]
      /\ ts[1] = n /\ n \in DOMAIN r
  BY TailFacts
<1>2. /\ Len(s) \in Nat /\ Len(c) \in Nat
      /\ DOMAIN s = 1 .. Len(s) /\ DOMAIN c = 1 .. Len(c) /\ DOMAIN sc = 1 .. Len(s) + Len(c)
      /\ \A i \in DOMAIN s : sc[i] = s[i]
      /\ \A i \in DOMAIN sc : i \notin DOMAIN s => i - Len(s) \in DOMAIN c /\ sc[i] = c[i - Len(s)]
  BY ConcatFacts
<1>3. Framed(sc, l)
  BY ConcatFramed DEF InStep, Answer
<1>4. DOMAIN r = 1 .. Len(r) /\ Len(r) \in Nat
  BY LenProperties
<1>5. Answer(c, n, r)
  OBVIOUS
<1> HIDE DEF n, tt, sc
<1>6. 1 \in DOMAIN ts /\ \A i \in DOMAIN tt : i + 1 \in DOMAIN ts /\ 1 # i + 1 /\ tt[i] = ts[i + 1]
  BY <1>1
<1>7. n = p \/ r[n] \in Unawaited
  BY <1>1, <1>6 DEF InStep, Asked
<1>8. n = p => /\ p # 0
               /\ \A j \in DOMAIN ts : ts[j] = p => j = 1
               /\ \A k \in DOMAIN s : s[k].request # p
  BY <1>1, <1>4, <1>6 DEF InStep, Asked
<1>9. \A i \in DOMAIN sc : \/ i \in DOMAIN s /\ sc[i] = s[i]
                           \/ i \notin DOMAIN s /\ sc[i].request = n
  BY <1>2, <1>5 DEF Answer
<1>10. ASSUME NEW i \in DOMAIN sc PROVE Expected(sc[i], r, p)
  <2>1. CASE i \in DOMAIN s
    BY <2>1, <1>9 DEF InStep
  <2>2. CASE sc[i].request = n
    BY <2>2, <1>7 DEF Expected
  <2> QED
    BY <2>1, <2>2, <1>9
<1>11. Asked(sc, r, p, tt)
  <2> SUFFICES ASSUME NEW i \in DOMAIN tt, r[tt[i]] \notin Unawaited
               PROVE  /\ tt[i] = p
                      /\ \A j \in DOMAIN tt : tt[j] = p => j = i
                      /\ \A k \in DOMAIN sc : sc[k].request # p
    BY DEF Asked
  <2>1. /\ ts[i + 1] = p
        /\ \A j \in DOMAIN ts : ts[j] = p => j = i + 1
        /\ \A k \in DOMAIN s : s[k].request # p
    BY <1>6 DEF InStep, Asked
  <2>2. n # p
    BY <2>1, <1>1, <1>6
  <2>3. \A j \in DOMAIN tt : tt[j] = p => j = i
    <3> SUFFICES ASSUME NEW j \in DOMAIN tt, tt[j] = p PROVE j = i
      OBVIOUS
    <3>1. j + 1 = i + 1 /\ i \in Nat /\ j \in Nat
      BY <2>1, <1>1, <1>6
    <3> QED
      BY <3>1
  <2> QED
    BY <2>1, <2>2, <2>3, <1>6, <1>9
<1>12. EndsLast(sc, r, p)
  <2> SUFFICES ASSUME NEW i \in DOMAIN sc, NEW j \in DOMAIN sc, i < j, p # 0,
                      sc[i].request = p, sc[j].request = p
               PROVE  sc[j].text = "chunk" \/ ~Final(r[p], sc[i].text)
    BY DEF EndsLast
  <2>1. CASE n = p
    <3>1. i \notin DOMAIN s /\ j \notin DOMAIN s
      BY <2>1, <1>8, <1>9
    <3>2. /\ i - Len(s) \in DOMAIN c /\ sc[i] = c[i - Len(s)]
          /\ j - Len(s) \in DOMAIN c /\ sc[j] = c[j - Len(s)]
      BY <3>1, <1>2
    <3>3. i - Len(s) < j - Len(s)
      BY <1>2
    <3> QED
      BY <2>1, <3>2, <3>3, <1>5 DEF Answer
  <2>2. CASE n # p
    <3>1. i \in DOMAIN s /\ j \in DOMAIN s /\ sc[i] = s[i] /\ sc[j] = s[j]
      BY <2>2, <1>9
    <3> QED
      BY <3>1 DEF InStep, EndsLast
  <2> QED
    BY <2>1, <2>2
<1>13. InStep(sc, r, p, tt, l)
  BY <1>3, <1>10, <1>11, <1>12 DEF InStep
<1> QED
  BY <1>13 DEF sc, tt

LEMMA LinesFacts ==
    ASSUME NEW n \in Nat, NEW texts \in Seq(Texts)
    PROVE  /\ Lines(n, texts) \in Seq(Item)
           /\ DOMAIN Lines(n, texts) = DOMAIN texts
           /\ Len(Lines(n, texts)) = Len(texts)
           /\ \A i \in DOMAIN texts : /\ Lines(n, texts)[i].text = texts[i]
                                      /\ Lines(n, texts)[i].request = n
                                      /\ Lines(n, texts)[i].size = 0
<1>1. DOMAIN texts = 1 .. Len(texts) /\ Len(texts) \in Nat /\ \A i \in DOMAIN texts : texts[i] \in Texts
  BY LenProperties, ElementOfSeq
<1>2. \A i \in DOMAIN texts : [text |-> texts[i], request |-> n, size |-> 0] \in Item
  BY <1>1, QtAssumption DEF Item
<1>3. Lines(n, texts) \in [1 .. Len(texts) -> Item]
  BY <1>1, <1>2 DEF Lines
<1>4. Lines(n, texts) \in Seq(Item)
  BY <1>1, <1>3
<1>5. Len(Lines(n, texts)) = Len(texts)
  BY <1>1, <1>3
<1> QED
  BY <1>1, <1>3, <1>4, <1>5 DEF Lines

\* Lines that are neither header nor chunk, of which only the last is final.
LEMMA LinesAnswer ==
    ASSUME NEW n \in Nat, NEW texts \in Seq(Texts), NEW r,
           \A i \in DOMAIN texts : texts[i] \notin {"file", "chunk"},
           \A i, j \in DOMAIN texts : i < j => ~Final(r[n], texts[i])
    PROVE  Answer(Lines(n, texts), n, r)
<1>1. Len(texts) \in Nat /\ DOMAIN texts = 1 .. Len(texts)
  BY LenProperties
<1> DEFINE c == Lines(n, texts)
<1>2. /\ c \in Seq(Item) /\ DOMAIN c = DOMAIN texts /\ Len(c) = Len(texts)
      /\ \A i \in DOMAIN texts : c[i].text = texts[i] /\ c[i].request = n
  BY LinesFacts
<1> HIDE DEF c
<1>3. \A i \in DOMAIN c : c[i].text # "file" /\ c[i].text # "chunk" /\ i \in Nat \ {0}
  BY <1>1, <1>2
<1>4. Framed(c, 0)
  BY <1>1, <1>2, <1>3 DEF Framed, InFile
<1>5. Answer(c, n, r)
  BY <1>2, <1>4 DEF Answer
<1> QED
  BY <1>5 DEF c

LEMMA FileAnswer ==
    ASSUME NEW n \in Nat, NEW size \in 0 .. MaxChunks, NEW r
    PROVE  /\ File(n, size) \in Seq(Item)
           /\ Answer(File(n, size), n, r)
           /\ \A i \in DOMAIN File(n, size) : File(n, size)[i].text \in {"file", "chunk"}
<1> DEFINE texts  == [i \in 1 .. size |-> "chunk"]
           header == [text |-> "file", request |-> n, size |-> size]
           f      == File(n, size)
<1>0. size \in Nat
  BY QtAssumption
<1>1. texts \in Seq(Texts) /\ DOMAIN texts = 1 .. size /\ Len(texts) = size
  BY <1>0 DEF Texts
<1>2. header \in Item /\ <<header>> \in Seq(Item)
  BY DEF Item, Texts
<1>3. f = <<header>> \o Lines(n, texts)
  BY DEF File
<1>4. \A i \in 1 .. size : texts[i] = "chunk"
  OBVIOUS
<1>5. header.text = "file" /\ header.request = n /\ header.size = size
  OBVIOUS
<1> HIDE DEF texts, header
<1>6. /\ Lines(n, texts) \in Seq(Item) /\ Len(Lines(n, texts)) = size
      /\ DOMAIN Lines(n, texts) = 1 .. size
      /\ \A i \in 1 .. size : Lines(n, texts)[i].text = "chunk" /\ Lines(n, texts)[i].request = n
  BY <1>1, <1>4, LinesFacts
<1>7. Len(<<header>>) = 1 /\ DOMAIN <<header>> = 1 .. 1 /\ <<header>>[1] = header
  OBVIOUS
<1>8. /\ f \in Seq(Item) /\ Len(f) = 1 + size /\ DOMAIN f = 1 .. 1 + size
      /\ f[1] = header
      /\ \A i \in 1 .. size : f[1 + i] = Lines(n, texts)[i]
  <2>1. /\ f \in Seq(Item) /\ Len(f) = Len(<<header>>) + Len(Lines(n, texts))
        /\ DOMAIN f = 1 .. Len(<<header>>) + Len(Lines(n, texts))
        /\ \A i \in DOMAIN <<header>> : f[i] = <<header>>[i]
        /\ \A i \in DOMAIN Lines(n, texts) : f[Len(<<header>>) + i] = Lines(n, texts)[i]
    BY <1>2, <1>3, <1>6, ConcatFacts
  <2> QED
    BY <2>1, <1>0, <1>6, <1>7
<1> HIDE DEF f
<1>9. \A i \in DOMAIN f : \/ i = 1 /\ f[i].text = "file" /\ f[i].size = size /\ f[i].request = n
                          \/ i > 1 /\ f[i].text = "chunk" /\ f[i].request = n
  <2> TAKE i \in DOMAIN f
  <2>1. CASE i = 1
    <3>1. f[1].text = "file" /\ f[1].size = size /\ f[1].request = n
      BY <1>5, <1>8
    <3> QED
      BY <2>1, <3>1
  <2>2. CASE i # 1
    <3>1. i - 1 \in 1 .. size /\ i = 1 + (i - 1) /\ i > 1
      BY <2>2, <1>0, <1>8
    <3>2. f[1 + (i - 1)] = Lines(n, texts)[i - 1]
      BY <3>1, <1>8
    <3>3. f[1 + (i - 1)].text = "chunk" /\ f[1 + (i - 1)].request = n
      BY <3>1, <3>2, <1>6
    <3> QED
      BY <3>1, <3>3
  <2> QED
    BY <2>1, <2>2
<1>10. Framed(f, 0)
  <2>1. \A h \in DOMAIN f : f[h].text = "file" => h = 1 /\ f[h].size = size
    BY <1>9
  <2>2. 1 \in DOMAIN f /\ f[1].text = "file" /\ f[1].size = size
    BY <1>0, <1>8, <1>9
  <2>3. ASSUME NEW i \in DOMAIN f
        PROVE  f[i].text = "chunk" <=> i <= 0 \/ \E h \in DOMAIN f : InFile(f, h, i)
    <3>1. CASE i = 1
      <4>1. \A h \in DOMAIN f : ~InFile(f, h, 1)
        BY <2>1 DEF InFile
      <4> QED
        BY <3>1, <4>1, <1>9
    <3>2. CASE i # 1
      <4>1. i > 1 /\ f[i].text = "chunk" /\ i <= 1 + size
        BY <3>2, <1>0, <1>8, <1>9
      <4>2. InFile(f, 1, i)
        BY <2>2, <4>1 DEF InFile
      <4> QED
        BY <2>2, <4>1, <4>2
    <3> QED
      BY <3>1, <3>2
  <2> QED
    BY <2>1, <2>3, <1>0, <1>8 DEF Framed
<1>11. Answer(f, n, r)
  BY <1>0, <1>8, <1>9, <1>10 DEF Answer
<1> QED
  BY <1>8, <1>9, <1>11 DEF f

-----------------------------------------------------------------------------
(* What every step keeps *)

\* Requests are only ever added.
Grown ==
    /\ requests' \in Seq(Kinds)
    /\ Len(requests) <= Len(requests')
    /\ \A n \in DOMAIN requests : requests'[n] = requests[n]

LEMMA GrownFacts ==
    ASSUME TypeOK, NEW kind \in Kinds, requests' = Append(requests, kind) \/ requests' = requests
    PROVE  /\ Grown
           /\ Len(requests) \in Nat /\ DOMAIN requests = 1 .. Len(requests)
           /\ Len(requests') \in Nat /\ DOMAIN requests' = 1 .. Len(requests')
           /\ toServer \in Seq(DOMAIN requests')
           /\ requests' = Append(requests, kind) =>
                 /\ Len(requests') = Len(requests) + 1
                 /\ requests'[Len(requests) + 1] = kind
                 /\ Append(toServer, Len(requests) + 1) \in Seq(DOMAIN requests')
<1>1. /\ requests \in Seq(Kinds) /\ Len(requests) \in Nat
      /\ DOMAIN requests = 1 .. Len(requests) /\ toServer \in Seq(DOMAIN requests)
  BY LenProperties DEF TypeOK
<1>2. CASE requests' = requests
  <2>1. Grown
    BY <1>1, <1>2 DEF Grown
  <2> DEFINE a == Append(requests, kind)
  <2>2. Len(a) = Len(requests) + 1
    BY <1>1, AppendFacts
  <2> HIDE DEF a
  <2>3. requests' # a
    BY <2>2, <1>1, <1>2
  <2>4. /\ Len(requests') \in Nat /\ DOMAIN requests' = 1 .. Len(requests')
        /\ toServer \in Seq(DOMAIN requests')
    BY <1>1, <1>2
  <2> QED
    BY <2>1, <2>3, <2>4, <1>1 DEF a
<1>3. CASE requests' = Append(requests, kind)
  <2> DEFINE n == Len(requests) + 1
  <2>1. /\ requests' \in Seq(Kinds) /\ Len(requests') = n
        /\ DOMAIN requests' = 1 .. n /\ requests'[n] = kind
        /\ \A i \in DOMAIN requests : requests'[i] = requests[i]
    BY <1>1, <1>3, AppendFacts
  <2>2. DOMAIN requests \subseteq DOMAIN requests' /\ n \in DOMAIN requests'
    BY <2>1, <1>1
  <2>3. toServer \in Seq(DOMAIN requests')
    BY <2>2, <1>1, SeqMonotonic
  <2>4. Append(toServer, n) \in Seq(DOMAIN requests')
    BY <2>2, <2>3, AppendFacts
  <2>5. Grown
    BY <2>1, <1>1 DEF Grown
  <2> QED
    BY <2>1, <2>3, <2>4, <2>5, <1>1
<1> QED
  BY <1>2, <1>3

LEMMA BelongsStays ==
    ASSUME TypeOK, Grown, session => session', stray # "none" => stray' # "none",
           NEW e \in Item, Belongs(e)
    PROVE  Belongs(e)'
<1>1. Len(requests) \in Nat /\ Len(requests') \in Nat /\ DOMAIN requests = 1 .. Len(requests)
  BY LenProperties DEF TypeOK, Grown
<1>2. e.request # 0 => requests'[e.request] = requests[e.request]
  BY <1>1 DEF Belongs, Grown
<1>3. e.request \in 0 .. Len(requests')
  BY <1>1 DEF Belongs, Grown
<1> QED
  BY <1>2, <1>3 DEF Belongs

LEMMA ComingFacts ==
    ASSUME TypeOK
    PROVE  /\ buffer \in Seq(Item) /\ answering \in Seq(Item) /\ Coming \in Seq(Item)
           /\ \A i \in DOMAIN Coming : Coming[i] \in Item
<1>1. buffer \in Seq(Item) /\ answering \in Seq(Item)
  BY DEF TypeOK
<1>2. Coming \in Seq(Item)
  BY <1>1, ConcatProperties DEF Coming
<1> QED
  BY <1>1, <1>2, LenProperties, ElementOfSeq

\* Nothing new comes.
LEMMA ItemsStay ==
    ASSUME TypeOK, Items, Grown, session => session', stray # "none" => stray' # "none",
           \/ Coming' = Coming
           \/ Coming # <<>> /\ Coming' = Tail(Coming)
    PROVE  Items'
<1> DEFINE s == Coming
           t == Coming'
<1>1. s \in Seq(Item) /\ \A i \in DOMAIN s : s[i] \in Item
  BY ComingFacts
<1>2. ASSUME NEW i \in DOMAIN t PROVE \E k \in DOMAIN s : t[i] = s[k]
  <2>1. CASE t = s
    BY <2>1
  <2>2. CASE s # <<>> /\ t = Tail(s)
    <3>1. /\ Len(s) \in Nat \ {0} /\ DOMAIN s = 1 .. Len(s) /\ DOMAIN t = 1 .. Len(s) - 1
          /\ \A k \in 1 .. Len(s) - 1 : t[k] = s[k + 1]
      BY <2>2, <1>1, TailFacts
    <3> QED
      BY <3>1
  <2> QED
    BY <2>1, <2>2
<1>3. ASSUME NEW i \in DOMAIN Coming' PROVE \E e \in Item : e = Coming'[i] /\ Belongs(e)'
  <2>1. PICK k \in DOMAIN s : t[i] = s[k]
    BY <1>2
  <2>2. PICK e \in Item : e = s[k]
    BY <1>1
  <2>3. Belongs(e)
    BY <2>2 DEF Items
  <2>4. Belongs(e)'
    BY <2>3, BelongsStays
  <2>5. e = Coming'[i]
    BY <2>1, <2>2
  <2> QED
    BY <2>4, <2>5
<1> QED
  BY <1>3 DEF Items, Belongs

-----------------------------------------------------------------------------
(* What the client reads *)

\* What a step may make of stray.
StrayStep ==
    /\ stray' \in {"none", "greeting", "event", "group", "payload"}
    /\ stray # "none" => stray' = stray
    /\ stray' \notin {"none", "greeting"} => session

\* Where the first of what comes is read.
LEMMA ReadStep ==
    ASSUME Inv, buffer # <<>>, buffer' = Tail(buffer), UNCHANGED <<up, session, answering>>,
           Grown, pending' \in 0 .. Len(requests'), lines' \subseteq Texts,
           left' \in 0 .. MaxChunks, timers' \subseteq {"history", "posts"},
           toServer' \in Seq(DOMAIN requests'), window' \in {"login", "main"},
           window' = "login" => /\ window = "login" /\ requests' = requests
                                /\ timers' = timers /\ left' = 0,
           window' = "main" => window = "main" \/ session \/ stray' = "greeting",
           pending' # 0 => requests'[pending'] \notin Unawaited,
           StrayStep,
           stray' = "none" => InStep(Tail(Coming), requests', pending', toServer', left')
    PROVE  Inv'
<1>1. TypeOK /\ Items /\ Windows /\ LoginGenuine
  BY DEF Inv
<1>2. up
  BY <1>1 DEF Windows
<1>3. buffer \in Seq(Item) /\ answering \in Seq(Item) /\ Tail(buffer) \in Seq(Item)
  BY <1>1, ComingFacts, TailFacts
<1>4. Coming # <<>> /\ Coming' = Tail(Coming)
  BY <1>3, TailOfConcat DEF Coming
<1>5. TypeOK'
  BY <1>1, <1>3 DEF TypeOK, StrayStep, Grown, Kinds, Unawaited
<1>6. Items'
  BY <1>1, <1>4, ItemsStay DEF StrayStep
<1>7. Windows'
  BY <1>1, <1>2 DEF Windows, StrayStep
<1>8. LoginGenuine'
  BY <1>1, <1>2 DEF LoginGenuine, StrayStep
<1>9. stray' = "none" => Together'
  BY <1>4 DEF Together
<1> QED
  BY <1>5, <1>6, <1>7, <1>8, <1>9 DEF Inv

LEMMA HeadFacts ==
    ASSUME Inv, buffer # <<>>
    PROVE  /\ up
           /\ Coming \in Seq(Item) /\ Coming # <<>> /\ Head(Coming) = Head(buffer)
           /\ Head(buffer) \in Item /\ Belongs(Head(buffer))
           /\ stray = "none" =>
                 /\ Together
                 /\ Expected(Head(buffer), requests, pending)
                 /\ Head(buffer).text = "chunk" <=> left > 0
<1>1. TypeOK /\ Items /\ Windows
  BY DEF Inv
<1>2. up
  BY <1>1 DEF Windows
<1>3. buffer \in Seq(Item) /\ answering \in Seq(Item) /\ Coming \in Seq(Item)
  BY <1>1, ComingFacts
<1>4. Coming # <<>> /\ Head(Coming) = Head(buffer)
  BY <1>3, TailOfConcat DEF Coming
<1>5. Head(buffer) \in Item
  BY <1>3, TailFacts
<1>6. 1 \in DOMAIN Coming /\ Coming[1] = Head(buffer)
  <2>1. /\ Len(Coming) \in Nat \ {0} /\ DOMAIN Coming = 1 .. Len(Coming)
        /\ Coming[1] = Head(Coming)
    BY <1>3, <1>4, TailFacts
  <2> QED
    BY <2>1, <1>4
<1>7. Belongs(Head(buffer))
  BY <1>1, <1>6 DEF Items
<1>8. left \in Nat
  BY <1>1, QtAssumption DEF TypeOK
<1>9. ASSUME stray = "none"
      PROVE  /\ Together
             /\ Expected(Head(buffer), requests, pending)
             /\ Head(buffer).text = "chunk" <=> left > 0
  <2>1. Together
    BY <1>2, <1>9 DEF Inv
  <2>2. Expected(Head(buffer), requests, pending)
    BY <2>1, <1>6 DEF Together, InStep
  <2>3. Framed(Coming, left)
    BY <2>1 DEF Together, InStep
  <2> QED
    BY <2>1, <2>2, <2>3, <1>3, <1>4, <1>8, HeadFramed
<1> QED
  BY <1>2, <1>3, <1>4, <1>5, <1>7, <1>9

LEMMA LineFacts ==
    ASSUME Inv, NEW text, Line(text)
    PROVE  /\ left = 0 /\ buffer # <<>> /\ buffer' = Tail(buffer)
           /\ text \in Texts
           /\ stray = "none" \/ window = "login" =>
                 /\ Head(buffer).text = text
                 /\ text # "chunk" /\ text # "message"
<1>1. left = 0 /\ buffer # <<>> /\ buffer' = Tail(buffer)
  BY DEF Line
<1>2. /\ Head(buffer) \in Item /\ Belongs(Head(buffer))
      /\ stray = "none" => (Head(buffer).text = "chunk" <=> left > 0)
  BY <1>1, HeadFacts
<1>3. text \in Texts
  BY <1>1, <1>2, ItemFacts DEF Line, Texts
<1>4. stray = "none" => Head(buffer).text # "chunk"
  BY <1>1, <1>2
<1>5. ASSUME window = "login" PROVE Head(buffer).text # "chunk"
  <2>1. requests \in Seq(LoginKinds)
    BY <1>5 DEF Inv, Windows
  <2>2. DOMAIN requests = 1 .. Len(requests) /\ Len(requests) \in Nat
    BY <2>1, LenProperties
  <2>3. Head(buffer).request # 0 => requests[Head(buffer).request] \in LoginKinds
    BY <2>1, <2>2, <1>2, ElementOfSeq DEF Belongs
  <2> QED
    BY <2>3, <1>2 DEF Belongs, LoginKinds
<1> QED
  BY <1>1, <1>3, <1>4, <1>5 DEF Line

\* A line is taken for the answer of what waits.
LEMMA UsesFacts ==
    ASSUME Inv, NEW text, Line(text), Uses, pending # 0
    PROVE  /\ StrayStep
           /\ stray' = "none" => stray = "none" /\ Head(buffer).request = pending
<1> DEFINE e == Head(buffer)
<1>1. /\ TypeOK /\ Windows /\ LoginGenuine
      /\ up /\ e \in Item /\ Belongs(e)
      /\ stray = "none" => Expected(e, requests, pending)
  BY HeadFacts, LineFacts DEF Inv
<1>2. stray = "none" => e.text = text /\ text # "chunk" /\ text # "message"
  BY LineFacts
<1> HIDE DEF e
<1>3. stray' = IF stray = "none" /\ e.request # pending THEN Cause(e) ELSE stray
  BY DEF Uses, e
<1>4. CASE stray = "none" /\ e.request # pending
  <2>1. CASE e.request = 0
    <3>1. Cause(e) = e.text /\ (e.text = "greeting" \/ (session /\ e.text = "event"))
      BY <2>1, <1>1, <1>2, <1>4 DEF Cause, Belongs
    <3> QED
      BY <3>1, <1>3, <1>4 DEF StrayStep
  <2>2. CASE e.request # 0
    <3>1. requests[e.request] \in Unawaited
      BY <2>2, <1>1, <1>2, <1>4 DEF Expected
    <3>2. requests[e.request] = "group"
      BY <3>1, <2>2, <1>1, <1>2, <1>4 DEF Belongs, Unawaited
    <3>3. window # "login"
      <4>1. ASSUME window = "login" PROVE requests[e.request] \in LoginKinds
        <5>1. requests \in Seq(LoginKinds)
          BY <4>1, <1>1 DEF Windows
        <5>2. Len(requests) \in Nat
          BY <5>1, LenProperties
        <5>3. e.request \in 1 .. Len(requests)
          BY <5>2, <2>2, <1>1 DEF Belongs
        <5> QED
          BY <5>1, <5>3, ElementOfSeq
      <4> QED
        BY <4>1, <3>2 DEF LoginKinds
    <3>4. session
      BY <3>3, <1>1, <1>4 DEF TypeOK, LoginGenuine
    <3>5. Cause(e) = "group"
      BY <2>2, <3>2 DEF Cause
    <3> QED
      BY <3>4, <3>5, <1>3, <1>4 DEF StrayStep
  <2> QED
    BY <2>1, <2>2
<1>5. CASE ~(stray = "none" /\ e.request # pending)
  <2>1. stray' = stray
    BY <1>3, <1>5
  <2> QED
    BY <2>1, <1>1, <1>5 DEF StrayStep, Windows, e
<1> QED
  BY <1>4, <1>5

\* In step, a header is that of the download that waits.
LEMMA HeaderFacts ==
    ASSUME Inv, buffer # <<>>, stray = "none", Head(buffer).text = "file"
    PROVE  /\ pending # 0 /\ Head(buffer).request = pending
           /\ requests[pending] = "download"
           /\ session
<1> DEFINE e == Head(buffer)
<1>1. /\ TypeOK /\ Windows /\ LoginGenuine /\ up /\ e \in Item /\ Belongs(e)
      /\ Expected(e, requests, pending)
      /\ e.text = "file"
  BY HeadFacts DEF Inv
<1> HIDE DEF e
<1>2. e.request # 0 /\ requests[e.request] = "download"
  BY <1>1 DEF Belongs
<1>3. e.request = pending
  BY <1>1, <1>2 DEF Expected, Unawaited
<1>4. window # "login"
  <2>1. ASSUME window = "login" PROVE requests[e.request] \in LoginKinds
    <3>1. requests \in Seq(LoginKinds)
      BY <2>1, <1>1 DEF Windows
    <3>2. Len(requests) \in Nat
      BY <3>1, LenProperties
    <3>3. e.request \in 1 .. Len(requests)
      BY <3>2, <1>1, <1>2 DEF Belongs
    <3> QED
      BY <3>1, <3>3, ElementOfSeq
  <2> QED
    BY <2>1, <1>2 DEF LoginKinds
<1>5. session
  BY <1>1, <1>4 DEF TypeOK, LoginGenuine
<1> QED
  BY <1>2, <1>3, <1>5 DEF e

LEMMA GrownNot == ASSUME TypeOK, requests' = requests PROVE Grown /\ Len(requests) \in Nat
<1>1. requests \in Seq(Kinds)
  BY DEF TypeOK
<1>2. Len(requests) \in Nat
  BY <1>1, LenProperties
<1> QED
  BY <1>1, <1>2 DEF Grown

\* A line or a chunk is read that ends nothing.
LEMMA ReadOn ==
    ASSUME Inv, buffer # <<>>, buffer' = Tail(buffer),
           UNCHANGED <<up, window, requests, pending, timers, toServer, session, answering>>,
           lines' \subseteq Texts,
           StrayStep, stray' = "none" => stray = "none",
           \/ left > 0 /\ left' = left - 1
           \/ /\ left = 0 /\ left' = 0
              /\ stray = "none" => Head(buffer).text # "file"
    PROVE  Inv'
<1>1. TypeOK /\ Windows /\ MaxChunks \in Nat
  BY QtAssumption DEF Inv
<1>2. left \in Nat /\ left' \in 0 .. MaxChunks
  BY <1>1 DEF TypeOK
<1>3. window = "login" => left' = 0
  BY <1>1, <1>2 DEF Windows
<1>4. Grown
  BY <1>1, GrownNot
<1>5. ASSUME stray' = "none"
      PROVE  InStep(Tail(Coming), requests', pending', toServer', left')
  <2>1. /\ Together /\ Coming \in Seq(Item) /\ Coming # <<>>
        /\ Head(Coming) = Head(buffer)
    BY <1>5, HeadFacts
  <2>2. InStep(Coming, requests, pending, toServer, left)
    BY <2>1 DEF Together
  <2>3. left' \in Nat
    BY <1>1, <1>2
  <2>4. InStep(Tail(Coming), requests, pending, toServer, left')
    BY <2>1, <2>2, <2>3, <1>2, <1>5, PayloadRead
  <2> QED
    BY <2>4
<1>6. /\ pending' \in 0 .. Len(requests') /\ timers' \subseteq {"history", "posts"}
      /\ toServer' \in Seq(DOMAIN requests') /\ window' \in {"login", "main"}
      /\ pending' # 0 => requests'[pending'] \notin Unawaited
  BY <1>1 DEF TypeOK, Windows
<1> QED
  BY <1>2, <1>3, <1>4, <1>5, <1>6, ReadStep

\* The line that ends what waits is read.
LEMMA ReadEnd ==
    ASSUME Inv, buffer # <<>>, buffer' = Tail(buffer), FinishPending,
           UNCHANGED <<up, window, requests, timers, toServer, session, answering>>,
           left = 0, left' \in 0 .. MaxChunks, window = "login" => left' = 0,
           StrayStep,
           stray' = "none" =>
              /\ stray = "none" /\ pending # 0 /\ Head(buffer).request = pending
              /\ Final(requests[pending], Head(buffer).text)
              /\ left' = IF Head(buffer).text = "file" THEN Head(buffer).size ELSE 0
    PROVE  Inv'
<1>1. TypeOK /\ Windows /\ MaxChunks \in Nat
  BY QtAssumption DEF Inv
<1>2. Grown /\ Len(requests) \in Nat
  BY <1>1, GrownNot
<1>3. pending' = 0 /\ lines' = {}
  BY DEF FinishPending
<1>4. ASSUME stray' = "none"
      PROVE  InStep(Tail(Coming), requests', pending', toServer', left')
  <2>1. /\ Together /\ Coming \in Seq(Item) /\ Coming # <<>>
        /\ Head(Coming) = Head(buffer)
    BY <1>4, HeadFacts
  <2>2. InStep(Coming, requests, pending, toServer, 0)
    BY <2>1 DEF Together
  <2>3. left' \in Nat
    BY <1>1
  <2>4. requests \in Seq(Kinds) /\ toServer \in Seq(DOMAIN requests) /\ pending \in DOMAIN requests
    BY <1>1, <1>2, <1>4, LenProperties DEF TypeOK
  <2>5. InStep(Tail(Coming), requests, 0, toServer, left')
    BY <2>1, <2>2, <2>3, <2>4, <1>4, EndRead
  <2> QED
    BY <2>5, <1>3
<1>5. /\ pending' \in 0 .. Len(requests') /\ timers' \subseteq {"history", "posts"}
      /\ toServer' \in Seq(DOMAIN requests') /\ window' \in {"login", "main"}
      /\ pending' # 0 => requests'[pending'] \notin Unawaited
      /\ lines' \subseteq Texts
  BY <1>1, <1>2, <1>3 DEF TypeOK
<1> QED
  BY <1>2, <1>4, <1>5, ReadStep

LEMMA KindFacts ==
    ASSUME TypeOK
    PROVE  /\ pending = 0 => Kind = "none"
           /\ pending # 0 => Kind = requests[pending] /\ Kind \in Kinds
           /\ Kind = "none" => pending = 0
<1>1. pending # 0 => requests[pending] \in Kinds
  <2>1. requests \in Seq(Kinds) /\ pending \in 0 .. Len(requests)
    BY DEF TypeOK
  <2>2. Len(requests) \in Nat
    BY <2>1, LenProperties
  <2> QED
    BY <2>1, <2>2, ElementOfSeq
<1> QED
  BY <1>1 DEF Kind, Kinds, LoginKinds, MainKinds, Unawaited

\* The kind of what waits is no header.
LEMMA NoHeader ==
    ASSUME Inv, buffer # <<>>, stray = "none", Kind # "download"
    PROVE  Head(buffer).text # "file"
BY HeaderFacts, KindFacts DEF Inv

LEMMA StraySame == ASSUME Inv, stray' = stray PROVE (stray # "none" => up) => StrayStep
BY DEF StrayStep, Inv, Windows

LEMMA ReadPayloadInv == Inv /\ ReadPayload => Inv'
<1> SUFFICES ASSUME Inv, ReadPayload PROVE Inv'
  OBVIOUS
<1>1. buffer # <<>> /\ buffer' = Tail(buffer) /\ left > 0 /\ left' = left - 1
  BY DEF ReadPayload
<1>2. /\ UNCHANGED <<up, window, requests, pending, timers, toServer, session, answering>>
      /\ lines' = lines /\ stray' = stray
  BY DEF ReadPayload, ui, server
<1>3. lines \subseteq Texts
  BY DEF Inv, TypeOK
<1>4. StrayStep
  BY <1>1, <1>2, HeadFacts, StraySame
<1> QED
  BY <1>1, <1>2, <1>3, <1>4, ReadOn

LEMMA ReadAsyncInv == Inv /\ ReadAsync => Inv'
<1> SUFFICES ASSUME Inv, ReadAsync PROVE Inv'
  OBVIOUS
<1>1. /\ buffer # <<>> /\ buffer' = Tail(buffer) /\ left = 0 /\ left' = 0
      /\ Head(buffer).text # "file"
  BY DEF ReadAsync
<1>2. /\ UNCHANGED <<up, window, requests, pending, timers, toServer, session, answering>>
      /\ lines' = lines /\ stray' = stray
  BY DEF ReadAsync, ui, server
<1>3. lines \subseteq Texts
  BY DEF Inv, TypeOK
<1>4. StrayStep
  BY <1>1, <1>2, HeadFacts, StraySame
<1> QED
  BY <1>1, <1>2, <1>3, <1>4, ReadOn

LEMMA ReadUnaskedInv == ASSUME NEW text, Inv, ReadUnasked(text) PROVE Inv'
<1>1. Line(text) /\ Kind = "none"
  BY DEF ReadUnasked
<1>2. buffer # <<>> /\ buffer' = Tail(buffer) /\ left = 0
  BY <1>1, LineFacts
<1>3. /\ UNCHANGED <<up, window, requests, pending, timers, toServer, session, answering>>
      /\ lines' = lines /\ stray' = stray /\ left' = 0
  BY <1>2 DEF ReadUnasked, ui, server
<1>4. lines \subseteq Texts
  BY DEF Inv, TypeOK
<1>5. StrayStep
  BY <1>2, <1>3, HeadFacts, StraySame
<1>6. stray = "none" => Head(buffer).text # "file"
  BY <1>1, <1>2, NoHeader
<1> QED
  BY <1>2, <1>3, <1>4, <1>5, <1>6, ReadOn

LEMMA ReadAnswerInv == ASSUME NEW text, Inv, ReadAnswer(text) PROVE Inv'
<1>1. /\ Line(text) /\ Uses /\ FinishPending
      /\ Kind \in {"register", "who", "private", "create", "reply"}
  BY DEF ReadAnswer
<1>2. buffer # <<>> /\ buffer' = Tail(buffer) /\ left = 0
  BY <1>1, LineFacts
<1>3. /\ UNCHANGED <<up, window, requests, timers, toServer, session, answering>>
      /\ left' = 0 /\ left' \in 0 .. MaxChunks
  BY <1>2, QtAssumption DEF ReadAnswer, server
<1>4. pending # 0 /\ Kind = requests[pending]
  BY <1>1, KindFacts DEF Inv
<1>5. StrayStep /\ (stray' = "none" => stray = "none" /\ Head(buffer).request = pending)
  BY <1>1, <1>4, UsesFacts
<1>6. stray = "none" => Head(buffer).text # "file"
  BY <1>1, <1>2, NoHeader
<1>7. Final(requests[pending], Head(buffer).text)
  BY <1>1, <1>4 DEF Final
<1> QED
  BY <1>1, <1>2, <1>3, <1>4, <1>5, <1>6, <1>7, ReadEnd

LEMMA ReadDownloadRefusedInv == ASSUME NEW text, Inv, ReadDownloadRefused(text) PROVE Inv'
<1>1. /\ Line(text) /\ Uses /\ FinishPending /\ Kind = "download" /\ text # "file"
  BY DEF ReadDownloadRefused
<1>2. /\ buffer # <<>> /\ buffer' = Tail(buffer) /\ left = 0
      /\ stray = "none" => Head(buffer).text # "file"
  BY <1>1, LineFacts
<1>3. /\ UNCHANGED <<up, window, requests, timers, toServer, session, answering>>
      /\ left' = 0 /\ left' \in 0 .. MaxChunks
  BY <1>2, QtAssumption DEF ReadDownloadRefused, server
<1>4. pending # 0 /\ Kind = requests[pending]
  BY <1>1, KindFacts DEF Inv
<1>5. StrayStep /\ (stray' = "none" => stray = "none" /\ Head(buffer).request = pending)
  BY <1>1, <1>4, UsesFacts
<1>6. Final(requests[pending], Head(buffer).text)
  BY <1>1, <1>4 DEF Final
<1> QED
  BY <1>1, <1>2, <1>3, <1>4, <1>5, <1>6, ReadEnd

LEMMA ReadListedInv == ASSUME NEW text, Inv, ReadListed(text) PROVE Inv'
<1>1. Line(text) /\ Kind \in {"list", "view"}
  BY DEF ReadListed
<1>2. /\ buffer # <<>> /\ buffer' = Tail(buffer) /\ left = 0 /\ text \in Texts
      /\ stray = "none" => Head(buffer).text = text
  BY <1>1, LineFacts
<1>3. /\ UNCHANGED <<up, window, requests, timers, toServer, session, answering>>
      /\ left' = 0 /\ left' \in 0 .. MaxChunks
  BY <1>2, QtAssumption DEF ReadListed, server
<1>4. pending # 0 /\ Kind = requests[pending] /\ lines \subseteq Texts
  BY <1>1, KindFacts DEF Inv, TypeOK
<1>5. stray = "none" => Head(buffer).text # "file"
  BY <1>1, <1>2, NoHeader
<1>6. /\ StrayStep
      /\ stray' = "none" => stray = "none"
      /\ stray' = "none" /\ Ends(text) => Head(buffer).request = pending
  <2>1. CASE Ends(text) \/ text \in {"post", "notfound"}
    <3>1. Uses
      BY <2>1 DEF ReadListed
    <3> QED
      BY <3>1, <1>1, <1>4, UsesFacts
  <2>2. CASE ~(Ends(text) \/ text \in {"post", "notfound"})
    <3>1. stray' = stray
      BY <2>2 DEF ReadListed
    <3>2. StrayStep
      BY <3>1, <1>2, HeadFacts, StraySame
    <3> QED
      BY <3>1, <3>2, <2>2
  <2> QED
    BY <2>1, <2>2
<1>7. CASE Ends(text)
  <2>1. FinishPending
    BY <1>7 DEF ReadListed
  <2>2. Final(Kind, text)
    BY <1>7 DEF Ends, Final
  <2> QED
    BY <2>1, <2>2, <1>2, <1>3, <1>4, <1>5, <1>6, <1>7, ReadEnd
<1>8. CASE ~Ends(text)
  <2>1. lines' = lines \cup {text} /\ pending' = pending
    BY <1>8 DEF ReadListed
  <2>2. lines' \subseteq Texts
    BY <2>1, <1>2, <1>4
  <2> QED
    BY <2>1, <2>2, <1>2, <1>3, <1>5, <1>6, ReadOn
<1> QED
  BY <1>7, <1>8

LEMMA ReadFileHeaderInv == Inv /\ ReadFileHeader => Inv'
<1> SUFFICES ASSUME Inv, ReadFileHeader PROVE Inv'
  OBVIOUS
<1>1. /\ Line("file") /\ Uses /\ FinishPending /\ Kind = "download"
      /\ left' = Head(buffer).size
  BY DEF ReadFileHeader
<1>2. buffer # <<>> /\ buffer' = Tail(buffer) /\ left = 0
  BY <1>1, LineFacts
<1>3. UNCHANGED <<up, window, requests, timers, toServer, session, answering>>
  BY DEF ReadFileHeader, server
<1>4. pending # 0 /\ Kind = requests[pending] /\ Windows
  BY <1>1, KindFacts DEF Inv
<1>5. StrayStep /\ (stray' = "none" => stray = "none" /\ Head(buffer).request = pending)
  BY <1>1, <1>4, UsesFacts
<1>6. Head(buffer).text = "file"
  BY DEF ReadFileHeader, Line
<1>7. Final(requests[pending], Head(buffer).text)
  BY <1>1, <1>4 DEF Final
<1>8. left' \in 0 .. MaxChunks
  BY <1>1, <1>2, HeadFacts, ItemFacts
<1>9. window # "login"
  <2>1. ASSUME window = "login" PROVE requests[pending] \in LoginKinds
    <3>1. requests \in Seq(LoginKinds) /\ pending \in 0 .. Len(requests)
      BY <2>1, <1>4 DEF Windows, Inv, TypeOK
    <3>2. Len(requests) \in Nat
      BY <3>1, LenProperties
    <3> QED
      BY <3>1, <3>2, <1>4, ElementOfSeq
  <2> QED
    BY <2>1, <1>1, <1>4 DEF LoginKinds
<1> QED
  BY <1>1, <1>2, <1>3, <1>4, <1>5, <1>6, <1>7, <1>8, <1>9, ReadEnd

LEMMA ReadFileHeaderInVainInv == Inv /\ ReadFileHeaderInVain => Inv'
<1> SUFFICES ASSUME Inv, ReadFileHeaderInVain PROVE Inv'
  OBVIOUS
<1>1. /\ Line("file") /\ FinishPending /\ Kind = "download"
      /\ stray' = IF stray = "none" /\ Head(buffer).size > 0 THEN "payload" ELSE stray
  BY DEF ReadFileHeaderInVain
<1>2. buffer # <<>> /\ buffer' = Tail(buffer) /\ left = 0
  BY <1>1, LineFacts
<1>3. /\ UNCHANGED <<up, window, requests, timers, toServer, session, answering>>
      /\ left' = 0 /\ left' \in 0 .. MaxChunks
  BY <1>2, QtAssumption DEF ReadFileHeaderInVain, server
<1>4. Head(buffer).text = "file"
  BY DEF ReadFileHeaderInVain, Line
<1>5. Head(buffer) \in Item /\ up
  BY <1>2, HeadFacts
<1>6. Head(buffer).size \in Nat
  BY <1>5, ItemFacts
<1>7. stray = "none" =>
         /\ pending # 0 /\ Head(buffer).request = pending /\ requests[pending] = "download"
         /\ session
  BY <1>2, <1>4, HeaderFacts
<1>8. stray' = "none" => stray = "none" /\ Head(buffer).size = 0
  BY <1>1, <1>6
<1>9. StrayStep
  <2>1. Windows
    BY DEF Inv
  <2> QED
    BY <2>1, <1>1, <1>5, <1>7 DEF StrayStep, Windows
<1>10. stray' = "none" => Final(requests[pending], Head(buffer).text)
  BY <1>7, <1>8 DEF Final
<1> QED
  BY <1>1, <1>2, <1>3, <1>4, <1>7, <1>8, <1>9, <1>10, ReadEnd

LEMMA ReadLoginAnswerInv == ASSUME NEW text, Inv, ReadLoginAnswer(text) PROVE Inv'
<1>1. Line(text) /\ Uses /\ Kind = "login" /\ TypeOK /\ Windows
  BY DEF ReadLoginAnswer, Inv
<1>2. /\ buffer # <<>> /\ buffer' = Tail(buffer) /\ left = 0 /\ text \in Texts
      /\ stray = "none" \/ window = "login" => Head(buffer).text = text
  BY <1>1, LineFacts
<1>3. /\ UNCHANGED <<up, session, answering>>
      /\ left' = 0 /\ left' \in 0 .. MaxChunks
  BY <1>2, QtAssumption DEF ReadLoginAnswer
<1>4. pending # 0 /\ requests[pending] = "login"
  BY <1>1, KindFacts
<1>5. StrayStep /\ (stray' = "none" => stray = "none" /\ Head(buffer).request = pending)
  BY <1>1, <1>4, UsesFacts
<1>6. stray = "none" => Head(buffer).text # "file"
  BY <1>1, <1>2, NoHeader
<1>7. Final(requests[pending], Head(buffer).text)
  BY <1>4 DEF Final
<1>8. CASE ~Succeeds(text)
  <2>1. FinishPending /\ UNCHANGED <<window, requests, timers, toServer>>
    BY <1>8 DEF ReadLoginAnswer
  <2> QED
    BY <2>1, <1>2, <1>3, <1>4, <1>5, <1>6, <1>7, ReadEnd
<1>9. CASE Succeeds(text)
  <2>1. /\ window' = "main" /\ timers' = {"history", "posts"}
        /\ requests' = Append(requests, "who") /\ pending' = Len(requests) + 1 /\ lines' = {}
        /\ toServer' = IF up THEN Append(toServer, Len(requests) + 1) ELSE toServer
    BY <1>9 DEF ReadLoginAnswer, Start
  <2>2. "who" \in Kinds /\ "who" \notin Unawaited
    BY DEF Kinds, MainKinds, Unawaited
  <2>3. /\ Grown /\ Len(requests) \in Nat /\ Len(requests') = Len(requests) + 1
        /\ requests'[Len(requests) + 1] = "who"
        /\ toServer' \in Seq(DOMAIN requests')
    BY <2>1, <2>2, <1>1, GrownFacts
  <2>4. /\ pending' \in 0 .. Len(requests') /\ lines' \subseteq Texts
        /\ requests'[pending'] \notin Unawaited
    BY <2>1, <2>2, <2>3
  <2>5. up /\ Belongs(Head(buffer)) /\ Head(buffer) \in Item
    BY <1>2, HeadFacts
  <2>6. ASSUME window # "main", ~session PROVE stray' = "greeting"
    <3>1. window = "login"
      BY <2>6, <1>1 DEF TypeOK
    <3>2. stray' \in {"none", "greeting"}
      BY <2>6, <1>5 DEF StrayStep
    <3>3. ASSUME stray' = "none" PROVE FALSE
      <4>1. requests[Head(buffer).request] = "login" /\ Head(buffer).request # 0
        BY <3>3, <1>4, <1>5
      <4>2. text = "err"
        BY <4>1, <3>1, <2>5, <2>6, <1>2 DEF Belongs
      <4> QED
        BY <4>2, <1>9 DEF Succeeds
    <3> QED
      BY <3>2, <3>3
  <2>7. ASSUME stray' = "none"
        PROVE  InStep(Tail(Coming), requests', pending', toServer', left')
    <3>1. /\ Together /\ Coming \in Seq(Item) /\ Coming # <<>>
          /\ Head(Coming) = Head(buffer) /\ Items
      BY <2>7, <1>2, <1>5, HeadFacts DEF Inv
    <3>2. InStep(Coming, requests, pending, toServer, 0)
      BY <3>1, <1>2 DEF Together
    <3>3. requests \in Seq(Kinds) /\ toServer \in Seq(DOMAIN requests) /\ pending \in DOMAIN requests
      BY <1>1, <1>4, <2>3, LenProperties DEF TypeOK
    <3>4. InStep(Tail(Coming), requests, 0, toServer, 0)
      BY <3>1, <3>2, <3>3, <2>7, <1>5, <1>6, <1>7, EndRead
    <3>5. Tail(Coming) \in Seq(Item)
      BY <3>1, TailFacts
    <3>6. \A i \in DOMAIN Tail(Coming) : Tail(Coming)[i].request \in 0 .. Len(requests)
      <4>1. /\ Len(Coming) \in Nat \ {0} /\ DOMAIN Coming = 1 .. Len(Coming)
            /\ DOMAIN Tail(Coming) = 1 .. Len(Coming) - 1
            /\ \A i \in 1 .. Len(Coming) - 1 : Tail(Coming)[i] = Coming[i + 1]
        BY <3>1, TailFacts
      <4>2. \A i \in DOMAIN Coming : Coming[i].request \in 0 .. Len(requests)
        BY <3>1 DEF Items, Belongs
      <4> QED
        BY <4>1, <4>2
    <3>7. InStep(Tail(Coming), Append(requests, "who"), Len(requests) + 1,
                 Append(toServer, Len(requests) + 1), 0)
      BY <3>3, <3>4, <3>5, <3>6, <2>2, RequestBegins
    <3> QED
      BY <3>7, <2>1, <2>5, <1>3
  <2> QED
    BY <2>1, <2>3, <2>4, <2>6, <2>7, <1>2, <1>3, <1>5, ReadStep
<1> QED
  BY <1>8, <1>9

LEMMA ReadInv == Inv /\ Read => Inv'
<1> SUFFICES ASSUME Inv, Read PROVE Inv'
  OBVIOUS
<1>1. CASE ReadPayload
  BY <1>1, ReadPayloadInv
<1>2. CASE ReadAsync
  BY <1>2, ReadAsyncInv
<1>3. ASSUME NEW text \in Texts, ReadUnasked(text) PROVE Inv'
  BY <1>3, ReadUnaskedInv
<1>4. ASSUME NEW text \in Texts, ReadLoginAnswer(text) PROVE Inv'
  BY <1>4, ReadLoginAnswerInv
<1>5. ASSUME NEW text \in Texts, ReadAnswer(text) PROVE Inv'
  BY <1>5, ReadAnswerInv
<1>6. ASSUME NEW text \in Texts, ReadListed(text) PROVE Inv'
  BY <1>6, ReadListedInv
<1>7. ASSUME NEW text \in Texts, ReadDownloadRefused(text) PROVE Inv'
  BY <1>7, ReadDownloadRefusedInv
<1>8. CASE ReadFileHeader
  BY <1>8, ReadFileHeaderInv
<1>9. CASE ReadFileHeaderInVain
  BY <1>9, ReadFileHeaderInVainInv
<1> QED
  BY <1>1, <1>2, <1>3, <1>4, <1>5, <1>6, <1>7, <1>8, <1>9 DEF Read

-----------------------------------------------------------------------------
(* What the user asks for *)

\* Nothing moves on the way to the client.
LEMMA RequestStep ==
    ASSUME Inv, UNCHANGED <<up, window, left, session, answering, buffer, stray>>,
           Grown, pending' \in 0 .. Len(requests'), lines' \subseteq Texts,
           timers' \subseteq {"history", "posts"}, toServer' \in Seq(DOMAIN requests'),
           window = "login" => requests' \in Seq(LoginKinds) /\ timers' = {},
           ~up => toServer' = <<>>,
           pending' # 0 => requests'[pending'] \notin Unawaited,
           up /\ stray = "none" => InStep(Coming, requests', pending', toServer', left)
    PROVE  Inv'
<1>1. TypeOK /\ Items /\ Windows /\ LoginGenuine
  BY DEF Inv
<1>2. Coming' = Coming
  BY DEF Coming
<1>3. TypeOK'
  BY <1>1 DEF TypeOK, Grown
<1>4. Items'
  BY <1>1, <1>2, ItemsStay
<1>5. Windows'
  BY <1>1 DEF Windows
<1>6. LoginGenuine'
  BY <1>1 DEF LoginGenuine
<1>7. up' /\ stray' = "none" => Together'
  BY <1>2 DEF Together
<1> QED
  BY <1>3, <1>4, <1>5, <1>6, <1>7 DEF Inv

LEMMA RequestFacts ==
    ASSUME Inv
    PROVE  /\ TypeOK /\ Windows
           /\ requests \in Seq(Kinds) /\ toServer \in Seq(DOMAIN requests)
           /\ pending \in 0 .. Len(requests) /\ Len(requests) \in Nat
           /\ Coming \in Seq(Item)
           /\ \A i \in DOMAIN Coming : Coming[i].request \in 0 .. Len(requests)
           /\ up /\ stray = "none" => InStep(Coming, requests, pending, toServer, left)
<1>1. TypeOK /\ Windows /\ Items /\ (up /\ stray = "none" => Together)
  BY DEF Inv
<1>2. requests \in Seq(Kinds) /\ toServer \in Seq(DOMAIN requests) /\ pending \in 0 .. Len(requests)
  BY <1>1 DEF TypeOK
<1>3. Len(requests) \in Nat
  BY <1>2, LenProperties
<1>4. Coming \in Seq(Item)
  BY <1>1, ComingFacts
<1> QED
  BY <1>1, <1>2, <1>3, <1>4 DEF Items, Belongs, Together

\* A request is made that will wait for its answer.
LEMMA StartInv ==
    ASSUME Inv, pending = 0, NEW kind \in Kinds \ Unawaited, Start(kind),
           UNCHANGED <<up, window, left, session, answering, buffer, stray>>,
           timers' \subseteq timers, window = "login" => kind \in LoginKinds
    PROVE  Inv'
<1>1. /\ requests' = Append(requests, kind) /\ pending' = Len(requests) + 1 /\ lines' = {}
      /\ toServer' = IF up THEN Append(toServer, Len(requests) + 1) ELSE toServer
  BY DEF Start
<1>2. kind \in Kinds /\ TypeOK /\ Windows
  BY DEF Inv
<1>3. /\ Grown /\ Len(requests) \in Nat /\ Len(requests') = Len(requests) + 1
      /\ requests'[Len(requests) + 1] = kind
      /\ toServer' \in Seq(DOMAIN requests')
  BY <1>1, <1>2, GrownFacts
<1>4. /\ pending' \in 0 .. Len(requests') /\ lines' \subseteq Texts
      /\ requests'[pending'] \notin Unawaited
      /\ timers' \subseteq {"history", "posts"}
  BY <1>1, <1>2, <1>3 DEF TypeOK
<1>5. window = "login" => requests' \in Seq(LoginKinds) /\ timers' = {}
  BY <1>1, <1>2, AppendFacts DEF Windows
<1>6. ~up => toServer' = <<>>
  BY <1>1, <1>2 DEF Windows
<1>7. ASSUME up, stray = "none" PROVE InStep(Coming, requests', pending', toServer', left)
  <2>1. InStep(Coming, requests, 0, toServer, left)
    BY <1>7, RequestFacts
  <2>2. InStep(Coming, Append(requests, kind), Len(requests) + 1,
               Append(toServer, Len(requests) + 1), left)
    BY <2>1, <1>2, RequestFacts, RequestBegins
  <2> QED
    BY <2>2, <1>1, <1>7
<1> QED
  BY <1>3, <1>4, <1>5, <1>6, <1>7, RequestStep

\* A command is sent from the main window and its answer not waited for.
LEMMA SendInv ==
    ASSUME Inv, NEW kind \in Unawaited, Send(kind), timers' \subseteq timers, window # "login"
    PROVE  Inv'
<1>1. /\ requests' = Append(requests, kind)
      /\ toServer' = IF up THEN Append(toServer, Len(requests) + 1) ELSE toServer
      /\ UNCHANGED <<up, window, left, session, answering, buffer, stray, pending, lines>>
  BY DEF Send
<1>2. kind \in Kinds /\ TypeOK /\ Windows
  BY DEF Inv, Kinds
<1>3. /\ Grown /\ Len(requests) \in Nat /\ Len(requests') = Len(requests) + 1
      /\ DOMAIN requests = 1 .. Len(requests)
      /\ toServer' \in Seq(DOMAIN requests')
  BY <1>1, <1>2, GrownFacts
<1>4. /\ pending' \in 0 .. Len(requests') /\ lines' \subseteq Texts
      /\ timers' \subseteq {"history", "posts"}
  BY <1>1, <1>2, <1>3 DEF TypeOK
<1>5. pending' # 0 => requests'[pending'] \notin Unawaited
  <2>1. pending # 0 => pending \in DOMAIN requests
    BY <1>2, <1>3 DEF TypeOK
  <2> QED
    BY <2>1, <1>1, <1>2, <1>3 DEF Windows, Grown
<1>6. ~up => toServer' = <<>>
  BY <1>1, <1>2 DEF Windows
<1>7. ASSUME up, stray = "none" PROVE InStep(Coming, requests', pending', toServer', left)
  <2>1. InStep(Coming, Append(requests, kind), pending,
               Append(toServer, Len(requests) + 1), left)
    BY <1>7, RequestFacts, UnawaitedSent
  <2> QED
    BY <2>1, <1>1, <1>7
<1> QED
  BY <1>1, <1>3, <1>4, <1>5, <1>6, <1>7, RequestStep

LEMMA AskInv == ASSUME Inv, NEW kind \in LoginKinds \cup MainKinds, Ask(kind) PROVE Inv'
<1>1. /\ window = IF kind \in LoginKinds THEN "login" ELSE "main"
      /\ pending = 0 /\ Start(kind)
      /\ UNCHANGED <<up, window, left, timers, session, answering, buffer, stray>>
  BY DEF Ask, MayStart
<1>2. kind \in Kinds \ Unawaited /\ (window = "login" => kind \in LoginKinds)
  BY <1>1 DEF Kinds, Unawaited, LoginKinds, MainKinds
<1> QED
  BY <1>1, <1>2, StartInv

LEMMA SendGroupMessageInv == Inv /\ SendGroupMessage => Inv'
<1> SUFFICES ASSUME Inv, SendGroupMessage PROVE Inv'
  OBVIOUS
<1>1. Send("group") /\ timers' \subseteq timers /\ window # "login" /\ "group" \in Unawaited
  BY DEF SendGroupMessage, Unawaited
<1> QED
  BY <1>1, SendInv

LEMMA RequestHistoryInv == Inv /\ RequestHistory => Inv'
<1> SUFFICES ASSUME Inv, RequestHistory PROVE Inv'
  OBVIOUS
<1>1. Send("history") /\ timers' \subseteq timers /\ "history" \in Unawaited
  BY DEF RequestHistory, Unawaited
<1>2. window # "login"
  BY DEF RequestHistory, Inv, Windows
<1> QED
  BY <1>1, <1>2, SendInv

LEMMA RefreshPostsInv == Inv /\ RefreshPosts => Inv'
<1> SUFFICES ASSUME Inv, RefreshPosts PROVE Inv'
  OBVIOUS
<1>1. /\ timers' = {} /\ timers' \subseteq timers
      /\ UNCHANGED <<up, window, left, session, answering, buffer, stray>>
  BY DEF RefreshPosts
<1>2. window # "login"
  BY DEF RefreshPosts, Inv, Windows
<1>3. CASE pending = 0
  <2>1. Start("list") /\ "list" \in Kinds \ Unawaited
    BY <1>3 DEF RefreshPosts, MayStart, Kinds, MainKinds, Unawaited
  <2> QED
    BY <2>1, <1>1, <1>2, <1>3, StartInv
<1>4. CASE pending # 0
  <2>1. UNCHANGED <<requests, pending, lines, toServer>>
    BY <1>4 DEF RefreshPosts, MayStart
  <2>2. Grown /\ TypeOK /\ Windows
    BY <2>1, GrownNot DEF Inv
  <2>3. /\ pending' \in 0 .. Len(requests') /\ lines' \subseteq Texts
        /\ timers' \subseteq {"history", "posts"} /\ toServer' \in Seq(DOMAIN requests')
    BY <2>1, <2>2, <1>1 DEF TypeOK
  <2>4. pending' # 0 => requests'[pending'] \notin Unawaited
    BY <2>1, <2>2 DEF Windows
  <2>5. ~up => toServer' = <<>>
    BY <2>1, <2>2 DEF Windows
  <2>6. up /\ stray = "none" => InStep(Coming, requests', pending', toServer', left)
    BY <2>1, RequestFacts
  <2> QED
    BY <2>2, <2>3, <2>4, <2>5, <2>6, <1>1, <1>2, RequestStep
<1> QED
  BY <1>3, <1>4

-----------------------------------------------------------------------------
(* The server's side and the connection *)

LEMMA AnswersFacts ==
    ASSUME NEW n \in DOMAIN requests, TypeOK, NEW texts \in Answers(requests[n])
    PROVE  /\ texts \in Seq(Texts) /\ texts # <<>>
           /\ \A i \in DOMAIN texts : texts[i] \notin {"file", "chunk"}
           /\ \A i, j \in DOMAIN texts : i < j => ~Final(requests[n], texts[i])
           /\ requests[n] = "login" => \A i \in DOMAIN texts : texts[i] \in {texts[1]} \cap {"ok", "err"}
           /\ requests[n] \in {"register", "group"} => \A i \in DOMAIN texts : texts[i] = "err"
           /\ requests[n] = "history" /\ session => \A i \in DOMAIN texts : texts[i] = "message"
<1> DEFINE kind == requests[n]
<1>1. kind \in Kinds
  <2>1. requests \in Seq(Kinds)
    BY DEF TypeOK
  <2> QED
    BY <2>1, LenProperties, ElementOfSeq
<1> HIDE DEF kind
<1>2. texts \in Answers(kind)
  BY DEF kind
<1>3. ASSUME NEW text \in Texts \ {"file", "chunk"}, texts = <<text>>,
             kind = "login" => text \in {"ok", "err"},
             kind \in {"register", "group"} => text = "err",
             kind = "history" /\ session => text = "message"
      PROVE  /\ texts \in Seq(Texts) /\ texts # <<>>
             /\ \A i \in DOMAIN texts : texts[i] \notin {"file", "chunk"}
             /\ \A i, j \in DOMAIN texts : i < j => ~Final(kind, texts[i])
             /\ kind = "login" => \A i \in DOMAIN texts : texts[i] \in {texts[1]} \cap {"ok", "err"}
             /\ kind \in {"register", "group"} => \A i \in DOMAIN texts : texts[i] = "err"
             /\ kind = "history" /\ session => \A i \in DOMAIN texts : texts[i] = "message"
  <2>1. texts \in Seq(Texts) /\ texts # <<>> /\ DOMAIN texts = {1} /\ texts[1] = text
    BY <1>3
  <2>2. \A i \in DOMAIN texts : i = 1 /\ texts[i] = text
    BY <2>1
  <2>3. \A i, j \in DOMAIN texts : i < j => ~Final(kind, texts[i])
    BY <2>2
  <2>4. text \notin {"file", "chunk"}
    BY <1>3
  <2> QED
    BY <2>1, <2>2, <2>3, <2>4, <1>3
<1>4. CASE kind \in {"register", "group"} \/ (kind # "login" /\ ~session)
  <2>1. texts = <<"err">>
    BY <1>2, <1>4 DEF Answers
  <2> QED
    BY <2>1, <1>3, <1>4 DEF kind, Texts
<1>5. CASE ~(kind \in {"register", "group"} \/ (kind # "login" /\ ~session))
  <2>1. CASE kind \in {"login", "private", "create", "reply"}
    <3>1. texts = <<"ok">> \/ texts = <<"err">>
      BY <1>2, <1>5, <2>1 DEF Answers
    <3> QED
      BY <3>1, <2>1, <1>3 DEF kind, Texts
  <2>2. CASE kind = "who"
    <3>1. texts = <<"online">>
      BY <1>2, <1>5, <2>2 DEF Answers
    <3> QED
      BY <3>1, <2>2, <1>3 DEF kind, Texts
  <2>3. CASE kind = "history"
    <3>1. texts = <<"message">>
      BY <1>2, <1>5, <2>3 DEF Answers
    <3> QED
      BY <3>1, <2>3, <1>3 DEF kind, Texts
  <2>4. CASE kind = "download"
    <3>1. texts = <<"err">>
      BY <1>2, <1>5, <2>4 DEF Answers
    <3> QED
      BY <3>1, <2>4, <1>3 DEF kind, Texts
  <2>5. CASE kind = "list"
    <3>1. texts = <<"begin", "post", "endlist">> \/ texts = <<"begin", "err">>
      BY <1>2, <1>5, <2>5 DEF Answers
    <3>2. CASE texts = <<"begin", "post", "endlist">>
      BY <3>2, <2>5 DEF kind, Texts, Final
    <3>3. CASE texts = <<"begin", "err">>
      BY <3>3, <2>5 DEF kind, Texts, Final
    <3> QED
      BY <3>1, <3>2, <3>3
  <2>6. CASE kind = "view"
    <3>1. \/ texts = <<"begin", "post", "endview">> \/ texts = <<"begin", "post", "err">>
          \/ texts = <<"notfound">>
      BY <1>2, <1>5, <2>6 DEF Answers
    <3>2. CASE texts = <<"begin", "post", "endview">>
      BY <3>2, <2>6 DEF kind, Texts, Final
    <3>3. CASE texts = <<"begin", "post", "err">>
      BY <3>3, <2>6 DEF kind, Texts, Final
    <3>4. CASE texts = <<"notfound">>
      BY <3>4, <2>6, <1>3 DEF kind, Texts
    <3> QED
      BY <3>1, <3>2, <3>3, <3>4
  <2> QED
    BY <2>1, <2>2, <2>3, <2>4, <2>5, <2>6, <1>1, <1>5
       DEF Kinds, LoginKinds, MainKinds, Unawaited
<1> QED
  BY <1>4, <1>5

\* What Serve lets the server send.
LEMMA ServeFacts ==
    ASSUME Inv, Serve, NEW n, n = Head(toServer)
    PROVE  /\ n \in DOMAIN requests /\ n # 0 /\ up
           /\ answering' \in Seq(Item)
           /\ Answer(answering', n, requests)
           /\ session' \in BOOLEAN /\ (session => session')
           /\ (\A i \in DOMAIN answering : Belongs(answering[i]))'
<1>1. /\ TypeOK /\ Windows /\ LoginGenuine /\ toServer # <<>>
      /\ requests' = requests /\ stray' = stray
  BY DEF Serve, ui, Inv
<1>2. up
  BY <1>1 DEF Windows
<1>3. requests \in Seq(Kinds) /\ DOMAIN requests = 1 .. Len(requests) /\ Len(requests) \in Nat
  BY <1>1, LenProperties DEF TypeOK
<1>4. n \in DOMAIN requests
  BY <1>1, TailFacts DEF TypeOK
<1>5. n \in 0 .. Len(requests) /\ n # 0 /\ n \in Nat
  BY <1>3, <1>4
<1>6. CASE \E texts \in Answers(requests[n]) :
              /\ answering' = Lines(n, texts)
              /\ session' = (session \/ (requests[n] = "login" /\ answering'[1].text = "ok"))
  <2>1. PICK texts \in Answers(requests[n]) :
              /\ answering' = Lines(n, texts)
              /\ session' = (session \/ (requests[n] = "login" /\ answering'[1].text = "ok"))
    BY <1>6
  <2>2. /\ texts \in Seq(Texts) /\ texts # <<>>
        /\ \A i \in DOMAIN texts : texts[i] \notin {"file", "chunk"}
        /\ \A i, j \in DOMAIN texts : i < j => ~Final(requests[n], texts[i])
        /\ requests[n] = "login" => \A i \in DOMAIN texts : texts[i] \in {texts[1]} \cap {"ok", "err"}
        /\ requests[n] \in {"register", "group"} => \A i \in DOMAIN texts : texts[i] = "err"
        /\ requests[n] = "history" /\ session => \A i \in DOMAIN texts : texts[i] = "message"
    BY <1>1, <1>4, AnswersFacts
  <2> DEFINE c == Lines(n, texts)
  <2>3. /\ c \in Seq(Item) /\ DOMAIN c = DOMAIN texts
        /\ \A i \in DOMAIN texts : c[i].text = texts[i] /\ c[i].request = n
    BY <2>2, <1>5, LinesFacts
  <2>4. Answer(c, n, requests)
    BY <2>2, <1>5, LinesAnswer
  <2>5. 1 \in DOMAIN texts
    BY <2>2, TailFacts
  <2>6. answering' = c
    BY <2>1
  <2> HIDE DEF c
  <2>7. session' \in BOOLEAN /\ (session => session')
    BY <2>1, <1>1 DEF TypeOK
  <2>8. requests[n] = "history" /\ stray = "none" => session
    <3>1. ASSUME window = "login" PROVE requests[n] \in LoginKinds
      <4>1. requests \in Seq(LoginKinds)
        BY <3>1, <1>1 DEF Windows
      <4> QED
        BY <4>1, <1>3, <1>4, ElementOfSeq
    <3> QED
      BY <3>1, <1>1, <1>2 DEF LoginKinds, LoginGenuine, TypeOK
  <2>9. ASSUME NEW i \in DOMAIN answering', NEW e, e = answering'[i] PROVE Belongs(e)'
    <3>0. i \in DOMAIN c /\ e = c[i]
      BY <2>6, <2>9
    <3>1. c[i].text = texts[i] /\ c[i].request = n /\ texts[i] \notin {"file", "chunk"}
      BY <3>0, <2>2, <2>3
    <3>2. ASSUME requests[n] = "login" PROVE c[i].text = "err" \/ (session' /\ c[i].text = "ok")
      <4>1. c[1].text = texts[1] /\ texts[i] = texts[1] /\ texts[i] \in {"ok", "err"}
        BY <3>0, <3>2, <2>2, <2>3, <2>5
      <4>2. texts[1] = "ok" => session'
        BY <4>1, <3>2, <2>1, <2>6
      <4> QED
        BY <4>1, <4>2, <3>1
    <3>3. requests[n] \in {"register", "group"} => c[i].text = "err"
      BY <3>0, <3>1, <2>2, <2>3
    <3>4. requests[n] = "history" => c[i].text = "message" \/ stray # "none"
      BY <3>0, <3>1, <2>2, <2>3, <2>8
    <3> QED
      BY <3>0, <3>1, <3>2, <3>3, <3>4, <1>1, <1>5 DEF Belongs
  <2>10. (\A i \in DOMAIN answering : Belongs(answering[i]))'
    BY <2>9 DEF Belongs
  <2> QED
    BY <2>3, <2>4, <2>6, <2>7, <2>10, <1>2, <1>4, <1>5
<1>7. CASE /\ requests[n] = "download" /\ session
           /\ \E size \in 0 .. MaxChunks : answering' = File(n, size)
           /\ UNCHANGED session
  <2>1. PICK size \in 0 .. MaxChunks : answering' = File(n, size)
    BY <1>7
  <2>2. /\ answering' \in Seq(Item) /\ Answer(answering', n, requests)
        /\ \A i \in DOMAIN answering' : answering'[i].text \in {"file", "chunk"}
    BY <2>1, <1>5, FileAnswer
  <2>3. ASSUME NEW i \in DOMAIN answering', NEW e, e = answering'[i] PROVE Belongs(e)'
    <3>1. e.request = n /\ e.text \in {"file", "chunk"}
      BY <2>2, <2>3 DEF Answer
    <3> QED
      BY <3>1, <1>1, <1>5, <1>7 DEF Belongs
  <2>5. (\A i \in DOMAIN answering : Belongs(answering[i]))'
    BY <2>3 DEF Belongs
  <2>4. session' \in BOOLEAN /\ (session => session')
    BY <1>1, <1>7 DEF TypeOK
  <2> QED
    BY <2>2, <2>4, <2>5, <1>2, <1>4, <1>5
<1> QED
  BY <1>6, <1>7 DEF Serve

LEMMA ServeInv == Inv /\ Serve => Inv'
<1> SUFFICES ASSUME Inv, Serve PROVE Inv'
  OBVIOUS
<1>1. TypeOK /\ Items /\ Windows /\ LoginGenuine
  BY DEF Inv
<1>2. /\ toServer # <<>> /\ answering = <<>> /\ toServer' = Tail(toServer)
      /\ UNCHANGED <<up, window, requests, pending, lines, timers, left, buffer, stray>>
  BY DEF Serve, ui
<1>3. PICK n : n = Head(toServer)
  OBVIOUS
<1>4. /\ n \in DOMAIN requests /\ up
      /\ answering' \in Seq(Item)
      /\ Answer(answering', n, requests)
      /\ session' \in BOOLEAN /\ (session => session')
      /\ (\A i \in DOMAIN answering : Belongs(answering[i]))'
  BY <1>3, ServeFacts
<1>5. buffer \in Seq(Item) /\ Coming = buffer
  BY <1>1, <1>2, ConcatEmptySeq DEF TypeOK, Coming
<1>6. Coming' = buffer \o answering'
  BY <1>2 DEF Coming
<1>7. TypeOK'
  <2>1. toServer' \in Seq(DOMAIN requests)
    BY <1>1, <1>2, TailFacts DEF TypeOK
  <2> QED
    BY <2>1, <1>1, <1>2, <1>4 DEF TypeOK
<1>8. Items'
  <2>1. Grown
    BY <1>1, <1>2, GrownNot
  <2>2. ASSUME NEW i \in DOMAIN Coming' PROVE \E e : e = Coming'[i] /\ Belongs(e)'
    <3>1. /\ DOMAIN buffer = 1 .. Len(buffer)
          /\ \A k \in DOMAIN buffer : Coming'[k] = buffer[k]
          /\ i \notin DOMAIN buffer =>
                i - Len(buffer) \in DOMAIN answering' /\ Coming'[i] = answering'[i - Len(buffer)]
      BY <1>4, <1>5, <1>6, <2>2, ConcatFacts
    <3>2. CASE i \in DOMAIN buffer
      <4>1. PICK e \in Item : e = buffer[i]
        BY <3>1, <3>2, <1>5, ElementOfSeq
      <4>2. Belongs(e)
        BY <4>1, <3>2, <1>1, <1>5 DEF Items
      <4>3. Belongs(e)'
        BY <4>2, <2>1, <1>1, <1>2, <1>4, BelongsStays
      <4> QED
        BY <4>1, <4>3, <3>1, <3>2
    <3>3. CASE i \notin DOMAIN buffer
      <4>1. PICK k \in DOMAIN answering' : Coming'[i] = answering'[k]
        BY <3>1, <3>3
      <4>2. PICK e : e = answering'[k]
        OBVIOUS
      <4>3. Belongs(e)'
        BY <4>2, <1>4 DEF Belongs
      <4> QED
        BY <4>1, <4>2, <4>3
    <3> QED
      BY <3>2, <3>3
  <2> QED
    BY <2>2 DEF Items, Belongs
<1>9. Windows'
  BY <1>1, <1>2, <1>4 DEF Windows
<1>10. LoginGenuine'
  BY <1>1, <1>2, <1>4 DEF LoginGenuine
<1>11. ASSUME stray = "none" PROVE Together'
  <2>1. InStep(buffer, requests, pending, toServer, left)
    BY <1>4, <1>5, <1>11, RequestFacts
  <2>2. left \in Nat
    BY <1>1, QtAssumption DEF TypeOK
  <2>3. InStep(buffer \o answering', requests, pending, Tail(toServer), left)
    BY <2>1, <2>2, <1>1, <1>2, <1>3, <1>4, <1>5, RequestFacts, AnswerComes DEF Windows
  <2> QED
    BY <2>3, <1>2, <1>6 DEF Together
<1> QED
  BY <1>2, <1>7, <1>8, <1>9, <1>10, <1>11 DEF Inv

LEMMA SendItemInv == Inv /\ SendItem => Inv'
<1> SUFFICES ASSUME Inv, SendItem PROVE Inv'
  OBVIOUS
<1>1. TypeOK /\ Items /\ Windows /\ LoginGenuine
  BY DEF Inv
<1>2. /\ answering # <<>> /\ answering' = Tail(answering)
      /\ buffer' = Append(buffer, Head(answering))
      /\ UNCHANGED <<up, window, requests, pending, lines, timers, left, toServer, session, stray>>
  BY DEF SendItem, ui
<1>3. buffer \in Seq(Item) /\ answering \in Seq(Item)
  BY <1>1, ComingFacts
<1>4. Head(answering) \in Item /\ answering' \in Seq(Item)
  BY <1>2, <1>3, TailFacts
<1>5. buffer' \in Seq(Item)
  BY <1>2, <1>3, <1>4, AppendFacts
<1>6. Coming' = Coming
  BY <1>2, <1>3, MoveFacts DEF Coming
<1>7. TypeOK'
  BY <1>1, <1>2, <1>4, <1>5 DEF TypeOK
<1>8. Items'
  BY <1>1, <1>2, <1>6, GrownNot, ItemsStay
<1>9. Windows'
  BY <1>1, <1>2 DEF Windows
<1>10. LoginGenuine'
  BY <1>1, <1>2 DEF LoginGenuine
<1>11. up' /\ stray' = "none" => Together'
  BY <1>2, <1>6 DEF Inv, Together
<1> QED
  BY <1>7, <1>8, <1>9, <1>10, <1>11 DEF Inv

LEMMA PushInv == ASSUME Inv, NEW text \in {"message", "event"}, Push(text) PROVE Inv'
<1> DEFINE e == Pushed(text)
<1>1. TypeOK /\ Items /\ Windows /\ LoginGenuine
  BY DEF Inv
<1>2. /\ session /\ buffer' = Append(buffer, e)
      /\ answering # <<>> => Head(answering).text # "chunk"
      /\ UNCHANGED <<up, window, requests, pending, lines, timers, left, toServer, session,
                     answering, stray>>
  BY DEF Push, ui, server
<1>3. buffer \in Seq(Item) /\ answering \in Seq(Item)
  BY <1>1, ComingFacts
<1>4. /\ e \in Item /\ e.request = 0 /\ e.text \in {"message", "event"}
      /\ e.text \notin {"file", "chunk"}
  BY QtAssumption DEF Pushed, Item, Texts
<1>5. up
  BY <1>1, <1>2 DEF Windows
<1> HIDE DEF e
<1>6. buffer' \in Seq(Item)
  BY <1>2, <1>3, <1>4, AppendFacts
<1>7. Coming' = Append(buffer, e) \o answering
  BY <1>2 DEF Coming
<1>8. TypeOK'
  BY <1>1, <1>2, <1>6 DEF TypeOK
<1>9. Items'
  <2>1. Grown
    BY <1>1, <1>2, GrownNot
  <2>2. Belongs(e)'
    <3>1. 0 \in 0 .. Len(requests)
      BY RequestFacts
    <3> QED
      BY <3>1, <1>2, <1>4 DEF Belongs
  <2>3. ASSUME NEW i \in DOMAIN Coming' PROVE \E f : f = Coming'[i] /\ Belongs(f)'
    <3>1. Coming'[i] = e \/ \E k \in DOMAIN Coming : Coming'[i] = Coming[k]
      BY <1>3, <1>4, <1>7, <2>3, InsertFacts DEF Coming
    <3>2. CASE \E k \in DOMAIN Coming : Coming'[i] = Coming[k]
      <4>1. PICK k \in DOMAIN Coming : Coming'[i] = Coming[k]
        BY <3>2
      <4>2. PICK f \in Item : f = Coming[k]
        BY <1>1, ComingFacts
      <4>3. Belongs(f)
        BY <4>2, <1>1 DEF Items
      <4>4. Belongs(f)'
        BY <4>3, <2>1, <1>1, <1>2, BelongsStays
      <4> QED
        BY <4>1, <4>2, <4>4
    <3>3. CASE Coming'[i] = e
      <4>1. PICK f : f = Coming'[i]
        OBVIOUS
      <4>2. f = e
        BY <4>1, <3>3
      <4>3. Belongs(f)'
        BY <4>2, <2>2, <1>2 DEF Belongs, e, Pushed
      <4> QED
        BY <4>1, <4>3
    <3> QED
      BY <3>1, <3>2, <3>3
  <2> QED
    BY <2>3 DEF Items, Belongs
<1>10. Windows'
  BY <1>1, <1>2, <1>5 DEF Windows
<1>11. LoginGenuine'
  BY <1>1, <1>2 DEF LoginGenuine
<1>12. ASSUME stray = "none" PROVE Together'
  <2>1. InStep(buffer \o answering, requests, pending, toServer, left)
    BY <1>5, <1>12, RequestFacts DEF Coming
  <2>2. left \in Nat
    BY <1>1, QtAssumption DEF TypeOK
  <2>3. InStep(Append(buffer, e) \o answering, requests, pending, toServer, left)
    BY <2>1, <2>2, <1>2, <1>3, <1>4, RequestFacts, PushComes
  <2> QED
    BY <2>3, <1>2, <1>7 DEF Together
<1> QED
  BY <1>2, <1>8, <1>9, <1>10, <1>11, <1>12 DEF Inv

LEMMA ConnectInv == Inv /\ Connect => Inv'
<1> SUFFICES ASSUME Inv, Connect PROVE Inv'
  OBVIOUS
<1> DEFINE e == Pushed("greeting")
<1>1. TypeOK /\ Windows
  BY DEF Inv
<1>2. /\ ~up /\ window = "login" /\ up' = TRUE /\ session' = FALSE
      /\ buffer' = <<e>> /\ stray' = "none"
      /\ UNCHANGED <<window, requests, pending, lines, timers, left, toServer, answering>>
  BY DEF Connect, ui
<1>3. toServer = <<>> /\ answering = <<>> /\ left = 0
  BY <1>1, <1>2 DEF Windows
<1>4. e \in Item /\ e.request = 0 /\ e.text = "greeting"
  BY QtAssumption DEF Pushed, Item, Texts
<1> HIDE DEF e
<1>5. buffer' \in Seq(Item)
  BY <1>2, <1>4
<1>6. Coming' = <<e>>
  <2>1. <<e>> \in Seq(Item)
    BY <1>4
  <2>2. <<e>> \o <<>> = <<e>>
    BY <2>1, ConcatEmptySeq
  <2> QED
    BY <2>2, <1>2, <1>3 DEF Coming
<1>7. /\ Len(<<e>>) = 1 /\ DOMAIN <<e>> = {1} /\ <<e>>[1] = e
      /\ Len(requests) \in Nat
  BY RequestFacts
<1>8. TypeOK'
  BY <1>1, <1>2, <1>5 DEF TypeOK
<1>9. Items'
  <2>1. 0 \in 0 .. Len(requests)
    BY <1>7
  <2> QED
    BY <2>1, <1>2, <1>4, <1>6, <1>7 DEF Items, Belongs
<1>10. Windows'
  BY <1>1, <1>2 DEF Windows
<1>11. LoginGenuine'
  BY <1>2 DEF LoginGenuine
<1>12. InStep(<<e>>, requests, pending, <<>>, 0)
  <2>1. Framed(<<e>>, 0)
    BY <1>4, <1>7 DEF Framed, InFile
  <2>2. EndsLast(<<e>>, requests, pending)
    BY <1>7 DEF EndsLast
  <2>3. Asked(<<e>>, requests, pending, <<>>)
    BY DEF Asked
  <2>4. Expected(e, requests, pending)
    BY <1>4 DEF Expected
  <2> QED
    BY <2>1, <2>2, <2>3, <2>4, <1>7 DEF InStep
<1>13. Together'
  BY <1>2, <1>3, <1>6, <1>12 DEF Together
<1> QED
  BY <1>8, <1>9, <1>10, <1>11, <1>13 DEF Inv

LEMMA LoseInv == Inv /\ Lose => Inv'
<1> SUFFICES ASSUME Inv, Lose PROVE Inv'
  OBVIOUS
<1>1. TypeOK /\ Windows
  BY DEF Inv
<1>2. /\ up' = FALSE /\ session' = FALSE /\ toServer' = <<>> /\ answering' = <<>>
      /\ buffer' = <<>>
      /\ UNCHANGED <<window, requests, pending, lines, timers, left, stray>>
  BY DEF Lose, ui
<1>3. Coming' = <<>>
  BY <1>2 DEF Coming
<1>4. TypeOK'
  BY <1>1, <1>2, EmptySeqs DEF TypeOK
<1>5. Items'
  BY <1>3, EmptySeqs DEF Items
<1>6. Windows' /\ LoginGenuine'
  BY <1>1, <1>2 DEF Windows, LoginGenuine
<1> QED
  BY <1>2, <1>4, <1>5, <1>6 DEF Inv

-----------------------------------------------------------------------------
(* Theorems *)

LEMMA InitInv == Init => Inv
<1> SUFFICES ASSUME Init PROVE Inv
  OBVIOUS
<1>1. Coming = <<>>
  BY DEF Init, Coming
<1>2. TypeOK
  <2>1. /\ <<>> \in Seq(Kinds) /\ <<>> \in Seq(Item) /\ <<>> \in Seq(DOMAIN <<>>)
        /\ Len(<<>>) = 0
    BY EmptySeqs
  <2>2. /\ requests \in Seq(Kinds) /\ toServer \in Seq(DOMAIN requests)
        /\ answering \in Seq(Item) /\ buffer \in Seq(Item)
    BY <2>1 DEF Init
  <2>3. pending \in 0 .. Len(requests)
    BY <2>1 DEF Init
  <2>4. left \in 0 .. MaxChunks
    BY QtAssumption DEF Init
  <2>5. /\ up \in BOOLEAN /\ window \in {"login", "main"} /\ lines \subseteq Texts
        /\ timers \subseteq {"history", "posts"} /\ session \in BOOLEAN
        /\ stray \in {"none", "payload", "greeting", "event", "chunk"} \cup Kinds
    BY DEF Init
  <2> QED
    BY <2>2, <2>3, <2>4, <2>5 DEF TypeOK
<1>3. Items
  BY <1>1, EmptySeqs DEF Items
<1>4. Windows /\ LoginGenuine /\ ~up
  BY DEF Init, Windows, LoginGenuine
<1> QED
  BY <1>2, <1>3, <1>4 DEF Inv

LEMMA NextInv == Inv /\ [Next]_vars => Inv'
<1> SUFFICES ASSUME Inv, [Next]_vars PROVE Inv'
  OBVIOUS
<1>1. CASE Connect
  BY <1>1, ConnectInv
<1>2. CASE Lose
  BY <1>2, LoseInv
<1>3. ASSUME NEW kind \in LoginKinds \cup MainKinds, Ask(kind) PROVE Inv'
  BY <1>3, AskInv
<1>4. CASE SendGroupMessage
  BY <1>4, SendGroupMessageInv
<1>5. CASE RequestHistory
  BY <1>5, RequestHistoryInv
<1>6. CASE RefreshPosts
  BY <1>6, RefreshPostsInv
<1>7. CASE Serve
  BY <1>7, ServeInv
<1>8. CASE SendItem
  BY <1>8, SendItemInv
<1>9. ASSUME NEW text \in {"message", "event"}, Push(text) PROVE Inv'
  BY <1>9, PushInv
<1>10. CASE Read
  BY <1>10, ReadInv
<1>11. CASE UNCHANGED vars
  <2>1. UNCHANGED <<up, window, requests, pending, lines, left, timers, toServer, session,
                    answering, buffer, stray>>
    BY <1>11 DEF vars, ui, server
  <2> QED
    BY <2>1 DEF Inv, TypeOK, Items, Coming, Belongs, Windows, LoginGenuine, Together
<1> QED
  BY <1>1, <1>2, <1>3, <1>4, <1>5, <1>6, <1>7, <1>8, <1>9, <1>10, <1>11 DEF Next

LEMMA Invariant == Spec => []Inv
<1> QED
  BY InitInv, NextInv, PTL DEF Spec

(* The variables of the client and of its connection keep their types: no  *)
(* item belongs to a request that was not made, and no more chunks are     *)
(* waited for than an attachment can have.                                 *)
THEOREM TypeCorrect == Spec => []TypeOK
<1>1. Inv => TypeOK
  BY DEF Inv
<1> QED
  BY <1>1, Invariant, PTL

(* However many requests and pushes there are, the client is in step with  *)
(* the server until one of the four things happens that networkclient.cpp  *)
(* does not tell from an answer: the greeting, an EVENT or GMSG, or the    *)
(* refusal of GROUP comes while something waits, or a file cannot be made. *)
THEOREM AnswersStayInStep == Spec => []AnswersInStep
<1>1. Inv => AnswersInStep
  <2> SUFFICES ASSUME Inv PROVE AnswersInStep
    OBVIOUS
  <2>1. TypeOK /\ Windows
    BY DEF Inv
  <2>2. ASSUME stray = "none", NEW item \in ToSet(buffer \o answering)
        PROVE  \/ item.request \in {0, pending}
               \/ requests[item.request] \in Unawaited
               \/ item.text = "chunk"
    <3>1. PICK i \in DOMAIN Coming : item = Coming[i]
      BY <2>2 DEF ToSet, Coming
    <3>2. CASE up
      <4>1. Expected(item, requests, pending)
        BY <3>1, <3>2, <2>2 DEF Inv, Together, InStep
      <4> QED
        BY <4>1 DEF Expected
    <3>3. CASE ~up
      <4>1. Coming = <<>>
        BY <3>3, <2>1 DEF Windows, Coming
      <4> QED
        BY <4>1, <3>1
    <3> QED
      BY <3>2, <3>3
  <2>3. ASSUME stray = "none", buffer # <<>> PROVE left > 0 <=> Head(buffer).text = "chunk"
    BY <2>3, HeadFacts
  <2> QED
    BY <2>1, <2>2, <2>3 DEF AnswersInStep, Windows
<1> QED
  BY <1>1, Invariant, PTL

(* The main window is never opened by a connection that is not logged in,  *)
(* but for the greeting that the login takes for its OK.                   *)
THEOREM MainWindowIsGenuine == Spec => []LoginGenuine
<1>1. Inv => LoginGenuine
  BY DEF Inv
<1> QED
  BY <1>1, Invariant, PTL

=============================================================================

------------------------------ MODULE QtClient ------------------------------
(***************************************************************************)
(* The Qt client (frontend/qt_client) and its connection: requests that    *)
(* wait for an answer, one at a time, and the lines and bytes that come    *)
(* from the server, among them pushes that answer nothing.                 *)
(*                                                                         *)
(* The stream has no request numbers, so the client takes what comes for   *)
(* the answer to what it has asked.  Here each item carries the number of  *)
(* the request it belongs to (0: a push or the greeting), which the client *)
(* never looks at: it is what the properties compare.                      *)
(*                                                                         *)
(* The login window can connect again, and only it can log in or register; *)
(* the main window cannot.  Uploads are not here: they begin with the id   *)
(* in the last word of the answer to BBS_CREATE or BBS_REPLY, which is     *)
(* "created" (server.c:1666, 1709), so that parseTrailingId returns 0.     *)
(***************************************************************************)
EXTENDS Naturals, Sequences, SequencesExt

CONSTANTS
    MaxRequests,    \* bound: what the user asks for
    MaxInFlight,    \* bound: pushes come while fewer items are on their way
    MaxChunks       \* bound: chunks of an attachment

ASSUME QtAssumption ==
    /\ MaxRequests \in Nat
    /\ MaxInFlight \in Nat
    /\ MaxChunks \in Nat

VARIABLES
    up,             \* isConnected
    window,         \* "login", or "main" once loginSucceeded was emitted
    requests,       \* the commands so far
    pending,        \* the request of m_pending, 0 for PendingNone
    lines,          \* what m_pendingLines has of an answer
    left,           \* m_downloadBytesLeft, in chunks
    timers,         \* the single-shot timers that have not fired
    toServer,       \* the requests on their way to the server
    session,        \* the server has logged this connection in
    answering,      \* what the server's thread has yet to send of an answer
    buffer,         \* what is on its way to the client or in m_buffer
    stray           \* the first thing mistaken on this connection

ui     == <<window, requests, pending, lines, timers>>
server == <<toServer, session, answering>>
vars   == <<up, ui, left, server, buffer, stray>>

LoginKinds == {"login", "register"}
MainKinds  == {"who", "private", "list", "view", "create", "reply", "download"}
Unawaited  == {"group", "history"}
Kinds      == LoginKinds \cup MainKinds \cup Unawaited

\* "message": a line handleAsyncLine knows (PMSG, FILE_READY, HISTORY).
\* "event": one it does not (EVENT, GMSG).
Texts == {"greeting", "message", "event", "ok", "err", "online", "begin", "post",
          "endlist", "endview", "notfound", "file", "chunk"}

Item == [text : Texts, request : Nat, size : 0 .. MaxChunks]

Init ==
    /\ up = FALSE
    /\ window = "login"
    /\ requests = <<>>
    /\ pending = 0
    /\ lines = {}
    /\ left = 0
    /\ timers = {}
    /\ toServer = <<>>
    /\ session = FALSE
    /\ answering = <<>>
    /\ buffer = <<>>
    /\ stray = "none"

Kind == IF pending = 0 THEN "none" ELSE requests[pending]

-----------------------------------------------------------------------------
(* The connection *)

Pushed(text) == [text |-> text, request |-> 0, size |-> 0]

\* The server greets who connects.  Nothing of the client is reset.
Connect ==
    /\ ~up
    /\ window = "login"
    /\ up' = TRUE
    /\ session' = FALSE
    /\ buffer' = <<Pushed("greeting")>>
    /\ stray' = "none"
    /\ UNCHANGED <<ui, left, toServer, answering>>

\* The server or the network ends the connection.
Lose ==
    /\ up
    /\ up' = FALSE
    /\ session' = FALSE
    /\ toServer' = <<>>
    /\ answering' = <<>>
    /\ buffer' = <<>>
    /\ UNCHANGED <<ui, left, stray>>

-----------------------------------------------------------------------------
(* Requests *)

\* Fault: startPending lets a second request wait.
MayStartAlways == TRUE

MayStart == pending = 0

\* startPending, and sendLine, which does nothing without a connection.
Start(kind) ==
    /\ requests' = Append(requests, kind)
    /\ pending' = Len(requests) + 1
    /\ lines' = {}
    /\ toServer' = IF up THEN Append(toServer, Len(requests) + 1) ELSE toServer

\* login and registerUser look at the connection first, the others do not.
Ask(kind) ==
    /\ Len(requests) < MaxRequests
    /\ window = IF kind \in LoginKinds THEN "login" ELSE "main"
    /\ kind \in LoginKinds => up
    /\ MayStart
    /\ Start(kind)
    /\ UNCHANGED <<up, window, left, timers, session, answering, buffer, stray>>

\* sendLine without startPending.
Send(kind) ==
    /\ requests' = Append(requests, kind)
    /\ toServer' = IF up THEN Append(toServer, Len(requests) + 1) ELSE toServer
    /\ UNCHANGED <<up, window, pending, lines, left, session, answering, buffer, stray>>

\* sendGroupMessage still sends GROUP, which the server has given up.
SendGroupMessage ==
    /\ Len(requests) < MaxRequests
    /\ window = "main"
    /\ Send("group")
    /\ UNCHANGED timers

\* The timer set when the login has succeeded.
RequestHistory ==
    /\ "history" \in timers
    /\ timers' = timers \ {"history"}
    /\ Send("history")

\* The timer set by the main window, 200 ms: later than the other.
RefreshPosts ==
    /\ timers = {"posts"}
    /\ timers' = {}
    /\ IF MayStart THEN Start("list") ELSE UNCHANGED <<requests, pending, lines, toServer>>
    /\ UNCHANGED <<up, window, left, session, answering, buffer, stray>>

-----------------------------------------------------------------------------
(* The server's side of the connection: handle_command, one at a time *)

Answers(kind) ==
    IF kind \in {"register", "group"} \/ (kind # "login" /\ ~session) THEN {<<"err">>}
    ELSE CASE kind \in {"login", "private", "create", "reply"} -> {<<"ok">>, <<"err">>}
           [] kind = "who"      -> {<<"online">>}
           [] kind = "list"     -> {<<"begin", "post", "endlist">>, <<"begin", "err">>}
           [] kind = "view"     -> {<<"begin", "post", "endview">>, <<"begin", "post", "err">>,
                                    <<"notfound">>}
           [] kind = "history"  -> {<<"message">>}
           [] kind = "download" -> {<<"err">>}

Lines(n, texts) ==
    [i \in DOMAIN texts |-> [text |-> texts[i], request |-> n, size |-> 0]]

\* send_bbs_attachment: a header and as many bytes as it announces.
File(n, size) ==
    <<[text |-> "file", request |-> n, size |-> size]>> \o
    Lines(n, [i \in 1 .. size |-> "chunk"])

\* A command has been run and its answer is about to be sent.
Serve ==
    /\ toServer # <<>>
    /\ answering = <<>>
    /\ toServer' = Tail(toServer)
    /\ LET n == Head(toServer) IN
       \/ /\ \E texts \in Answers(requests[n]) : answering' = Lines(n, texts)
          /\ session' = (session \/ (requests[n] = "login" /\ answering'[1].text = "ok"))
       \/ /\ requests[n] = "download" /\ session
          /\ \E size \in 0 .. MaxChunks : answering' = File(n, size)
          /\ UNCHANGED session
    /\ UNCHANGED <<up, ui, left, buffer, stray>>

SendItem ==
    /\ answering # <<>>
    /\ answering' = Tail(answering)
    /\ buffer' = Append(buffer, Head(answering))
    /\ UNCHANGED <<up, ui, left, toServer, session, stray>>

\* Another thread writes to the socket; not between the bytes of a file.
Push(text) ==
    /\ session
    /\ Len(buffer) < MaxInFlight
    /\ answering # <<>> => Head(answering).text # "chunk"
    /\ buffer' = Append(buffer, Pushed(text))
    /\ UNCHANGED <<up, ui, left, server, stray>>

-----------------------------------------------------------------------------
(* processBuffer, one line or one chunk at a time *)

\* Fault: m_downloadBytesLeft is compared with >= 0.
ReadPayloadAlways ==
    /\ buffer # <<>>
    /\ buffer' = Tail(buffer)
    /\ left' = left - 1
    /\ UNCHANGED <<up, ui, server, stray>>

ReadPayload ==
    /\ left > 0
    /\ buffer # <<>>
    /\ buffer' = Tail(buffer)
    /\ left' = left - 1
    /\ UNCHANGED <<up, ui, server, stray>>

\* Bytes that are read as a line may spell anything.
Line(text) ==
    /\ left = 0
    /\ buffer # <<>>
    /\ IF Head(buffer).text = "chunk" THEN text \in {"ok", "err", "chunk"}
       ELSE text = Head(buffer).text
    /\ text # "message"
    /\ buffer' = Tail(buffer)

Cause(item) == IF item.request = 0 THEN item.text ELSE requests[item.request]

\* The line is used as an answer to the request that waits.
Uses == stray' = IF stray = "none" /\ Head(buffer).request # pending
                 THEN Cause(Head(buffer)) ELSE stray

FinishPending == pending' = 0 /\ lines' = {}

\* handleAsyncLine
ReadAsync ==
    /\ left = 0
    /\ buffer # <<>>
    /\ Head(buffer).text = "message"
    /\ buffer' = Tail(buffer)
    /\ UNCHANGED <<up, ui, left, server, stray>>

\* PendingNone: shown in the status bar.
ReadUnasked(text) ==
    /\ Line(text)
    /\ Kind = "none"
    /\ UNCHANGED <<up, ui, left, server, stray>>

\* Fault: the answer to LOGIN is not looked at.
SucceedsAlways(text) == TRUE

\* The line starts with OK.
Succeeds(text) == text \in {"ok", "greeting"}

\* The main window is opened, which asks who is online; two timers are set.
ReadLoginAnswer(text) ==
    /\ Line(text)
    /\ Kind = "login"
    /\ Uses
    /\ IF Succeeds(text)
       THEN /\ window' = "main"
            /\ timers' = {"history", "posts"}
            /\ Start("who")
       ELSE /\ FinishPending
            /\ UNCHANGED <<window, requests, timers, toServer>>
    /\ UNCHANGED <<up, left, session, answering>>

\* The first line ends the request, whatever it is.
ReadAnswer(text) ==
    /\ Line(text)
    /\ Kind \in {"register", "who", "private", "create", "reply"}
    /\ Uses
    /\ FinishPending
    /\ UNCHANGED <<up, window, requests, left, timers, server>>

\* Fault: only BBS_POSTS_END and BBS_POST_END end a list.
EndsOnlyWell(text) ==
    \/ Kind = "list" /\ text = "endlist"
    \/ Kind = "view" /\ text = "endview"

Ends(text) ==
    \/ Kind = "list" /\ text = "endlist"
    \/ Kind = "view" /\ text = "endview"
    \/ text = "err"

\* Lines are collected up to the end of the list; finishBbsList and
\* finishBbsView pick those they know.  BBS_NOT_FOUND has no end.
ReadListed(text) ==
    /\ Line(text)
    /\ Kind \in {"list", "view"}
    /\ IF Ends(text) THEN FinishPending
       ELSE lines' = lines \cup {text} /\ UNCHANGED pending
    /\ IF Ends(text) \/ text \in {"post", "notfound"} THEN Uses ELSE UNCHANGED stray
    /\ UNCHANGED <<up, window, requests, left, timers, server>>

\* startDownloadPayload, when the file can be created.
ReadFileHeader ==
    /\ Line("file")
    /\ Kind = "download"
    /\ Uses
    /\ FinishPending
    /\ left' = Head(buffer).size
    /\ UNCHANGED <<up, window, requests, timers, server>>

\* The file cannot be created: its bytes will be read as lines.
ReadFileHeaderInVain ==
    /\ Line("file")
    /\ Kind = "download"
    /\ FinishPending
    /\ stray' = IF stray = "none" /\ Head(buffer).size > 0 THEN "payload" ELSE stray
    /\ UNCHANGED <<up, window, requests, left, timers, server>>

ReadDownloadRefused(text) ==
    /\ text # "file"
    /\ Line(text)
    /\ Kind = "download"
    /\ Uses
    /\ FinishPending
    /\ UNCHANGED <<up, window, requests, left, timers, server>>

Read ==
    \/ ReadPayload
    \/ ReadAsync
    \/ \E text \in Texts :
          \/ ReadUnasked(text)
          \/ ReadLoginAnswer(text)
          \/ ReadAnswer(text)
          \/ ReadListed(text)
          \/ ReadDownloadRefused(text)
    \/ ReadFileHeader
    \/ ReadFileHeaderInVain

-----------------------------------------------------------------------------

Next ==
    \/ Connect
    \/ Lose
    \/ \E kind \in LoginKinds \cup MainKinds : Ask(kind)
    \/ SendGroupMessage
    \/ RequestHistory
    \/ RefreshPosts
    \/ Serve
    \/ SendItem
    \/ \E text \in {"message", "event"} : Push(text)
    \/ Read

Spec == Init /\ [][Next]_vars

\* The server's thread comes to the end of every command (CommandsEnd of
\* Delivery), and the event loop of the client reads what has come.
Fairness == WF_vars(Serve) /\ WF_vars(SendItem) /\ WF_vars(Read)

FairSpec == Spec /\ Fairness

-----------------------------------------------------------------------------

TypeOK ==
    /\ up \in BOOLEAN
    /\ window \in {"login", "main"}
    /\ requests \in Seq(Kinds)
    /\ pending \in 0 .. Len(requests)
    /\ lines \subseteq Texts
    /\ left \in 0 .. MaxChunks
    /\ timers \subseteq {"history", "posts"}
    /\ toServer \in Seq(DOMAIN requests)
    /\ session \in BOOLEAN
    /\ answering \in Seq(Item)
    /\ buffer \in Seq(Item)
    /\ stray \in {"none", "payload", "greeting", "event", "chunk"} \cup Kinds

(* An answer is only ever taken for that of another request after one of   *)
(* four things: the greeting came while LOGIN or REGISTER waited, an EVENT *)
(* or GMSG came while something waited, the refusal of GROUP did, or the   *)
(* file of a download could not be created.  Until then nothing else is on *)
(* its way but what is waited for, and bytes are read as bytes.            *)
AnswersInStep ==
    /\ stray \in {"none", "greeting", "event", "group", "payload"}
    /\ stray = "none" =>
        /\ \A item \in ToSet(buffer \o answering) :
              \/ item.request \in {0, pending}
              \/ requests[item.request] \in Unawaited
              \/ item.text = "chunk"
        /\ buffer # <<>> => (left > 0 <=> Head(buffer).text = "chunk")

(* The main window opens only on a connection that the server has logged   *)
(* in, unless the greeting was taken for the answer to LOGIN.              *)
LoginGenuine == up /\ window = "main" => session \/ stray = "greeting"

(* A request comes to its end and the next one can be made, unless the     *)
(* connection is lost, the answer was mistaken, or the post looked at does *)
(* not exist: BBS_NOT_FOUND does not end BBS_VIEW.                         *)
RequestsEnd ==
    pending # 0 ~> \/ pending = 0
                   \/ ~up
                   \/ stray # "none"
                   \/ "notfound" \in lines
=============================================================================

----------------------------- MODULE WebGateway ------------------------------
(***************************************************************************)
(* How what the server sends reaches a browser: the events a session of    *)
(* the gateway keeps (web/server.py) and the polls of the page             *)
(* (web/static/app.js), one every 600 ms whether or not the last has been  *)
(* answered.                                                               *)
(*                                                                         *)
(* An event is a line, or a file with its contents; events are numbered in *)
(* the order in which they come.  Appending one is done under state_lock,  *)
(* which pop_events does not take: it reads the list twice.                *)
(***************************************************************************)
EXTENDS Naturals, Sequences, SequencesExt

CONSTANTS
    Limit,          \* events a session keeps: 300
    Polls,          \* requests for /api/events that may be under way at a time
    MaxEvents       \* bound: events that come

VARIABLES
    open,           \* there is a session, and its connection is not closed
    received,       \* events so far
    events,         \* those the session still keeps
    poll,           \* the requests that are under way
    counted,        \* events that had come when the last poll was answered
    cursor          \* the cursor of the page

vars == <<open, received, events, poll, counted, cursor>>

NotPolling == [pc |-> "idle", after |-> 0, slice |-> <<>>, new |-> {}, cursor |-> 0]

Init ==
    /\ open = FALSE
    /\ received = 0
    /\ events = <<>>
    /\ poll = [p \in Polls |-> NotPolling]
    /\ counted = 0
    /\ cursor = 0

\* /api/session without a session that could be resumed.
OpenSession ==
    /\ ~open
    /\ open' = TRUE
    /\ received' = 0
    /\ events' = <<>>
    /\ counted' = 0
    /\ cursor' = 0
    /\ UNCHANGED poll

\* /api/close, cleanup_idle_sessions, or the server closes the connection.  The
\* page may get an answer out of the session after it has opened another.
CloseSession ==
    /\ open
    /\ open' = FALSE
    /\ poll' = [p \in Polls |->
            CASE poll[p].pc = "slice" -> NotPolling
              [] poll[p].pc = "count" ->
                    [poll[p] EXCEPT !.pc = "answer", !.new = {}, !.cursor = Len(events)]
              [] OTHER -> [poll[p] EXCEPT !.new = {}]]
    /\ UNCHANGED <<received, events, counted, cursor>>

Kept(n, s) == IF Len(s) <= n THEN s ELSE SubSeq(s, Len(s) - n + 1, Len(s))

\* _append_event
Receive ==
    /\ open
    /\ received < MaxEvents
    /\ received' = received + 1
    /\ events' = Kept(Limit, Append(events, received + 1))
    /\ UNCHANGED <<open, poll, counted, cursor>>

\* poll() of the page.
Poll(p) ==
    /\ poll[p].pc = "idle"
    /\ poll' = [poll EXCEPT ![p] = [NotPolling EXCEPT !.pc = "slice", !.after = cursor]]
    /\ UNCHANGED <<open, received, events, counted, cursor>>

\* events = self.events[after:]
Slice(p) ==
    /\ poll[p].pc = "slice"
    /\ open
    /\ poll' = [poll EXCEPT ![p].pc = "count",
                            ![p].slice = SubSeq(events, poll[p].after + 1, Len(events)),
                            ![p].new = {n \in ToSet(events) : n > counted}]
    /\ UNCHANGED <<open, received, events, counted, cursor>>

\* len(self.events)
Count(p) ==
    /\ poll[p].pc = "count"
    /\ poll' = [poll EXCEPT ![p].pc = "answer", ![p].cursor = Len(events)]
    /\ counted' = received
    /\ UNCHANGED <<open, received, events, cursor>>

\* The page takes the cursor over and shows the events.
Answer(p) ==
    /\ poll[p].pc = "answer"
    /\ cursor' = poll[p].cursor
    /\ poll' = [poll EXCEPT ![p] = NotPolling]
    /\ UNCHANGED <<open, received, events, counted>>

\* "invalid session"
Refuse(p) ==
    /\ poll[p].pc = "slice"
    /\ ~open
    /\ poll' = [poll EXCEPT ![p] = NotPolling]
    /\ UNCHANGED <<open, received, events, counted, cursor>>

Next ==
    \/ OpenSession
    \/ CloseSession
    \/ Receive
    \/ \E p \in Polls : Poll(p) \/ Slice(p) \/ Count(p) \/ Answer(p) \/ Refuse(p)

Spec == Init /\ [][Next]_vars

-----------------------------------------------------------------------------

(* web/README.md: the page has a console log for raw backend protocol      *)
(* responses.  A poll hands out at least what has come since the last one  *)
(* was answered and the session still keeps.  It does not once a session   *)
(* has had as many events as it keeps: the cursor counts the events of the *)
(* list, and the list does not get longer, so nothing new is handed out.   *)
NewEventsHandedOut ==
    \A p \in Polls : poll[p].new \subseteq ToSet(poll[p].slice)
=============================================================================

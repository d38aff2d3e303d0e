--------------------------- MODULE RealtimeReplay ---------------------------
(***************************************************************************)
(* How realtime events reach one user: the table realtime_events, the      *)
(* broadcasts that write to the user's sockets, the endpoint /me/ws that   *)
(* replays the events after a cursor, and the client that remembers the    *)
(* largest cursor it has met and resumes from it.                          *)
(*                                                                         *)
(* The server is one event loop.  A broadcast persists its event, then     *)
(* awaits the sockets of each recipient in turn: between the two other     *)
(* broadcasts and new connections run.  me_socket reads the backlog,       *)
(* registers its socket and sends "ready" without an await in between,     *)
(* then sends the backlog frame by frame: as soon as a send waits for the  *)
(* peer, live events of other tasks go to the same socket.                 *)
(*                                                                         *)
(* The events of one user are numbered 1, 2, ...: those of others, and the *)
(* gaps they leave in the ids, make no difference to this user.            *)
(***************************************************************************)
EXTENDS Naturals, Sequences, Functions

CONSTANTS
    Limit,       \* how many events a replay returns (250)
    MaxEvents,   \* bound: number of events
    MaxDials,    \* bound: number of connections the client opens
    MaxFaults    \* bound: number of restarts, crashes and aborted broadcasts

ASSUME ReplayAssumption ==
    /\ Limit \in Nat \ {0}
    /\ {MaxEvents, MaxDials, MaxFaults} \subseteq Nat

VARIABLES
    log,         \* realtime_events: the id of the last event of this user
    sending,     \* persisted events whose broadcast has not reached the user
    link,        \* "down", "dialing" (the URL carries resume), or "open"
    resume,      \* the cursor in the URL of the present connection
    latest,      \* latest_cursor, read together with the backlog
    replay,      \* the frames me_socket has still to send
    wire,        \* the frames under way to the client
    cursor,      \* the client's cursor, in memory
    unsaved,     \* cursors whose saveCursor has not reached the store
    saved,       \* RealtimeCursorStore
    seen,        \* history: the events handed to onEvent
    aborted,     \* history: the events whose broadcast ended in an error
    dials,       \* history: connections opened
    faults       \* history: restarts, crashes and aborted broadcasts

session == <<link, resume, latest, replay, wire>>
client == <<cursor, unsaved, saved, seen>>
history == <<aborted, dials, faults>>
vars == <<log, sending, session, client, history>>

-----------------------------------------------------------------------------
\* The frame {"type": "ready"}, which carries no cursor.
Ready == 0

Frame == Nat

TypeOK ==
    /\ {log, resume, latest, cursor, saved, dials, faults} \subseteq Nat
    /\ link \in {"down", "dialing", "open"}
    /\ replay \in Seq(Frame) /\ wire \in Seq(Frame)
    /\ sending \subseteq 1..log
    /\ unsaved \subseteq Nat
    /\ seen \subseteq 1..log /\ aborted \subseteq 1..log

Init ==
    /\ log = 0 /\ sending = {}
    /\ link = "down" /\ resume = 0 /\ latest = 0 /\ replay = <<>> /\ wire = <<>>
    /\ cursor = 0 /\ unsaved = {} /\ saved = 0 /\ seen = {}
    /\ aborted = {} /\ dials = 0 /\ faults = 0

-----------------------------------------------------------------------------
(* The server.                                                             *)

\* Mutant of Persist: the event is broadcast and never stored.
PersistNot ==
    /\ log < MaxEvents
    /\ sending' = sending \union {log + 1}
    /\ UNCHANGED <<log, session, client, history>>

\* broadcast_chat_event and broadcast_user_event up to their first await.
Persist ==
    /\ log < MaxEvents
    /\ log' = log + 1
    /\ sending' = sending \union {log + 1}
    /\ UNCHANGED <<session, client, history>>

\* The broadcast arrives at this user: every registered socket gets a frame.
Fanout(e) ==
    /\ e \in sending /\ link = "open"
    /\ sending' = sending \ {e}
    /\ wire' = Append(wire, e)
    /\ UNCHANGED <<log, link, resume, latest, replay, client, history>>

\* There is no socket, or its send raises: nobody gets the frame.
FanoutNobody(e) ==
    /\ e \in sending /\ link # "open"
    /\ sending' = sending \ {e}
    /\ UNCHANGED <<log, session, client, history>>

\* The broadcast ends before this user's turn: while it awaited a send, another
\* user's set of sockets, or the chat's, changed under its iteration.
FanoutAborted(e) ==
    /\ e \in sending /\ faults < MaxFaults
    /\ sending' = sending \ {e}
    /\ aborted' = aborted \union {e} /\ faults' = faults + 1
    /\ UNCHANGED <<log, session, client, dials>>

\* Mutant of Backlog: the query skips one id too many.
BacklogOffByOne ==
    [i \in 1..(IF log - resume > Limit THEN Limit ELSE log - resume) |-> resume + 1 + i]

\* Mutant of Backlog: the query orders by id descending.
BacklogNewest ==
    [i \in 1..(IF log - resume > Limit THEN Limit ELSE log - resume) |->
        (IF log - resume > Limit THEN log - Limit ELSE resume) + i]

\* The events after the cursor, oldest first.
Backlog ==
    [i \in 1..(IF log - resume > Limit THEN Limit ELSE log - resume) |-> resume + i]

\* accept() has returned: read the backlog, register the socket, send "ready".
Accept ==
    /\ link = "dialing"
    /\ link' = "open"
    /\ latest' = log
    /\ replay' = Backlog
    /\ wire' = Append(wire, Ready)
    /\ UNCHANGED <<log, sending, resume, client, history>>

Replay ==
    /\ link = "open" /\ replay # <<>>
    /\ wire' = Append(wire, Head(replay))
    /\ replay' = Tail(replay)
    /\ UNCHANGED <<log, sending, link, resume, latest, client, history>>

-----------------------------------------------------------------------------
(* The client.                                                             *)

Dial ==
    /\ link = "down" /\ dials < MaxDials
    /\ link' = "dialing" /\ resume' = cursor
    /\ dials' = dials + 1
    /\ UNCHANGED <<log, sending, latest, replay, wire, client, aborted, faults>>

\* _captureCursor and _rememberRealtimeCursor: keep the maximum, save later.
Capture(c) ==
    \/ c > cursor /\ cursor' = c /\ unsaved' = unsaved \union {c}
    \/ c <= cursor /\ UNCHANGED <<cursor, unsaved>>

\* Mutant of Receive: the client resumes after the latest_cursor that "ready"
\* announces.
ReceiveTrustsReady ==
    /\ wire # <<>>
    /\ wire' = Tail(wire)
    /\ seen' = seen \union ({Head(wire)} \ {Ready})
    /\ Capture(IF Head(wire) = Ready THEN latest ELSE Head(wire))
    /\ UNCHANGED <<log, sending, link, resume, latest, replay, saved, history>>

Receive ==
    /\ wire # <<>>
    /\ wire' = Tail(wire)
    /\ seen' = seen \union ({Head(wire)} \ {Ready})
    /\ Capture(Head(wire))
    /\ UNCHANGED <<log, sending, link, resume, latest, replay, saved, history>>

\* One saveCursor call completes.
Save(c) ==
    /\ c \in unsaved
    /\ unsaved' = unsaved \ {c}
    /\ saved' = IF c > saved THEN c ELSE saved
    /\ UNCHANGED <<log, sending, session, cursor, seen, history>>

-----------------------------------------------------------------------------
(* Failures.                                                               *)

\* The connection is gone, with everything under way on it.
HangUp ==
    /\ link' = "down" /\ resume' = 0 /\ latest' = 0
    /\ replay' = <<>> /\ wire' = <<>>

Drop ==
    /\ link # "down" /\ HangUp
    /\ UNCHANGED <<log, sending, client, history>>

\* The app is killed and started again: _bootstrapRealtime loads the cursor.
Restart ==
    /\ faults < MaxFaults /\ faults' = faults + 1
    /\ HangUp
    /\ cursor' = saved /\ unsaved' = {}
    /\ UNCHANGED <<log, sending, saved, seen, aborted, dials>>

\* The server process dies: broadcasts in progress are lost, the table stays.
Crash ==
    /\ faults < MaxFaults /\ faults' = faults + 1
    /\ HangUp
    /\ sending' = {}
    /\ UNCHANGED <<log, client, aborted, dials>>

Next ==
    \/ Persist \/ Accept \/ Replay
    \/ \E e \in sending : Fanout(e) \/ FanoutNobody(e) \/ FanoutAborted(e)
    \/ Dial \/ Receive
    \/ \E c \in unsaved : Save(c)
    \/ Drop \/ Restart \/ Crash

Spec == Init /\ [][Next]_vars

\* Broadcasts and the handler are tasks of a running event loop whose sends end
\* (a dead peer is closed by the keepalive ping), and the client reads its socket.
FairSpec ==
    /\ Spec
    /\ WF_vars(Accept) /\ WF_vars(Replay) /\ WF_vars(Receive)
    /\ \A e \in 1..MaxEvents : WF_vars(Fanout(e) \/ FanoutNobody(e))

-----------------------------------------------------------------------------
(* Properties.                                                             *)

InFlight == Range(wire) \union Range(replay) \union sending

\* While a connection whose backlog fits the limit stays open, the only event it
\* can lose is one whose broadcast ended in an error: each other event after the
\* resume cursor was handled, is on the wire, waits in the replay or in a
\* broadcast.  It rests on me_socket reading the backlog and registering the
\* socket in one step, and on persisting before sending.
SessionComplete ==
    (link = "open" /\ latest - resume <= Limit) =>
        (resume + 1)..log \subseteq seen \union InFlight \union aborted

\* The cursor the client would resume from belongs to an event it has handled,
\* never to one the server merely announced.
CursorsWereSeen == {cursor, saved} \subseteq seen \union {0}

\* The first Limit events of the backlog of a connection that stays open are
\* handled in the end; the rest of a longer backlog is never sent.
BacklogReplayed ==
    \A e \in 1..MaxEvents :
        (link = "open" /\ e \in (resume + 1)..latest /\ e <= resume + Limit) ~>
            (e \in seen \/ link # "open")

\* So is every event broadcast while the connection stays open, unless its
\* broadcast ends in an error.
LiveEventHandled ==
    \A e \in 1..MaxEvents :
        (link = "open" /\ e \in sending) ~>
            (e \in seen \/ link # "open" \/ e \in aborted)

\* The two promises of a connection that stays open.
EventuallyHandled == BacklogReplayed /\ LiveEventHandled

\* docs/client_architecture.md:43 lets the client resume from the latest cursor,
\* docs/telegram_rewrite_plan.md:23 promises that a reconnect replays what was
\* missed: then no event below the cursor may be missing once nothing is in flight.
NoGap == link = "down" => 1..cursor \subseteq seen
=============================================================================

------------------------------ MODULE Messages ------------------------------
(***************************************************************************)
(* The messages one user has sent to a chat: the row of message_deliveries *)
(* each member has for each of them, who has hidden what, and the status   *)
(* the sender's client shows.                                              *)
(*                                                                         *)
(* Posts, edits, acknowledgements and deletions run on the event loop; an  *)
(* acknowledgement reads the row, commits it and sums up the rows, with    *)
(* worker threads beside it.  Reading a page and clearing the history run  *)
(* in worker threads and are a read and a commit.  The database enforces   *)
(* its unique and foreign keys, as the PostgreSQL of                       *)
(* docker-compose.server.yml does.                                         *)
(***************************************************************************)
EXTENDS Naturals, FiniteSets

CONSTANTS
    Peer,         \* the users other than the sender
    MaxMessages,  \* bound: messages posted
    MaxLate,      \* bound: members that are added to the chat
    None          \* no message, row or request

ASSUME MessagesAssumption ==
    /\ MaxMessages \in Nat /\ MaxLate \in Nat
    /\ None \notin {"sent", "delivered", "read"}

VARIABLES
    member,      \* the peers in chat_members
    posted,      \* messages so far; their ids are 1..posted
    live,        \* the messages that have not been deleted
    delivery,    \* message_deliveries: the status of each message for each peer
    hidden,      \* message_hidden
    page,        \* per peer, what its page request has read and is to mark
    clearing,    \* per peer, the messages its clear request has read
    acking,      \* the acknowledgement on the loop, between read and commit
    telling,     \* per peer, the message_status event its socket handler sends
    frames,      \* answers and frames on their way to the sender's client
    answer,      \* the page on its way to the sender's client
    shown,       \* the status that client shows
    late,        \* history: messages that got a row after they were posted
    joined       \* history: members added

tables == <<member, posted, live, delivery, hidden>>
requests == <<page, clearing, acking, telling>>
client == <<frames, answer, shown>>
history == <<late, joined>>
vars == <<tables, requests, client, history>>

Id == 1..MaxMessages

Status == {"sent", "delivered", "read"}

Statuses == [Id -> Status \union {None}]

\* A row the page request found missing is inserted, one that is not read yet
\* is updated.
Reading == [insert : SUBSET Id, update : SUBSET Id]

\* An acknowledgement has found a row to raise, or none.
Acknowledgement ==
    [peer : Peer, message : Id, status : {"delivered", "read"}, insert : BOOLEAN]

\* The status is None until the rows are summed up.
StatusEvent == [message : Id, status : Status \union {None}]

\* A message reaches its sender's client twice, as the answer of the POST and
\* as a frame; an edited one again as a frame the client handles in the same
\* way.  A deletion is a frame.
Frame ==
    [kind : {"answer", "message"}, message : Id, status : Status]
    \union [kind : {"message_deleted"}, message : Id]

TypeOK ==
    /\ member \subseteq Peer
    /\ posted \in 0..MaxMessages /\ live \subseteq 1..posted
    /\ delivery \in [Id -> [Peer -> Status \union {None}]]
    /\ hidden \subseteq live \X Peer
    /\ page \in [Peer -> Reading \union {None}]
    /\ clearing \in [Peer -> SUBSET Id]
    /\ acking \in Acknowledgement \union {None}
    /\ telling \in [Peer -> StatusEvent \union {None}]
    /\ frames \subseteq Frame
    /\ answer \in Statuses \union {None} /\ shown \in Statuses
    /\ late \subseteq Id /\ joined \in 0..MaxLate

Init ==
    /\ member \in SUBSET Peer
    /\ posted = 0 /\ live = {} /\ hidden = {}
    /\ delivery = [m \in Id |-> [p \in Peer |-> None]]
    /\ page = [p \in Peer |-> None] /\ clearing = [p \in Peer |-> {}]
    /\ acking = None /\ telling = [p \in Peer |-> None]
    /\ frames = {} /\ answer = None /\ shown = [m \in Id |-> None]
    /\ late = {} /\ joined = 0

-----------------------------------------------------------------------------
(* What the tables say.                                                    *)

Rank(s) == CASE s = "sent" -> 0 [] s = "delivered" -> 1 [] s = "read" -> 2

\* Mutant of Aggregate: one member is enough.
AggregateAny(row) ==
    LET rows == {row[p] : p \in Peer} \ {None} IN
    IF rows = {} \/ "read" \in rows THEN "read"
    ELSE IF "delivered" \in rows THEN "delivered" ELSE "sent"

\* _aggregate_sender_status over the rows a message has.
Aggregate(row) ==
    LET rows == {row[p] : p \in Peer} \ {None} IN
    IF rows \subseteq {"read"} THEN "read"
    ELSE IF rows \subseteq {"delivered", "read"} THEN "delivered" ELSE "sent"

\* Mutant of Raises: the rank is not compared.
RaisesAny(old, s) == old # s

\* An acknowledgement changes a missing row, or one of a lower rank.
Raises(old, s) == IF old = None THEN TRUE ELSE Rank(s) > Rank(old)

\* An acknowledgement is between its commit and its sum.
Summing(p) == IF telling[p] = None THEN FALSE ELSE telling[p].status = None

\* While an acknowledgement is busy only worker threads act.
LoopFree == acking = None /\ \A p \in Peer : ~Summing(p)

Visible(p) == {m \in live : <<m, p>> \notin hidden}

\* create_message: every member gets a row.  The answer and the frame carry the
\* sender's view of it.
Post ==
    /\ LoopFree /\ posted < MaxMessages
    /\ posted' = posted + 1 /\ live' = live \union {posted + 1}
    /\ delivery' = [delivery EXCEPT ![posted + 1] =
                       [p \in Peer |-> IF p \in member THEN "delivered" ELSE None]]
    /\ LET sum == Aggregate(delivery'[posted + 1]) IN
       frames' = frames \union
                   {[kind |-> k, message |-> posted + 1, status |-> sum] : k \in {"answer", "message"}}
    /\ UNCHANGED <<member, hidden, requests, answer, shown, history>>

\* add_member: no rows for what was sent before.
AddMember(p) ==
    /\ joined < MaxLate /\ p \notin member
    /\ member' = member \union {p} /\ joined' = joined + 1
    /\ UNCHANGED <<posted, live, delivery, hidden, requests, client, late>>

-----------------------------------------------------------------------------
(* Reading and acknowledging.                                              *)

\* list_messages_cursor or get_message_context returns some of what p can see;
\* _mark_messages_read up to the rows found.
PageRead(p, rows) ==
    /\ p \in member /\ page[p] = None
    /\ LET r == [insert |-> {m \in rows : delivery[m][p] = None},
                 update |-> {m \in rows : delivery[m][p] \in {"sent", "delivered"}}] IN
       /\ r.insert \union r.update # {}
       /\ page' = [page EXCEPT ![p] = r]
    /\ UNCHANGED <<tables, clearing, acking, telling, client, history>>

\* Nobody has inserted these rows or deleted their messages since.
Insertable(p) == \A m \in page[p].insert : m \in live /\ delivery[m][p] = None

\* The commit of _mark_messages_read.  Nobody is told about it.
PageCommit(p) ==
    /\ page[p] # None /\ Insertable(p)
    /\ delivery' = [m \in Id |-> IF m \in live \intersect (page[p].insert \union page[p].update)
                                 THEN [delivery[m] EXCEPT ![p] = "read"] ELSE delivery[m]]
    /\ late' = late \union page[p].insert
    /\ page' = [page EXCEPT ![p] = None]
    /\ UNCHANGED <<member, posted, live, hidden, clearing, acking, telling, client, joined>>

\* A row was inserted meanwhile, or a message deleted: the request fails as a
\* whole.  Whether an update of a deleted row is noticed depends on the driver.
PageFails(p) ==
    /\ page[p] # None
    /\ ~Insertable(p) \/ ~(page[p].update \subseteq live)
    /\ page' = [page EXCEPT ![p] = None]
    /\ UNCHANGED <<tables, clearing, acking, telling, client, history>>

\* "ack" and "seen" on a websocket: update_message_delivery_status reads the row.
\* The handler of a socket takes the next frame when it has sent the event of this
\* one.
AckRead(p, m, s) ==
    /\ LoopFree /\ p \in member /\ m \in live /\ telling[p] = None
    /\ Raises(delivery[m][p], s)
    /\ acking' = [peer |-> p, message |-> m, status |-> s, insert |-> delivery[m][p] = None]
    /\ UNCHANGED <<tables, page, clearing, telling, client, history>>

\* The commit.
AckCommit(p, m) ==
    /\ acking # None /\ acking.peer = p /\ acking.message = m
    /\ acking.insert => delivery[m][p] = None
    /\ delivery' = [delivery EXCEPT ![m][p] = acking.status]
    /\ late' = IF acking.insert THEN late \union {m} ELSE late
    /\ telling' = [telling EXCEPT ![p] = [message |-> m, status |-> None]]
    /\ acking' = None
    /\ UNCHANGED <<member, posted, live, hidden, page, clearing, client, joined>>

\* A page has inserted the row since it was read: the unique key refuses another.
AckFails ==
    /\ acking # None /\ acking.insert
    /\ delivery[acking.message][acking.peer] # None
    /\ acking' = None
    /\ UNCHANGED <<tables, page, clearing, telling, client, history>>

\* The sum of all rows, and the event for every member.
AckSum(p) ==
    /\ Summing(p)
    /\ telling' = [telling EXCEPT ![p].status = Aggregate(delivery[telling[p].message])]
    /\ UNCHANGED <<tables, page, clearing, acking, client, history>>

-----------------------------------------------------------------------------
(* Deleting and hiding.                                                    *)

\* update_message_content, and the event with the sender's view of the message.
Edit(m) ==
    /\ LoopFree /\ m \in live
    /\ frames' = frames \union
                   {[kind |-> "message", message |-> m, status |-> Aggregate(delivery[m])]}
    /\ UNCHANGED <<tables, requests, answer, shown, history>>

\* delete_message for all: the rows of the message go with it.
Delete(m) ==
    /\ LoopFree /\ m \in live /\ live' = live \ {m}
    /\ delivery' = [delivery EXCEPT ![m] = [p \in Peer |-> None]]
    /\ hidden' = {h \in hidden : h[1] # m}
    /\ frames' = frames \union {[kind |-> "message_deleted", message |-> m]}
    /\ UNCHANGED <<member, posted, requests, answer, shown, history>>

\* delete_message for one member.
Hide(p, m) ==
    /\ LoopFree /\ p \in member /\ m \in Visible(p)
    /\ hidden' = hidden \union {<<m, p>>}
    /\ UNCHANGED <<member, posted, live, delivery, requests, client, history>>

\* clear_chat_history_for_user reads what the member can see ...
ClearRead(p) ==
    /\ p \in member /\ clearing[p] = {} /\ Visible(p) # {}
    /\ clearing' = [clearing EXCEPT ![p] = Visible(p)]
    /\ UNCHANGED <<tables, page, acking, telling, client, history>>

\* Mutant of ClearCommit: rows of deleted messages are inserted.
ClearCommitDeleted(p) ==
    /\ clearing[p] # {}
    /\ hidden' = hidden \union (clearing[p] \X {p})
    /\ clearing' = [clearing EXCEPT ![p] = {}]
    /\ UNCHANGED <<member, posted, live, delivery, page, acking, telling, client, history>>

\* ... and hides all of it, ...
ClearCommit(p) ==
    /\ clearing[p] # {} /\ clearing[p] \subseteq Visible(p)
    /\ hidden' = hidden \union (clearing[p] \X {p})
    /\ clearing' = [clearing EXCEPT ![p] = {}]
    /\ UNCHANGED <<member, posted, live, delivery, page, acking, telling, client, history>>

\* ... or, when one of the messages was hidden or deleted meanwhile, nothing.
ClearFails(p) ==
    /\ clearing[p] # {} /\ ~(clearing[p] \subseteq Visible(p))
    /\ clearing' = [clearing EXCEPT ![p] = {}]
    /\ UNCHANGED <<tables, page, acking, telling, client, history>>

-----------------------------------------------------------------------------
(* The sender's client.                                                    *)

\* The status event of p's handler arrives: updateMessageStatus changes a row
\* that is shown.  Events of different handlers arrive in any order.
StatusArrives(p) ==
    /\ telling[p] # None /\ ~Summing(p)
    /\ shown' = IF shown[telling[p].message] = None THEN shown
                ELSE [shown EXCEPT ![telling[p].message] = telling[p].status]
    /\ telling' = [telling EXCEPT ![p] = None]
    /\ UNCHANGED <<tables, page, clearing, acking, frames, answer, history>>

\* applyMessage and deleteMessage.
FrameArrives(f) ==
    /\ f \in frames /\ frames' = frames \ {f}
    /\ shown' = [shown EXCEPT ![f.message] =
                    IF f.kind = "message_deleted" THEN None ELSE f.status]
    /\ UNCHANGED <<tables, requests, answer, history>>

\* loadMessages: the server sums up the rows, and later the answer replaces
\* what is shown.
LoadServed ==
    /\ answer = None /\ posted > 0
    /\ answer' = [m \in Id |-> IF m \in live THEN Aggregate(delivery[m]) ELSE None]
    /\ UNCHANGED <<tables, requests, frames, shown, history>>

LoadArrives ==
    /\ answer # None /\ answer' = None /\ shown' = answer
    /\ UNCHANGED <<tables, requests, frames, history>>

Next ==
    \/ Post \/ AckFails \/ LoadServed \/ LoadArrives
    \/ \E p \in Peer :
       \/ AddMember(p) \/ AckSum(p) \/ StatusArrives(p)
       \/ (\E rows \in SUBSET Visible(p) : PageRead(p, rows))
       \/ PageCommit(p) \/ PageFails(p)
       \/ ClearRead(p) \/ ClearCommit(p) \/ ClearFails(p)
       \/ \E m \in Id :
          \/ Hide(p, m) \/ AckCommit(p, m)
          \/ \E s \in {"delivered", "read"} : AckRead(p, m, s)
    \/ \E m \in Id : Edit(m) \/ Delete(m)
    \/ \E f \in frames : FrameArrives(f)

Spec == Init /\ [][Next]_vars

-----------------------------------------------------------------------------
(* Properties.                                                             *)

\* A delivery row never falls back and never disappears while its message
\* exists, in whatever order page requests in threads and acknowledgements on
\* the loop read and write it.
StatusGrows ==
    [][\A m \in live \intersect live', p \in Peer :
          delivery[m][p] # None =>
              delivery'[m][p] # None /\ Rank(delivery'[m][p]) >= Rank(delivery[m][p])]_vars

\* The client never shows its user more than is true: a message shown as read
\* was read by every member that has a row for it, and one shown as delivered
\* was delivered to all of them, whatever came late or out of order.  Only a
\* row inserted for a late member can take back what was shown.
ShownIsNotAhead ==
    \A m \in live \ late : shown[m] # None =>
        \A p \in Peer : delivery[m][p] # None => Rank(shown[m]) <= Rank(delivery[m][p])
=============================================================================

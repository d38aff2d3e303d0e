------------------------- MODULE ScheduledMessages -------------------------
(***************************************************************************)
(* The life of the rows of scheduled_messages in one server process: the   *)
(* endpoints that create and cancel them, the dispatch loop that turns a   *)
(* due row into a message, the messages posted directly, which compete     *)
(* with the rows for the same uploaded files, and their deletion.          *)
(*                                                                         *)
(* Three kinds of code run here.  The dispatch loop, post_message and      *)
(* remove_message are coroutines of one event loop, and none awaits        *)
(* between its first read and its last commit, so they never interleave.  The    *)
(* endpoints declared with a plain "def" run in worker threads: their read *)
(* and their commit are separate steps.  The process may die at any step;  *)
(* only the database survives.                                             *)
(***************************************************************************)
EXTENDS Naturals, FiniteSets

CONSTANTS
    Schedule,     \* ids of the rows of scheduled_messages
    Media,        \* uploads of the sender for this chat (media_files)
    None,         \* "no row"; also the origin of a message posted directly
    Limit,        \* how many due rows one dispatch iteration loads
    MaxTime,      \* bound: the clock stops here
    MaxMessages,  \* bound: posts and deletions stop at this many of both
    MaxFaults     \* bound: number of process deaths and failed commits

ASSUME ScheduledAssumption ==
    /\ Schedule \subseteq Nat
    /\ None \notin Schedule
    /\ Limit \in Nat \ {0}
    /\ {MaxTime, MaxMessages, MaxFaults} \subseteq Nat

VARIABLES
    row,          \* scheduled_messages, by id
    messages,     \* every message stored in the chat, with its attachments
    deleted,      \* those that have been deleted for everyone since
    committed,    \* the uploads whose is_committed flag is set
    nextId,       \* the id the next message row gets
    now,          \* the wall clock
    allowed,      \* does create_message accept the sender (no block, member)
    online,       \* is_user_online(peer)
    loop,         \* the dispatch loop: "sleep", or "run" inside an iteration
    batch,        \* the due rows this iteration loaded and has not handled
    current,      \* the row whose message is committed but not yet marked
    produced,     \* the id of that message
    creating,     \* create requests that have validated and not yet inserted
    canceling,    \* cancel requests that saw PENDING and have not committed
    confirmed,    \* history: rows whose cancel request returned success
    faults        \* history: number of process deaths and failed commits

database == <<row, messages, deleted, committed, nextId>>
world == <<now, allowed, online>>
dispatcher == <<loop, batch, current, produced>>
requests == <<creating, canceling>>
history == <<confirmed, faults>>
vars == <<database, world, dispatcher, requests, history>>

-----------------------------------------------------------------------------
Status == {"none", "pending", "sent", "canceled", "failed"}

Row == [status : Status, at : Nat, gated : BOOLEAN,
        attachments : SUBSET Media, delivered : Nat]

\* media: every attached file; own: the uploads this message committed.
\* A forward copies the links of its source and owns none of them.
Message == [id : Nat, origin : Schedule \union {None},
            media : SUBSET Media, own : SUBSET Media]

Request == [id : Schedule, at : Nat, gated : BOOLEAN, attachments : SUBSET Media]

NoRow == [status |-> "none", at |-> 0, gated |-> FALSE,
          attachments |-> {}, delivered |-> 0]

TypeOK ==
    /\ row \in [Schedule -> Row]
    /\ messages \subseteq Message /\ deleted \subseteq messages
    /\ committed \subseteq Media
    /\ nextId \in Nat \ {0}
    /\ now \in Nat /\ allowed \in BOOLEAN /\ online \in BOOLEAN
    /\ loop \in {"sleep", "run"}
    /\ batch \subseteq Schedule
    /\ current \in Schedule \union {None}
    /\ produced \in Nat
    /\ creating \subseteq Request
    /\ canceling \subseteq Schedule
    /\ confirmed \subseteq Schedule
    /\ faults \in Nat

Init ==
    /\ row = [s \in Schedule |-> NoRow]
    /\ messages = {} /\ deleted = {}
    /\ committed = {}
    /\ nextId = 1
    /\ now = 0 /\ allowed = TRUE /\ online = FALSE
    /\ loop = "sleep" /\ batch = {} /\ current = None /\ produced = 0
    /\ creating = {} /\ canceling = {}
    /\ confirmed = {} /\ faults = 0

-----------------------------------------------------------------------------
(* Attachments.                                                            *)

Pending(s) == row[s].status = "pending"

\* The pending rows that reserve upload a.
Holders(a) == {s \in Schedule : Pending(s) /\ a \in row[s].attachments}

\* Mutant of MayAttach: the is_committed check is missing.
MayAttachUsed(A, s) ==
    \A a \in A : Holders(a) = {} \/ s \in Holders(a)

\* The attachments pass validation for row s (None: a direct post or a new
\* row).  When two pending rows hold one upload the code keeps whichever the
\* query returns first, so the check may go either way.
MayAttach(A, s) ==
    \A a \in A : a \notin committed /\ (Holders(a) = {} \/ s \in Holders(a))

MayRefuse(A, s) ==
    \E a \in A : a \in committed \/ Holders(a) \ {s} # {}

\* create_message up to its commit.
StoreMessage(origin, media, own) ==
    /\ messages' = messages \union
          {[id |-> nextId, origin |-> origin, media |-> media, own |-> own]}
    /\ committed' = committed \union own
    /\ nextId' = nextId + 1
    /\ UNCHANGED deleted

MayChange == Cardinality(messages) + Cardinality(deleted) < MaxMessages

\* POST /chats/{id}/messages with uploads A, or with none.
Post(A) ==
    /\ loop = "sleep" /\ MayChange
    /\ allowed /\ MayAttach(A, None)
    /\ StoreMessage(None, A, A)
    /\ UNCHANGED <<row, world, dispatcher, requests, history>>

\* The rows of the table of messages.
Stored == messages \ deleted

\* The same endpoint forwarding message m without text or uploads: the links
\* of m are copied, no attachment is validated.
PostForward(m) ==
    /\ loop = "sleep" /\ MayChange
    /\ allowed
    /\ StoreMessage(None, m.media, {})
    /\ UNCHANGED <<row, world, dispatcher, requests, history>>

\* Mutant of Delete: the foreign key is not set to NULL.
DeleteOnly(m) ==
    /\ loop = "sleep" /\ MayChange
    /\ deleted' = deleted \union {m}
    /\ UNCHANGED <<row, messages, committed, nextId, world, dispatcher, requests, history>>

\* delete_message for everyone: the row that delivered the message loses its
\* delivered_message_id, and the uploads stay committed.
Delete(m) ==
    /\ loop = "sleep" /\ MayChange
    /\ deleted' = deleted \union {m}
    /\ row' = [s \in Schedule |->
          IF row[s].delivered = m.id THEN [row[s] EXCEPT !.delivered = 0] ELSE row[s]]
    /\ UNCHANGED <<messages, committed, nextId, world, dispatcher, requests, history>>

-----------------------------------------------------------------------------
(* Creating and canceling a row: worker threads.                           *)

Unused(s) == row[s].status = "none" /\ \A r \in creating : r.id # s

\* A row for a time must lie in the future; a row that waits for the peer to
\* come online is due at once.
ValidTime(t, gated) == IF gated THEN t = now ELSE t > now /\ t <= MaxTime

BeginCreate(s, t, gated, A) ==
    /\ Unused(s) /\ allowed /\ ValidTime(t, gated)
    /\ creating' = creating \union
          {[id |-> s, at |-> t, gated |-> gated, attachments |-> A]}
    /\ UNCHANGED <<database, world, dispatcher, canceling, history>>

ValidateSchedule(s, t, gated, A) ==
    MayAttach(A, None) /\ BeginCreate(s, t, gated, A)

\* A forward without text or uploads takes over the attachments of its source.
ValidateForwardSchedule(s, t, gated, m) ==
    m.media # {} /\ BeginCreate(s, t, gated, m.media)

InsertSchedule(r) ==
    /\ row' = [row EXCEPT ![r.id] =
          [status |-> "pending", at |-> r.at, gated |-> r.gated,
           attachments |-> r.attachments, delivered |-> 0]]
    /\ creating' = creating \ {r}
    /\ UNCHANGED <<messages, deleted, committed, nextId, world, dispatcher, canceling,
                   history>>

\* The message to reply to or to forward was deleted after the validation: the
\* insert violates the foreign key and the request fails.
InsertFails(r) ==
    /\ deleted # {}
    /\ creating' = creating \ {r}
    /\ UNCHANGED <<database, world, dispatcher, canceling, history>>

CancelRead(s) ==
    /\ Pending(s)
    /\ canceling' = canceling \union {s}
    /\ UNCHANGED <<database, world, dispatcher, creating, history>>

\* Mutant of CancelCommit: a status the enum does not know.
CancelCommitMisspelt(s) ==
    /\ s \in canceling
    /\ row' = [row EXCEPT ![s].status = "cancelled"]
    /\ canceling' = canceling \ {s}
    /\ confirmed' = confirmed \union {s}
    /\ UNCHANGED <<messages, deleted, committed, nextId, world, dispatcher, creating,
                   faults>>

CancelCommit(s) ==
    /\ s \in canceling
    /\ row' = [row EXCEPT ![s].status = "canceled"]
    /\ canceling' = canceling \ {s}
    /\ confirmed' = confirmed \union {s}
    /\ UNCHANGED <<messages, deleted, committed, nextId, world, dispatcher, creating,
                   faults>>

-----------------------------------------------------------------------------
(* The dispatch loop.                                                      *)

\* Mutant of Due: the query leaves out only what was canceled or failed.
DueSentToo == {s \in Schedule : row[s].status \in {"pending", "sent"} /\ row[s].at <= now}

Due == {s \in Schedule : Pending(s) /\ row[s].at <= now}

\* ORDER BY scheduled_for, id
Before(s, t) ==
    row[s].at < row[t].at \/ (row[s].at = row[t].at /\ s < t)

First(S, n) == {s \in S : Cardinality({t \in S : Before(t, s)}) < n}

\* The row the "for" statement hands out next.
IsNext(s) ==
    /\ loop = "run" /\ current = None
    /\ s \in batch /\ \A t \in batch \ {s} : Before(s, t)

DispatchLoad ==
    /\ loop = "sleep"
    /\ loop' = "run"
    /\ batch' = First(Due, Limit)
    /\ UNCHANGED <<database, world, current, produced, requests, history>>

Waits(s) == row[s].gated /\ ~online

DispatchSkip(s) ==
    /\ IsNext(s) /\ Waits(s)
    /\ batch' = batch \ {s}
    /\ UNCHANGED <<database, world, loop, current, produced, requests, history>>

\* create_message commits the message ...
DispatchSend(s) ==
    /\ IsNext(s) /\ ~Waits(s)
    /\ allowed /\ MayAttach(row[s].attachments, s)
    /\ StoreMessage(s, row[s].attachments, row[s].attachments)
    /\ current' = s /\ produced' = nextId
    /\ UNCHANGED <<row, world, loop, batch, requests, history>>

\* Mutant of DispatchMark: delivered_message_id is left out.
DispatchMarkNoId ==
    /\ current # None
    /\ row' = [row EXCEPT ![current].status = "sent"]
    /\ batch' = batch \ {current}
    /\ current' = None /\ produced' = 0
    /\ UNCHANGED <<messages, deleted, committed, nextId, world, loop, requests, history>>

\* ... and a second transaction marks the row, whatever it has become since.
DispatchMark ==
    /\ current # None
    /\ row' = [row EXCEPT ![current] =
          [row[current] EXCEPT !.status = "sent", !.delivered = produced]]
    /\ batch' = batch \ {current}
    /\ current' = None /\ produced' = 0
    /\ UNCHANGED <<messages, deleted, committed, nextId, world, loop, requests, history>>

\* Mutant of DispatchFail: the error is swallowed and the row stays PENDING.
DispatchFailSilently(s) ==
    /\ IsNext(s) /\ ~Waits(s)
    /\ ~allowed \/ MayRefuse(row[s].attachments, s)
    /\ batch' = batch \ {s}
    /\ UNCHANGED <<row, messages, deleted, committed, nextId, world, loop, current,
                   produced, requests, history>>

DispatchFail(s) ==
    /\ IsNext(s) /\ ~Waits(s)
    /\ ~allowed \/ MayRefuse(row[s].attachments, s)
    /\ row' = [row EXCEPT ![s].status = "failed"]
    /\ batch' = batch \ {s}
    /\ UNCHANGED <<messages, deleted, committed, nextId, world, loop, current, produced,
                   requests, history>>

\* Mutant of DispatchMarkFails: the row is put back so that it is tried again.
DispatchMarkRetries ==
    /\ current # None /\ faults < MaxFaults
    /\ row' = [row EXCEPT ![current].status = "pending"]
    /\ batch' = batch \ {current}
    /\ current' = None /\ produced' = 0
    /\ faults' = faults + 1
    /\ UNCHANGED <<messages, deleted, committed, nextId, world, loop, requests, confirmed>>

\* The second transaction cannot commit: the handler rolls back and marks the
\* row FAILED, the message stays.
DispatchMarkFails ==
    /\ current # None /\ faults < MaxFaults
    /\ row' = [row EXCEPT ![current].status = "failed"]
    /\ batch' = batch \ {current}
    /\ current' = None /\ produced' = 0
    /\ faults' = faults + 1
    /\ UNCHANGED <<messages, deleted, committed, nextId, world, loop, requests, confirmed>>

\* The handler cannot commit either: the iteration ends in the loop's own
\* "except", and the rows it still held stay as they are.
DispatchAbort ==
    /\ loop = "run" /\ faults < MaxFaults
    /\ loop' = "sleep" /\ batch' = {} /\ current' = None /\ produced' = 0
    /\ faults' = faults + 1
    /\ UNCHANGED <<database, world, requests, confirmed>>

DispatchDone ==
    /\ loop = "run" /\ batch = {}
    /\ loop' = "sleep"
    /\ UNCHANGED <<database, world, batch, current, produced, requests, history>>

Dispatch ==
    \/ DispatchLoad
    \/ \E s \in Schedule : DispatchSkip(s) \/ DispatchSend(s) \/ DispatchFail(s)
    \/ DispatchMark
    \/ DispatchDone

Fault == DispatchMarkFails \/ DispatchAbort

-----------------------------------------------------------------------------
(* The world around the process.                                           *)

Tick ==
    /\ now < MaxTime
    /\ now' = now + 1
    /\ UNCHANGED <<database, allowed, online, dispatcher, requests, history>>

\* Block and unblock requests run in worker threads.
ToggleAllowed ==
    /\ allowed' = ~allowed
    /\ UNCHANGED <<database, now, online, dispatcher, requests, history>>

\* Sockets come and go on the event loop, never inside an iteration.
TogglePresence ==
    /\ loop = "sleep"
    /\ online' = ~online
    /\ UNCHANGED <<database, now, allowed, dispatcher, requests, history>>

Crash ==
    /\ faults < MaxFaults
    /\ faults' = faults + 1
    /\ loop' = "sleep" /\ batch' = {} /\ current' = None /\ produced' = 0
    /\ creating' = {} /\ canceling' = {}
    /\ online' = FALSE
    /\ UNCHANGED <<database, now, allowed, confirmed>>

Next ==
    \/ Dispatch \/ Fault
    \/ \E A \in SUBSET Media : Post(A)
    \/ \E m \in Stored : PostForward(m) \/ Delete(m)
    \/ \E s \in Schedule, t \in 0..MaxTime, gated \in BOOLEAN :
          \/ \E A \in SUBSET Media : ValidateSchedule(s, t, gated, A)
          \/ \E m \in Stored : ValidateForwardSchedule(s, t, gated, m)
    \/ \E r \in creating : InsertSchedule(r) \/ InsertFails(r)
    \/ \E s \in Schedule : CancelRead(s) \/ CancelCommit(s)
    \/ Tick \/ ToggleAllowed \/ TogglePresence \/ Crash

Spec == Init /\ [][Next]_vars

\* The loop task is restarted with the process and never gives up; time passes.
FairSpec == Spec /\ WF_vars(Dispatch) /\ WF_vars(Tick)

-----------------------------------------------------------------------------
(* Properties.                                                             *)

MessagesOf(s) == {m \in messages : m.origin = s}

\* An upload is committed to at most one message, however its owner's direct
\* posts, scheduled rows and faults interleave: the is_committed check of
\* _load_and_validate_attachments and the flag create_message sets.
UploadUsedOnce ==
    \A m, n \in messages : m.own \cap n.own # {} => m = n

\* A row that carries attachments is delivered at most once even if the
\* process dies between the commit of the message and the commit of the SENT
\* status: the second attempt finds the uploads used.
UploadRowDeliveredOnce ==
    \A s \in Schedule : \A m, n \in MessagesOf(s) :
        row[s].attachments # {} => m = n

\* While no process died and no commit failed, a row yields at most one message,
\* and none if it is marked FAILED: cancel requests may race with the loop and both
\* statuses may overwrite each other, but no row is loaded a second time.
DeliveredOnceWithoutFault ==
    faults = 0 =>
        \A s \in Schedule :
            /\ \A m, n \in MessagesOf(s) : m = n
            /\ row[s].status = "failed" => MessagesOf(s) = {}

\* A row marked SENT was delivered: delivered_message_id names a message that was
\* made for this row and carries exactly its attachments, or is NULL because that
\* message has been deleted.
SentMeansDelivered ==
    \A s \in Schedule : row[s].status = "sent" =>
        \E m \in MessagesOf(s) :
            /\ m.media = row[s].attachments
            /\ row[s].delivered = IF m \in deleted THEN 0 ELSE m.id

\* tests/test_api.py:652 asserts that a row whose cancellation succeeded never
\* shows up in the history.  It holds once no iteration holds the row: though the
\* loop may overwrite CANCELED with SENT or FAILED, the row is never loaded or
\* sent again.
CancelHolds ==
    [][\A s \in confirmed : s \notin batch =>
          s \notin batch' /\ MessagesOf(s)' = MessagesOf(s)]_vars

\* Every row is handled in the end: one for a time after that time, one that waits
\* for the peer if the peer comes online and stays.  This needs Limit to exceed the
\* number of rows that are waiting: those stay at the head of the query.
RowHandled ==
    \A s \in Schedule : (Pending(s) /\ ~Waits(s)) ~> (~Pending(s) \/ Waits(s))
=============================================================================

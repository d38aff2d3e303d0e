------------------------------- MODULE Outbox -------------------------------
(***************************************************************************)
(* Sending a message from the client's chat thread: the optimistic row,    *)
(* the outbox and its persistence, the flush that posts the queued rows    *)
(* one by one, the idempotent endpoint, and the three ways the server's    *)
(* copy comes back: the HTTP response, the websocket frame "message" and   *)
(* a reload of the page.                                                   *)
(*                                                                         *)
(* The client is a single Dart isolate: a handler runs until its next      *)
(* await.  Only the HTTP calls, the completion of a save and a dialog the  *)
(* user has to confirm let other handlers run in between.                  *)
(***************************************************************************)
EXTENDS Naturals

CONSTANTS
    MaxMessages,   \* bound: messages the user writes
    MaxRestarts,   \* bound: times the app is killed and started again
    None           \* no request, no page, no prompt

ASSUME OutboxAssumption ==
    /\ {MaxMessages, MaxRestarts} \subseteq Nat
    /\ None \notin Nat

VARIABLES
    composed,      \* messages written so far; message c has c as its identity
    messages,      \* the rows the thread shows
    outbox,        \* the rows _outboxMessages holds
    queue,         \* what the running flush has still to send
    current,       \* the message whose POST it awaits
    page,          \* the answer of a reload that is under way
    prompt,        \* the menu or dialog on the screen, for the message it is about
    diskMessages,  \* the rows saveMessages wrote
    diskOutbox,    \* the rows saveOutboxMessages wrote
    requests,      \* POSTs on their way to the server
    answer,        \* has the server's answer to the current POST left
    copies,        \* how many rows the server's table holds of each message
    removed,       \* history: messages the user removed from the queue
    restarts       \* history

thread == <<messages, outbox>>
flush == <<queue, current>>
disk == <<diskMessages, diskOutbox>>
server == <<requests, answer, copies>>
history == <<removed, restarts>>
vars == <<composed, thread, flush, page, prompt, disk, server, history>>

Written == 1..MaxMessages

\* local: the row has a local id; keyed: it carries its client_message_id.
Row == [of : Written, local : BOOLEAN, keyed : BOOLEAN,
        status : {"pending", "sending", "failed", "sent"}]

Prompt == [of : Written, offers : {"retry", "remove"}]

Request == [of : Written, keyed : BOOLEAN]

TypeOK ==
    /\ composed \in 0..MaxMessages
    /\ messages \subseteq Row /\ outbox \subseteq Row
    /\ diskMessages \subseteq Row /\ diskOutbox \subseteq Row
    /\ queue \subseteq Written
    /\ current \in Written \union {None} 
    /\ prompt \in Prompt \union {None}
    /\ page \in (SUBSET Written) \union {None}
    /\ requests \subseteq Request
    /\ answer \in BOOLEAN
    /\ copies \in [Written -> Nat]
    /\ removed \subseteq Written
    /\ restarts \in Nat

Init ==
    /\ composed = 0 /\ messages = {} /\ outbox = {}
    /\ queue = {} /\ current = None /\ page = None /\ prompt = None
    /\ diskMessages = {} /\ diskOutbox = {}
    /\ requests = {} /\ answer = FALSE /\ copies = [c \in Written |-> 0]
    /\ removed = {} /\ restarts = 0

-----------------------------------------------------------------------------
(* Rows.                                                                   *)

\* Mutant of Optimistic: a status that is neither queued nor sent.
OptimisticQueued(c) == [of |-> c, local |-> TRUE, keyed |-> TRUE, status |-> "queued"]

Optimistic(c) == [of |-> c, local |-> TRUE, keyed |-> TRUE, status |-> "pending"]

\* The server sends the client_message_id back.
Remote(c) == [of |-> c, local |-> FALSE, keyed |-> TRUE, status |-> "sent"]

IsLocalStatus(r) == r.status \in {"pending", "sending", "failed"}

KeyedAs(r, c) == r.keyed /\ r.of = c

\* Mutant of SameRow: rows are matched by id only.
SameRowById(r, q) == r.of = q.of /\ r.local = q.local

\* Same id, or same client_message_id.
SameRow(r, q) ==
    r.of = q.of /\ (r.local = q.local \/ (r.keyed /\ q.keyed))

\* applyUpdatedMessage: replace the first row that matches, or add one; an
\* outbox entry goes when a row that is no longer local arrives.
Apply(r) ==
    /\ \/ /\ \A q \in messages : ~SameRow(q, r)
          /\ messages' = messages \union {r}
       \/ \E q \in messages :
          /\ SameRow(q, r)
          /\ messages' = (messages \ {q}) \union {r}
    /\ outbox' = IF r.keyed /\ ~IsLocalStatus(r)
                 THEN {o \in outbox : ~KeyedAs(o, r.of)} ELSE outbox

\* _setLocalMessageStatus on a list of rows.
WithStatus(rows, c, status) ==
    {IF KeyedAs(r, c) THEN [r EXCEPT !.status = status] ELSE r : r \in rows}

\* _messageToJson leaves client_message_id out.
Stored(rows) == {[r EXCEPT !.keyed = FALSE] : r \in rows}

-----------------------------------------------------------------------------
(* The flush.                                                              *)

Flushing == queue # {} \/ current # None

\* Every handler that wants to run finds the isolate at an await.
Idle == queue = {} \/ current # None

\* The entries of box a flush sends: a snapshot, taken when it starts.
Snapshot(box, statuses) == {o.of : o \in {b \in box : b.keyed /\ b.status \in statuses}}

Attempted == {"pending", "sending"}

\* flushPendingOutbox, called at the end of a handler that leaves outbox'.
StartFlush(statuses) ==
    /\ queue' = IF Flushing THEN queue ELSE Snapshot(outbox', statuses)
    /\ UNCHANGED current

\* Mutant of FlushNext: the POST carries no client_message_id.
FlushNextUnkeyed(c) ==
    /\ ~Idle /\ c \in queue /\ \A d \in queue : c <= d
    /\ queue' = queue \ {c} /\ current' = c
    /\ messages' = WithStatus(messages, c, "sending")
    /\ outbox' = WithStatus(outbox, c, "sending")
    /\ requests' = requests \union {[of |-> c, keyed |-> FALSE]}
    /\ UNCHANGED <<composed, page, prompt, disk, answer, copies, history>>

FlushNext(c) ==
    /\ ~Idle /\ c \in queue /\ \A d \in queue : c <= d
    /\ queue' = queue \ {c} /\ current' = c
    /\ messages' = WithStatus(messages, c, "sending")
    /\ outbox' = WithStatus(outbox, c, "sending")
    /\ requests' = requests \union {[of |-> c, keyed |-> TRUE]}
    /\ UNCHANGED <<composed, page, prompt, disk, answer, copies, history>>

\* The response arrives.
FlushSent ==
    /\ current # None /\ answer
    /\ Apply(Remote(current))
    /\ current' = None /\ answer' = FALSE
    /\ UNCHANGED <<composed, queue, page, prompt, disk, requests, copies, history>>

\* Mutant of FlushFailed: the failed message is dropped from the outbox.
FlushFailedDrops(lost) ==
    /\ current # None
    /\ messages' = WithStatus(messages, current, "failed")
    /\ outbox' = {o \in outbox : ~KeyedAs(o, current)}
    /\ requests' = IF lost THEN {r \in requests : r.of # current} ELSE requests
    /\ current' = None /\ answer' = FALSE
    /\ UNCHANGED <<composed, queue, page, prompt, disk, copies, history>>

\* The call throws: the request never arrived, was refused, is still under way
\* (lost = FALSE), or was answered and the answer is lost.
FlushFailed(lost) ==
    /\ current # None
    /\ messages' = WithStatus(messages, current, "failed")
    /\ outbox' = WithStatus(outbox, current, "failed")
    /\ requests' = IF lost THEN {r \in requests : r.of # current} ELSE requests
    /\ current' = None /\ answer' = FALSE
    /\ UNCHANGED <<composed, queue, page, prompt, disk, copies, history>>

-----------------------------------------------------------------------------
(* The user.                                                               *)

OnServer == {c \in Written : copies[c] > 0}

Compose ==
    /\ Idle /\ composed < MaxMessages
    /\ composed' = composed + 1
    /\ messages' = messages \union {Optimistic(composed + 1)}
    /\ outbox' = outbox \union {Optimistic(composed + 1)}
    /\ StartFlush(Attempted)
    /\ UNCHANGED <<page, prompt, disk, server, history>>

\* isPendingLocalMessage: what decides whether the menu offers retry and remove.
Queued(c) == \E o \in outbox : KeyedAs(o, c)

Offer(c, offers) ==
    /\ Idle /\ prompt = None /\ Queued(c)
    /\ prompt' = [of |-> c, offers |-> offers]
    /\ UNCHANGED <<composed, thread, flush, page, disk, server, history>>

OfferRetry(c) ==
    /\ \E m \in messages : KeyedAs(m, c) /\ m.status = "failed"
    /\ Offer(c, "retry")

OfferRemove(c) == Offer(c, "remove")

Dismiss == prompt' = None

\* retryFailedMessage, whatever has happened since the menu was opened.
Retry ==
    /\ Idle /\ prompt # None /\ prompt.offers = "retry"
    /\ messages' = WithStatus(messages, prompt.of, "pending")
    /\ outbox' = WithStatus(outbox, prompt.of, "pending")
    /\ StartFlush(Attempted \union {"failed"})
    /\ Dismiss
    /\ UNCHANGED <<composed, page, disk, server, history>>

\* cancelPendingMessage, whatever has happened since the dialog was opened.
ConfirmRemove ==
    /\ Idle /\ prompt # None /\ prompt.offers = "remove"
    /\ outbox' = {o \in outbox : ~KeyedAs(o, prompt.of)}
    /\ messages' = {m \in messages : ~KeyedAs(m, prompt.of)}
    /\ removed' = removed \union {prompt.of}
    /\ Dismiss
    /\ UNCHANGED <<composed, flush, page, disk, server, restarts>>

Cancel ==
    /\ Idle /\ prompt # None /\ Dismiss
    /\ UNCHANGED <<composed, thread, flush, page, disk, server, history>>

-----------------------------------------------------------------------------
(* The server and what comes back from it.                                 *)

\* create_message: a second POST with the same client_message_id returns the
\* first one's row.
ServerPost(r) ==
    /\ r \in requests
    /\ requests' = requests \ {r}
    /\ copies' = IF r.keyed /\ copies[r.of] > 0 THEN copies
                 ELSE [copies EXCEPT ![r.of] = @ + 1]
    /\ answer' = (answer \/ current = r.of)
    /\ UNCHANGED <<composed, thread, flush, page, prompt, disk, history>>

\* The frame "message": it may come late, more than once or never.
Echo(c) ==
    /\ Idle /\ c \in OnServer
    /\ Apply(Remote(c))
    /\ UNCHANGED <<composed, flush, page, prompt, disk, server, history>>

\* loadMessages: the server reads the page ...
LoadRead ==
    /\ page = None
    /\ page' = OnServer
    /\ UNCHANGED <<composed, thread, flush, prompt, disk, server, history>>

\* Mutant of LoadApply: the reload does not flush.
LoadApplyOnly ==
    /\ Idle /\ page # None
    /\ outbox' = {o \in outbox : ~(o.keyed /\ o.of \in page)}
    /\ messages' = {Remote(c) : c \in page} \union outbox'
    /\ page' = None
    /\ UNCHANGED <<composed, flush, prompt, disk, server, history>>

\* ... and the client replaces its rows by the page and the outbox.
LoadApply ==
    /\ Idle /\ page # None
    /\ outbox' = {o \in outbox : ~(o.keyed /\ o.of \in page)}
    /\ messages' = {Remote(c) : c \in page} \union outbox'
    /\ page' = None
    /\ StartFlush(Attempted)
    /\ UNCHANGED <<composed, prompt, disk, server, history>>

\* The frame "ready" after a (re)connect.
SocketReady ==
    /\ Idle /\ ~Flushing /\ Snapshot(outbox, Attempted) # {}
    /\ queue' = Snapshot(outbox, Attempted)
    /\ UNCHANGED <<composed, thread, current, page, prompt, disk, server, history>>

-----------------------------------------------------------------------------
(* Persistence.  A save writes the rows of the moment it was asked for;    *)
(* letting it happen at any time covers every delay.  Saves after the last *)
(* restart are left out: nobody reads them.                                *)

SaveOutbox ==
    /\ restarts < MaxRestarts /\ diskOutbox # Stored(outbox)
    /\ diskOutbox' = Stored(outbox)
    /\ UNCHANGED <<composed, thread, flush, page, prompt, diskMessages, server, history>>

SaveMessages ==
    /\ restarts < MaxRestarts /\ diskMessages # Stored(messages)
    /\ diskMessages' = Stored(messages)
    /\ UNCHANGED <<composed, thread, flush, page, prompt, diskOutbox, server, history>>

\* _loadCachedMessages and _loadCachedOutboxMessages of a new process.
Restart ==
    /\ restarts < MaxRestarts /\ restarts' = restarts + 1
    /\ outbox' = {IF r.status = "sending" THEN [r EXCEPT !.status = "pending"] ELSE r :
                  r \in diskOutbox}
    /\ messages' = diskMessages \union
                   {r \in outbox' : \A q \in diskMessages : ~SameRow(q, r)}
    /\ queue' = {} /\ current' = None /\ page' = None /\ prompt' = None
    /\ answer' = FALSE
    /\ UNCHANGED <<composed, disk, requests, copies, removed>>

Next ==
    \/ Compose
    \/ \E c \in Written : FlushNext(c) \/ OfferRetry(c) \/ OfferRemove(c) \/ Echo(c)
    \/ Retry \/ ConfirmRemove \/ Cancel
    \/ FlushSent
    \/ \E lost \in BOOLEAN : FlushFailed(lost)
    \/ \E r \in requests : ServerPost(r)
    \/ LoadRead \/ LoadApply \/ SocketReady
    \/ SaveOutbox \/ SaveMessages \/ Restart

Spec == Init /\ [][Next]_vars

\* The isolate keeps running, the server keeps serving, and an HTTP call ends.
FairSpec ==
    /\ Spec
    /\ \A c \in Written : WF_vars(FlushNext(c))
    /\ WF_vars(FlushSent \/ \E lost \in BOOLEAN : FlushFailed(lost))
    /\ WF_vars(\E r \in requests : ServerPost(r))

-----------------------------------------------------------------------------
(* Properties.                                                             *)

\* However often a message is posted (retries, answers lost, requests that
\* arrive after the client gave up), the server holds it at most once.
StoredOnce == \A c \in Written : copies[c] <= 1

\* As long as the app is not killed, a message the user wrote and did not
\* remove is on the server or in the outbox: an entry goes only when the server
\* has confirmed it.
NothingLost ==
    restarts = 0 =>
        \A c \in (1..composed) \ removed : c \in OnServer \/ Queued(c)

\* What ReliableSend speaks of: the messages a flush or a retry can send, and
\* those among the rows on the disk.
Waiting == {c \in Written : Queued(c)}

Saved == {c \in Written : \E o \in diskOutbox : o.of = c}

Reliable ==
    INSTANCE ReliableSend WITH
        Message <- Written, written <- 1..composed, waiting <- Waiting, kept <- Saved,
        withdrawn <- removed, killed <- restarts

\* The promise of the repository's report on the outbox: pending messages are
\* persisted and restored after a restart, and failed ones keep a retry path.  A
\* restart breaks it: the rows come back without the key flush and retry need.
SendsReliably == Reliable!Spec

\* Every other step keeps the promise, also after a restart: a message stops
\* waiting only because the server holds it or the user removed it, a save writes
\* every message that waits, and the server stores a message it did not hold.
StepsAreReliable ==
    Reliable!Init /\ [][Reliable!Next \/ Reliable!Forget]_(Reliable!vars)

\* As long as the app is not killed, the thread shows a message once, in
\* whatever order response, frame and page arrive, and only the message whose POST
\* is under way as being sent.
ShownOnce ==
    restarts = 0 =>
        \A m, n \in messages : m.of = n.of => m = n

SendingIsUnderWay ==
    restarts = 0 => \A m \in messages : m.status = "sending" => current = m.of

ThreadIsRight == ShownOnce /\ SendingIsUnderWay

\* If pages keep being loaded and the app is not killed, every queued message is
\* sent, fails, or is removed: one that was written during a flush is not in its
\* snapshot and has to wait for the next reload.
QueuedToSend(c) == \E o \in outbox : o.of = c /\ o.status = "pending"

QueueResolved ==
    ([]<><<LoadApply>>_vars) =>
        \A c \in Written :
            (restarts = 0 /\ QueuedToSend(c)) ~> (restarts > 0 \/ ~QueuedToSend(c))
=============================================================================

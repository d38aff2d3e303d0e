---------------------------- MODULE OutboxProofs ----------------------------
(***************************************************************************)
(* Proofs about Outbox, for any number of messages and restarts.           *)
(***************************************************************************)
EXTENDS Outbox, TLAPS

\* Every POST carries its client_message_id.
RequestsKeyed == \A r \in requests : r.keyed

\* An answer to the current POST has left only after the row was stored.
AnswerStored == answer => current \in OnServer

\* A page holds messages the server has.
PageStored == page # None => page \subseteq OnServer

Keyed(rows) == \A r \in rows : r.keyed

Unique(rows) == \A m, n \in rows : m.of = n.of => m = n

\* Nothing refers to a message that has not been written.
Known ==
    /\ \A r \in messages \union outbox \union requests : r.of <= composed
    /\ \A c \in queue \union OnServer : c <= composed

Kept == \A c \in (1..composed) \ removed : c \in OnServer \/ Queued(c)

UnderWay ==
    \A r \in messages \union outbox : r.status = "sending" => current = r.of

\* What holds until the app is killed for the first time.
Rows == Keyed(messages) /\ Keyed(outbox) /\ Unique(messages) /\ Unique(outbox)

Alive == restarts = 0 => Rows /\ Known /\ Kept /\ UnderWay

\* Nothing refers to a message that has not been written, not even after a
\* restart; what a restart restores carries no client_message_id, and what is in
\* the outbox without one is still on the disk.
Backed ==
    /\ \A r \in outbox \union diskOutbox \union requests : r.of <= composed
    /\ \A c \in queue \union OnServer : c <= composed
    /\ prompt # None => prompt.of <= composed
    /\ \A r \in diskOutbox : ~r.keyed
    /\ \A o \in outbox : ~o.keyed => \E r \in diskOutbox : r.of = o.of

IInv ==
    /\ TypeOK
    /\ Backed
    /\ RequestsKeyed
    /\ StoredOnce
    /\ AnswerStored
    /\ PageStored
    /\ Alive

-----------------------------------------------------------------------------
(* The operators on rows.                                                  *)

\* new holds the rows again, with another status where c is named.
Restated(rows, new, c, status) ==
    /\ \A s \in new : \E r \in rows :
          /\ s.of = r.of /\ s.keyed = r.keyed
          /\ \/ KeyedAs(r, c) /\ s.status = status
             \/ ~KeyedAs(r, c) /\ s.status = r.status
    /\ \A r \in rows : \E s \in new : s.of = r.of /\ s.keyed = r.keyed

\* A change of status keeps the identity of every row, and changes only those
\* that carry the client_message_id it names.
LEMMA WithStatusRows ==
    ASSUME NEW rows, rows \subseteq Row, NEW c \in Written,
           NEW status \in {"pending", "sending", "failed", "sent"}
    PROVE  /\ WithStatus(rows, c, status) \subseteq Row
           /\ Restated(rows, WithStatus(rows, c, status), c, status)
           /\ Unique(rows) => Unique(WithStatus(rows, c, status))
<1> DEFINE F(r) == IF KeyedAs(r, c) THEN [r EXCEPT !.status = status] ELSE r
<1>1. WithStatus(rows, c, status) = {F(r) : r \in rows}
  BY DEF WithStatus
<1>2. \A r \in rows :
        /\ F(r) \in Row /\ F(r).of = r.of /\ F(r).keyed = r.keyed
        /\ F(r).status = (IF KeyedAs(r, c) THEN status ELSE r.status)
  BY DEF Row
<1> HIDE DEF F
<1>3. Unique(rows) => Unique({F(r) : r \in rows})
  <2> SUFFICES ASSUME Unique(rows), NEW r \in rows, NEW q \in rows, F(r).of = F(q).of
               PROVE  F(r) = F(q)
    BY DEF Unique
  <2>1. r = q
    BY <1>2 DEF Unique
  <2>. QED  BY <2>1
<1>4. Restated(rows, {F(r) : r \in rows}, c, status)
  BY <1>2 DEF Restated
<1>. QED  BY <1>1, <1>2, <1>3, <1>4

LEMMA RemoteRow ==
    ASSUME NEW c \in Written
    PROVE  /\ Remote(c) \in Row /\ Remote(c).of = c /\ Remote(c).keyed
           /\ ~Remote(c).local /\ Remote(c).status = "sent"
           /\ ~IsLocalStatus(Remote(c))
BY DEF Remote, Row, IsLocalStatus

\* Applying the server's copy drops the outbox entry and replaces the row.
LEMMA ApplyRows ==
    ASSUME NEW c \in Written, Apply(Remote(c))
    PROVE  /\ outbox' = {o \in outbox : ~KeyedAs(o, c)}
           /\ \A m \in messages' : m = Remote(c) \/ m \in messages
           /\ Rows => /\ Unique(messages')
                      /\ \A m \in messages' : m.of = c => m = Remote(c)
<1>1. outbox' = {o \in outbox : ~KeyedAs(o, c)}
  BY RemoteRow DEF Apply
<1>2. \A m \in messages' : m = Remote(c) \/ m \in messages
  BY DEF Apply
<1>3. ASSUME Rows
      PROVE  \A m \in messages' : m.of = c => m = Remote(c)
  <2>1. \A q \in messages : SameRow(q, Remote(c)) <=> q.of = c
    BY <1>3, RemoteRow DEF SameRow, Rows, Keyed
  <2>2. CASE /\ \A q \in messages : ~SameRow(q, Remote(c))
             /\ messages' = messages \union {Remote(c)}
    BY <2>1, <2>2
  <2>3. CASE \E q \in messages :
                /\ SameRow(q, Remote(c))
                /\ messages' = (messages \ {q}) \union {Remote(c)}
    BY <2>1, <2>3, <1>3 DEF Rows, Unique
  <2>. QED  BY <2>2, <2>3 DEF Apply
<1>4. Rows => Unique(messages')
  BY <1>2, <1>3, RemoteRow DEF Rows, Unique
<1>. QED  BY <1>1, <1>2, <1>3, <1>4

\* A flush queues only messages of the outbox.
LEMMA StartFlushQueue ==
    ASSUME NEW statuses, StartFlush(statuses)
    PROVE  /\ \A c \in queue' : c \in queue \/ \E o \in outbox' : o.of = c
           /\ current' = current
BY DEF StartFlush, Snapshot

\* What is written to the disk: every row, without its client_message_id.
LEMMA StoredRows ==
    ASSUME NEW rows, rows \subseteq Row
    PROVE  /\ Stored(rows) \subseteq Row
           /\ \A s \in Stored(rows) : ~s.keyed /\ \E r \in rows : r.of = s.of
           /\ \A r \in rows : \E s \in Stored(rows) : s.of = r.of
<1> DEFINE F(r) == [r EXCEPT !.keyed = FALSE]
<1>1. Stored(rows) = {F(r) : r \in rows}
  BY DEF Stored
<1>2. \A r \in rows : F(r) \in Row /\ F(r).of = r.of /\ ~F(r).keyed
  BY DEF Row
<1> HIDE DEF F
<1>. QED  BY <1>1, <1>2

-----------------------------------------------------------------------------
(* Type correctness.                                                       *)

LEMMA TypeStep ==
    TypeOK /\ [Next]_vars => TypeOK'
<1> SUFFICES ASSUME TypeOK, [Next]_vars PROVE TypeOK'
  OBVIOUS
<1> USE OutboxAssumption
<1>0. /\ messages \subseteq Row /\ outbox \subseteq Row /\ queue \subseteq Written
      /\ diskMessages \subseteq Row /\ diskOutbox \subseteq Row
      /\ copies \in [Written -> Nat] /\ requests \subseteq Request
  BY DEF TypeOK
<1>f. ASSUME NEW statuses, StartFlush(statuses), outbox' \subseteq Row
      PROVE  queue' \subseteq Written
  BY <1>0, <1>f, StartFlushQueue DEF Row
<1>a. ASSUME NEW c \in Written, Apply(Remote(c))
      PROVE  messages' \subseteq Row /\ outbox' \subseteq Row
  BY <1>0, <1>a, ApplyRows, RemoteRow
<1>1. CASE Compose
  <2>1. Optimistic(composed + 1) \in Row
    BY <1>1 DEF Compose, Optimistic, Row, Written, TypeOK
  <2>2. messages' \subseteq Row /\ outbox' \subseteq Row
    BY <1>0, <1>1, <2>1 DEF Compose
  <2>3. queue' \subseteq Written /\ current' = current
    BY <1>1, <1>f, <2>2 DEF Compose, StartFlush
  <2>. QED  BY <1>1, <2>2, <2>3 DEF Compose, TypeOK, disk, server, history
<1>2. ASSUME NEW c \in Written, FlushNext(c)  PROVE TypeOK'
  <2>1. messages' \subseteq Row /\ outbox' \subseteq Row
    BY <1>0, <1>2, WithStatusRows DEF FlushNext
  <2>2. requests' \subseteq Request
    <3>1. [of |-> c, keyed |-> TRUE] \in Request
      BY DEF Request
    <3>. QED  BY <1>0, <1>2, <3>1 DEF FlushNext
  <2>. QED  BY <1>2, <2>1, <2>2 DEF FlushNext, TypeOK, disk, history
<1>3. CASE FlushSent
  <2>1. current \in Written
    BY <1>3 DEF FlushSent, TypeOK
  <2>. QED  BY <1>3, <1>a, <2>1 DEF FlushSent, TypeOK, disk, history
<1>4. ASSUME NEW lost \in BOOLEAN, FlushFailed(lost)  PROVE TypeOK'
  <2>1. current \in Written
    BY <1>4 DEF FlushFailed, TypeOK
  <2>2. messages' \subseteq Row /\ outbox' \subseteq Row
    BY <1>0, <1>4, <2>1, WithStatusRows DEF FlushFailed
  <2>3. requests' \subseteq Request
    BY <1>0, <1>4 DEF FlushFailed
  <2>. QED  BY <1>4, <2>2, <2>3 DEF FlushFailed, TypeOK, disk, history
<1>5. ASSUME NEW c \in Written, OfferRetry(c) \/ OfferRemove(c)  PROVE TypeOK'
  BY <1>5 DEF OfferRetry, OfferRemove, Offer, Prompt, TypeOK, thread, flush, disk,
      server, history
<1>6. CASE Retry
  <2>1. prompt.of \in Written
    BY <1>6 DEF Retry, TypeOK, Prompt
  <2>2. messages' \subseteq Row /\ outbox' \subseteq Row
    BY <1>0, <1>6, <2>1, WithStatusRows DEF Retry
  <2>3. queue' \subseteq Written /\ current' = current
    BY <1>6, <1>f, <2>2 DEF Retry, StartFlush
  <2>. QED  BY <1>6, <2>2, <2>3 DEF Retry, Dismiss, TypeOK, disk, server, history
<1>7. CASE ConfirmRemove
  <2>1. prompt.of \in Written
    BY <1>7 DEF ConfirmRemove, TypeOK, Prompt
  <2>2. messages' \subseteq Row /\ outbox' \subseteq Row
    BY <1>0, <1>7 DEF ConfirmRemove
  <2>. QED  BY <1>7, <2>1, <2>2 DEF ConfirmRemove, Dismiss, TypeOK, disk, server, flush
<1>8. CASE Cancel
  BY <1>8 DEF Cancel, Dismiss, TypeOK, thread, flush, disk, server, history
<1>9. ASSUME NEW r \in requests, ServerPost(r)  PROVE TypeOK'
  <2>1. copies' \in [Written -> Nat]
    <3>1. r.of \in Written
      BY <1>0, <1>9 DEF Request
    <3>. QED  BY <1>0, <1>9, <3>1 DEF ServerPost
  <2>2. answer' \in BOOLEAN
    BY <1>9 DEF ServerPost, TypeOK
  <2>. QED  BY <1>0, <1>9, <2>1, <2>2 DEF ServerPost, TypeOK, thread, flush, disk, history
<1>10. ASSUME NEW c \in Written, Echo(c)  PROVE TypeOK'
  BY <1>10, <1>a DEF Echo, TypeOK, flush, disk, server, history
<1>11. CASE LoadRead
  BY <1>11 DEF LoadRead, OnServer, TypeOK, thread, flush, disk, server, history
<1>12. CASE LoadApply
  <2>1. page \subseteq Written
    BY <1>12 DEF LoadApply, TypeOK
  <2>2. outbox' \subseteq Row
    BY <1>0, <1>12 DEF LoadApply
  <2>3. messages' \subseteq Row
    BY <1>12, <2>1, <2>2, RemoteRow DEF LoadApply
  <2>4. queue' \subseteq Written /\ current' = current
    BY <1>12, <1>f, <2>2 DEF LoadApply, StartFlush
  <2>. QED  BY <1>12, <2>2, <2>3, <2>4 DEF LoadApply, TypeOK, disk, server, history
<1>13. CASE SocketReady
  <2>1. queue' \subseteq Written
    BY <1>0, <1>13 DEF SocketReady, Snapshot, Row
  <2>. QED  BY <1>13, <2>1 DEF SocketReady, TypeOK, thread, disk, server, history
<1>14. CASE SaveOutbox \/ SaveMessages
  <2>1. Stored(outbox) \subseteq Row /\ Stored(messages) \subseteq Row
    BY <1>0 DEF Stored, Row
  <2>. QED  BY <1>14, <2>1 DEF SaveOutbox, SaveMessages, TypeOK, thread, flush, server, history
<1>15. CASE Restart
  <2>1. outbox' \subseteq Row
    BY <1>0, <1>15 DEF Restart, Row
  <2>2. messages' \subseteq Row
    BY <1>0, <1>15, <2>1 DEF Restart
  <2>3. /\ restarts' \in Nat /\ queue' = {} /\ answer' = FALSE
        /\ current' = None /\ page' = None /\ prompt' = None
        /\ UNCHANGED <<composed, diskMessages, diskOutbox, requests, copies, removed>>
    BY <1>15 DEF Restart, TypeOK, disk
  <2>. QED  BY <2>1, <2>2, <2>3 DEF TypeOK
<1>16. CASE UNCHANGED vars
  BY <1>16 DEF vars, TypeOK, thread, flush, disk, server, history
<1>. QED
  BY <1>1, <1>2, <1>3, <1>4, <1>5, <1>6, <1>7, <1>8, <1>9, <1>10, <1>11, <1>12,
     <1>13, <1>14, <1>15, <1>16 DEF Next

-----------------------------------------------------------------------------
(* The server's side: what the table, the requests, the answer and a page  *)
(* have to do with one another.                                            *)

ServerInv == RequestsKeyed /\ StoredOnce /\ AnswerStored /\ PageStored

LEMMA ServerStep ==
    TypeOK /\ ServerInv /\ [Next]_vars => ServerInv' /\ OnServer \subseteq OnServer'
<1> SUFFICES ASSUME TypeOK, ServerInv, [Next]_vars
             PROVE  ServerInv' /\ OnServer \subseteq OnServer'
  OBVIOUS
<1> USE OutboxAssumption
<1>0. /\ requests \subseteq Request /\ copies \in [Written -> Nat]
      /\ current \in Written \union {None} /\ None \notin Written
  BY DEF TypeOK, Written
<1>u. ASSUME requests' \subseteq requests, UNCHANGED copies,
             answer' => answer /\ current' = current,
             page' = page \/ page' = None \/ page' = OnServer
      PROVE  ServerInv' /\ OnServer \subseteq OnServer'
  BY <1>0, <1>u DEF ServerInv, RequestsKeyed, StoredOnce, AnswerStored, PageStored, OnServer
<1>1. CASE Compose
  BY <1>1, <1>u DEF Compose, StartFlush, server
<1>2. ASSUME NEW c \in Written, FlushNext(c)  PROVE ServerInv' /\ OnServer \subseteq OnServer'
  <2>1. ~answer
    BY <1>0, <1>2 DEF FlushNext, Idle, ServerInv, AnswerStored, OnServer
  <2>2. RequestsKeyed'
    BY <1>2 DEF FlushNext, ServerInv, RequestsKeyed
  <2>. QED
    BY <1>2, <2>1, <2>2 DEF FlushNext, ServerInv, StoredOnce, AnswerStored, PageStored, OnServer
<1>3. CASE FlushSent
  BY <1>3, <1>u DEF FlushSent
<1>4. ASSUME NEW lost \in BOOLEAN, FlushFailed(lost)
      PROVE  ServerInv' /\ OnServer \subseteq OnServer'
  BY <1>4, <1>u DEF FlushFailed
<1>5. ASSUME NEW c \in Written, OfferRetry(c) \/ OfferRemove(c)
      PROVE  ServerInv' /\ OnServer \subseteq OnServer'
  BY <1>5, <1>u DEF OfferRetry, OfferRemove, Offer, server, flush
<1>6. CASE Retry \/ ConfirmRemove \/ Cancel
  BY <1>6, <1>u DEF Retry, ConfirmRemove, Cancel, StartFlush, server, flush
<1>7. ASSUME NEW r \in requests, ServerPost(r)
      PROVE  ServerInv' /\ OnServer \subseteq OnServer'
  <2>1. r.of \in Written /\ r.keyed
    BY <1>0, <1>7 DEF Request, ServerInv, RequestsKeyed
  <2>2. \A c \in Written :
          copies'[c] = IF c = r.of /\ copies[c] = 0 THEN 1 ELSE copies[c]
    BY <1>0, <1>7, <2>1 DEF ServerPost
  <2>3. StoredOnce' /\ OnServer \subseteq OnServer' /\ r.of \in OnServer'
    BY <1>0, <2>1, <2>2 DEF ServerInv, StoredOnce, OnServer
  <2>4. AnswerStored'
    BY <1>7, <2>3 DEF ServerPost, ServerInv, AnswerStored, flush
  <2>5. PageStored' /\ RequestsKeyed'
    BY <1>7, <2>3 DEF ServerPost, ServerInv, PageStored, RequestsKeyed
  <2>. QED  BY <2>3, <2>4, <2>5 DEF ServerInv
<1>8. ASSUME NEW c \in Written, Echo(c)  PROVE ServerInv' /\ OnServer \subseteq OnServer'
  BY <1>8, <1>u DEF Echo, server, flush
<1>9. CASE LoadRead \/ LoadApply \/ SocketReady
  BY <1>9, <1>u DEF LoadRead, LoadApply, SocketReady, StartFlush, server, flush
<1>10. CASE SaveOutbox \/ SaveMessages \/ Restart
  BY <1>10, <1>u DEF SaveOutbox, SaveMessages, Restart, server, flush
<1>11. CASE UNCHANGED vars
  BY <1>11, <1>u DEF vars, server, flush
<1>. QED
  BY <1>1, <1>2, <1>3, <1>4, <1>5, <1>6, <1>7, <1>8, <1>9, <1>10, <1>11 DEF Next

-----------------------------------------------------------------------------
(* The client's side, until the app is killed.                             *)

\* The status of the rows of one message changes.
LEMMA StatusStep ==
    ASSUME TypeOK, Rows, Known, Kept, NEW c \in Written,
           NEW status \in {"pending", "sending", "failed"},
           messages' = WithStatus(messages, c, status),
           outbox' = WithStatus(outbox, c, status),
           \A r \in requests' : r \in requests \/ (r.of = c /\ c <= composed),
           UNCHANGED <<composed, copies, removed>>,
           \A d \in queue' : d \in queue \/ \E o \in outbox' : o.of = d
    PROVE  /\ Rows' /\ Known' /\ Kept'
           /\ \A s \in messages' \union outbox' :
                 \/ s.status = status /\ s.of = c
                 \/ s.of # c /\ \E r \in messages \union outbox :
                       r.of = s.of /\ r.status = s.status
<1>0. messages \subseteq Row /\ outbox \subseteq Row
  BY DEF TypeOK
<1>1. Restated(messages, messages', c, status)
  BY <1>0, WithStatusRows
<1>2. Restated(outbox, outbox', c, status)
  BY <1>0, WithStatusRows
<1>3. Unique(messages') /\ Unique(outbox')
  BY <1>0, WithStatusRows DEF Rows
<1>4. Rows'
  BY <1>1, <1>2, <1>3 DEF Rows, Keyed, Unique, Restated
<1>5. Known'
  <2>1. \A r \in messages' \union outbox' : r.of <= composed
    BY <1>1, <1>2 DEF Known, Restated
  <2>2. \A r \in requests' : r.of <= composed
    BY DEF Known
  <2>3. \A d \in queue' \union OnServer' : d <= composed
    BY <2>1 DEF Known, OnServer
  <2>. QED  BY <2>1, <2>2, <2>3 DEF Known
<1>6. Kept'
  BY <1>2 DEF Kept, Queued, KeyedAs, OnServer, Restated
<1>7. ASSUME NEW s \in messages' \union outbox'
      PROVE  \/ s.status = status /\ s.of = c
             \/ s.of # c /\ \E r \in messages \union outbox :
                   r.of = s.of /\ r.status = s.status
  BY <1>1, <1>2 DEF Rows, Keyed, KeyedAs, Restated
<1>. QED  BY <1>4, <1>5, <1>6, <1>7

\* The server's copy of a message arrives.
LEMMA CopyStep ==
    ASSUME TypeOK, Rows, Known, Kept, NEW c \in OnServer, Apply(Remote(c)),
           UNCHANGED <<composed, queue, requests, copies, removed>>
    PROVE  /\ Rows' /\ Known' /\ Kept'
           /\ \A r \in messages' \union outbox' :
                 \/ r.of = c /\ r.status = "sent"
                 \/ r.of # c /\ r \in messages \union outbox
<1>0. c \in Written /\ c <= composed
  BY DEF OnServer, Known
<1>1. /\ outbox' = {o \in outbox : ~KeyedAs(o, c)}
      /\ \A m \in messages' : m = Remote(c) \/ m \in messages
      /\ Unique(messages')
      /\ \A m \in messages' : m.of = c => m = Remote(c)
  BY <1>0, ApplyRows
<1>2. Rows'
  BY <1>0, <1>1, RemoteRow DEF Rows, Keyed, Unique
<1>3. Known'
  BY <1>0, <1>1, RemoteRow DEF Known, OnServer
<1>4. Kept'
  BY <1>0, <1>1 DEF Kept, Queued, KeyedAs, OnServer
<1>5. \A r \in messages' \union outbox' :
         \/ r.of = c /\ r.status = "sent"
         \/ r.of # c /\ r \in messages \union outbox
  BY <1>0, <1>1, RemoteRow DEF Rows, Keyed, KeyedAs
<1>. QED  BY <1>2, <1>3, <1>4, <1>5

\* One step of the client keeps what holds until the app is killed.
LEMMA AliveStep ==
    TypeOK /\ ServerInv /\ Alive /\ [Next]_vars => Alive'
<1> SUFFICES ASSUME TypeOK, ServerInv, Alive, [Next]_vars, restarts' = 0
             PROVE  Rows' /\ Known' /\ Kept' /\ UnderWay'
  BY DEF Alive
<1> USE OutboxAssumption
<1>0. /\ messages \subseteq Row /\ outbox \subseteq Row
      /\ composed \in Nat /\ composed <= MaxMessages
      /\ current \in Written \union {None} /\ None \notin Written
      /\ requests \subseteq Request /\ copies \in [Written -> Nat]
  BY DEF TypeOK, Written
<1>r. restarts = 0 /\ ~Restart
  <2>1. ~Restart
    BY DEF Restart, TypeOK
  <2>. QED
    BY <2>1 DEF Next, vars, history, server, Compose, FlushNext, FlushSent, FlushFailed,
       OfferRetry, OfferRemove, Offer, Retry, ConfirmRemove, Cancel, ServerPost, Echo,
       LoadRead, LoadApply, SocketReady, SaveOutbox, SaveMessages
<1>h. Rows /\ Known /\ Kept /\ UnderWay
  BY <1>r DEF Alive
<1>k. \A r \in messages \union outbox : r.keyed /\ r.of <= composed /\ r.of \in Written
  BY <1>0, <1>h DEF Rows, Keyed, Known, Row
<1>t. ASSUME UNCHANGED <<composed, thread, requests, copies, removed>>,
             \A d \in queue' : d \in queue \/ \E o \in outbox' : o.of = d,
             current' = current
      PROVE  Rows' /\ Known' /\ Kept' /\ UnderWay'
  <2>1. Rows' /\ UnderWay' /\ Kept'
    BY <1>h, <1>t DEF Rows, Keyed, Unique, Kept, UnderWay, Queued, KeyedAs, OnServer, thread
  <2>2. Known'
    BY <1>h, <1>t DEF Known, OnServer, thread
  <2>. QED  BY <2>1, <2>2
<1>1. CASE Compose
  <2> DEFINE new == Optimistic(composed + 1)
  <2>1. new.of = composed + 1 /\ new.keyed /\ new.status = "pending"
    BY DEF Optimistic
  <2> HIDE DEF new
  <2>2. /\ messages' = messages \union {new} /\ outbox' = outbox \union {new}
        /\ composed' = composed + 1
        /\ UNCHANGED <<requests, copies, removed>>
    BY <1>1 DEF Compose, server, history, new
  <2>3. current' = current /\ \A d \in queue' : d \in queue \/ \E o \in outbox' : o.of = d
    BY <1>1, StartFlushQueue DEF Compose
  <2>4. Rows'
    BY <1>0, <1>h, <1>k, <2>1, <2>2 DEF Rows, Keyed, Unique
  <2>5. Known'
    <3>1. \A r \in messages' \union outbox' \union requests' : r.of <= composed'
      <4>1. \A r \in requests : r.of \in Nat /\ r.of <= composed
        BY <1>0, <1>h DEF Known, Request, Written
      <4>2. \A r \in messages \union outbox : r.of \in Nat /\ r.of <= composed
        BY <1>k DEF Written
      <4>. QED  BY <1>0, <2>1, <2>2, <4>1, <4>2
    <3>2. \A d \in queue' \union OnServer' : d <= composed'
      <4>1. \A d \in queue \union OnServer : d \in Nat /\ d <= composed
        BY <1>h DEF Known, OnServer, TypeOK, Written
      <4>. QED  BY <1>0, <2>2, <2>3, <3>1, <4>1 DEF OnServer
    <3>. QED  BY <3>1, <3>2 DEF Known
  <2>6. Kept'
    BY <1>0, <1>h, <2>1, <2>2 DEF Kept, Queued, KeyedAs, OnServer
  <2>7. UnderWay'
    BY <1>h, <2>1, <2>2, <2>3 DEF UnderWay
  <2>. QED  BY <2>4, <2>5, <2>6, <2>7
<1>2. ASSUME NEW c \in Written, FlushNext(c)  PROVE Rows' /\ Known' /\ Kept' /\ UnderWay'
  <2>1. c <= composed /\ current = None
    BY <1>2, <1>h DEF FlushNext, Idle, Known
  <2>2. /\ Rows' /\ Known' /\ Kept'
        /\ \A s \in messages' \union outbox' :
              \/ s.status = "sending" /\ s.of = c
              \/ s.of # c /\ \E r \in messages \union outbox :
                    r.of = s.of /\ r.status = s.status
    BY <1>2, <1>h, <2>1, StatusStep DEF FlushNext, history
  <2>3. UnderWay'
    BY <1>0, <1>2, <1>h, <1>k, <2>1, <2>2 DEF UnderWay, FlushNext
  <2>. QED  BY <2>2, <2>3
<1>3. CASE FlushSent
  <2>1. current \in OnServer
    BY <1>3 DEF FlushSent, ServerInv, AnswerStored
  <2>2. /\ Rows' /\ Known' /\ Kept'
        /\ \A r \in messages' \union outbox' :
              \/ r.of = current /\ r.status = "sent"
              \/ r.of # current /\ r \in messages \union outbox
    BY <1>3, <1>h, <2>1, CopyStep DEF FlushSent, history
  <2>3. UnderWay'
    BY <1>h, <2>2 DEF UnderWay
  <2>. QED  BY <2>2, <2>3
<1>4. ASSUME NEW lost \in BOOLEAN, FlushFailed(lost)
      PROVE  Rows' /\ Known' /\ Kept' /\ UnderWay'
  <2>1. current \in Written
    BY <1>0, <1>4 DEF FlushFailed
  <2>2. /\ Rows' /\ Known' /\ Kept'
        /\ \A s \in messages' \union outbox' :
              \/ s.status = "failed" /\ s.of = current
              \/ s.of # current /\ \E r \in messages \union outbox :
                    r.of = s.of /\ r.status = s.status
    <3>1. /\ messages' = WithStatus(messages, current, "failed")
          /\ outbox' = WithStatus(outbox, current, "failed")
          /\ requests' \subseteq requests
          /\ UNCHANGED <<composed, queue, copies, removed>>
      BY <1>4 DEF FlushFailed, history
    <3>2. \A r \in requests' : r \in requests \/ (r.of = current /\ current <= composed)
      BY <3>1
    <3>3. \A d \in queue' : d \in queue \/ \E o \in outbox' : o.of = d
      BY <3>1
    <3>. QED  BY <1>h, <2>1, <3>1, <3>2, <3>3, StatusStep
  <2>3. UnderWay'
    BY <1>h, <2>2 DEF UnderWay
  <2>. QED  BY <2>2, <2>3
<1>5. ASSUME NEW c \in Written, OfferRetry(c) \/ OfferRemove(c)
      PROVE  Rows' /\ Known' /\ Kept' /\ UnderWay'
  BY <1>5, <1>t DEF OfferRetry, OfferRemove, Offer, flush, server, history
<1>6. CASE Retry
  <2>1. prompt.of \in Written
    BY <1>6 DEF Retry, TypeOK, Prompt
  <2>2. current' = current /\ \A d \in queue' : d \in queue \/ \E o \in outbox' : o.of = d
    BY <1>6, StartFlushQueue DEF Retry
  <2>3. /\ Rows' /\ Known' /\ Kept'
        /\ \A s \in messages' \union outbox' :
              \/ s.status = "pending" /\ s.of = prompt.of
              \/ s.of # prompt.of /\ \E r \in messages \union outbox :
                    r.of = s.of /\ r.status = s.status
    <3>1. /\ messages' = WithStatus(messages, prompt.of, "pending")
          /\ outbox' = WithStatus(outbox, prompt.of, "pending")
          /\ UNCHANGED <<composed, requests, copies, removed>>
      BY <1>6 DEF Retry, server, history
    <3>2. \A r \in requests' : r \in requests \/ (r.of = prompt.of /\ prompt.of <= composed)
      BY <3>1
    <3>. QED  BY <1>h, <2>1, <2>2, <3>1, <3>2, StatusStep
  <2>4. UnderWay'
    BY <1>h, <2>2, <2>3 DEF UnderWay
  <2>. QED  BY <2>3, <2>4
<1>7. CASE ConfirmRemove
  <2>1. /\ messages' = {m \in messages : ~KeyedAs(m, prompt.of)}
        /\ outbox' = {o \in outbox : ~KeyedAs(o, prompt.of)}
        /\ removed' = removed \union {prompt.of}
        /\ UNCHANGED <<composed, queue, current, requests, copies>>
    BY <1>7 DEF ConfirmRemove, flush, server
  <2>2. Rows' /\ UnderWay'
    BY <1>h, <2>1 DEF Rows, Keyed, Unique, UnderWay
  <2>3. Known'
    BY <1>h, <2>1 DEF Known, OnServer
  <2>4. Kept'
    BY <1>h, <2>1 DEF Kept, Queued, KeyedAs, OnServer
  <2>. QED  BY <2>2, <2>3, <2>4
<1>8. CASE Cancel \/ LoadRead \/ SaveOutbox \/ SaveMessages
  BY <1>8, <1>t DEF Cancel, LoadRead, SaveOutbox, SaveMessages, flush, server, history
<1>9. ASSUME NEW r \in requests, ServerPost(r)
      PROVE  Rows' /\ Known' /\ Kept' /\ UnderWay'
  <2>1. r.of \in Written /\ r.of <= composed
    BY <1>0, <1>h DEF Known, Request
  <2>2. /\ requests' \subseteq requests
        /\ UNCHANGED <<composed, messages, outbox, queue, current, removed>>
    BY <1>9 DEF ServerPost, thread, flush, history
  <2>3. \A c \in Written :
          copies'[c] = IF c = r.of /\ copies[c] = 0 THEN 1 ELSE copies[c]
    BY <1>0, <1>9, <2>1 DEF ServerPost, ServerInv, RequestsKeyed
  <2>4. OnServer \subseteq OnServer' /\ OnServer' \subseteq OnServer \union {r.of}
    BY <1>0, <2>1, <2>3 DEF OnServer
  <2>5. Known'
    BY <1>h, <2>1, <2>2, <2>4 DEF Known
  <2>6. Rows' /\ UnderWay' /\ Kept'
    BY <1>h, <2>2, <2>4 DEF Rows, Keyed, Unique, UnderWay, Kept, Queued, KeyedAs
  <2>. QED  BY <2>5, <2>6
<1>10. ASSUME NEW c \in Written, Echo(c)  PROVE Rows' /\ Known' /\ Kept' /\ UnderWay'
  <2>1. c \in OnServer /\ current' = current
    BY <1>10 DEF Echo, flush
  <2>2. /\ Rows' /\ Known' /\ Kept'
        /\ \A r \in messages' \union outbox' :
              \/ r.of = c /\ r.status = "sent"
              \/ r.of # c /\ r \in messages \union outbox
    BY <1>10, <1>h, <2>1, CopyStep DEF Echo, flush, server, history
  <2>3. UnderWay'
    BY <1>h, <2>1, <2>2 DEF UnderWay
  <2>. QED  BY <2>2, <2>3
<1>11. CASE LoadApply
  <2>1. /\ outbox' = {o \in outbox : ~(o.keyed /\ o.of \in page)}
        /\ messages' = {Remote(c) : c \in page} \union outbox'
        /\ UNCHANGED <<composed, requests, copies, removed>>
        /\ current' = current
        /\ \A d \in queue' : d \in queue \/ \E o \in outbox' : o.of = d
    BY <1>11, StartFlushQueue DEF LoadApply, server, history
  <2>2. page \subseteq OnServer /\ page \subseteq Written
    BY <1>11 DEF LoadApply, ServerInv, PageStored, OnServer
  <2>3. /\ \A m \in messages' :
              \/ m \in outbox'
              \/ m = Remote(m.of) /\ m.of \in page /\ m.keyed /\ m.status = "sent"
        /\ \A o \in outbox' : o \in outbox /\ o.of \notin page
    BY <1>k, <2>1, <2>2, RemoteRow
  <2>4. Rows'
    BY <1>h, <2>3 DEF Rows, Keyed, Unique
  <2>5. Known'
    BY <1>h, <2>1, <2>2, <2>3 DEF Known, OnServer
  <2>6. Kept'
    BY <1>h, <2>1, <2>2 DEF Kept, Queued, KeyedAs, OnServer
  <2>7. UnderWay'
    BY <1>h, <2>1, <2>3 DEF UnderWay
  <2>. QED  BY <2>4, <2>5, <2>6, <2>7
<1>12. CASE SocketReady
  BY <1>12, <1>t DEF SocketReady, Snapshot, thread, server, history
<1>13. CASE UNCHANGED vars
  BY <1>13, <1>t DEF vars, flush, server, history
<1>. QED
  BY <1>r, <1>1, <1>2, <1>3, <1>4, <1>5, <1>6, <1>7, <1>8, <1>9, <1>10, <1>11, <1>12,
     <1>13 DEF Next

-----------------------------------------------------------------------------
(* What holds however often the app is killed.                             *)

LEMMA BackedStep ==
    TypeOK /\ Backed /\ [Next]_vars => Backed'
<1> SUFFICES ASSUME TypeOK, Backed, [Next]_vars PROVE Backed'
  OBVIOUS
<1> USE OutboxAssumption
<1>0. /\ outbox \subseteq Row /\ diskOutbox \subseteq Row /\ requests \subseteq Request
      /\ composed \in Nat /\ copies \in [Written -> Nat]
      /\ queue \subseteq Written /\ Written \subseteq Nat
  BY DEF TypeOK, Written
<1>n. /\ \A r \in outbox \union diskOutbox \union requests : r.of \in Nat /\ r.of <= composed
      /\ \A c \in queue \union OnServer : c \in Nat /\ c <= composed
  BY <1>0 DEF Backed, Row, Request, OnServer
\* Most steps take what they name from what was named before.
<1>s. ASSUME composed' = composed,
             \A o \in outbox' : \E r \in outbox \union diskOutbox : r.of = o.of,
             \A o \in outbox' : ~o.keyed =>
                \E r \in outbox \union diskOutbox :
                    r.of = o.of /\ (r \in diskOutbox \/ ~r.keyed),
             \A r \in requests' : r \in requests \/ r.of \in queue,
             \A d \in queue' : d \in queue \/ \E o \in outbox' : o.of = d,
             \A c \in OnServer' : c \in OnServer \/ \E r \in requests : r.of = c,
             prompt' = prompt \/ prompt' = None \/ \E o \in outbox : prompt'.of = o.of,
             diskOutbox' = diskOutbox
      PROVE  Backed'
  BY <1>n, <1>s DEF Backed
<1>w. ASSUME NEW c \in Written, NEW status \in {"pending", "sending", "failed"},
             outbox' = WithStatus(outbox, c, status)
      PROVE  /\ \A o \in outbox' : \E r \in outbox \union diskOutbox : r.of = o.of
             /\ \A o \in outbox' : ~o.keyed =>
                   \E r \in outbox \union diskOutbox :
                       r.of = o.of /\ (r \in diskOutbox \/ ~r.keyed)
  <2>1. Restated(outbox, outbox', c, status)
    BY <1>0, <1>w, WithStatusRows
  <2>. QED  BY <2>1 DEF Restated
<1>c. copies' = copies => OnServer' = OnServer
  BY DEF OnServer
<1>1. CASE Compose
  <2>1. /\ outbox' = outbox \union {Optimistic(composed + 1)}
        /\ composed' = composed + 1
        /\ UNCHANGED <<diskOutbox, requests, copies, prompt>>
        /\ \A d \in queue' : d \in queue \/ \E o \in outbox' : o.of = d
    BY <1>1, StartFlushQueue DEF Compose, server, disk
  <2>2. Optimistic(composed + 1).of = composed + 1 /\ Optimistic(composed + 1).keyed
    BY DEF Optimistic
  <2>3. \A r \in outbox' \union diskOutbox' \union requests' : r.of <= composed'
    <3>1. \A r \in outbox \union diskOutbox \union requests : r.of <= composed + 1
      BY <1>0, <1>n
    <3>. QED  BY <1>0, <2>1, <2>2, <3>1
  <2>4. \A c \in queue' \union OnServer' : c <= composed'
    <3>1. \A c \in queue \union OnServer : c <= composed + 1
      BY <1>0, <1>n
    <3>. QED  BY <1>c, <2>1, <2>3, <3>1
  <2>5. prompt' # None => prompt'.of <= composed'
    BY <1>0, <2>1 DEF Backed, TypeOK, Prompt, Written
  <2>6. \A o \in outbox' : ~o.keyed => \E r \in diskOutbox' : r.of = o.of
    BY <2>1, <2>2 DEF Backed
  <2>. QED  BY <2>1, <2>3, <2>4, <2>5, <2>6 DEF Backed
<1>2. ASSUME NEW c \in Written, FlushNext(c)  PROVE Backed'
  BY <1>2, <1>s, <1>w, <1>c DEF FlushNext, disk
<1>3. CASE FlushSent
  <2>1. current \in Written
    BY <1>3 DEF FlushSent, TypeOK
  <2>2. outbox' \subseteq outbox
    BY <1>3, <2>1, ApplyRows DEF FlushSent
  <2>. QED  BY <1>3, <1>s, <1>c, <2>2 DEF FlushSent, disk
<1>4. ASSUME NEW lost \in BOOLEAN, FlushFailed(lost)  PROVE Backed'
  <2>1. current \in Written
    BY <1>4 DEF FlushFailed, TypeOK
  <2>2. requests' \subseteq requests
    BY <1>4 DEF FlushFailed
  <2>. QED  BY <1>4, <1>s, <1>w, <1>c, <2>1, <2>2 DEF FlushFailed, disk
<1>5. ASSUME NEW c \in Written, OfferRetry(c) \/ OfferRemove(c)  PROVE Backed'
  <2>1. \E o \in outbox : prompt'.of = o.of
    BY <1>5 DEF OfferRetry, OfferRemove, Offer, Queued, KeyedAs
  <2>. QED
    BY <1>5, <1>s, <1>c, <2>1 DEF OfferRetry, OfferRemove, Offer, thread, flush, disk, server
<1>6. CASE Retry
  <2>1. prompt.of \in Written
    BY <1>6 DEF Retry, TypeOK, Prompt
  <2>2. \A d \in queue' : d \in queue \/ \E o \in outbox' : o.of = d
    BY <1>6, StartFlushQueue DEF Retry
  <2>. QED  BY <1>6, <1>s, <1>w, <1>c, <2>1, <2>2 DEF Retry, Dismiss, disk, server
<1>7. CASE ConfirmRemove \/ Cancel
  BY <1>7, <1>s, <1>c DEF ConfirmRemove, Cancel, Dismiss, thread, flush, disk, server
<1>8. ASSUME NEW r \in requests, ServerPost(r)  PROVE Backed'
  <2>1. \A c \in OnServer' : c \in OnServer \/ c = r.of
    BY <1>0, <1>8 DEF ServerPost, OnServer
  <2>. QED  BY <1>8, <1>s, <2>1 DEF ServerPost, thread, flush, disk
<1>9. ASSUME NEW c \in Written, Echo(c)  PROVE Backed'
  <2>1. outbox' \subseteq outbox
    BY <1>9, ApplyRows DEF Echo
  <2>. QED  BY <1>9, <1>s, <1>c, <2>1 DEF Echo, flush, disk, server
<1>10. CASE LoadRead
  BY <1>10, <1>s, <1>c DEF LoadRead, thread, flush, disk, server
<1>11. CASE LoadApply
  <2>1. \A d \in queue' : d \in queue \/ \E o \in outbox' : o.of = d
    BY <1>11, StartFlushQueue DEF LoadApply
  <2>. QED  BY <1>11, <1>s, <1>c, <2>1 DEF LoadApply, disk, server
<1>12. CASE SocketReady
  BY <1>12, <1>s, <1>c DEF SocketReady, Snapshot, thread, disk, server
<1>13. CASE SaveOutbox
  <2>1. /\ \A s \in diskOutbox' : ~s.keyed /\ \E r \in outbox : r.of = s.of
        /\ \A o \in outbox : \E s \in diskOutbox' : s.of = o.of
    BY <1>0, <1>13, StoredRows DEF SaveOutbox
  <2>. QED  BY <1>n, <1>13, <1>c, <2>1 DEF SaveOutbox, Backed, thread, flush, server
<1>14. CASE SaveMessages
  BY <1>14, <1>s, <1>c DEF SaveMessages, thread, flush, server
<1>15. CASE Restart
  <2>1. \A o \in outbox' : \E r \in diskOutbox : r.of = o.of
    BY <1>0, <1>15 DEF Restart, Row
  <2>. QED  BY <1>15, <1>s, <1>c, <2>1 DEF Restart, disk
<1>16. CASE UNCHANGED vars
  BY <1>16, <1>s, <1>c DEF vars, thread, flush, disk, server
<1>. QED
  BY <1>1, <1>2, <1>3, <1>4, <1>5, <1>6, <1>7, <1>8, <1>9, <1>10, <1>11, <1>12,
     <1>13, <1>14, <1>15, <1>16 DEF Next

-----------------------------------------------------------------------------
(* The theorems.                                                           *)

\* The inductive invariant holds in every state.
THEOREM Inductive == Spec => []IInv
<1>1. Init => IInv
  <2> SUFFICES ASSUME Init  PROVE IInv
    OBVIOUS
  <2> USE OutboxAssumption DEF Init
  <2>1. TypeOK
    <3>1. composed \in 0..MaxMessages /\ copies \in [Written -> Nat] /\ restarts \in Nat
      OBVIOUS
    <3>2. /\ messages = {} /\ outbox = {} /\ diskMessages = {} /\ diskOutbox = {}
          /\ queue = {} /\ requests = {} /\ removed = {}
          /\ current = None /\ prompt = None /\ page = None /\ answer = FALSE
      OBVIOUS
    <3>. QED  BY <3>1, <3>2, Zenon DEF TypeOK
  <2>2. \A c \in Written : copies[c] = 0
    OBVIOUS
  <2>3. OnServer = {} /\ StoredOnce
    BY <2>2 DEF OnServer, StoredOnce
  <2>4. RequestsKeyed /\ AnswerStored /\ PageStored
    BY DEF RequestsKeyed, AnswerStored, PageStored
  <2>5. Alive
    BY <2>3 DEF Alive, Rows, Keyed, Unique, Known, Kept, UnderWay
  <2>6. Backed
    BY <2>3 DEF Backed
  <2>. QED  BY <2>1, <2>3, <2>4, <2>5, <2>6 DEF IInv
<1>2. IInv /\ [Next]_vars => IInv'
  BY TypeStep, BackedStep, ServerStep, AliveStep DEF IInv, ServerInv
<1>. QED  BY <1>1, <1>2, PTL DEF Spec

\* Every variable has its type.
THEOREM TypeCorrect == Spec => []TypeOK
<1>1. IInv => TypeOK
  BY DEF IInv
<1>. QED  BY <1>1, Inductive, PTL

\* However often a message is posted, the server stores it at most once.
THEOREM StoredSafe == Spec => []StoredOnce
<1>1. IInv => StoredOnce
  BY DEF IInv
<1>. QED  BY <1>1, Inductive, PTL

\* Until the app is killed, a message that was not removed is queued or stored.
THEOREM NothingLostSafe == Spec => []NothingLost
<1>1. IInv => NothingLost
  BY DEF IInv, Alive, Kept, NothingLost
<1>. QED  BY <1>1, Inductive, PTL

\* Until the app is killed, the thread shows no message twice, and "sending" for
\* the current POST only.
THEOREM ThreadSafe == Spec => []ThreadIsRight
<1>1. IInv => ShownOnce
  BY DEF IInv, Alive, Rows, Unique, ShownOnce
<1>2. IInv => SendingIsUnderWay
  BY DEF IInv, Alive, UnderWay, SendingIsUnderWay
<1>. QED  BY <1>1, <1>2, Inductive, PTL DEF ThreadIsRight

-----------------------------------------------------------------------------
(* The refinement.                                                         *)

\* How the set of waiting messages follows the outbox.
LEMMA WaitingWithStatus ==
    ASSUME TypeOK, NEW c \in Written, NEW status \in {"pending", "sending", "failed"},
           outbox' = WithStatus(outbox, c, status)
    PROVE  Waiting' = Waiting
<1>1. outbox \subseteq Row
  BY DEF TypeOK
<1>2. Restated(outbox, outbox', c, status)
  BY <1>1, WithStatusRows
<1>. QED  BY <1>2 DEF Waiting, Queued, KeyedAs, Restated

LEMMA WaitingWithout ==
    ASSUME NEW S, outbox' = {o \in outbox : ~(o.keyed /\ o.of \in S)}
    PROVE  Waiting' = Waiting \ S
BY DEF Waiting, Queued, KeyedAs

\* Every step of Outbox is a step of ReliableSend, changes nothing there, or is a
\* restart, which forgets what waits.
LEMMA RefinementStep ==
    IInv /\ [Next]_vars => [Reliable!Next \/ Reliable!Forget]_(Reliable!vars)
<1> DEFINE Steps == [Reliable!Next \/ Reliable!Forget]_(Reliable!vars)
<1> SUFFICES ASSUME IInv, [Next]_vars PROVE Steps
  OBVIOUS
<1> USE OutboxAssumption
<1>0. /\ TypeOK /\ Backed /\ ServerInv
      /\ outbox \subseteq Row /\ requests \subseteq Request
      /\ composed \in 0..MaxMessages /\ copies \in [Written -> Nat]
      /\ current \in Written \union {None} /\ restarts \in Nat
      /\ \A c \in Waiting : c \in 1..composed
  <2>1. TypeOK /\ Backed /\ ServerInv
    BY DEF IInv, ServerInv
  <2>2. \A c \in Waiting : c \in 1..composed
    BY <2>1 DEF Backed, Waiting, Queued, KeyedAs, Written, TypeOK
  <2>. QED  BY <2>1, <2>2 DEF TypeOK
<1>s. ASSUME UNCHANGED <<composed, diskOutbox, copies, removed, restarts>>,
             Waiting' = Waiting
      PROVE  Steps
  BY <1>s DEF Reliable!vars, Saved
<1>d. ASSUME UNCHANGED <<composed, diskOutbox, copies, removed, restarts>>,
             NEW S \in SUBSET Written, S \subseteq OnServer, Waiting' = Waiting \ S
      PROVE  Steps
  <2>1. Reliable!Settle(S \intersect Waiting)
    BY <1>d DEF Reliable!Settle, OnServer, Saved
  <2>. QED  BY <2>1 DEF Reliable!Next
<1>1. CASE Compose
  <2>1. /\ outbox' = outbox \union {Optimistic(composed + 1)}
        /\ composed' = composed + 1 /\ composed < MaxMessages
        /\ UNCHANGED <<diskOutbox, copies, removed, restarts>>
    BY <1>1 DEF Compose, disk, server, history
  <2>2. Optimistic(composed + 1).of = composed + 1 /\ Optimistic(composed + 1).keyed
    BY DEF Optimistic
  <2>3. composed + 1 \in Written /\ composed + 1 \notin 1..composed
        /\ 1..composed' = (1..composed) \union {composed + 1}
    BY <1>0, <2>1 DEF Written
  <2>4. Waiting' = Waiting \union {composed + 1}
    BY <2>1, <2>2, <2>3 DEF Waiting, Queued, KeyedAs
  <2>5. Reliable!Write(composed + 1)
    BY <2>1, <2>3, <2>4 DEF Reliable!Write, Saved
  <2>. QED  BY <2>3, <2>5 DEF Reliable!Next
<1>2. ASSUME NEW c \in Written, FlushNext(c)  PROVE Steps
  <2>1. Waiting' = Waiting
    BY <1>0, <1>2, WaitingWithStatus DEF FlushNext
  <2>. QED  BY <1>2, <1>s, <2>1 DEF FlushNext, disk, history
<1>3. CASE FlushSent
  <2>1. current \in OnServer /\ current \in Written
    BY <1>0, <1>3 DEF FlushSent, ServerInv, AnswerStored, OnServer
  <2>2. outbox' = {o \in outbox : ~(o.keyed /\ o.of \in {current})}
    BY <1>3, <2>1, ApplyRows DEF FlushSent, KeyedAs
  <2>3. Waiting' = Waiting \ {current}
    BY <2>2, WaitingWithout
  <2>4. UNCHANGED <<composed, diskOutbox, copies, removed, restarts>>
    BY <1>3 DEF FlushSent, disk, history
  <2>5. {current} \in SUBSET Written /\ {current} \subseteq OnServer
    BY <2>1
  <2>. QED  BY <1>d, <2>3, <2>4, <2>5
<1>4. ASSUME NEW lost \in BOOLEAN, FlushFailed(lost)  PROVE Steps
  <2>1. current \in Written
    BY <1>0, <1>4 DEF FlushFailed
  <2>2. Waiting' = Waiting
    BY <1>0, <1>4, <2>1, WaitingWithStatus DEF FlushFailed
  <2>. QED  BY <1>4, <1>s, <2>2 DEF FlushFailed, disk, history
<1>5. ASSUME NEW c \in Written, OfferRetry(c) \/ OfferRemove(c)
      PROVE  Steps
  <2>1. UNCHANGED <<composed, outbox, diskOutbox, copies, removed, restarts>>
    BY <1>5 DEF OfferRetry, OfferRemove, Offer, thread, disk, server, history
  <2>2. Waiting' = Waiting
    BY <2>1 DEF Waiting, Queued
  <2>. QED  BY <1>s, <2>1, <2>2
<1>6. CASE Retry
  <2>1. prompt.of \in Written
    BY <1>0, <1>6 DEF Retry, TypeOK, Prompt
  <2>2. Waiting' = Waiting
    BY <1>0, <1>6, <2>1, WaitingWithStatus DEF Retry
  <2>. QED  BY <1>6, <1>s, <2>2 DEF Retry, disk, server, history
<1>7. CASE ConfirmRemove
  <2>1. prompt.of \in 1..composed
    BY <1>0, <1>7 DEF ConfirmRemove, Backed, TypeOK, Prompt, Written
  <2>2. outbox' = {o \in outbox : ~(o.keyed /\ o.of \in {prompt.of})}
    BY <1>7 DEF ConfirmRemove, KeyedAs
  <2>3. Waiting' = Waiting \ {prompt.of}
    BY <2>2, WaitingWithout
  <2>4. Reliable!Withdraw(prompt.of)
    BY <1>7, <2>1, <2>3 DEF ConfirmRemove, disk, server, Saved, Reliable!Withdraw
  <2>5. prompt.of \in Written
    BY <1>0, <2>1 DEF Written
  <2>6. Reliable!Next
    BY <2>4, <2>5 DEF Reliable!Next
  <2>. QED  BY <2>6
<1>8. ASSUME NEW r \in requests, ServerPost(r)  PROVE Steps
  <2>1. r.of \in Written /\ r.of \in 1..composed /\ r.keyed
    BY <1>0 DEF Request, Backed, ServerInv, RequestsKeyed, Written
  <2>2. UNCHANGED <<composed, outbox, diskOutbox, removed, restarts>>
    BY <1>8 DEF ServerPost, thread, disk, history
  <2>3. Waiting' = Waiting
    BY <2>2 DEF Waiting, Queued
  <2>4. CASE copies[r.of] > 0
    BY <1>8, <1>s, <2>1, <2>2, <2>3, <2>4 DEF ServerPost
  <2>5. CASE copies[r.of] = 0
    <3>1. copies' = [copies EXCEPT ![r.of] = 1]
      BY <1>0, <1>8, <2>1, <2>5 DEF ServerPost
    <3>2. Reliable!Store(r.of)
      BY <2>1, <2>2, <2>3, <2>5, <3>1 DEF Reliable!Store, Saved
    <3>. QED  BY <2>1, <3>2 DEF Reliable!Next
  <2>. QED  BY <1>0, <2>1, <2>4, <2>5
<1>9. ASSUME NEW c \in Written, Echo(c)  PROVE Steps
  <2>1. outbox' = {o \in outbox : ~(o.keyed /\ o.of \in {c})}
    BY <1>9, ApplyRows DEF Echo, KeyedAs
  <2>2. Waiting' = Waiting \ {c}
    BY <2>1, WaitingWithout
  <2>3. UNCHANGED <<composed, diskOutbox, copies, removed, restarts>>
    BY <1>9 DEF Echo, disk, server, history
  <2>4. {c} \in SUBSET Written /\ {c} \subseteq OnServer
    BY <1>9 DEF Echo
  <2>. QED  BY <1>d, <2>2, <2>3, <2>4
<1>10. CASE LoadRead \/ SocketReady \/ SaveMessages \/ Cancel
  <2>1. UNCHANGED <<composed, outbox, diskOutbox, copies, removed, restarts>>
    BY <1>10 DEF LoadRead, SocketReady, SaveMessages, Cancel, thread, disk,
       server, history
  <2>2. Waiting' = Waiting
    BY <2>1 DEF Waiting, Queued
  <2>. QED  BY <1>s, <2>1, <2>2
<1>11. CASE LoadApply
  <2>1. page \subseteq OnServer /\ page \in SUBSET Written
    BY <1>0, <1>11 DEF LoadApply, ServerInv, PageStored, OnServer
  <2>2. Waiting' = Waiting \ page
    BY <1>11, WaitingWithout DEF LoadApply
  <2>. QED  BY <1>11, <1>d, <2>1, <2>2 DEF LoadApply, disk, server, history
<1>12. CASE Restart
  <2>1. \A o \in outbox' : ~o.keyed
    BY <1>0, <1>12 DEF Restart, Backed, TypeOK, Row
  <2>2. Waiting' = {}
    BY <2>1 DEF Waiting, Queued, KeyedAs
  <2>3. UNCHANGED <<composed, diskOutbox, copies, removed>> /\ restarts' = restarts + 1
    BY <1>12 DEF Restart, disk
  <2>4. Reliable!Forget
    BY <2>2, <2>3 DEF Reliable!Forget, Saved
  <2>. QED  BY <2>4
<1>13. CASE SaveOutbox
  <2>1. /\ UNCHANGED <<composed, outbox, copies, removed, restarts>>
        /\ diskOutbox' = Stored(outbox)
    BY <1>13 DEF SaveOutbox, thread, server, history
  <2>2. Waiting' = Waiting
    BY <2>1 DEF Waiting, Queued
  <2>3. Waiting \subseteq Saved'
    BY <1>0, <2>1, StoredRows DEF Waiting, Queued, KeyedAs, Saved
  <2>4. Saved' \subseteq Waiting \union Saved
    <3>1. ASSUME NEW c \in Saved'  PROVE c \in Waiting \/ c \in Saved
      <4>1. PICK o \in outbox : o.of = c
        BY <1>0, <2>1, <3>1, StoredRows DEF Saved
      <4>. QED  BY <1>0, <3>1, <4>1 DEF Backed, Waiting, Queued, KeyedAs, Saved
    <3>. QED  BY <3>1
  <2>5. Reliable!Persist
    BY <2>1, <2>2, <2>3, <2>4 DEF Reliable!Persist
  <2>. QED  BY <2>5 DEF Reliable!Next
<1>14. CASE UNCHANGED vars
  <2>1. UNCHANGED <<composed, outbox, diskOutbox, copies, removed, restarts>>
    BY <1>14 DEF vars, thread, disk, server, history
  <2>2. Waiting' = Waiting
    BY <2>1 DEF Waiting, Queued
  <2>. QED  BY <1>s, <2>1, <2>2
<1>. QED
  BY <1>1, <1>2, <1>3, <1>4, <1>5, <1>6, <1>7, <1>8, <1>9, <1>10, <1>11, <1>12,
     <1>13, <1>14 DEF Next

\* Every step of the outbox but a restart is one ReliableSend allows: a message
\* stops waiting only because the server holds it or the user removed it, a save
\* writes all that waits, and the server takes each message once.  Of a restart
\* nothing more is claimed than the code does: it leaves nothing that can be sent.
THEOREM SendingIsReliable == Spec => StepsAreReliable
<1>1. Init => Reliable!Init
  <2> SUFFICES ASSUME Init  PROVE Reliable!Init
    OBVIOUS
  <2>1. 1..composed = {} /\ Waiting = {} /\ Saved = {}
    <3>1. composed = 0 /\ outbox = {} /\ diskOutbox = {}
      BY DEF Init
    <3>. QED  BY <3>1 DEF Waiting, Queued, Saved
  <2>. QED  BY <2>1 DEF Init, Reliable!Init
<1>. QED
  BY <1>1, RefinementStep, Inductive, PTL DEF Spec, StepsAreReliable
=============================================================================

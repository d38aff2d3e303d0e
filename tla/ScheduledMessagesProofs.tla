---------------------- MODULE ScheduledMessagesProofs ----------------------
(***************************************************************************)
(* Proofs about ScheduledMessages, for any sets of rows and uploads and    *)
(* any number of faults.                                                  *)
(***************************************************************************)
EXTENDS ScheduledMessages, FiniteSetTheorems, TLAPS

\* The uploads a message took are flagged.
OwnedAreCommitted == \A m \in messages : m.own \subseteq committed

\* A message made for a row carries, and owns, exactly the row's attachments.
RowMessages ==
    \A m \in messages : m.origin # None =>
        /\ row[m.origin].status # "none"
        /\ m.own = row[m.origin].attachments
        /\ m.media = row[m.origin].attachments

\* Ids are used once.
UniqueIds ==
    /\ \A m \in messages : m.id # 0 /\ m.id < nextId
    /\ \A m, n \in messages : m.id = n.id => m = n

\* A create request that has not inserted yet is the only one for its id.
RequestsUnused ==
    \A r \in creating :
        /\ row[r.id].status = "none"
        /\ \A q \in creating : q.id = r.id => q = r

\* Rows held by the loop or by a cancel request exist.
HeldRowsExist == \A s \in batch \union canceling : row[s].status # "none"

LoopState ==
    /\ loop = "sleep" => batch = {} /\ current = None
    /\ \A s \in batch : row[s].status \in {"pending", "canceled"}
    /\ current # None =>
          /\ current \in batch
          /\ \E m \in MessagesOf(current) \ deleted :
                m.id = produced /\ m.media = row[current].attachments

\* As long as nothing crashed, the only row that may be sent (again) and has
\* a message already is the one the loop is about to mark.
NotSentYet ==
    faults = 0 =>
        \A s \in Schedule :
            (s # current /\ (Pending(s) \/ s \in batch)) => MessagesOf(s) = {}

IInv ==
    /\ TypeOK
    /\ OwnedAreCommitted
    /\ RowMessages
    /\ UniqueIds
    /\ RequestsUnused
    /\ HeldRowsExist
    /\ LoopState
    /\ NotSentYet
    /\ UploadUsedOnce
    /\ SentMeansDelivered
    /\ DeliveredOnceWithoutFault

-----------------------------------------------------------------------------
(* Every action preserves IInv.                                            *)

LEMMA InitIInv == Init => IInv
<1>. SUFFICES ASSUME Init PROVE IInv
  OBVIOUS
<1>. USE ScheduledAssumption DEF Init
<1>1. NoRow \in Row
  BY DEF NoRow, Row, Status
<1>2. TypeOK
  <2>1. row \in [Schedule -> Row]
    BY <1>1
  <2>2. allowed \in BOOLEAN /\ online \in BOOLEAN
    OBVIOUS
  <2>3. nextId \in Nat \ {0} /\ now \in Nat /\ produced \in Nat /\ faults \in Nat
    OBVIOUS
  <2>4. QED
    BY <2>1, <2>2, <2>3, Zenon DEF TypeOK
<1>3. QED
  BY <1>2 DEF IInv, OwnedAreCommitted, RowMessages, UniqueIds, RequestsUnused, HeldRowsExist,
     LoopState, NotSentYet, UploadUsedOnce, SentMeansDelivered,
     DeliveredOnceWithoutFault, MessagesOf, NoRow

\* The loop's steps that write nothing to the database.
LEMMA LoadStep == ASSUME IInv, DispatchLoad PROVE IInv'
<1>. USE DEF IInv
<1>1. batch' \subseteq {s \in Schedule : Pending(s)}
  BY DEF DispatchLoad, First, Due
<1>2. TypeOK'
  BY <1>1 DEF TypeOK, DispatchLoad, database, world, requests, history
<1>3. (OwnedAreCommitted /\ RowMessages /\ UniqueIds /\ RequestsUnused)'
  BY DEF DispatchLoad, database, requests, OwnedAreCommitted, RowMessages, UniqueIds, RequestsUnused
<1>4. (HeldRowsExist /\ LoopState)'
  BY <1>1 DEF DispatchLoad, database, requests, HeldRowsExist, LoopState, Pending
<1>5. NotSentYet'
  BY <1>1 DEF DispatchLoad, database, history, NotSentYet, Pending, MessagesOf
<1>6. (UploadUsedOnce /\ SentMeansDelivered /\ DeliveredOnceWithoutFault)'
  BY DEF DispatchLoad, database, history, UploadUsedOnce, SentMeansDelivered,
     DeliveredOnceWithoutFault, MessagesOf
<1>. QED  BY <1>2, <1>3, <1>4, <1>5, <1>6

LEMMA SkipStep == ASSUME IInv, NEW s \in Schedule, DispatchSkip(s) PROVE IInv'
<1>. USE DEF IInv
<1>1. loop = "run" /\ current = None
  BY DEF DispatchSkip, IsNext
<1>2. TypeOK'
  BY DEF TypeOK, DispatchSkip, database, world, requests, history
<1>3. (OwnedAreCommitted /\ RowMessages /\ UniqueIds /\ RequestsUnused)'
  BY DEF DispatchSkip, database, requests, OwnedAreCommitted, RowMessages, UniqueIds, RequestsUnused
<1>4. (HeldRowsExist /\ LoopState)'
  BY <1>1 DEF DispatchSkip, database, requests, HeldRowsExist, LoopState
<1>5. NotSentYet'
  BY DEF DispatchSkip, database, history, NotSentYet, Pending, MessagesOf
<1>6. (UploadUsedOnce /\ SentMeansDelivered /\ DeliveredOnceWithoutFault)'
  BY DEF DispatchSkip, database, history, UploadUsedOnce, SentMeansDelivered,
     DeliveredOnceWithoutFault, MessagesOf
<1>. QED  BY <1>2, <1>3, <1>4, <1>5, <1>6

LEMMA DoneStep == ASSUME IInv, DispatchDone PROVE IInv'
<1>. USE DEF IInv
<1>1. current = None
  BY DEF DispatchDone, LoopState
<1>2. TypeOK'
  BY DEF TypeOK, DispatchDone, database, world, requests, history
<1>3. (OwnedAreCommitted /\ RowMessages /\ UniqueIds /\ RequestsUnused)'
  BY DEF DispatchDone, database, requests, OwnedAreCommitted, RowMessages, UniqueIds, RequestsUnused
<1>4. (HeldRowsExist /\ LoopState)'
  BY <1>1 DEF DispatchDone, database, requests, HeldRowsExist, LoopState
<1>5. NotSentYet'
  BY DEF DispatchDone, database, history, NotSentYet, Pending, MessagesOf
<1>6. (UploadUsedOnce /\ SentMeansDelivered /\ DeliveredOnceWithoutFault)'
  BY DEF DispatchDone, database, history, UploadUsedOnce, SentMeansDelivered,
     DeliveredOnceWithoutFault, MessagesOf
<1>. QED  BY <1>2, <1>3, <1>4, <1>5, <1>6
\* The world's steps, and a crash.

LEMMA TickStep == ASSUME IInv, Tick PROVE IInv'
<1>. USE DEF IInv, Tick, database, world, dispatcher, requests, history
<1>1. TypeOK'
  BY DEF TypeOK
<1>2. (OwnedAreCommitted /\ RowMessages /\ UniqueIds /\ RequestsUnused)'
  BY DEF OwnedAreCommitted, RowMessages, UniqueIds, RequestsUnused
<1>3. (HeldRowsExist /\ LoopState)'
  BY DEF HeldRowsExist, LoopState, MessagesOf
<1>4. NotSentYet'
  BY DEF NotSentYet, Pending, MessagesOf
<1>5. (UploadUsedOnce /\ SentMeansDelivered /\ DeliveredOnceWithoutFault)'
  BY DEF UploadUsedOnce, SentMeansDelivered, DeliveredOnceWithoutFault, MessagesOf
<1>. QED  BY <1>1, <1>2, <1>3, <1>4, <1>5

LEMMA AllowedStep == ASSUME IInv, ToggleAllowed PROVE IInv'
<1>. USE DEF IInv, ToggleAllowed, database, world, dispatcher, requests, history
<1>1. TypeOK'
  BY DEF TypeOK
<1>2. (OwnedAreCommitted /\ RowMessages /\ UniqueIds /\ RequestsUnused)'
  BY DEF OwnedAreCommitted, RowMessages, UniqueIds, RequestsUnused
<1>3. (HeldRowsExist /\ LoopState)'
  BY DEF HeldRowsExist, LoopState, MessagesOf
<1>4. NotSentYet'
  BY DEF NotSentYet, Pending, MessagesOf
<1>5. (UploadUsedOnce /\ SentMeansDelivered /\ DeliveredOnceWithoutFault)'
  BY DEF UploadUsedOnce, SentMeansDelivered, DeliveredOnceWithoutFault, MessagesOf
<1>. QED  BY <1>1, <1>2, <1>3, <1>4, <1>5

LEMMA PresenceStep == ASSUME IInv, TogglePresence PROVE IInv'
<1>. USE DEF IInv, TogglePresence, database, world, dispatcher, requests, history
<1>1. TypeOK'
  BY DEF TypeOK
<1>2. (OwnedAreCommitted /\ RowMessages /\ UniqueIds /\ RequestsUnused)'
  BY DEF OwnedAreCommitted, RowMessages, UniqueIds, RequestsUnused
<1>3. (HeldRowsExist /\ LoopState)'
  BY DEF HeldRowsExist, LoopState, MessagesOf
<1>4. NotSentYet'
  BY DEF NotSentYet, Pending, MessagesOf
<1>5. (UploadUsedOnce /\ SentMeansDelivered /\ DeliveredOnceWithoutFault)'
  BY DEF UploadUsedOnce, SentMeansDelivered, DeliveredOnceWithoutFault, MessagesOf
<1>. QED  BY <1>1, <1>2, <1>3, <1>4, <1>5

LEMMA CrashStep == ASSUME IInv, Crash PROVE IInv'
<1>. USE DEF IInv, Crash, database, world, dispatcher, requests, history
<1>1. faults' \in Nat /\ faults' # 0
  BY DEF TypeOK
<1>2. TypeOK'
  <2>1. faults' \in Nat /\ produced' \in Nat /\ online' \in BOOLEAN
    BY <1>1
  <2>2. UNCHANGED <<row, messages, deleted, committed, nextId, now, allowed, confirmed>>
    OBVIOUS
  <2>3. QED
    BY <2>1, <2>2, Zenon DEF TypeOK
<1>3. (OwnedAreCommitted /\ RowMessages /\ UniqueIds /\ RequestsUnused)'
  BY DEF OwnedAreCommitted, RowMessages, UniqueIds, RequestsUnused
<1>4. (HeldRowsExist /\ LoopState)'
  BY DEF HeldRowsExist, LoopState, MessagesOf
<1>5. (NotSentYet /\ DeliveredOnceWithoutFault)'
  BY <1>1 DEF NotSentYet, DeliveredOnceWithoutFault
<1>6. (UploadUsedOnce /\ SentMeansDelivered)'
  BY DEF UploadUsedOnce, SentMeansDelivered, MessagesOf
<1>. QED  BY <1>2, <1>3, <1>4, <1>5, <1>6

LEMMA AbortStep == ASSUME IInv, DispatchAbort PROVE IInv'
<1>. USE DEF IInv, DispatchAbort, database, world, dispatcher, requests, history
<1>1. faults' \in Nat /\ faults' # 0
  BY DEF TypeOK
<1>2. TypeOK'
  <2>1. faults' \in Nat /\ produced' \in Nat 
    BY <1>1
  <2>2. UNCHANGED <<row, messages, deleted, committed, nextId, world, requests, confirmed>>
    OBVIOUS
  <2>3. QED
    BY <2>1, <2>2, Zenon DEF TypeOK, world, requests
<1>3. (OwnedAreCommitted /\ RowMessages /\ UniqueIds /\ RequestsUnused)'
  BY DEF OwnedAreCommitted, RowMessages, UniqueIds, RequestsUnused
<1>4. (HeldRowsExist /\ LoopState)'
  BY DEF HeldRowsExist, LoopState, MessagesOf
<1>5. (NotSentYet /\ DeliveredOnceWithoutFault)'
  BY <1>1 DEF NotSentYet, DeliveredOnceWithoutFault
<1>6. (UploadUsedOnce /\ SentMeansDelivered)'
  BY DEF UploadUsedOnce, SentMeansDelivered, MessagesOf
<1>. QED  BY <1>2, <1>3, <1>4, <1>5, <1>6

\* Requests in worker threads.

LEMMA CancelReadStep == ASSUME IInv, NEW s \in Schedule, CancelRead(s) PROVE IInv'
<1>. USE DEF IInv, CancelRead, Pending, database, world, dispatcher, requests, history
<1>1. TypeOK'
  BY DEF TypeOK
<1>2. (OwnedAreCommitted /\ RowMessages /\ UniqueIds /\ RequestsUnused)'
  BY DEF OwnedAreCommitted, RowMessages, UniqueIds, RequestsUnused
<1>3. (HeldRowsExist /\ LoopState)'
  BY DEF HeldRowsExist, LoopState, MessagesOf
<1>4. NotSentYet'
  BY DEF NotSentYet, Pending, MessagesOf
<1>5. (UploadUsedOnce /\ SentMeansDelivered /\ DeliveredOnceWithoutFault)'
  BY DEF UploadUsedOnce, SentMeansDelivered, DeliveredOnceWithoutFault, MessagesOf
<1>. QED  BY <1>1, <1>2, <1>3, <1>4, <1>5
LEMMA CreateStep ==
    ASSUME IInv, NEW s \in Schedule, NEW t \in 0..MaxTime, NEW gated \in BOOLEAN,
           NEW A \in SUBSET Media, BeginCreate(s, t, gated, A)
    PROVE  IInv'
<1>. USE DEF IInv, BeginCreate, database, world, dispatcher, requests, history
<1>. DEFINE q == [id |-> s, at |-> t, gated |-> gated, attachments |-> A]
<1>1. q \in Request
  BY ScheduledAssumption DEF Request
<1>2. TypeOK'
  BY <1>1 DEF TypeOK
<1>3. RequestsUnused'
  BY DEF RequestsUnused, Unused
<1>4. (OwnedAreCommitted /\ RowMessages /\ UniqueIds /\ HeldRowsExist /\ LoopState)'
  BY DEF OwnedAreCommitted, RowMessages, UniqueIds, HeldRowsExist, LoopState, MessagesOf
<1>5. NotSentYet'
  BY DEF NotSentYet, Pending, MessagesOf
<1>6. (UploadUsedOnce /\ SentMeansDelivered /\ DeliveredOnceWithoutFault)'
  BY DEF UploadUsedOnce, SentMeansDelivered, DeliveredOnceWithoutFault, MessagesOf
<1>. QED  BY <1>2, <1>3, <1>4, <1>5, <1>6

\* The id of a request is unused, so no message was made for it and neither the
\* loop nor a cancel request holds it.
LEMMA InsertStep ==
    ASSUME IInv, NEW r \in creating, InsertSchedule(r)
    PROVE  IInv'
<1>. USE DEF IInv, InsertSchedule, database, world, dispatcher, history
<1>1. /\ r.id \in Schedule /\ row[r.id].status = "none"
      /\ MessagesOf(r.id) = {} /\ r.id \notin batch \union canceling
  <2>1. r.id \in Schedule /\ r.id # None
    BY ScheduledAssumption DEF TypeOK, Request
  <2>2. row[r.id].status = "none"
    BY DEF RequestsUnused
  <2>3. MessagesOf(r.id) = {}
    BY <2>1, <2>2 DEF RowMessages, MessagesOf
  <2>4. r.id \notin batch \union canceling
    BY <2>2 DEF HeldRowsExist
  <2>. QED  BY <2>1, <2>2, <2>3, <2>4
<1>. DEFINE new == [status |-> "pending", at |-> r.at, gated |-> r.gated,
                    attachments |-> r.attachments, delivered |-> 0]
<1>2. new \in Row
  BY DEF TypeOK, Request, Row, Status
<1>3. /\ row'[r.id] = new
      /\ \A s \in Schedule \ {r.id} : row'[s] = row[s]
      /\ row' \in [Schedule -> Row]
  BY <1>1, <1>2 DEF TypeOK
<1>4. TypeOK'
  BY <1>3 DEF TypeOK
<1>5. \A m \in messages : m.origin # r.id
  BY <1>1 DEF MessagesOf
<1>6. OwnedAreCommitted' /\ RowMessages' /\ UniqueIds'
  BY <1>3, <1>5 DEF OwnedAreCommitted, RowMessages, UniqueIds, TypeOK, Message
<1>7. RequestsUnused'
  BY <1>3 DEF RequestsUnused, TypeOK, Request
<1>8. HeldRowsExist' /\ LoopState'
  BY <1>1, <1>3 DEF HeldRowsExist, LoopState, MessagesOf, TypeOK
<1>9. NotSentYet' /\ DeliveredOnceWithoutFault'
  BY <1>1, <1>3 DEF NotSentYet, DeliveredOnceWithoutFault, Pending, MessagesOf
<1>10. UploadUsedOnce' /\ SentMeansDelivered'
  BY <1>3 DEF UploadUsedOnce, SentMeansDelivered, MessagesOf
<1>. QED  BY <1>4, <1>6, <1>7, <1>8, <1>9, <1>10

\* What the three steps that only change the status of one existing row share.
LEMMA StatusStep ==
    ASSUME IInv, NEW s \in Schedule, row[s].status # "none",
           NEW new \in Row, new.status \in {"sent", "canceled", "failed"},
           new.attachments = row[s].attachments,
           row' = [row EXCEPT ![s] = new],
           UNCHANGED <<messages, deleted, committed, nextId>>
    PROVE  /\ row' \in [Schedule -> Row]
           /\ row'[s] = new
           /\ \A q \in Schedule \ {s} : row'[q] = row[q]
           /\ \A q \in Schedule : row'[q].attachments = row[q].attachments
           /\ \A q \in Schedule : row'[q].status # "none" <=> row[q].status # "none"
           /\ \A q \in Schedule : row'[q].status = "pending" => row[q].status = "pending"
           /\ OwnedAreCommitted' /\ RowMessages' /\ UniqueIds' /\ UploadUsedOnce'
<1>. USE DEF IInv
<1>1. /\ row' \in [Schedule -> Row]
      /\ row'[s] = new
      /\ \A q \in Schedule \ {s} : row'[q] = row[q]
  BY DEF TypeOK
<1>2. RowMessages'
  BY <1>1 DEF RowMessages, TypeOK, Message
<1>3. OwnedAreCommitted' /\ UniqueIds' /\ UploadUsedOnce'
  BY DEF OwnedAreCommitted, UniqueIds, UploadUsedOnce
<1>. QED  BY <1>1, <1>2, <1>3

LEMMA CancelCommitStep == ASSUME IInv, NEW s \in Schedule, CancelCommit(s) PROVE IInv'
<1>. USE DEF IInv, CancelCommit, database, world, dispatcher, history
<1>. DEFINE new == [row[s] EXCEPT !.status = "canceled"]
<1>1. /\ row[s].status # "none" /\ new \in Row /\ new.status = "canceled"
      /\ new.attachments = row[s].attachments
  BY DEF HeldRowsExist, TypeOK, Row, Status
<1>2. row' = [row EXCEPT ![s] = new]
  BY DEF TypeOK
<1>. HIDE DEF new
<1>3. /\ row' \in [Schedule -> Row]
      /\ row'[s] = new
      /\ \A q \in Schedule \ {s} : row'[q] = row[q]
      /\ \A q \in Schedule : row'[q].attachments = row[q].attachments
      /\ \A q \in Schedule : row'[q].status # "none" <=> row[q].status # "none"
      /\ \A q \in Schedule : row'[q].status = "pending" => row[q].status = "pending"
      /\ OwnedAreCommitted' /\ RowMessages' /\ UniqueIds' /\ UploadUsedOnce'
  BY <1>1, <1>2, StatusStep
<1>4. TypeOK'
  BY <1>3 DEF TypeOK
<1>5. RequestsUnused' /\ HeldRowsExist'
  BY <1>3 DEF RequestsUnused, HeldRowsExist, TypeOK, Request
<1>6. LoopState'
  BY <1>3 DEF LoopState, MessagesOf, TypeOK
<1>7. NotSentYet'
  BY <1>3 DEF NotSentYet, Pending, MessagesOf
<1>8. SentMeansDelivered' /\ DeliveredOnceWithoutFault'
  BY <1>1, <1>3 DEF SentMeansDelivered, DeliveredOnceWithoutFault, MessagesOf
<1>. QED  BY <1>3, <1>4, <1>5, <1>6, <1>7, <1>8

LEMMA FailStep == ASSUME IInv, NEW s \in Schedule, DispatchFail(s) PROVE IInv'
<1>. USE DEF IInv, DispatchFail, world, requests, history
<1>. DEFINE new == [row[s] EXCEPT !.status = "failed"]
<1>1. s \in batch /\ current = None /\ loop = "run"
  BY DEF IsNext
<1>2. /\ row[s].status # "none" /\ new \in Row /\ new.status = "failed"
      /\ new.attachments = row[s].attachments
  BY <1>1 DEF HeldRowsExist, TypeOK, Row, Status
<1>3. row' = [row EXCEPT ![s] = new]
  BY DEF TypeOK
<1>. HIDE DEF new
<1>4. /\ row' \in [Schedule -> Row]
      /\ row'[s] = new
      /\ \A q \in Schedule \ {s} : row'[q] = row[q]
      /\ \A q \in Schedule : row'[q].attachments = row[q].attachments
      /\ \A q \in Schedule : row'[q].status # "none" <=> row[q].status # "none"
      /\ \A q \in Schedule : row'[q].status = "pending" => row[q].status = "pending"
      /\ OwnedAreCommitted' /\ RowMessages' /\ UniqueIds' /\ UploadUsedOnce'
  BY <1>2, <1>3, StatusStep
<1>5. TypeOK'
  BY <1>4 DEF TypeOK
<1>6. RequestsUnused' /\ HeldRowsExist'
  BY <1>4 DEF RequestsUnused, HeldRowsExist, TypeOK, Request
<1>7. LoopState'
  BY <1>1 DEF LoopState
<1>8. NotSentYet' /\ (faults = 0 => MessagesOf(s) = {})
  BY <1>1, <1>4, ScheduledAssumption DEF NotSentYet, Pending, MessagesOf
<1>9. SentMeansDelivered' /\ DeliveredOnceWithoutFault'
  BY <1>2, <1>4, <1>8 DEF SentMeansDelivered, DeliveredOnceWithoutFault, MessagesOf
<1>. QED  BY <1>4, <1>5, <1>6, <1>7, <1>8, <1>9

LEMMA MarkStep == ASSUME IInv, DispatchMark PROVE IInv'
<1>. USE DEF IInv, DispatchMark, world, requests, history
<1>. DEFINE s == current
            new == [row[s] EXCEPT !.status = "sent", !.delivered = produced]
<1>1. /\ s \in Schedule /\ s \in batch /\ loop = "run"
      /\ \E m \in MessagesOf(s) \ deleted : m.id = produced /\ m.media = row[s].attachments
  BY DEF LoopState, TypeOK
<1>2. /\ row[s].status # "none" /\ new \in Row /\ new.status = "sent"
      /\ new.attachments = row[s].attachments /\ new.delivered = produced
  BY <1>1 DEF HeldRowsExist, TypeOK, Row, Status
<1>3. row' = [row EXCEPT ![s] = new]
  BY DEF TypeOK
<1>. HIDE DEF new
<1>4. /\ row' \in [Schedule -> Row]
      /\ row'[s] = new
      /\ \A q \in Schedule \ {s} : row'[q] = row[q]
      /\ \A q \in Schedule : row'[q].attachments = row[q].attachments
      /\ \A q \in Schedule : row'[q].status # "none" <=> row[q].status # "none"
      /\ \A q \in Schedule : row'[q].status = "pending" => row[q].status = "pending"
      /\ OwnedAreCommitted' /\ RowMessages' /\ UniqueIds' /\ UploadUsedOnce'
  BY <1>1, <1>2, <1>3, StatusStep
<1>5. TypeOK'
  BY <1>4 DEF TypeOK
<1>6. RequestsUnused' /\ HeldRowsExist'
  BY <1>4 DEF RequestsUnused, HeldRowsExist, TypeOK, Request
<1>7. LoopState'
  BY <1>1, <1>4 DEF LoopState, TypeOK
<1>8. NotSentYet'
  BY <1>1, <1>2, <1>4 DEF NotSentYet, Pending, MessagesOf
<1>9. SentMeansDelivered' /\ DeliveredOnceWithoutFault'
  BY <1>1, <1>2, <1>4 DEF SentMeansDelivered, DeliveredOnceWithoutFault, MessagesOf
<1>. QED  BY <1>4, <1>5, <1>6, <1>7, <1>8, <1>9

LEMMA MarkFailsStep == ASSUME IInv, DispatchMarkFails PROVE IInv'
<1>. USE DEF IInv, DispatchMarkFails, world, requests
<1>. DEFINE s == current
            new == [row[s] EXCEPT !.status = "failed"]
<1>1. /\ s \in Schedule /\ s \in batch /\ loop = "run"
      /\ \E m \in MessagesOf(s) \ deleted : m.id = produced /\ m.media = row[s].attachments
  BY DEF LoopState, TypeOK
<1>2. /\ row[s].status # "none" /\ new \in Row /\ new.status = "failed"
      /\ new.attachments = row[s].attachments
  BY <1>1 DEF HeldRowsExist, TypeOK, Row, Status
<1>3. row' = [row EXCEPT ![s] = new]
  BY DEF TypeOK
<1>. HIDE DEF new
<1>4. /\ row' \in [Schedule -> Row]
      /\ row'[s] = new
      /\ \A q \in Schedule \ {s} : row'[q] = row[q]
      /\ \A q \in Schedule : row'[q].attachments = row[q].attachments
      /\ \A q \in Schedule : row'[q].status # "none" <=> row[q].status # "none"
      /\ \A q \in Schedule : row'[q].status = "pending" => row[q].status = "pending"
      /\ OwnedAreCommitted' /\ RowMessages' /\ UniqueIds' /\ UploadUsedOnce'
  BY <1>1, <1>2, <1>3, StatusStep
<1>5. TypeOK'
  <2>1. faults' \in Nat /\ produced' \in Nat /\ current' \in Schedule \union {None}
    BY DEF TypeOK
  <2>. QED  BY <1>4, <2>1, Zenon DEF TypeOK
<1>6. RequestsUnused' /\ HeldRowsExist'
  BY <1>4 DEF RequestsUnused, HeldRowsExist, TypeOK, Request
<1>7. LoopState'
  BY <1>1, <1>4 DEF LoopState, TypeOK
<1>8. faults' # 0 /\ faults' \in Nat
  BY DEF TypeOK
<1>9. NotSentYet' /\ SentMeansDelivered' /\ DeliveredOnceWithoutFault'
  BY <1>2, <1>4, <1>8 DEF NotSentYet, SentMeansDelivered, DeliveredOnceWithoutFault, MessagesOf
<1>. QED  BY <1>4, <1>5, <1>6, <1>7, <1>8, <1>9

\* What storing a message preserves, for a direct post and for a row alike.
LEMMA StoreStep ==
    ASSUME IInv,
           NEW origin \in Schedule \union {None},
           NEW media \in SUBSET Media, NEW own \in SUBSET Media,
           own \intersect committed = {},
           origin # None => /\ row[origin].status # "none"
                            /\ media = row[origin].attachments
                            /\ own = row[origin].attachments,
           StoreMessage(origin, media, own), row' = row
    PROVE  /\ messages' \subseteq Message /\ deleted' \subseteq messages'
           /\ committed' \subseteq Media /\ nextId' \in Nat \ {0}
           /\ OwnedAreCommitted' /\ RowMessages' /\ UniqueIds' /\ UploadUsedOnce'
           /\ \A s \in Schedule : MessagesOf(s) \subseteq MessagesOf(s)'
           /\ \A s \in Schedule \ {origin} : MessagesOf(s)' = MessagesOf(s)
           /\ SentMeansDelivered'
           /\ \E m \in messages' \ deleted' :
                 m.id = nextId /\ m.origin = origin /\ m.media = media
<1>. USE DEF IInv
<1>. DEFINE new == [id |-> nextId, origin |-> origin, media |-> media, own |-> own]
<1>1. /\ messages' = messages \union {new}
      /\ committed' = committed \union own /\ nextId' = nextId + 1
      /\ deleted' = deleted
  BY DEF StoreMessage
<1>2. /\ new \in Message /\ new.id = nextId /\ new.origin = origin
      /\ new.media = media /\ new.own = own
  BY DEF TypeOK, Message
<1>. HIDE DEF new
<1>3. /\ messages' \subseteq Message /\ deleted' \subseteq messages'
      /\ committed' \subseteq Media /\ nextId' \in Nat \ {0}
  BY <1>1, <1>2 DEF TypeOK
<1>8. UniqueIds' /\ new \notin deleted'
  <2>1. /\ nextId \in Nat \ {0} /\ deleted \subseteq messages
        /\ \A m \in messages : m.id \in Nat /\ m.id # 0 /\ m.id < nextId
    BY DEF TypeOK, UniqueIds, Message
  <2>. QED  BY <1>1, <1>2, <2>1 DEF UniqueIds
<1>4. OwnedAreCommitted' /\ RowMessages'
  BY <1>1, <1>2 DEF OwnedAreCommitted, RowMessages
<1>5. UploadUsedOnce'
  BY <1>1, <1>2 DEF UploadUsedOnce, OwnedAreCommitted
<1>6. /\ \A s \in Schedule : MessagesOf(s) \subseteq MessagesOf(s)'
      /\ \A s \in Schedule \ {origin} : MessagesOf(s)' = MessagesOf(s)
  BY <1>1, <1>2 DEF MessagesOf
<1>7. SentMeansDelivered'
  BY <1>1, <1>6 DEF SentMeansDelivered
<1>. QED  BY <1>1, <1>2, <1>3, <1>4, <1>5, <1>6, <1>7, <1>8

\* A message that belongs to no row.
LEMMA DirectStep ==
    ASSUME IInv, NEW media \in SUBSET Media, NEW own \in SUBSET Media,
           own \intersect committed = {},
           StoreMessage(None, media, own),
           UNCHANGED <<row, world, dispatcher, requests, history>>
    PROVE  IInv'
<1>. USE DEF IInv, world, dispatcher, requests, history
<1>1. /\ messages' \subseteq Message /\ deleted' \subseteq messages'
      /\ committed' \subseteq Media /\ deleted' = deleted
      /\ nextId' \in Nat \ {0}
      /\ OwnedAreCommitted' /\ RowMessages' /\ UniqueIds' /\ UploadUsedOnce'
      /\ \A s \in Schedule : MessagesOf(s)' = MessagesOf(s)
      /\ SentMeansDelivered'
  <2>1. None \in Schedule \union {None} /\ Schedule \ {None} = Schedule
    BY ScheduledAssumption
  <2>2. /\ messages' \subseteq Message /\ deleted' \subseteq messages'
        /\ committed' \subseteq Media
        /\ nextId' \in Nat \ {0}
        /\ OwnedAreCommitted' /\ RowMessages' /\ UniqueIds' /\ UploadUsedOnce'
        /\ \A s \in Schedule \ {None} : MessagesOf(s)' = MessagesOf(s)
        /\ SentMeansDelivered'
    BY <2>1, StoreStep
  <2>. QED  BY <2>1, <2>2 DEF StoreMessage
<1>2. TypeOK'
  BY <1>1, Zenon DEF TypeOK
<1>3. RequestsUnused' /\ HeldRowsExist'
  BY DEF RequestsUnused, HeldRowsExist
<1>4. LoopState'
  BY <1>1 DEF LoopState, TypeOK
<1>5. NotSentYet' /\ DeliveredOnceWithoutFault'
  BY <1>1 DEF NotSentYet, DeliveredOnceWithoutFault, Pending
<1>. QED  BY <1>1, <1>2, <1>3, <1>4, <1>5

LEMMA PostStep == ASSUME IInv, NEW A \in SUBSET Media, Post(A) PROVE IInv'
  BY DirectStep DEF Post, MayAttach

LEMMA PostForwardStep == ASSUME IInv, NEW m \in messages, PostForward(m) PROVE IInv'
<1>1. m.media \in SUBSET Media /\ {} \in SUBSET Media
  BY DEF IInv, TypeOK, Message
<1>2. StoreMessage(None, m.media, {})
  BY DEF PostForward
<1>3. UNCHANGED <<row, world, dispatcher, requests, history>>
  BY DEF PostForward
<1>4. {} \intersect committed = {}
  OBVIOUS
<1>. QED  BY <1>1, <1>2, <1>3, <1>4, DirectStep

\* The row that delivered the message forgets its id, and no other row has it.
LEMMA DeleteStep == ASSUME IInv, NEW m \in Stored, Delete(m) PROVE IInv'
<1>. USE DEF IInv, world, dispatcher, requests, history
<1>1. /\ m \in messages /\ m \notin deleted /\ m.id \in Nat /\ m.id # 0
      /\ loop = "sleep" /\ batch = {} /\ current = None
      /\ deleted' = deleted \union {m}
      /\ UNCHANGED <<messages, committed, nextId, world, dispatcher, requests, history>>
  BY DEF Stored, TypeOK, Message, UniqueIds, LoopState, Delete
<1>2. \A s \in Schedule : row[s] \in Row /\ [row[s] EXCEPT !.delivered = 0] \in Row
  BY DEF TypeOK, Row
<1>3. row' \in [Schedule -> Row]
  BY <1>2 DEF Delete
<1>4. \A s \in Schedule : /\ row'[s].status = row[s].status
                         /\ row'[s].attachments = row[s].attachments
                         /\ row'[s].delivered = IF row[s].delivered = m.id THEN 0
                                                ELSE row[s].delivered
  BY <1>2 DEF Delete, Row
<1>5. TypeOK'
  BY <1>1, <1>3 DEF TypeOK
<1>6. OwnedAreCommitted' /\ UniqueIds' /\ UploadUsedOnce'
  BY <1>1 DEF OwnedAreCommitted, UniqueIds, UploadUsedOnce
<1>7. RowMessages'
  BY <1>1, <1>4, ScheduledAssumption DEF RowMessages, TypeOK, Message
<1>8. RequestsUnused' /\ HeldRowsExist'
  BY <1>1, <1>4 DEF RequestsUnused, HeldRowsExist, TypeOK, Request
<1>9. LoopState' /\ NotSentYet' /\ DeliveredOnceWithoutFault'
  BY <1>1, <1>4 DEF LoopState, NotSentYet, DeliveredOnceWithoutFault, Pending, MessagesOf
<1>10. SentMeansDelivered'
  <2>. SUFFICES ASSUME NEW s \in Schedule, row[s].status = "sent"
                PROVE  \E n \in MessagesOf(s) :
                          /\ n.media = row[s].attachments
                          /\ row'[s].delivered = IF n \in deleted' THEN 0 ELSE n.id
    BY <1>1, <1>4 DEF SentMeansDelivered, MessagesOf
  <2>1. PICK n \in MessagesOf(s) :
            /\ n.media = row[s].attachments
            /\ row[s].delivered = IF n \in deleted THEN 0 ELSE n.id
    BY DEF SentMeansDelivered
  <2>2. n \in messages /\ n.id # 0 /\ (n.id = m.id => n = m)
    BY <1>1 DEF MessagesOf, UniqueIds
  <2>. QED  BY <1>1, <1>4, <2>1, <2>2
<1>. QED  BY <1>5, <1>6, <1>7, <1>8, <1>9, <1>10

LEMMA InsertFailsStep == ASSUME IInv, NEW r \in creating, InsertFails(r) PROVE IInv'
<1>. USE DEF IInv, InsertFails, database, world, dispatcher, requests, history
<1>1. TypeOK'
  BY DEF TypeOK
<1>2. (OwnedAreCommitted /\ RowMessages /\ UniqueIds /\ RequestsUnused)'
  BY DEF OwnedAreCommitted, RowMessages, UniqueIds, RequestsUnused
<1>3. (HeldRowsExist /\ LoopState)'
  BY DEF HeldRowsExist, LoopState, MessagesOf
<1>4. NotSentYet'
  BY DEF NotSentYet, Pending, MessagesOf
<1>5. (UploadUsedOnce /\ SentMeansDelivered /\ DeliveredOnceWithoutFault)'
  BY DEF UploadUsedOnce, SentMeansDelivered, DeliveredOnceWithoutFault, MessagesOf
<1>. QED  BY <1>1, <1>2, <1>3, <1>4, <1>5

\* The loop stores the message of row s, which had none unless there was a crash.
LEMMA SendStep == ASSUME IInv, NEW s \in Schedule, DispatchSend(s) PROVE IInv'
<1>. USE DEF IInv, DispatchSend, world, requests, history
<1>1. s \in batch /\ current = None /\ loop = "run" /\ s # None
  BY ScheduledAssumption DEF IsNext
<1>2. /\ row[s].status # "none" /\ row[s].attachments \in SUBSET Media
      /\ row[s].attachments \intersect committed = {}
  BY <1>1 DEF HeldRowsExist, MayAttach, TypeOK, Row
<1>3. /\ messages' \subseteq Message /\ deleted' \subseteq messages'
      /\ committed' \subseteq Media
      /\ nextId' \in Nat \ {0}
      /\ OwnedAreCommitted' /\ RowMessages' /\ UniqueIds' /\ UploadUsedOnce'
      /\ \A q \in Schedule \ {s} : MessagesOf(q)' = MessagesOf(q)
      /\ SentMeansDelivered'
      /\ \E m \in messages' \ deleted' : /\ m.id = nextId /\ m.origin = s
                                       /\ m.media = row[s].attachments
  BY <1>2, StoreStep
<1>4. TypeOK'
  <2>1. produced' \in Nat /\ current' \in Schedule \union {None}
    BY DEF TypeOK
  <2>. QED  BY <1>3, <2>1, Zenon DEF TypeOK
<1>5. RequestsUnused' /\ HeldRowsExist'
  BY DEF RequestsUnused, HeldRowsExist
<1>6. LoopState'
  BY <1>1, <1>3 DEF LoopState, MessagesOf
<1>7. NotSentYet'
  BY <1>1, <1>3, ScheduledAssumption DEF NotSentYet, Pending
<1>8. DeliveredOnceWithoutFault'
  <2>1. faults = 0 => MessagesOf(s) = {}
    BY <1>1, ScheduledAssumption DEF NotSentYet
  <2>2. faults = 0 => \A m, n \in messages' : m.origin = s /\ n.origin = s => m = n
    BY <2>1 DEF MessagesOf, StoreMessage
  <2>3. faults = 0 => \A m, n \in MessagesOf(s)' : m = n
    BY <2>2 DEF MessagesOf
  <2>4. row[s].status # "failed"
    BY <1>1 DEF LoopState
  <2>. QED  BY <1>3, <2>3, <2>4 DEF DeliveredOnceWithoutFault
<1>. QED  BY <1>3, <1>4, <1>5, <1>6, <1>7, <1>8

-----------------------------------------------------------------------------
(* The theorems.                                                           *)

\* IInv is inductive: whatever step the system takes, it holds again.
LEMMA NextIInv == IInv /\ [Next]_vars => IInv'
<1>. SUFFICES ASSUME IInv, [Next]_vars PROVE IInv'
  OBVIOUS
<1>1. ASSUME UNCHANGED vars PROVE IInv'
  BY <1>1 DEF vars, database, world, dispatcher, requests, history, IInv, TypeOK,
     OwnedAreCommitted, RowMessages, UniqueIds, RequestsUnused, HeldRowsExist, LoopState,
     NotSentYet, UploadUsedOnce, SentMeansDelivered, DeliveredOnceWithoutFault,
     Pending, MessagesOf
<1>2. ASSUME Dispatch PROVE IInv'
  BY <1>2, LoadStep, SkipStep, SendStep, FailStep, MarkStep, DoneStep DEF Dispatch
<1>3. ASSUME NEW A \in SUBSET Media, Post(A) PROVE IInv'
  BY <1>3, PostStep
<1>4. ASSUME NEW m \in Stored, PostForward(m) \/ Delete(m) PROVE IInv'
  BY <1>4, PostForwardStep, DeleteStep DEF Stored
<1>5. ASSUME NEW s \in Schedule, NEW t \in 0..MaxTime, NEW gated \in BOOLEAN,
             NEW A \in SUBSET Media, ValidateSchedule(s, t, gated, A)
      PROVE  IInv'
  BY <1>5, CreateStep DEF ValidateSchedule
<1>6. ASSUME NEW s \in Schedule, NEW t \in 0..MaxTime, NEW gated \in BOOLEAN,
             NEW m \in Stored, ValidateForwardSchedule(s, t, gated, m)
      PROVE  IInv'
  <2>1. m.media \in SUBSET Media
    BY DEF IInv, TypeOK, Message, Stored
  <2>. QED  BY <1>6, <2>1, CreateStep DEF ValidateForwardSchedule
<1>7. ASSUME NEW r \in creating, InsertSchedule(r) \/ InsertFails(r) PROVE IInv'
  BY <1>7, InsertStep, InsertFailsStep
<1>8. ASSUME NEW s \in Schedule, CancelRead(s) \/ CancelCommit(s) PROVE IInv'
  BY <1>8, CancelReadStep, CancelCommitStep
<1>9. ASSUME Tick \/ ToggleAllowed \/ TogglePresence \/ Crash PROVE IInv'
  BY <1>9, TickStep, AllowedStep, PresenceStep, CrashStep
<1>10. ASSUME Fault PROVE IInv'
  BY <1>10, MarkFailsStep, AbortStep DEF Fault
<1>. QED  BY <1>1, <1>2, <1>3, <1>4, <1>5, <1>6, <1>7, <1>8, <1>9, <1>10 DEF Next

\* IInv holds in every reachable state, for every number of rows, uploads,
\* direct posts and faults.
THEOREM Inductive == Spec => []IInv
  BY InitIInv, NextIInv, PTL DEF Spec

\* Every variable keeps its type, in particular a row never gets a status or
\* an attachment outside the tables the code writes.
THEOREM TypeCorrect == Spec => []TypeOK
<1>1. IInv => TypeOK
  BY DEF IInv
<1>. QED  BY <1>1, Inductive, PTL

\* An upload is committed to at most one message, whatever races, cancels and
\* faults happen.
THEOREM UploadSafe == Spec => []UploadUsedOnce
<1>1. IInv => UploadUsedOnce
  BY DEF IInv
<1>. QED  BY <1>1, Inductive, PTL

\* A row with attachments yields at most one message even across faults: its
\* messages own the same uploads, hence are one message.
THEOREM UploadRowSafe == Spec => []UploadRowDeliveredOnce
<1>1. IInv => UploadRowDeliveredOnce
  <2>1. SUFFICES ASSUME IInv, NEW s \in Schedule, row[s].attachments # {},
                        NEW m \in MessagesOf(s), NEW n \in MessagesOf(s)
                 PROVE  m = n
    BY DEF UploadRowDeliveredOnce
  <2>2. m.own = row[s].attachments /\ n.own = row[s].attachments
    BY <2>1, ScheduledAssumption DEF IInv, RowMessages, MessagesOf
  <2>. QED  BY <2>1, <2>2 DEF IInv, UploadUsedOnce, MessagesOf
<1>. QED  BY <1>1, Inductive, PTL

\* A row marked SENT was delivered with its own attachments.
THEOREM SentSafe == Spec => []SentMeansDelivered
<1>1. IInv => SentMeansDelivered
  BY DEF IInv
<1>. QED  BY <1>1, Inductive, PTL

\* Without a crash the loop delivers a row at most once, in spite of cancel
\* requests that overwrite, and are overwritten by, its status.
THEOREM DeliverySafe == Spec => []DeliveredOnceWithoutFault
<1>1. IInv => DeliveredOnceWithoutFault
  BY DEF IInv
<1>. QED  BY <1>1, Inductive, PTL

\* A row whose cancel request succeeded has left PENDING for good.
ConfirmedLeftPending == \A s \in confirmed : row[s].status \notin {"none", "pending"}

LEMMA NextConfirmed ==
    ASSUME IInv, ConfirmedLeftPending, [Next]_vars
    PROVE  ConfirmedLeftPending'
<1>. USE DEF ConfirmedLeftPending
<1>1. /\ row \in [Schedule -> Row] /\ confirmed \subseteq Schedule
      /\ canceling \subseteq Schedule /\ batch \subseteq Schedule
      /\ current # None => current \in Schedule
  BY DEF IInv, TypeOK
<1>2. CASE UNCHANGED vars
  BY <1>2 DEF vars, database, history
<1>3. CASE \E s \in Schedule : CancelCommit(s)
  BY <1>1, <1>3 DEF CancelCommit, history
<1>4. CASE \E r \in creating : InsertSchedule(r)
  <2>1. PICK r \in creating : InsertSchedule(r)
    BY <1>4
  <2>2. row[r.id].status = "none"
    BY DEF IInv, RequestsUnused
  <2>3. confirmed' = confirmed /\ r.id \notin confirmed
    BY <2>1, <2>2 DEF InsertSchedule, history
  <2>4. \A s \in confirmed : row'[s] = row[s]
    BY <1>1, <2>1, <2>3 DEF InsertSchedule
  <2>. QED  BY <2>3, <2>4
<1>5. CASE Dispatch
  <2>1. confirmed' = confirmed
    BY <1>5 DEF Dispatch, DispatchLoad, DispatchSkip, DispatchSend, DispatchFail,
       DispatchMark, DispatchDone, history
  <2>2. \A s \in Schedule : row'[s] = row[s] \/ row'[s].status \in {"sent", "failed"}
    BY <1>1, <1>5 DEF Row, Dispatch, DispatchLoad, DispatchSkip, DispatchSend,
       DispatchFail, DispatchMark, DispatchDone, database
  <2>. QED  BY <1>1, <2>1, <2>2
<1>6. CASE Fault
  BY <1>1, <1>6 DEF Row, Fault, DispatchMarkFails, DispatchAbort, database
<1>7. CASE UNCHANGED <<row, confirmed>>
  BY <1>7
<1>9. CASE \E m \in Stored : Delete(m)
  <2>1. confirmed' = confirmed /\ \A s \in Schedule : row'[s].status = row[s].status
    BY <1>1, <1>9 DEF Delete, history, Row
  <2>. QED  BY <1>1, <2>1
<1>8. ASSUME ~UNCHANGED <<row, confirmed>>, Next,
             ~\E s \in Schedule : CancelCommit(s),
             ~\E r \in creating : InsertSchedule(r), ~Dispatch, ~Fault,
             ~\E m \in Stored : Delete(m)
      PROVE  FALSE
  BY <1>8 DEF Next, Post, PostForward, InsertFails, ValidateSchedule, ValidateForwardSchedule,
     BeginCreate, CancelRead, Tick, ToggleAllowed, TogglePresence, Crash, database,
     world, dispatcher, requests, history
<1>. QED  BY <1>2, <1>3, <1>4, <1>5, <1>6, <1>7, <1>8, <1>9

\* A row that is loaded is PENDING, and a row that is sent is in the batch.
LEMMA StepKeepsCancel ==
    ASSUME IInv, ConfirmedLeftPending, [Next]_vars,
           NEW s \in confirmed, s \notin batch
    PROVE  s \notin batch' /\ MessagesOf(s)' = MessagesOf(s)
<1>. USE DEF MessagesOf
<1>1. s \in Schedule /\ s # None /\ ~Pending(s)
  BY ScheduledAssumption DEF IInv, TypeOK, ConfirmedLeftPending, Pending
<1>2. CASE UNCHANGED vars
  BY <1>2 DEF vars, database, dispatcher
<1>3. CASE Dispatch
  <2>1. CASE DispatchLoad
    BY <1>1, <2>1 DEF DispatchLoad, First, Due, database
  <2>2. CASE \E t \in Schedule : DispatchSend(t)
    BY <1>1, <2>2 DEF DispatchSend, IsNext, StoreMessage
  <2>3. ASSUME Dispatch, ~DispatchLoad, ~\E t \in Schedule : DispatchSend(t)
        PROVE  batch' \subseteq batch /\ messages' = messages
    BY <2>3 DEF Dispatch, DispatchSkip, DispatchFail, DispatchMark, DispatchDone, database
  <2>. QED  BY <1>3, <2>1, <2>2, <2>3
<1>4. CASE \/ \E A \in SUBSET Media : Post(A)
           \/ \E m \in Stored : PostForward(m)
  BY <1>1, <1>4 DEF Post, PostForward, StoreMessage, dispatcher
<1>5. CASE Fault
  BY <1>5 DEF Fault, DispatchMarkFails, DispatchAbort, database
<1>6. ASSUME Next, ~Dispatch, ~Fault, ~\E A \in SUBSET Media : Post(A),
             ~\E m \in Stored : PostForward(m)
      PROVE  batch' \subseteq batch /\ messages' = messages
  BY <1>6 DEF Next, Delete, ValidateSchedule, ValidateForwardSchedule, BeginCreate,
     InsertSchedule, InsertFails, CancelRead, CancelCommit, Tick, ToggleAllowed, TogglePresence,
     Crash, database, dispatcher
<1>. QED  BY <1>2, <1>3, <1>4, <1>5, <1>6

\* A cancellation that succeeded after the iteration is final, whatever faults,
\* forwards and further requests follow.
THEOREM CancelSafe == Spec => CancelHolds
<1>1. Init => ConfirmedLeftPending
  BY DEF Init, ConfirmedLeftPending
<1>2. IInv /\ ConfirmedLeftPending /\ [Next]_vars => ConfirmedLeftPending'
  BY NextConfirmed
<1>3. IInv /\ ConfirmedLeftPending /\ [Next]_vars =>
          [\A s \in confirmed : s \notin batch =>
              s \notin batch' /\ MessagesOf(s)' = MessagesOf(s)]_vars
  BY StepKeepsCancel
<1>. QED  BY <1>1, <1>2, <1>3, Inductive, PTL DEF Spec, CancelHolds
-----------------------------------------------------------------------------
(* Copies.  The second transaction of a delivery may fail, or the process  *)
(* may die before it: then the row is sent again.  That costs a fault each *)
(* time, and nothing else sends a row again.                               *)

\* The loop does not send the row now: it is about to mark it, or the row is
\* neither pending nor held.
Exempt(s) == s = current \/ (~Pending(s) /\ s \notin batch)

Spent(s) == IF Exempt(s) THEN faults + 1 ELSE faults

Copies(s) == Cardinality(MessagesOf(s))

EachCopyCosts == \A s \in Schedule : IsFiniteSet(MessagesOf(s)) /\ Copies(s) <= Spent(s)

\* A step that stores nothing for a row and does not make it eligible without
\* a fault.
LEMMA NoNewCopy ==
    ASSUME IInv, EachCopyCosts, NEW s \in Schedule,
           MessagesOf(s)' = MessagesOf(s),
           \/ faults' = faults /\ (Exempt(s) => Exempt(s)')
           \/ faults' = faults + 1
           \/ faults' = faults /\ MessagesOf(s) = {}
    PROVE  IsFiniteSet(MessagesOf(s)') /\ Copies(s)' <= Spent(s)'
<1>1. IsFiniteSet(MessagesOf(s)) /\ Copies(s) <= Spent(s) /\ Copies(s)' = Copies(s)
  BY DEF EachCopyCosts, Copies
<1>2. Copies(s) \in Nat /\ faults \in Nat
  BY <1>1, FS_CardinalityType DEF Copies, IInv, TypeOK
<1>3. MessagesOf(s) = {} => Copies(s) = 0
  BY FS_EmptySet DEF Copies
<1>. QED  BY <1>1, <1>2, <1>3 DEF Spent

\* Only DispatchSend makes a copy; the row is then exempt until it is marked.
LEMMA NextCopies == IInv /\ EachCopyCosts /\ [Next]_vars => EachCopyCosts'
<1>. SUFFICES ASSUME IInv, EachCopyCosts, [Next]_vars, NEW s \in Schedule
              PROVE  IsFiniteSet(MessagesOf(s)') /\ Copies(s)' <= Spent(s)'
  BY DEF EachCopyCosts, Copies, Spent, Exempt, MessagesOf, Pending
<1>. DEFINE Same == MessagesOf(s)' = MessagesOf(s)
            Still == faults' = faults /\ (Exempt(s) => Exempt(s)')
<1>1. /\ row \in [Schedule -> Row] /\ s # None /\ faults \in Nat
      /\ current # None => current \in Schedule
  BY ScheduledAssumption DEF IInv, TypeOK
<1>2. CASE DispatchLoad
  <2>1. Same /\ faults' = faults /\ current = None /\ current' = None
    BY <1>2 DEF IInv, LoopState, DispatchLoad, database, history, MessagesOf
  <2>2. s \in batch' => Pending(s)
    BY <1>2 DEF DispatchLoad, First, Due
  <2>3. Pending(s)' <=> Pending(s)
    BY <1>2 DEF DispatchLoad, database, Pending
  <2>4. Still
    BY <1>1, <2>1, <2>2, <2>3 DEF Exempt
  <2>. QED  BY <2>1, <2>4, NoNewCopy
<1>3. ASSUME NEW t \in Schedule, DispatchSend(t), t # s
      PROVE  IsFiniteSet(MessagesOf(s)') /\ Copies(s)' <= Spent(s)'
  <2>1. Same
    BY <1>1, <1>3 DEF DispatchSend, StoreMessage, MessagesOf
  <2>2. Still
    BY <1>1, <1>3 DEF DispatchSend, IsNext, history, Exempt, Pending
  <2>. QED  BY <2>1, <2>2, NoNewCopy
<1>4. CASE DispatchSend(s)
  <2>. DEFINE new == [id |-> nextId, origin |-> s, media |-> row[s].attachments,
                      own |-> row[s].attachments]
  <2>1. s \in batch /\ current = None /\ current' = s /\ faults' = faults
    BY <1>4 DEF DispatchSend, IsNext, history
  <2>2. MessagesOf(s)' = MessagesOf(s) \union {new}
    BY <1>4 DEF DispatchSend, StoreMessage, MessagesOf
  <2>3. IsFiniteSet(MessagesOf(s)) /\ Copies(s) <= faults
    BY <1>1, <2>1 DEF EachCopyCosts, Spent, Exempt
  <2>4. IsFiniteSet(MessagesOf(s)') /\ Copies(s)' <= Copies(s) + 1
    <3>. HIDE DEF new
    <3>1. Copies(s) \in Nat
      BY <2>3, FS_CardinalityType DEF Copies
    <3>. QED  BY <2>2, <2>3, <3>1, FS_AddElement DEF Copies
  <2>5. Copies(s) \in Nat /\ Copies(s)' \in Nat
    BY <2>3, <2>4, FS_CardinalityType DEF Copies
  <2>6. Spent(s)' = faults + 1
    BY <2>1 DEF Spent, Exempt
  <2>. QED  BY <1>1, <2>3, <2>4, <2>5, <2>6
<1>5. CASE DispatchMark
  <2>1. Same
    BY <1>5 DEF DispatchMark, MessagesOf
  <2>2. Still
    <3>1. /\ faults' = faults /\ batch' = batch \ {current}
          /\ row'[current].status = "sent"
          /\ s # current => row'[s] = row[s]
      BY <1>1, <1>5 DEF DispatchMark, history, Row
    <3>. QED  BY <3>1 DEF Exempt, Pending
  <2>. QED  BY <2>1, <2>2, NoNewCopy
<1>6. ASSUME \/ \E t \in Schedule : DispatchSkip(t) \/ DispatchFail(t)
             \/ DispatchDone
      PROVE  IsFiniteSet(MessagesOf(s)') /\ Copies(s)' <= Spent(s)'
  <2>1. /\ Same /\ faults' = faults /\ current' = current /\ batch' \subseteq batch
        /\ row'[s] = row[s] \/ row'[s].status = "failed"
    BY <1>1, <1>6 DEF DispatchSkip, DispatchFail, DispatchDone, database, history,
       MessagesOf, Row
  <2>2. Still
    BY <2>1 DEF Exempt, Pending
  <2>. QED  BY <2>1, <2>2, NoNewCopy
<1>7. CASE Fault \/ Crash
  <2>1. Same /\ faults' = faults + 1
    BY <1>7 DEF Fault, DispatchMarkFails, DispatchAbort, Crash, database, MessagesOf
  <2>. QED  BY <2>1, NoNewCopy
<1>8. ASSUME NEW r \in creating, InsertSchedule(r)
      PROVE  IsFiniteSet(MessagesOf(s)') /\ Copies(s)' <= Spent(s)'
  <2>1. Same /\ faults' = faults
    BY <1>8 DEF InsertSchedule, history, MessagesOf
  <2>2. CASE s = r.id
    <3>1. MessagesOf(s) = {}
      BY <1>1, <1>8, <2>2 DEF IInv, RequestsUnused, RowMessages, MessagesOf
    <3>. QED  BY <2>1, <3>1, NoNewCopy
  <2>3. CASE s # r.id
    <3>1. Still
      BY <1>1, <1>8, <2>3 DEF InsertSchedule, dispatcher, history, Exempt, Pending
    <3>. QED  BY <2>1, <3>1, NoNewCopy
  <2>. QED  BY <2>2, <2>3
<1>9. ASSUME NEW t \in Schedule, CancelCommit(t)
      PROVE  IsFiniteSet(MessagesOf(s)') /\ Copies(s)' <= Spent(s)'
  <2>1. /\ Same /\ faults' = faults /\ current' = current /\ batch' = batch
        /\ row'[s] = row[s] \/ row'[s].status = "canceled"
    BY <1>1, <1>9 DEF CancelCommit, dispatcher, MessagesOf, Row
  <2>2. Still
    BY <2>1 DEF Exempt, Pending
  <2>. QED  BY <2>1, <2>2, NoNewCopy
<1>10. ASSUME \/ \E A \in SUBSET Media : Post(A)
              \/ \E m \in Stored : PostForward(m)
       PROVE  IsFiniteSet(MessagesOf(s)') /\ Copies(s)' <= Spent(s)'
  <2>1. Same
    BY <1>1, <1>10 DEF Post, PostForward, StoreMessage, MessagesOf
  <2>2. Still
    BY <1>10 DEF Post, PostForward, dispatcher, history, Exempt, Pending
  <2>. QED  BY <2>1, <2>2, NoNewCopy
<1>14. ASSUME NEW m \in Stored, Delete(m)
       PROVE  IsFiniteSet(MessagesOf(s)') /\ Copies(s)' <= Spent(s)'
  <2>1. /\ Same /\ UNCHANGED <<faults, current, batch>>
        /\ row'[s].status = row[s].status
    BY <1>1, <1>14 DEF Delete, dispatcher, history, MessagesOf, Row
  <2>2. Still
    BY <2>1 DEF Exempt, Pending
  <2>. QED  BY <2>1, <2>2, NoNewCopy
<1>11. CASE UNCHANGED <<row, messages, current, batch, faults>>
  <2>1. Same /\ Still
    BY <1>11 DEF MessagesOf, Exempt, Pending
  <2>. QED  BY <2>1, NoNewCopy
<1>12. ASSUME ~UNCHANGED <<row, messages, current, batch, faults>>, Next,
              ~Dispatch, ~Fault, ~Crash,
              ~\E A \in SUBSET Media : Post(A), ~\E m \in Stored : PostForward(m),
              ~\E r \in creating : InsertSchedule(r),
              ~\E t \in Schedule : CancelCommit(t),
              ~\E m \in Stored : Delete(m)
       PROVE  FALSE
  BY <1>12 DEF Next, InsertFails, ValidateSchedule, ValidateForwardSchedule, BeginCreate,
     CancelRead, Tick, ToggleAllowed, TogglePresence, database, dispatcher, history
<1>13. UNCHANGED vars => UNCHANGED <<row, messages, current, batch, faults>>
  BY DEF vars, database, dispatcher, history
<1>. QED
  BY <1>2, <1>3, <1>4, <1>5, <1>6, <1>7, <1>8, <1>9, <1>10, <1>11, <1>12, <1>13,
     <1>14
     DEF Dispatch

\* However often the process dies or a commit fails, a row yields at most one
\* message more than there were faults: the loop never repeats a delivery of its
\* own accord, and no request makes it repeat one.
THEOREM CopiesSafe ==
    Spec => [](\A s \in Schedule : Cardinality(MessagesOf(s)) <= faults + 1)
<1>1. Init => EachCopyCosts
  <2>. SUFFICES ASSUME Init, NEW s \in Schedule
                PROVE  IsFiniteSet(MessagesOf(s)) /\ Copies(s) <= Spent(s)
    BY DEF EachCopyCosts
  <2>1. MessagesOf(s) = {} /\ faults = 0
    BY DEF Init, MessagesOf
  <2>. QED  BY <2>1, FS_EmptySet DEF Copies, Spent
<1>2. IInv /\ EachCopyCosts => \A s \in Schedule : Cardinality(MessagesOf(s)) <= faults + 1
  <2>. SUFFICES ASSUME IInv, EachCopyCosts, NEW s \in Schedule
                PROVE  Copies(s) <= faults + 1
    BY DEF Copies
  <2>1. Copies(s) \in Nat /\ faults \in Nat /\ Copies(s) <= Spent(s)
    BY FS_CardinalityType DEF EachCopyCosts, Copies, IInv, TypeOK
  <2>. QED  BY <2>1 DEF Spent
<1>. QED  BY <1>1, <1>2, NextCopies, Inductive, PTL DEF Spec
=============================================================================

--------------------------- MODULE MessagesProofs ---------------------------
(***************************************************************************)
(* Theorems about Messages, for any members, messages and late members.    *)
(***************************************************************************)
EXTENDS Messages, TLAPS

-----------------------------------------------------------------------------
(* Statuses.                                                               *)

LEMMA RankType == ASSUME NEW s \in Status PROVE Rank(s) \in 0..2
BY DEF Rank, Status

LEMMA NoneIsNoStatus == None \notin Status
BY MessagesAssumption DEF Status

LEMMA IdFacts ==
    ASSUME TypeOK
    PROVE  posted \in Nat /\ 1..posted \subseteq Id /\ live \subseteq 1..posted
BY MessagesAssumption DEF TypeOK, Id

\* The sum of the rows is a status, and no row is behind it.
LEMMA AggregateFacts ==
    ASSUME NEW row \in [Peer -> Status \union {None}]
    PROVE  /\ Aggregate(row) \in Status
           /\ \A p \in Peer : row[p] # None => Rank(Aggregate(row)) <= Rank(row[p])
<1> DEFINE rows == {row[p] : p \in Peer} \ {None}
<1>1. Aggregate(row) = IF rows \subseteq {"read"} THEN "read"
                       ELSE IF rows \subseteq {"delivered", "read"} THEN "delivered" ELSE "sent"
  BY DEF Aggregate
<1>2. \A p \in Peer : row[p] # None => row[p] \in rows /\ row[p] \in Status
  OBVIOUS
<1> HIDE DEF rows
<1>3. CASE rows \subseteq {"read"} BY <1>1, <1>2, <1>3 DEF Rank, Status
<1>4. CASE ~(rows \subseteq {"read"}) /\ rows \subseteq {"delivered", "read"}
  <2>1. Aggregate(row) = "delivered" BY <1>1, <1>4
  <2>2. \A p \in Peer : row[p] # None => row[p] \in {"delivered", "read"} BY <1>2, <1>4
  <2> QED BY <2>1, <2>2 DEF Rank, Status
<1>5. CASE ~(rows \subseteq {"delivered", "read"})
  <2>1. Aggregate(row) = "sent" BY <1>1, <1>5
  <2> QED BY <1>2, <2>1, RankType DEF Rank, Status
<1> QED BY <1>3, <1>4, <1>5

-----------------------------------------------------------------------------
(* The invariant.                                                          *)

\* Showing s for m is not more than is true.
NotAhead(m, s) ==
    m \in live \ late =>
        \A p \in Peer : delivery[m][p] # None => Rank(s) <= Rank(delivery[m][p])

\* What is shown or on its way speaks of messages there are, and not more than
\* is true.
ShownTrue == \A m \in Id : shown[m] # None => m <= posted /\ NotAhead(m, shown[m])

AnswerTrue ==
    answer # None => \A m \in Id : answer[m] # None => m <= posted /\ NotAhead(m, answer[m])

FramesTrue ==
    \A f \in frames : /\ f.message <= posted
                      /\ f.kind # "message_deleted" => NotAhead(f.message, f.status)

TellingTrue ==
    \A p \in Peer : telling[p] # None =>
        /\ telling[p].message \in 1..posted
        /\ telling[p].status # None => NotAhead(telling[p].message, telling[p].status)

\* The rows a page is to update are still there.
Updatable ==
    \A p \in Peer : page[p] # None =>
        /\ page[p].insert \union page[p].update \subseteq 1..posted
        /\ \A m \in page[p].update \intersect live : delivery[m][p] # None

\* No member's row is ever "sent": create_message begins with "delivered".
NoneSent == \A m \in Id, p \in Peer : delivery[m][p] # "sent"

\* The message of an acknowledgement stays; the row it has found stays too, and is
\* raised as high as it goes.
AckTrue ==
    acking # None =>
        /\ acking.message \in live
        /\ ~acking.insert => /\ delivery[acking.message][acking.peer] # None
                             /\ acking.status = "read"

IInv ==
    /\ TypeOK /\ ShownTrue /\ AnswerTrue /\ FramesTrue /\ TellingTrue /\ Updatable
    /\ NoneSent /\ AckTrue

\* What a step does to the rows there are: none falls, none vanishes.
Grows ==
    \A m \in live \intersect live', p \in Peer :
        delivery[m][p] # None =>
            delivery'[m][p] # None /\ Rank(delivery'[m][p]) >= Rank(delivery[m][p])

\* A status that was not too much before the step is not too much after it.
Carries == \A m \in 1..posted, s \in Status : NotAhead(m, s) => NotAhead(m, s)'

LEMMA RowType ==
    ASSUME TypeOK, NEW m \in Id
    PROVE  /\ delivery[m] \in [Peer -> Status \union {None}]
           /\ \A p \in Peer : delivery[m][p] \in Status \union {None}
BY DEF TypeOK

\* Rows that only grow, with new ones only for late messages, carry statuses.
LEMMA Carrying ==
    ASSUME TypeOK, TypeOK', Grows,
           \A m \in 1..posted : m \in live' \ late' =>
              /\ m \in live \ late
              /\ \A p \in Peer : delivery'[m][p] # None => delivery[m][p] # None
    PROVE  Carries
<1> SUFFICES ASSUME NEW m \in 1..posted, NEW s \in Status, NotAhead(m, s),
                    m \in live' \ late', NEW p \in Peer, delivery'[m][p] # None
             PROVE  Rank(s) <= Rank(delivery'[m][p])
  BY DEF Carries, NotAhead
<1>1. m \in live \ late /\ delivery[m][p] # None OBVIOUS
<1>2. m \in Id BY IdFacts
<1>3. delivery[m][p] \in Status /\ delivery'[m][p] \in Status BY <1>1, <1>2 DEF TypeOK
<1>4. Rank(s) <= Rank(delivery[m][p]) BY <1>1 DEF NotAhead
<1>5. Rank(delivery'[m][p]) >= Rank(delivery[m][p]) BY <1>1 DEF Grows
<1> QED BY <1>3, <1>4, <1>5, RankType

\* Nothing happens to the messages and their rows.
LEMMA Untouched ==
    ASSUME TypeOK, UNCHANGED <<posted, live, delivery, late>>
    PROVE  Grows /\ Carries
<1>1. Grows
  <2> SUFFICES ASSUME NEW m \in live, NEW p \in Peer, delivery[m][p] # None
               PROVE  Rank(delivery[m][p]) >= Rank(delivery[m][p])
    BY DEF Grows
  <2>1. m \in Id BY IdFacts
  <2>2. delivery[m][p] \in Status BY <2>1, RowType
  <2> QED BY <2>2, RankType
<1>2. Carries BY DEF Carries, NotAhead
<1> QED BY <1>1, <1>2

\* What was shown or on its way before the step is true after it.
LEMMA Carried ==
    ASSUME IInv, Carries, posted' \in posted..MaxMessages
    PROVE  /\ \A m \in Id, v \in Status : shown[m] = v => m <= posted' /\ NotAhead(m, v)'
           /\ \A m \in Id, v \in Status :
                answer # None /\ answer[m] = v => m <= posted' /\ NotAhead(m, v)'
           /\ \A f \in frames : /\ f.message <= posted'
                                /\ f.kind # "message_deleted" => NotAhead(f.message, f.status)'
           /\ \A p \in Peer, v \in Status : telling[p] # None =>
                /\ telling[p].message \in 1..posted'
                /\ \A m \in Id : telling[p].message = m /\ telling[p].status = v => NotAhead(m, v)'
<1>0. /\ posted \in Nat /\ posted' \in Nat /\ posted <= posted'
      /\ None \notin Status
  BY MessagesAssumption, NoneIsNoStatus DEF IInv, TypeOK
<1>1. \A m \in Id, v \in Status : m <= posted /\ NotAhead(m, v) => m <= posted' /\ NotAhead(m, v)'
  <2> TAKE m \in Id, v \in Status
  <2> HAVE m <= posted /\ NotAhead(m, v)
  <2>1. m \in 1..posted /\ m <= posted' BY <1>0 DEF Id
  <2> QED BY <2>1 DEF Carries
<1>2. \A m \in Id, v \in Status : shown[m] = v => m <= posted' /\ NotAhead(m, v)'
  <2> SUFFICES ASSUME NEW m \in Id, NEW v \in Status, shown[m] = v
               PROVE  m <= posted /\ NotAhead(m, v)
    BY <1>1
  <2> QED BY <1>0 DEF IInv, ShownTrue
<1>3. \A m \in Id, v \in Status :
        answer # None /\ answer[m] = v => m <= posted' /\ NotAhead(m, v)'
  <2> SUFFICES ASSUME NEW m \in Id, NEW v \in Status, answer # None, answer[m] = v
               PROVE  m <= posted /\ NotAhead(m, v)
    BY <1>1
  <2> QED BY <1>0 DEF IInv, AnswerTrue
<1>4. \A f \in frames : /\ f.message <= posted'
                        /\ f.kind # "message_deleted" => NotAhead(f.message, f.status)'
  <2> TAKE f \in frames
  <2>1. f \in Frame BY DEF IInv, TypeOK
  <2>2. f.message \in Id /\ (f.kind # "message_deleted" => f.status \in Status)
    BY <2>1 DEF Frame
  <2>3. f.message <= posted BY DEF IInv, FramesTrue
  <2>4. f.message <= posted' BY <1>0, <2>2, <2>3 DEF Id
  <2>5. ASSUME f.kind # "message_deleted" PROVE NotAhead(f.message, f.status)'
    <3>1. NotAhead(f.message, f.status) BY <2>5 DEF IInv, FramesTrue
    <3> QED BY <1>1, <2>2, <2>3, <2>5, <3>1
  <2> QED BY <2>4, <2>5
<1>5. \A p \in Peer, v \in Status : telling[p] # None =>
        /\ telling[p].message \in 1..posted'
        /\ \A m \in Id : telling[p].message = m /\ telling[p].status = v => NotAhead(m, v)'
  <2> TAKE p \in Peer, v \in Status
  <2> HAVE telling[p] # None
  <2>1. telling[p].message \in 1..posted BY DEF IInv, TellingTrue
  <2>2. ASSUME NEW m \in Id, telling[p].message = m, telling[p].status = v
        PROVE  NotAhead(m, v)'
    <3>1. NotAhead(m, v) BY <1>0, <2>2 DEF IInv, TellingTrue
    <3> QED BY <2>1, <2>2, <3>1 DEF Carries
  <2> QED BY <1>0, <2>1, <2>2
<1> QED BY <1>2, <1>3, <1>4, <1>5

\* ... in particular what the step leaves alone.
LEMMA Kept ==
    ASSUME IInv, Carries, posted' \in posted..MaxMessages
    PROVE  /\ UNCHANGED shown => ShownTrue'
           /\ UNCHANGED answer => AnswerTrue'
           /\ UNCHANGED frames => FramesTrue'
           /\ UNCHANGED telling => TellingTrue'
<1> USE Carried
<1>1. ASSUME UNCHANGED shown PROVE ShownTrue'
  <2> SUFFICES ASSUME NEW m \in Id, shown[m] # None, NEW v, v = shown[m]
               PROVE  m <= posted' /\ NotAhead(m, v)'
    BY <1>1 DEF ShownTrue
  <2>1. v \in Status BY DEF IInv, TypeOK, Statuses
  <2> QED BY <2>1
<1>2. ASSUME UNCHANGED answer PROVE AnswerTrue'
  <2> SUFFICES ASSUME answer # None, NEW m \in Id, answer[m] # None, NEW v, v = answer[m]
               PROVE  m <= posted' /\ NotAhead(m, v)'
    BY <1>2 DEF AnswerTrue
  <2>1. v \in Status BY DEF IInv, TypeOK, Statuses
  <2> QED BY <2>1
<1>3. ASSUME UNCHANGED frames PROVE FramesTrue'
  BY <1>3 DEF FramesTrue
<1>4. ASSUME UNCHANGED telling PROVE TellingTrue'
  <2> SUFFICES ASSUME NEW p \in Peer, telling[p] # None,
                      NEW m, m = telling[p].message, NEW v, v = telling[p].status
               PROVE  m \in 1..posted' /\ (v # None => NotAhead(m, v)')
    BY <1>4 DEF TellingTrue
  <2>1. telling[p] \in StatusEvent BY DEF IInv, TypeOK
  <2>2. m \in Id /\ v \in Status \union {None} BY <2>1 DEF StatusEvent
  <2>3. m \in 1..posted' BY <2>2, RankType, NoneIsNoStatus DEF Status
  <2> QED BY <2>2, <2>3
<1> QED BY <1>1, <1>2, <1>3, <1>4

\* The rows a page has found stay as they are or grow.
LEMMA PagesKept ==
    ASSUME IInv, Grows, posted' \in posted..MaxMessages,
           \A m \in 1..posted : m \in live' => m \in live,
           UNCHANGED page
    PROVE  Updatable'
<1>0. posted \in Nat /\ posted' \in Nat /\ posted <= posted'
  BY MessagesAssumption DEF IInv, TypeOK
<1> SUFFICES ASSUME NEW p \in Peer, page[p] # None
             PROVE  /\ page[p].insert \union page[p].update \subseteq 1..posted'
                    /\ \A m \in page[p].update \intersect live' : delivery'[m][p] # None
  BY DEF Updatable
<1>1. /\ page[p].insert \union page[p].update \subseteq 1..posted
      /\ \A m \in page[p].update \intersect live : delivery[m][p] # None
  BY DEF IInv, Updatable
<1>2. page[p].insert \union page[p].update \subseteq 1..posted' BY <1>0, <1>1
<1>3. ASSUME NEW m \in page[p].update \intersect live' PROVE delivery'[m][p] # None
  <2>1. m \in live \intersect live' /\ delivery[m][p] # None BY <1>1
  <2> QED BY <2>1 DEF Grows
<1> QED BY <1>2, <1>3

\* What the rows sum up to is not too much.
LEMMA Summed ==
    ASSUME TypeOK, NEW m \in Id
    PROVE  /\ Aggregate(delivery[m]) \in Status
           /\ NotAhead(m, Aggregate(delivery[m]))
BY RowType, AggregateFacts DEF NotAhead

\* What an acknowledgement has found is still there after a step of somebody else.
LEMMA AckKept ==
    ASSUME IInv, Grows, UNCHANGED acking, acking # None => live \subseteq live'
    PROVE  AckTrue'
<1> SUFFICES ASSUME acking # None
             PROVE  /\ acking.message \in live'
                    /\ ~acking.insert => /\ delivery'[acking.message][acking.peer] # None
                                         /\ acking.status = "read"
  BY DEF AckTrue
<1>1. acking.message \in live /\ acking.message \in live' /\ acking.peer \in Peer
  BY DEF IInv, AckTrue, TypeOK, Acknowledgement
<1>2. ~acking.insert => /\ delivery[acking.message][acking.peer] # None
                       /\ acking.status = "read"
  BY DEF IInv, AckTrue
<1> QED BY <1>1, <1>2 DEF Grows

-----------------------------------------------------------------------------
(* Each action keeps the invariant and lets the rows only grow.            *)

LEMMA InitOK == Init => IInv
<1> SUFFICES ASSUME Init PROVE IInv OBVIOUS
<1>1. TypeOK BY MessagesAssumption DEF Init, TypeOK, Statuses, Id
<1> QED BY <1>1, MessagesAssumption, NoneIsNoStatus
     DEF Init, IInv, ShownTrue, AnswerTrue, FramesTrue, TellingTrue, Updatable, NoneSent,
         AckTrue, Status

LEMMA PostOK == ASSUME IInv, Post PROVE IInv' /\ Grows
<1> DEFINE new == posted + 1
           sum == Aggregate(delivery'[new])
           fresh == {[kind |-> k, message |-> new, status |-> sum] : k \in {"answer", "message"}}
<1>0. /\ posted \in Nat /\ new \in Id /\ new \notin 1..posted /\ posted' = new
      /\ posted' \in posted..MaxMessages /\ live' = live \union {new} /\ live \subseteq 1..posted
      /\ 1..posted' = (1..posted) \union {new}
  BY MessagesAssumption DEF IInv, TypeOK, Post, Id
<1>1. delivery' \in [Id -> [Peer -> Status \union {None}]]
  BY DEF Post, IInv, TypeOK, Status
<1>2. \A m \in 1..posted : delivery'[m] = delivery[m]
  BY <1>0 DEF Post, IInv, TypeOK, Id
<1>3. sum \in Status
      /\ \A p \in Peer : delivery'[new][p] # None => Rank(sum) <= Rank(delivery'[new][p])
  BY <1>0, <1>1, AggregateFacts
<1>4. frames' = frames \union fresh BY DEF Post
<1>5. TypeOK'
  <2>1. fresh \subseteq Frame BY <1>0, <1>3 DEF Frame
  <2>2. frames' \subseteq Frame BY <1>4, <2>1 DEF IInv, TypeOK
  <2>3. posted' \in 0..MaxMessages /\ live' \subseteq 1..posted' /\ hidden' \subseteq live' \X Peer
    BY <1>0, MessagesAssumption DEF IInv, TypeOK, Post
  <2> QED BY <1>1, <2>2, <2>3 DEF IInv, TypeOK, Post, tables, requests, client, history
<1>6. Grows
  <2> SUFFICES ASSUME NEW m \in live \intersect live', NEW p \in Peer, delivery[m][p] # None
               PROVE  /\ delivery'[m][p] # None
                      /\ Rank(delivery'[m][p]) >= Rank(delivery[m][p])
    BY DEF Grows
  <2>1. m \in 1..posted /\ m \in Id BY <1>0, IdFacts DEF IInv
  <2>2. delivery[m][p] \in Status BY <2>1, RowType DEF IInv
  <2> QED BY <1>2, <2>1, <2>2, RankType
<1>7. Carries
  <2>1. late' = late BY DEF Post, history
  <2> QED BY <1>0, <1>2, <1>5, <1>6, <2>1, Carrying DEF IInv
<1>8. ShownTrue' /\ AnswerTrue' /\ TellingTrue'
  BY <1>0, <1>7, Kept DEF Post, requests
<1>9. FramesTrue'
  <2> SUFFICES ASSUME NEW f \in frames'
               PROVE  /\ f.message <= posted'
                      /\ f.kind # "message_deleted" => NotAhead(f.message, f.status)'
    BY DEF FramesTrue
  <2>1. CASE f \in frames BY <1>0, <1>7, <2>1, Carried
  <2>2. CASE f \in fresh
    <3>1. f.message = new /\ f.status = sum BY <2>2
    <3>2. NotAhead(f.message, f.status)' BY <1>3, <3>1 DEF NotAhead
    <3>3. f.message <= posted' BY <1>0, <3>1
    <3> QED BY <3>2, <3>3
  <2> QED BY <1>4, <2>1, <2>2
<1>10. Updatable'
  BY <1>0, <1>6, PagesKept DEF Post, requests
<1>11. NoneSent'
  <2>1. \A m \in Id, p \in Peer :
          delivery'[m][p] \in {delivery[m][p], "delivered", None}
    BY <1>0 DEF Post, IInv, TypeOK
  <2> QED BY <2>1, NoneIsNoStatus DEF IInv, NoneSent, Status
<1>12. AckTrue' BY DEF Post, LoopFree, requests, AckTrue
<1> QED BY <1>5, <1>6, <1>8, <1>9, <1>10, <1>11, <1>12 DEF IInv

\* A step that changes no message, row or page and adds nothing that is shown
\* or on its way.
LEMMA QuietStep ==
    ASSUME IInv, TypeOK', UNCHANGED <<posted, live, delivery, late>>
    PROVE  /\ Grows /\ Carries /\ posted' \in posted..MaxMessages
           /\ NoneSent'
           /\ UNCHANGED acking => AckTrue'
           /\ UNCHANGED page => Updatable'
           /\ UNCHANGED shown => ShownTrue'
           /\ UNCHANGED answer => AnswerTrue'
           /\ UNCHANGED frames => FramesTrue'
           /\ UNCHANGED telling => TellingTrue'
<1>1. Grows /\ Carries BY Untouched DEF IInv
<1>2. posted' \in posted..MaxMessages BY MessagesAssumption DEF IInv, TypeOK
<1>3. NoneSent' BY DEF IInv, NoneSent
<1> QED BY <1>1, <1>2, <1>3, AckKept, Kept, PagesKept

LEMMA AddMemberOK == ASSUME IInv, NEW p \in Peer, AddMember(p) PROVE IInv' /\ Grows
<1>1. TypeOK' BY MessagesAssumption DEF AddMember, IInv, TypeOK, requests, client
<1>2. UNCHANGED <<posted, live, delivery, late, page, shown, answer, frames, telling, acking>>
  BY DEF AddMember, requests, client
<1> QED BY <1>1, <1>2, QuietStep DEF IInv

LEMMA PageReadOK ==
    ASSUME IInv, NEW p \in Peer, NEW rows \in SUBSET Visible(p), PageRead(p, rows)
    PROVE  IInv' /\ Grows
<1> DEFINE r == [insert |-> {m \in rows : delivery[m][p] = None},
                 update |-> {m \in rows : delivery[m][p] \in {"sent", "delivered"}}]
<1>0. rows \subseteq live /\ rows \subseteq Id /\ rows \subseteq 1..posted
  BY IdFacts DEF IInv, Visible
<1>1. r \in Reading BY <1>0 DEF Reading
<1>2. page' = [page EXCEPT ![p] = r] BY DEF PageRead
<1>3. TypeOK'
  <2>1. page' \in [Peer -> Reading \union {None}] BY <1>1, <1>2 DEF IInv, TypeOK
  <2> QED BY <2>1 DEF PageRead, IInv, TypeOK, tables, client, history
<1>4. UNCHANGED <<posted, live, delivery, late, shown, answer, frames, telling, acking>>
  BY DEF PageRead, tables, client, history
<1>5. Updatable'
  <2> SUFFICES ASSUME NEW q \in Peer, page'[q] # None
               PROVE  /\ page'[q].insert \union page'[q].update \subseteq 1..posted
                      /\ \A m \in page'[q].update \intersect live : delivery[m][q] # None
    BY <1>4 DEF Updatable
  <2>1. CASE q = p
    <3>1. page'[q] = r BY <1>2, <2>1 DEF IInv, TypeOK
    <3>2. \A m \in r.update : delivery[m][p] # None BY MessagesAssumption
    <3>3. r.insert \union r.update \subseteq 1..posted BY <1>0
    <3> HIDE DEF r
    <3> QED BY <2>1, <3>1, <3>2, <3>3
  <2>2. CASE q # p
    <3>1. page'[q] = page[q] BY <1>2, <2>2 DEF IInv, TypeOK
    <3> QED BY <3>1 DEF IInv, Updatable
  <2> QED BY <2>1, <2>2
<1> QED BY <1>3, <1>4, <1>5, QuietStep DEF IInv

LEMMA PageCommitOK == ASSUME IInv, NEW p \in Peer, PageCommit(p) PROVE IInv' /\ Grows
<1> DEFINE ids == page[p].insert \union page[p].update
<1>0. /\ page[p] \in Reading /\ ids \subseteq Id /\ ids \subseteq 1..posted
      /\ \A m \in page[p].insert : m \in live /\ delivery[m][p] = None
      /\ \A m \in page[p].update \intersect live : delivery[m][p] # None
  BY DEF PageCommit, Insertable, IInv, TypeOK, Updatable, Reading
<1>1. \A m \in Id, q \in Peer :
        delivery'[m][q] = IF q = p /\ m \in live \intersect ids THEN "read" ELSE delivery[m][q]
  BY DEF PageCommit, IInv, TypeOK
<1>2. /\ delivery' \in [Id -> [Peer -> Status \union {None}]]
      /\ late' = late \union page[p].insert
      /\ UNCHANGED <<posted, live, shown, answer, frames, telling>>
      /\ posted' \in posted..MaxMessages
  BY MessagesAssumption DEF PageCommit, IInv, TypeOK, Status, client
<1>3. TypeOK'
  <2>1. late' \subseteq Id BY <1>0, <1>2 DEF IInv, TypeOK
  <2>2. page' \in [Peer -> Reading \union {None}] BY DEF PageCommit, IInv, TypeOK
  <2> QED BY <1>2, <2>1, <2>2 DEF PageCommit, IInv, TypeOK, client
<1>4. Grows
  <2> SUFFICES ASSUME NEW m \in live, NEW q \in Peer, delivery[m][q] # None
               PROVE  /\ delivery'[m][q] # None
                      /\ Rank(delivery'[m][q]) >= Rank(delivery[m][q])
    BY <1>2 DEF Grows
  <2>1. m \in Id BY IdFacts DEF IInv
  <2>2. delivery[m][q] \in Status BY <2>1, RowType DEF IInv
  <2>3. CASE q = p /\ m \in ids
    <3>1. delivery'[m][q] = "read" BY <1>1, <2>1, <2>3
    <3>2. Rank("read") = 2 /\ "read" # None BY MessagesAssumption DEF Rank
    <3>3. Rank(delivery[m][q]) \in 0..2 BY <2>2, RankType
    <3> QED BY <3>1, <3>2, <3>3
  <2>4. CASE ~(q = p /\ m \in ids)
    <3>1. delivery'[m][q] = delivery[m][q] BY <1>1, <2>1, <2>4
    <3> QED BY <2>2, <3>1, RankType
  <2> QED BY <2>3, <2>4
<1>5. Carries
  <2>1. ASSUME NEW m \in 1..posted, m \in live' \ late'
        PROVE  /\ m \in live \ late
               /\ \A q \in Peer : delivery'[m][q] # None => delivery[m][q] # None
    <3>1. m \in live \ late /\ m \notin page[p].insert BY <1>2, <2>1
    <3>2. m \in Id BY IdFacts DEF IInv
    <3> QED BY <1>0, <1>1, <3>1, <3>2
  <2> QED BY <1>3, <1>4, <2>1, Carrying DEF IInv
<1>6. ShownTrue' /\ AnswerTrue' /\ FramesTrue' /\ TellingTrue' BY <1>2, <1>5, Kept
<1>7. Updatable'
  <2> SUFFICES ASSUME NEW q \in Peer, page'[q] # None
               PROVE  /\ page'[q].insert \union page'[q].update \subseteq 1..posted
                      /\ \A m \in page'[q].update \intersect live : delivery'[m][q] # None
    BY <1>2 DEF Updatable
  <2>1. q # p /\ page'[q] = page[q] BY DEF PageCommit, IInv, TypeOK
  <2>2. \A m \in page[q].update \intersect live : delivery'[m][q] # None
    BY <1>2, <1>4, <2>1 DEF IInv, Updatable, Grows
  <2> QED BY <2>1, <2>2 DEF IInv, Updatable
<1>8. NoneSent' BY <1>1 DEF IInv, NoneSent
<1>9. AckTrue' BY <1>2, <1>4, AckKept DEF PageCommit
<1> QED BY <1>3, <1>4, <1>6, <1>7, <1>8, <1>9 DEF IInv

LEMMA PageFailsOK == ASSUME IInv, NEW p \in Peer, PageFails(p) PROVE IInv' /\ Grows
<1>1. TypeOK' BY DEF PageFails, IInv, TypeOK, tables, client, history
<1>2. UNCHANGED <<posted, live, delivery, late, shown, answer, frames, telling, acking>>
  BY DEF PageFails, tables, client, history
<1>3. \A q \in Peer : page'[q] # None => page'[q] = page[q]
  BY DEF PageFails, IInv, TypeOK
<1>4. Updatable' BY <1>2, <1>3 DEF IInv, Updatable
<1> QED BY <1>1, <1>2, <1>4, QuietStep DEF IInv

LEMMA AckReadOK ==
    ASSUME IInv, NEW p \in Peer, NEW m \in Id, NEW s \in {"delivered", "read"}, AckRead(p, m, s)
    PROVE  IInv' /\ Grows
<1> DEFINE ack == [peer |-> p, message |-> m, status |-> s, insert |-> delivery[m][p] = None]
<1>0. m \in live /\ Raises(delivery[m][p], s) /\ acking' = ack
  BY DEF AckRead
<1>1. ack \in Acknowledgement
  <2>1. (delivery[m][p] = None) \in BOOLEAN OBVIOUS
  <2> QED BY <2>1 DEF Acknowledgement
<1>2. delivery[m][p] # None => s = "read"
  BY <1>0, RowType DEF IInv, NoneSent, Raises, Rank, Status
<1>3. UNCHANGED <<posted, live, delivery, late, page, shown, answer, frames, telling>>
  BY DEF AckRead, tables, client, history
<1> HIDE DEF ack
<1>4. TypeOK' BY <1>0, <1>1 DEF AckRead, IInv, TypeOK, tables, client, history
<1>5. AckTrue'
  BY <1>0, <1>2, <1>3 DEF AckTrue, ack
<1> QED BY <1>3, <1>4, <1>5, QuietStep DEF IInv

LEMMA AckFailsOK == ASSUME IInv, AckFails PROVE IInv' /\ Grows
<1>1. UNCHANGED <<posted, live, delivery, late, page, shown, answer, frames, telling>>
  BY DEF AckFails, tables, client, history
<1>2. TypeOK' BY DEF AckFails, IInv, TypeOK, tables, client, history
<1>3. AckTrue' BY DEF AckFails, AckTrue
<1> QED BY <1>1, <1>2, <1>3, QuietStep DEF IInv

LEMMA AckCommitOK == ASSUME IInv, NEW p \in Peer, NEW m \in Id, AckCommit(p, m) PROVE IInv' /\ Grows
<1> DEFINE s == acking.status
<1>0. /\ m \in live /\ m \in 1..posted /\ s \in {"delivered", "read"} /\ s \in Status /\ s # None
      /\ delivery[m][p] # None => s = "read" /\ late' = late
      /\ delivery[m][p] = None => late' = late \union {m}
      /\ telling' = [telling EXCEPT ![p] = [message |-> m, status |-> None]]
      /\ acking' = None
      /\ UNCHANGED <<posted, live, page, shown, answer, frames>>
      /\ posted' \in posted..MaxMessages
  <2>1. acking # None /\ acking \in Acknowledgement /\ acking.peer = p /\ acking.message = m
    BY DEF AckCommit, IInv, TypeOK
  <2>2. m \in live /\ (~acking.insert => delivery[m][p] # None /\ s = "read")
    BY <2>1 DEF IInv, AckTrue
  <2>3. m \in 1..posted BY <2>2, IdFacts DEF IInv
  <2>4. s \in {"delivered", "read"} /\ s \in Status /\ s # None
    BY <2>1, MessagesAssumption DEF Acknowledgement, Status
  <2>5. posted' \in posted..MaxMessages
    BY MessagesAssumption DEF AckCommit, IInv, TypeOK
  <2>6. /\ acking.insert => delivery[m][p] = None
        /\ late' = IF acking.insert THEN late \union {m} ELSE late
    BY DEF AckCommit
  <2>7. /\ telling' = [telling EXCEPT ![p] = [message |-> m, status |-> None]]
        /\ acking' = None
        /\ UNCHANGED <<posted, live, page, shown, answer, frames>>
    BY DEF AckCommit, client
  <2> HIDE DEF s
  <2> QED BY <2>2, <2>3, <2>4, <2>5, <2>6, <2>7
<1>1. \A n \in Id, q \in Peer :
        delivery'[n][q] = IF n = m /\ q = p THEN s ELSE delivery[n][q]
  BY DEF AckCommit, IInv, TypeOK
<1> HIDE DEF s
<1>2. TypeOK'
  <2>1. delivery' \in [Id -> [Peer -> Status \union {None}]]
    BY <1>0 DEF AckCommit, IInv, TypeOK, s
  <2>2. [message |-> m, status |-> None] \in StatusEvent BY DEF StatusEvent
  <2>3. telling' \in [Peer -> StatusEvent \union {None}] BY <1>0, <2>2 DEF IInv, TypeOK
  <2> QED BY <1>0, <2>1, <2>3 DEF AckCommit, IInv, TypeOK, client
<1>3. Grows
  <2> SUFFICES ASSUME NEW n \in live, NEW q \in Peer, delivery[n][q] # None
               PROVE  /\ delivery'[n][q] # None
                      /\ Rank(delivery'[n][q]) >= Rank(delivery[n][q])
    BY <1>0 DEF Grows
  <2>1. n \in Id BY IdFacts DEF IInv
  <2>2. delivery[n][q] \in Status BY <2>1, RowType DEF IInv
  <2>3. Rank(delivery[n][q]) \in 0..2 /\ Rank("read") = 2 BY <2>2, RankType DEF Rank
  <2>4. CASE n = m /\ q = p BY <1>0, <1>1, <2>1, <2>3, <2>4
  <2>5. CASE ~(n = m /\ q = p)
    <3>1. delivery'[n][q] = delivery[n][q] BY <1>1, <2>1, <2>5
    <3> QED BY <2>3, <3>1
  <2> QED BY <2>4, <2>5
<1>4. Carries
  <2>1. ASSUME NEW n \in 1..posted, n \in live' \ late'
        PROVE  /\ n \in live \ late
               /\ \A q \in Peer : delivery'[n][q] # None => delivery[n][q] # None
    <3>1. n \in live \ late /\ (n = m => delivery[m][p] # None) BY <1>0, <2>1
    <3>2. n \in Id BY IdFacts DEF IInv
    <3> QED BY <1>1, <3>1, <3>2
  <2> QED BY <1>2, <1>3, <2>1, Carrying DEF IInv
<1>5. ShownTrue' /\ AnswerTrue' /\ FramesTrue' BY <1>0, <1>4, Kept
<1>6. TellingTrue'
  <2> SUFFICES ASSUME NEW q \in Peer, telling'[q] # None,
                      NEW n, n = telling'[q].message, NEW v, v = telling'[q].status
               PROVE  n \in 1..posted' /\ (v # None => NotAhead(n, v)')
    BY DEF TellingTrue
  <2>1. CASE q = p
    <3>1. telling'[q] = [message |-> m, status |-> None] BY <1>0, <2>1 DEF IInv, TypeOK
    <3> QED BY <1>0, <3>1
  <2>2. CASE q # p
    <3>1. telling'[q] = telling[q] BY <1>0, <2>2 DEF IInv, TypeOK
    <3>2. telling[q] \in StatusEvent BY <3>1 DEF IInv, TypeOK
    <3>3. n \in Id /\ v \in Status \union {None} BY <3>1, <3>2 DEF StatusEvent
    <3>4. n \in 1..posted' BY <1>0, <3>1 DEF IInv, TellingTrue
    <3> QED BY <1>0, <1>4, <3>1, <3>3, <3>4, Carried
  <2> QED BY <2>1, <2>2
<1>7. Updatable' BY <1>0, <1>3, PagesKept
<1>8. NoneSent' BY <1>0, <1>1 DEF IInv, NoneSent
<1>9. AckTrue' BY <1>0 DEF AckTrue
<1> QED BY <1>2, <1>3, <1>5, <1>6, <1>7, <1>8, <1>9 DEF IInv

LEMMA AckSumOK == ASSUME IInv, NEW p \in Peer, AckSum(p) PROVE IInv' /\ Grows
<1> DEFINE m == telling[p].message
           sum == Aggregate(delivery[m])
<1>0. telling[p] # None /\ telling[p] \in StatusEvent /\ m \in Id /\ m \in 1..posted
  BY DEF AckSum, Summing, IInv, TypeOK, TellingTrue, StatusEvent
<1>1. sum \in Status /\ NotAhead(m, sum) BY <1>0, Summed DEF IInv
<1>2. telling' = [telling EXCEPT ![p] = [message |-> m, status |-> sum]]
  <2>1. telling' = [telling EXCEPT ![p] = [telling[p] EXCEPT !.status = sum]]
    BY DEF AckSum
  <2> HIDE DEF sum
  <2>2. [telling[p] EXCEPT !.status = sum] = [message |-> m, status |-> sum]
    BY <1>0 DEF StatusEvent
  <2> QED BY <2>1, <2>2
<1>3. TypeOK'
  <2>1. [message |-> m, status |-> sum] \in StatusEvent BY <1>0, <1>1 DEF StatusEvent
  <2> HIDE DEF m, sum
  <2>2. telling' \in [Peer -> StatusEvent \union {None}] BY <1>2, <2>1 DEF IInv, TypeOK
  <2> QED BY <2>2 DEF AckSum, IInv, TypeOK, tables, client, history
<1>4. UNCHANGED <<posted, live, delivery, late, page, shown, answer, frames, acking>>
  BY DEF AckSum, tables, client, history
<1>5. TellingTrue'
  <2> SUFFICES ASSUME NEW q \in Peer, telling'[q] # None
               PROVE  /\ telling'[q].message \in 1..posted
                      /\ telling'[q].status # None =>
                            NotAhead(telling'[q].message, telling'[q].status)
    BY <1>4 DEF TellingTrue, NotAhead
  <2>1. CASE q = p
    <3>1. telling'[q] = [message |-> m, status |-> sum] BY <1>2, <2>1 DEF IInv, TypeOK
    <3> HIDE DEF m, sum
    <3> QED BY <1>0, <1>1, <3>1
  <2>2. CASE q # p
    <3>1. telling'[q] = telling[q] BY <1>2, <2>2 DEF IInv, TypeOK
    <3> QED BY <3>1 DEF IInv, TellingTrue
  <2> QED BY <2>1, <2>2
<1> QED BY <1>3, <1>4, <1>5, QuietStep DEF IInv

LEMMA EditOK == ASSUME IInv, NEW m \in Id, Edit(m) PROVE IInv' /\ Grows
<1> DEFINE f0 == [kind |-> "message", message |-> m, status |-> Aggregate(delivery[m])]
<1>0. m \in 1..posted /\ m <= posted BY IdFacts DEF Edit, IInv
<1>1. Aggregate(delivery[m]) \in Status /\ NotAhead(m, Aggregate(delivery[m])) BY Summed DEF IInv
<1>2. frames' = frames \union {f0} BY DEF Edit
<1>3. TypeOK'
  <2>1. f0 \in Frame BY <1>1 DEF Frame
  <2>2. frames' \subseteq Frame BY <1>2, <2>1 DEF IInv, TypeOK
  <2> QED BY <2>2 DEF Edit, IInv, TypeOK, tables, requests, history
<1>4. UNCHANGED <<posted, live, delivery, late, page, shown, answer, telling, acking>>
  BY DEF Edit, tables, requests, history
<1>5. FramesTrue'
  <2> SUFFICES ASSUME NEW f \in frames'
               PROVE  /\ f.message <= posted
                      /\ f.kind # "message_deleted" => NotAhead(f.message, f.status)
    BY <1>4 DEF FramesTrue, NotAhead
  <2>1. CASE f \in frames BY <2>1 DEF IInv, FramesTrue
  <2>2. CASE f = f0 BY <1>0, <1>1, <2>2
  <2> QED BY <1>2, <2>1, <2>2
<1> QED BY <1>3, <1>4, <1>5, QuietStep DEF IInv

LEMMA DeleteOK == ASSUME IInv, NEW m \in Id, Delete(m) PROVE IInv' /\ Grows
<1> DEFINE f0 == [kind |-> "message_deleted", message |-> m]
<1>0. /\ m \in 1..posted /\ m <= posted /\ live' = live \ {m}
      /\ frames' = frames \union {f0}
      /\ UNCHANGED <<posted, late, page, shown, answer, telling>>
      /\ acking = None /\ acking' = None
      /\ posted' \in posted..MaxMessages
  BY IdFacts, MessagesAssumption DEF Delete, LoopFree, IInv, TypeOK, requests, history
<1>1. \A n \in Id, q \in Peer : delivery'[n][q] = IF n = m THEN None ELSE delivery[n][q]
  BY DEF Delete, IInv, TypeOK
<1>2. TypeOK'
  <2>1. delivery' \in [Id -> [Peer -> Status \union {None}]] BY DEF Delete, IInv, TypeOK
  <2>2. hidden' \subseteq live' \X Peer BY <1>0 DEF Delete, IInv, TypeOK
  <2>3. f0 \in Frame BY DEF Frame
  <2>4. frames' \subseteq Frame BY <1>0, <2>3 DEF IInv, TypeOK
  <2> QED BY <1>0, <2>1, <2>2, <2>4 DEF Delete, IInv, TypeOK, requests, history
<1>3. Grows
  <2> SUFFICES ASSUME NEW n \in live', NEW q \in Peer, delivery[n][q] # None
               PROVE  /\ delivery'[n][q] # None
                      /\ Rank(delivery'[n][q]) >= Rank(delivery[n][q])
    BY DEF Grows
  <2>1. n \in Id /\ n # m BY <1>0, IdFacts DEF IInv
  <2>2. delivery[n][q] \in Status BY <2>1, RowType DEF IInv
  <2>3. delivery'[n][q] = delivery[n][q] BY <1>1, <2>1
  <2> QED BY <2>2, <2>3, RankType
<1>4. Carries
  <2>1. ASSUME NEW n \in 1..posted, n \in live' \ late'
        PROVE  /\ n \in live \ late
               /\ \A q \in Peer : delivery'[n][q] # None => delivery[n][q] # None
    <3>1. n \in live \ late BY <1>0, <2>1
    <3>2. n \in Id BY IdFacts DEF IInv
    <3> QED BY <1>1, <3>1, <3>2
  <2> QED BY <1>2, <1>3, <2>1, Carrying DEF IInv
<1>5. ShownTrue' /\ AnswerTrue' /\ TellingTrue' BY <1>0, <1>4, Kept
<1>6. FramesTrue'
  <2> SUFFICES ASSUME NEW f \in frames'
               PROVE  /\ f.message <= posted'
                      /\ f.kind # "message_deleted" => NotAhead(f.message, f.status)'
    BY DEF FramesTrue
  <2>1. CASE f \in frames BY <1>0, <1>4, <2>1, Carried
  <2>2. CASE f = f0 BY <1>0, <2>2
  <2> QED BY <1>0, <2>1, <2>2
<1>7. Updatable' BY <1>0, <1>3, PagesKept
<1>8. NoneSent' BY <1>1, NoneIsNoStatus DEF IInv, NoneSent, Status
<1>9. AckTrue' BY <1>0 DEF AckTrue
<1> QED BY <1>2, <1>3, <1>5, <1>6, <1>7, <1>8, <1>9 DEF IInv

\* Hiding and clearing touch neither rows nor what is shown.
LEMMA HidingOK ==
    ASSUME IInv, NEW p \in Peer,
           \/ \E m \in Id : Hide(p, m)
           \/ ClearRead(p) \/ ClearCommit(p) \/ ClearFails(p)
    PROVE  IInv' /\ Grows
<1>0. live \subseteq Id /\ Visible(p) \subseteq live BY IdFacts DEF IInv, Visible
<1>1. TypeOK'
  <2>1. CASE \E m \in Id : Hide(p, m)
    BY <1>0, <2>1 DEF Hide, IInv, TypeOK, requests, client, history
  <2>2. CASE ClearRead(p)
    BY <1>0, <2>2 DEF ClearRead, IInv, TypeOK, tables, client, history
  <2>3. CASE ClearCommit(p)
    <3>1. hidden' \subseteq live \X Peer BY <1>0, <2>3 DEF ClearCommit, IInv, TypeOK
    <3>2. clearing' \in [Peer -> SUBSET Id] BY <2>3 DEF ClearCommit, IInv, TypeOK
    <3> QED BY <2>3, <3>1, <3>2 DEF ClearCommit, IInv, TypeOK, client, history
  <2>4. CASE ClearFails(p)
    BY <2>4 DEF ClearFails, IInv, TypeOK, tables, client, history
  <2> QED BY <2>1, <2>2, <2>3, <2>4
<1>2. UNCHANGED <<posted, live, delivery, late, page, shown, answer, frames, telling, acking>>
  BY DEF Hide, ClearRead, ClearCommit, ClearFails, tables, requests, client, history
<1> QED BY <1>1, <1>2, QuietStep DEF IInv

LEMMA StatusArrivesOK == ASSUME IInv, NEW p \in Peer, StatusArrives(p) PROVE IInv' /\ Grows
<1> DEFINE m == telling[p].message
           s == telling[p].status
<1>0. /\ m \in Id /\ m \in 1..posted /\ m <= posted /\ s \in Status /\ NotAhead(m, s)
      /\ shown' = (IF shown[m] = None THEN shown ELSE [shown EXCEPT ![m] = s])
  BY MessagesAssumption
     DEF StatusArrives, Summing, IInv, TypeOK, TellingTrue, StatusEvent
<1>1. shown' \in Statuses BY <1>0 DEF IInv, TypeOK, Statuses
<1>2. \A q \in Peer : telling'[q] # None => telling'[q] = telling[q]
  BY DEF StatusArrives, IInv, TypeOK
<1>3. TypeOK'
  <2>1. telling' \in [Peer -> StatusEvent \union {None}] BY DEF StatusArrives, IInv, TypeOK
  <2> QED BY <1>1, <2>1 DEF StatusArrives, IInv, TypeOK, tables, history
<1>4. UNCHANGED <<posted, live, delivery, late, page, answer, frames, acking>>
  BY DEF StatusArrives, tables, history
<1>5. ShownTrue'
  <2> SUFFICES ASSUME NEW n \in Id, shown'[n] # None
               PROVE  n <= posted /\ NotAhead(n, shown'[n])
    BY <1>4 DEF ShownTrue, NotAhead
  <2>1. shown'[n] = shown[n] \/ (n = m /\ shown'[n] = s)
    BY <1>0 DEF IInv, TypeOK, Statuses
  <2> HIDE DEF m, s
  <2> QED BY <1>0, <2>1 DEF IInv, ShownTrue
<1>6. TellingTrue'
  <2> SUFFICES ASSUME NEW q \in Peer, telling'[q] # None
               PROVE  /\ telling'[q].message \in 1..posted
                      /\ telling'[q].status # None =>
                            NotAhead(telling'[q].message, telling'[q].status)
    BY <1>4 DEF TellingTrue, NotAhead
  <2> QED BY <1>2 DEF IInv, TellingTrue
<1> QED BY <1>3, <1>4, <1>5, <1>6, QuietStep DEF IInv

LEMMA FrameArrivesOK == ASSUME IInv, NEW f \in frames, FrameArrives(f) PROVE IInv' /\ Grows
<1> DEFINE s == IF f.kind = "message_deleted" THEN None ELSE f.status
<1>0. /\ f.message \in Id /\ f.message <= posted /\ s \in Status \union {None}
      /\ s # None => NotAhead(f.message, s)
      /\ shown' = [shown EXCEPT ![f.message] = s]
  <2>1. f \in Frame BY DEF IInv, TypeOK
  <2> QED BY <2>1, MessagesAssumption DEF FrameArrives, Frame, IInv, FramesTrue
<1>1. TypeOK'
  <2>1. shown' \in Statuses BY <1>0 DEF IInv, TypeOK, Statuses
  <2> QED BY <2>1 DEF FrameArrives, IInv, TypeOK, tables, requests, history
<1>2. UNCHANGED <<posted, live, delivery, late, page, answer, telling, acking>> /\ frames' \subseteq frames
  BY DEF FrameArrives, tables, requests, history
<1>3. ShownTrue'
  <2> SUFFICES ASSUME NEW n \in Id, shown'[n] # None
               PROVE  n <= posted /\ NotAhead(n, shown'[n])
    BY <1>2 DEF ShownTrue, NotAhead
  <2>1. shown'[n] = shown[n] \/ (n = f.message /\ shown'[n] = s)
    BY <1>0 DEF IInv, TypeOK, Statuses
  <2> HIDE DEF s
  <2> QED BY <1>0, <2>1 DEF IInv, ShownTrue
<1>4. FramesTrue' BY <1>2 DEF IInv, FramesTrue, NotAhead
<1> QED BY <1>1, <1>2, <1>3, <1>4, QuietStep DEF IInv

LEMMA LoadServedOK == ASSUME IInv, LoadServed PROVE IInv' /\ Grows
<1> DEFINE a == [m \in Id |-> IF m \in live THEN Aggregate(delivery[m]) ELSE None]
<1>0. a \in Statuses /\ answer' = a BY Summed DEF LoadServed, IInv, Statuses
<1>1. TypeOK' BY <1>0 DEF LoadServed, IInv, TypeOK, tables, requests, history
<1>2. UNCHANGED <<posted, live, delivery, late, page, shown, frames, telling, acking>>
  BY DEF LoadServed, tables, requests, history
<1>3. AnswerTrue'
  <2> SUFFICES ASSUME NEW m \in Id, answer'[m] # None
               PROVE  m <= posted /\ NotAhead(m, answer'[m])
    BY <1>2 DEF AnswerTrue, NotAhead
  <2>1. m \in live /\ answer'[m] = Aggregate(delivery[m]) BY <1>0
  <2>2. m <= posted BY <2>1, IdFacts DEF IInv
  <2>3. NotAhead(m, Aggregate(delivery[m])) BY Summed DEF IInv
  <2> QED BY <2>1, <2>2, <2>3
<1> QED BY <1>1, <1>2, <1>3, QuietStep DEF IInv

LEMMA LoadArrivesOK == ASSUME IInv, LoadArrives PROVE IInv' /\ Grows
<1>0. answer # None /\ answer \in Statuses /\ answer' = None /\ shown' = answer
  BY DEF LoadArrives, IInv, TypeOK
<1>1. TypeOK' BY <1>0 DEF LoadArrives, IInv, TypeOK, tables, requests, history
<1>2. UNCHANGED <<posted, live, delivery, late, page, frames, telling, acking>>
  BY DEF LoadArrives, tables, requests, history
<1>3. ShownTrue' /\ AnswerTrue'
  <2>1. AnswerTrue' BY <1>0 DEF AnswerTrue
  <2> SUFFICES ASSUME NEW m \in Id, answer[m] # None
               PROVE  m <= posted /\ NotAhead(m, answer[m])
    BY <1>0, <1>2, <2>1 DEF ShownTrue, NotAhead
  <2> QED BY <1>0 DEF IInv, AnswerTrue
<1> QED BY <1>1, <1>2, <1>3, QuietStep DEF IInv

LEMMA StutterOK == ASSUME IInv, UNCHANGED vars PROVE IInv' /\ Grows
<1>1. UNCHANGED <<posted, live, delivery, late, page, shown, answer, frames, telling, acking>>
  BY DEF vars, tables, requests, client, history
<1>2. TypeOK' BY DEF vars, tables, requests, client, history, IInv, TypeOK
<1> QED BY <1>1, <1>2, QuietStep DEF IInv

LEMMA StepOK == ASSUME IInv, [Next]_vars PROVE IInv' /\ Grows
<1>1. CASE Post BY <1>1, PostOK
<1>2. CASE LoadServed BY <1>2, LoadServedOK
<1>3. CASE LoadArrives BY <1>3, LoadArrivesOK
<1>9. CASE AckFails BY <1>9, AckFailsOK
<1>4. ASSUME NEW p \in Peer,
             \/ AddMember(p) \/ AckSum(p) \/ StatusArrives(p)
             \/ \E rows \in SUBSET Visible(p) : PageRead(p, rows)
             \/ PageCommit(p) \/ PageFails(p)
      PROVE  IInv' /\ Grows
  BY <1>4, AddMemberOK, AckSumOK, StatusArrivesOK, PageReadOK, PageCommitOK, PageFailsOK
<1>5. ASSUME NEW p \in Peer,
             \/ ClearRead(p) \/ ClearCommit(p) \/ ClearFails(p)
             \/ \E m \in Id :
                \/ Hide(p, m) \/ AckCommit(p, m)
                \/ \E s \in {"delivered", "read"} : AckRead(p, m, s)
      PROVE  IInv' /\ Grows
  BY <1>5, HidingOK, AckCommitOK, AckReadOK
<1>6. ASSUME NEW m \in Id, Edit(m) \/ Delete(m) PROVE IInv' /\ Grows
  BY <1>6, EditOK, DeleteOK
<1>7. ASSUME NEW f \in frames, FrameArrives(f) PROVE IInv' /\ Grows
  BY <1>7, FrameArrivesOK
<1>8. CASE UNCHANGED vars BY <1>8, StutterOK
<1> QED BY <1>1, <1>2, <1>3, <1>4, <1>5, <1>6, <1>7, <1>8, <1>9 DEF Next

-----------------------------------------------------------------------------
(* Theorems.                                                               *)

LEMMA Invariant == Spec => []IInv
<1>1. IInv /\ [Next]_vars => IInv' BY StepOK
<1> QED BY InitOK, <1>1, PTL DEF Spec

\* The state of the tables, the requests and the client is always of its type.
THEOREM TypeCorrect == Spec => []TypeOK
<1>1. IInv => TypeOK BY DEF IInv
<1> QED BY Invariant, <1>1, PTL

\* A delivery row never falls back or vanishes while its message exists.
THEOREM StatusSafe == Spec => StatusGrows
<1>1. IInv /\ [Next]_vars =>
        [\A m \in live \intersect live', p \in Peer :
            delivery[m][p] # None =>
                delivery'[m][p] # None /\ Rank(delivery'[m][p]) >= Rank(delivery[m][p])]_vars
  BY StepOK DEF Grows
<1> QED BY Invariant, <1>1, PTL DEF Spec, StatusGrows

\* The sender is never shown a status that some member has not reached.
THEOREM ShownSafe == Spec => []ShownIsNotAhead
<1>1. IInv => ShownIsNotAhead
  BY IdFacts DEF IInv, ShownTrue, NotAhead, ShownIsNotAhead
<1> QED BY Invariant, <1>1, PTL
=============================================================================

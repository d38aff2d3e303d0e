--------------------------- MODULE RealtimeProofs ---------------------------
(***************************************************************************)
(* Theorems about the realtime endpoint: the event log and its replay, and *)
(* after them the connections of a user and what his chats are told.       *)
(***************************************************************************)
EXTENDS RealtimeReplay, Presence, TLAPS

\* What the next frame can be: "ready", or an event the table holds.
FramesExist == Range(wire) \union Range(replay) \subseteq 0..log

\* The cursors of an open connection are ordered.
SessionOrdered == link = "open" => resume <= log /\ latest <= log

\* A cursor that is waiting to be saved was handled as well.
UnsavedWereSeen == unsaved \subseteq seen

\* A dialing connection carries a cursor the client has met.
ResumeWasSeen == resume \in seen \union {0}

IInv ==
    /\ TypeOK
    /\ FramesExist
    /\ SessionOrdered
    /\ UnsavedWereSeen
    /\ ResumeWasSeen
    /\ SessionComplete
    /\ CursorsWereSeen

-----------------------------------------------------------------------------
(* Sequences and their ranges.                                             *)

\* Appending a frame adds it to the frames under way, and nothing else.
LEMMA RangeAppend ==
    ASSUME NEW s \in Seq(Frame), NEW f \in Frame
    PROVE  Append(s, f) \in Seq(Frame) /\ Range(Append(s, f)) = Range(s) \union {f}
<1>1. Append(s, f) \in Seq(Frame) /\ Len(Append(s, f)) = Len(s) + 1
  OBVIOUS
<1>2. DOMAIN Append(s, f) = 1..(Len(s) + 1) /\ DOMAIN s = 1..Len(s) /\ Len(s) \in Nat
  BY <1>1
<1>3. \A i \in 1..Len(s) : Append(s, f)[i] = s[i]
  OBVIOUS
<1>4. Append(s, f)[Len(s) + 1] = f
  OBVIOUS
<1>5. Range(Append(s, f)) \subseteq Range(s) \union {f}
  BY <1>2, <1>3, <1>4 DEF Range
<1>6. Range(s) \subseteq Range(Append(s, f))
  BY <1>2, <1>3 DEF Range
<1>7. f \in Range(Append(s, f))
  BY <1>2, <1>4 DEF Range
<1>. QED  BY <1>1, <1>5, <1>6, <1>7

\* Taking the first frame off leaves the others.
LEMMA RangeTail ==
    ASSUME NEW s \in Seq(Frame), s # <<>>
    PROVE  /\ Tail(s) \in Seq(Frame) /\ Head(s) \in Frame
           /\ Range(s) = Range(Tail(s)) \union {Head(s)}
<1>1. /\ Tail(s) \in Seq(Frame) /\ Len(Tail(s)) = Len(s) - 1
      /\ Head(s) \in Frame /\ Head(s) = s[1] /\ Len(s) \in Nat \ {0}
  OBVIOUS
<1>2. DOMAIN Tail(s) = 1..(Len(s) - 1) /\ DOMAIN s = 1..Len(s)
  BY <1>1
<1>3. \A i \in 1..(Len(s) - 1) : Tail(s)[i] = s[i + 1]
  BY <1>1
<1>4. Range(Tail(s)) \subseteq Range(s)
  <2>1. SUFFICES ASSUME NEW i \in 1..(Len(s) - 1) PROVE Tail(s)[i] \in Range(s)
    BY <1>2 DEF Range
  <2>2. i + 1 \in 1..Len(s)
    BY <1>1
  <2>. QED  BY <1>2, <1>3, <2>2 DEF Range
<1>5. Range(s) \subseteq Range(Tail(s)) \union {Head(s)}
  <2>1. SUFFICES ASSUME NEW i \in 1..Len(s), i # 1 PROVE s[i] \in Range(Tail(s))
    BY <1>1, <1>2 DEF Range
  <2>2. i - 1 \in 1..(Len(s) - 1) /\ (i - 1) + 1 = i
    BY <1>1, <2>1
  <2>3. Tail(s)[i - 1] = s[i]
    BY <1>3, <2>2
  <2>. QED  BY <1>2, <2>2, <2>3 DEF Range
<1>6. Head(s) \in Range(s)
  BY <1>1, <1>2 DEF Range
<1>. QED  BY <1>1, <1>4, <1>5, <1>6

\* A backlog that fits the limit holds every event after the resume cursor.
LEMMA BacklogComplete ==
    ASSUME log \in Nat, resume \in Nat, resume <= log
    PROVE  /\ Backlog \in Seq(Frame)
           /\ Range(Backlog) \subseteq 0..log
           /\ log - resume <= Limit => (resume + 1)..log \subseteq Range(Backlog)
<1>. DEFINE n == IF log - resume > Limit THEN Limit ELSE log - resume
<1>1. n \in Nat /\ n <= log - resume /\ (log - resume <= Limit => n = log - resume)
  BY ReplayAssumption
<1>2. Backlog = [i \in 1..n |-> resume + i]
  BY DEF Backlog
<1>. HIDE DEF n
<1>3. Backlog \in Seq(Frame)
  BY <1>1, <1>2 DEF Frame
<1>4. Range(Backlog) = {resume + i : i \in 1..n}
  BY <1>2 DEF Range
<1>5. Range(Backlog) \subseteq 0..log
  BY <1>1, <1>4
<1>6. ASSUME log - resume <= Limit, NEW e \in (resume + 1)..log
      PROVE  e \in Range(Backlog)
  <2>1. e - resume \in 1..n /\ e = resume + (e - resume)
    BY <1>1, <1>6
  <2>. QED  BY <1>4, <2>1
<1>. QED  BY <1>3, <1>5, <1>6

-----------------------------------------------------------------------------
(* Every action preserves IInv.                                            *)

LEMMA InitIInv == Init => IInv
<1>. SUFFICES ASSUME Init PROVE IInv
  OBVIOUS
<1>. USE DEF Init
<1>1. TypeOK
  BY DEF TypeOK, Frame
<1>2. Range(wire) = {} /\ Range(replay) = {}
  BY DEF Range
<1>. QED
  BY <1>1, <1>2 DEF IInv, FramesExist, SessionOrdered, UnsavedWereSeen, ResumeWasSeen,
     SessionComplete, CursorsWereSeen

LEMMA PersistStep == ASSUME IInv, Persist PROVE IInv'
<1>. USE DEF IInv, history, Persist, session, client
<1>1. log' = log + 1 /\ log \in Nat /\ 1..log \subseteq 1..(log + 1) /\ 0..log \subseteq 0..(log + 1)
  BY DEF TypeOK
<1>2. TypeOK'
  BY <1>1 DEF TypeOK
<1>3. FramesExist' /\ SessionOrdered'
  BY <1>1 DEF FramesExist, SessionOrdered, TypeOK
<1>4. SessionComplete'
  BY <1>1 DEF SessionComplete, InFlight, TypeOK
<1>5. (UnsavedWereSeen /\ ResumeWasSeen /\ CursorsWereSeen)'
  BY DEF UnsavedWereSeen, ResumeWasSeen, CursorsWereSeen
<1>. QED  BY <1>2, <1>3, <1>4, <1>5

LEMMA FanoutStep == ASSUME IInv, NEW e \in sending, Fanout(e) PROVE IInv'
<1>. USE DEF IInv, history, Fanout, client
<1>1. e \in 1..log /\ e \in Frame /\ log \in Nat
  BY DEF TypeOK, Frame
<1>2. wire' \in Seq(Frame) /\ Range(wire') = Range(wire) \union {e}
  BY <1>1, RangeAppend DEF TypeOK
<1>3. TypeOK'
  BY <1>2 DEF TypeOK
<1>4. FramesExist' /\ SessionOrdered'
  BY <1>1, <1>2 DEF FramesExist, SessionOrdered
<1>5. SessionComplete'
  BY <1>2 DEF SessionComplete, InFlight
<1>6. (UnsavedWereSeen /\ ResumeWasSeen /\ CursorsWereSeen)'
  BY DEF UnsavedWereSeen, ResumeWasSeen, CursorsWereSeen
<1>. QED  BY <1>3, <1>4, <1>5, <1>6

LEMMA FanoutNobodyStep == ASSUME IInv, NEW e \in sending, FanoutNobody(e) PROVE IInv'
<1>. USE DEF IInv, history, FanoutNobody, session, client
<1>1. TypeOK'
  BY DEF TypeOK
<1>2. (FramesExist /\ SessionOrdered /\ SessionComplete)'
  BY DEF FramesExist, SessionOrdered, SessionComplete
<1>3. (UnsavedWereSeen /\ ResumeWasSeen /\ CursorsWereSeen)'
  BY DEF UnsavedWereSeen, ResumeWasSeen, CursorsWereSeen
<1>. QED  BY <1>1, <1>2, <1>3

LEMMA FanoutAbortedStep == ASSUME IInv, NEW e \in sending, FanoutAborted(e) PROVE IInv'
<1>. USE DEF IInv, FanoutAborted, session, client
<1>1. e \in 1..log
  BY DEF TypeOK
<1>2. TypeOK'
  BY <1>1 DEF TypeOK
<1>3. (FramesExist /\ SessionOrdered)'
  BY DEF FramesExist, SessionOrdered
<1>4. SessionComplete'
  BY DEF SessionComplete, InFlight
<1>5. (UnsavedWereSeen /\ ResumeWasSeen /\ CursorsWereSeen)'
  BY DEF UnsavedWereSeen, ResumeWasSeen, CursorsWereSeen
<1>. QED  BY <1>2, <1>3, <1>4, <1>5

LEMMA AcceptStep == ASSUME IInv, Accept PROVE IInv'
<1>. USE DEF IInv, history, Accept, client
<1>1. log \in Nat /\ resume \in Nat /\ resume <= log
  BY DEF TypeOK, ResumeWasSeen
<1>2. /\ replay' \in Seq(Frame)
      /\ Range(replay') \subseteq 0..log
      /\ log - resume <= Limit => (resume + 1)..log \subseteq Range(replay')
  BY <1>1, BacklogComplete
<1>3. Ready \in Frame /\ Ready \in 0..log
  BY <1>1 DEF Ready, Frame
<1>4. wire' \in Seq(Frame) /\ Range(wire') = Range(wire) \union {Ready}
  BY <1>3, RangeAppend DEF TypeOK
<1>5. TypeOK'
  BY <1>1, <1>2, <1>4 DEF TypeOK
<1>6. FramesExist' /\ SessionOrdered'
  BY <1>1, <1>2, <1>3, <1>4 DEF FramesExist, SessionOrdered
<1>7. SessionComplete'
  BY <1>2 DEF SessionComplete, InFlight
<1>8. (UnsavedWereSeen /\ ResumeWasSeen /\ CursorsWereSeen)'
  BY DEF UnsavedWereSeen, ResumeWasSeen, CursorsWereSeen
<1>. QED  BY <1>5, <1>6, <1>7, <1>8

LEMMA ReplayStep == ASSUME IInv, Replay PROVE IInv'
<1>. USE DEF IInv, history, Replay, client
<1>1. /\ replay' \in Seq(Frame) /\ Head(replay) \in Frame
      /\ Range(replay) = Range(replay') \union {Head(replay)}
  BY RangeTail DEF TypeOK
<1>2. wire' \in Seq(Frame) /\ Range(wire') = Range(wire) \union {Head(replay)}
  BY <1>1, RangeAppend DEF TypeOK
<1>3. TypeOK'
  BY <1>1, <1>2 DEF TypeOK
<1>4. FramesExist' /\ SessionOrdered'
  BY <1>1, <1>2 DEF FramesExist, SessionOrdered
<1>5. SessionComplete'
  BY <1>1, <1>2 DEF SessionComplete, InFlight
<1>6. (UnsavedWereSeen /\ ResumeWasSeen /\ CursorsWereSeen)'
  BY DEF UnsavedWereSeen, ResumeWasSeen, CursorsWereSeen
<1>. QED  BY <1>3, <1>4, <1>5, <1>6

LEMMA DialStep == ASSUME IInv, Dial PROVE IInv'
<1>. USE DEF IInv, history, Dial, client
<1>1. TypeOK'
  BY DEF TypeOK
<1>2. (FramesExist /\ SessionOrdered /\ SessionComplete)'
  BY DEF FramesExist, SessionOrdered, SessionComplete
<1>3. (UnsavedWereSeen /\ ResumeWasSeen /\ CursorsWereSeen)'
  BY DEF UnsavedWereSeen, ResumeWasSeen, CursorsWereSeen
<1>. QED  BY <1>1, <1>2, <1>3

LEMMA ReceiveStep == ASSUME IInv, Receive PROVE IInv'
<1>. USE DEF IInv, history, Receive
<1>. DEFINE f == Head(wire)
<1>1. /\ wire' \in Seq(Frame) /\ f \in Frame
      /\ Range(wire) = Range(wire') \union {f}
  BY RangeTail DEF TypeOK
<1>2. f \in 0..log /\ log \in Nat
  BY <1>1 DEF FramesExist, TypeOK
<1>3. seen' = seen \union ({f} \ {0})
  BY DEF Ready
<1>. HIDE DEF f
<1>4. /\ cursor' \in {cursor, f} /\ unsaved' \subseteq unsaved \union {f}
      /\ f = 0 => UNCHANGED <<cursor, unsaved>>
  BY <1>1 DEF Capture, TypeOK, Frame, f
<1>5. TypeOK'
  <2>1. seen' \subseteq 1..log
    <3>1. f = 0 \/ f \in 1..log
      BY <1>2
    <3>2. seen \subseteq 1..log
      BY DEF TypeOK
    <3>. QED  BY <1>3, <3>1, <3>2, Zenon
  <2>2. cursor' \in Nat /\ unsaved' \subseteq Nat
    BY <1>2, <1>4 DEF TypeOK
  <2>. QED  BY <1>1, <2>1, <2>2 DEF TypeOK
<1>6. FramesExist' /\ SessionOrdered'
  BY <1>1 DEF FramesExist, SessionOrdered
<1>7. SessionComplete'
  <2>1. SUFFICES ASSUME link = "open", latest - resume <= Limit, NEW e \in (resume + 1)..log
                 PROVE  e \in seen' \union InFlight' \union aborted
    BY DEF SessionComplete
  <2>2. e # 0 /\ e \in seen \union InFlight \union aborted
    BY <2>1 DEF SessionComplete, TypeOK
  <2>. QED  BY <1>1, <1>3, <2>2 DEF InFlight
<1>8. (UnsavedWereSeen /\ ResumeWasSeen /\ CursorsWereSeen)'
  BY <1>3, <1>4 DEF UnsavedWereSeen, ResumeWasSeen, CursorsWereSeen
<1>. QED  BY <1>5, <1>6, <1>7, <1>8

LEMMA SaveStep == ASSUME IInv, NEW c \in unsaved, Save(c) PROVE IInv'
<1>. USE DEF IInv, history, Save, session
<1>1. saved' \in {saved, c}
  OBVIOUS
<1>2. TypeOK'
  BY <1>1 DEF TypeOK
<1>3. (FramesExist /\ SessionOrdered /\ SessionComplete)'
  BY DEF FramesExist, SessionOrdered, SessionComplete, InFlight
<1>4. (UnsavedWereSeen /\ ResumeWasSeen /\ CursorsWereSeen)'
  BY <1>1 DEF UnsavedWereSeen, ResumeWasSeen, CursorsWereSeen
<1>. QED  BY <1>2, <1>3, <1>4

\* The three ways to lose the connection differ in what the ends forget.
LEMMA HangUpStep ==
    ASSUME IInv, HangUp, UNCHANGED <<log, saved, seen, aborted>>,
           sending' \subseteq sending, unsaved' \subseteq unsaved,
           cursor' \in {cursor, saved}, dials' \in Nat, faults' \in Nat
    PROVE  IInv'
<1>. USE DEF IInv, HangUp
<1>1. wire' \in Seq(Frame) /\ replay' \in Seq(Frame) /\ Range(wire') = {} /\ Range(replay') = {}
  BY DEF Range
<1>2. TypeOK'
  BY <1>1 DEF TypeOK
<1>3. (FramesExist /\ SessionOrdered /\ SessionComplete)'
  BY <1>1 DEF FramesExist, SessionOrdered, SessionComplete
<1>4. (UnsavedWereSeen /\ ResumeWasSeen /\ CursorsWereSeen)'
  BY DEF UnsavedWereSeen, ResumeWasSeen, CursorsWereSeen
<1>. QED  BY <1>2, <1>3, <1>4

LEMMA FailureStep == ASSUME IInv, Drop \/ Restart \/ Crash PROVE IInv'
<1>1. /\ HangUp /\ UNCHANGED <<log, saved, seen, aborted>>
      /\ sending' \subseteq sending /\ unsaved' \subseteq unsaved
      /\ cursor' \in {cursor, saved} /\ dials' \in Nat /\ faults' \in Nat
  BY DEF IInv, TypeOK, Drop, Restart, Crash, client, history
<1>. QED  BY <1>1, HangUpStep

-----------------------------------------------------------------------------
(* The theorems.                                                           *)

LEMMA NextIInv == IInv /\ [Next]_vars => IInv'
<1>. SUFFICES ASSUME IInv, [Next]_vars PROVE IInv'
  OBVIOUS
<1>1. ASSUME UNCHANGED vars PROVE IInv'
  BY <1>1 DEF vars, session, client, history, IInv, TypeOK, FramesExist, SessionOrdered,
     UnsavedWereSeen, ResumeWasSeen, SessionComplete, CursorsWereSeen, InFlight
<1>2. ASSUME Persist \/ Accept \/ Replay \/ Dial \/ Receive PROVE IInv'
  BY <1>2, PersistStep, AcceptStep, ReplayStep, DialStep, ReceiveStep
<1>3. ASSUME NEW e \in sending, Fanout(e) \/ FanoutNobody(e) \/ FanoutAborted(e)
      PROVE  IInv'
  BY <1>3, FanoutStep, FanoutNobodyStep, FanoutAbortedStep
<1>4. ASSUME NEW c \in unsaved, Save(c) PROVE IInv'
  BY <1>4, SaveStep
<1>5. ASSUME Drop \/ Restart \/ Crash PROVE IInv'
  BY <1>5, FailureStep
<1>. QED  BY <1>1, <1>2, <1>3, <1>4, <1>5 DEF Next

\* IInv holds in every reachable state, for every limit and number of events.
THEOREM Inductive == Spec => []IInv
  BY InitIInv, NextIInv, PTL DEF Spec

\* Every variable keeps its type; a broadcast never carries an event that the
\* table does not hold.
THEOREM TypeCorrect == Spec => []TypeOK
<1>1. IInv => TypeOK
  BY DEF IInv
<1>. QED  BY <1>1, Inductive, PTL

\* On a connection that stays open no event after the resume cursor is lost but
\* by an aborted broadcast, however replay, live broadcasts and handling interleave.
THEOREM SessionSafe == Spec => []SessionComplete
<1>1. IInv => SessionComplete
  BY DEF IInv
<1>. QED  BY <1>1, Inductive, PTL

\* The cursor to resume from always belongs to an event the client handled.
THEOREM CursorSafe == Spec => []CursorsWereSeen
<1>1. IInv => CursorsWereSeen
  BY DEF IInv
<1>. QED  BY <1>1, Inductive, PTL

-----------------------------------------------------------------------------
(* Gaps.  NoGap fails, and these are the only reasons: a broadcast that    *)
(* goes before the backlog has been sent or before an older broadcast, one *)
(* that ends in an error, and a backlog that is cut off.  Without them the *)
(* client is a reader of the log that reads every event, in order, however *)
(* often it loses its connection, its process or the server.               *)

Orderly ==
    /\ \A e \in sending : Fanout(e) => replay = <<>> /\ \A d \in sending : e <= d
    /\ \A e \in sending : ~FanoutAborted(e)
    /\ Accept => log - resume <= Limit

\* How far the client has read.
Front == CHOOSE n \in 0..log : seen = 1..n

Reader == INSTANCE ReplicatedLog WITH read <- Front

\* A frame that the client may get once it knows these events.
Due(f, known) == f \in {Ready, 1} \/ f - 1 \in known

\* Frames that may come in this order.
Follows(s, known) ==
    \A i \in 1..Len(s) : Due(s[i], known) \/ \E j \in 1..(i - 1) : s[j] = s[i] - 1

\* What was handled is the beginning of the log.
Prefix == \E n \in 0..log : seen = 1..n

Quiet == link # "open" => wire = <<>> /\ replay = <<>>

Fits == aborted = {} /\ (link = "open" => latest - resume <= Limit)

InOrder ==
    /\ Follows(wire, seen)
    /\ Follows(replay, seen \union Range(wire))
    /\ link = "open" => \A e \in sending : Due(e, seen \union InFlight)

OrderInv == IInv /\ Prefix /\ Quiet /\ Fits /\ InOrder

LEMMA DueMore ==
    ASSUME NEW f \in Nat, NEW known, NEW more, Due(f, known), known \subseteq more \union {0}
    PROVE  Due(f, more)
BY DEF Due, Ready

LEMMA FollowsMore ==
    ASSUME NEW s \in Seq(Frame), NEW known, NEW more, Follows(s, known),
           known \subseteq more \union {0}
    PROVE  Follows(s, more)
<1> SUFFICES ASSUME NEW i \in 1..Len(s)
             PROVE  Due(s[i], more) \/ \E j \in 1..(i - 1) : s[j] = s[i] - 1
  BY DEF Follows
<1>1. s[i] \in Nat BY DEF Frame
<1>2. Due(s[i], known) \/ \E j \in 1..(i - 1) : s[j] = s[i] - 1 BY DEF Follows
<1> QED BY <1>1, <1>2, DueMore

LEMMA FollowsNone == \A known : Follows(<<>>, known)
BY DEF Follows

LEMMA FollowsAppend ==
    ASSUME NEW s \in Seq(Frame), NEW f \in Frame, NEW known, Follows(s, known),
           Due(f, known \union Range(s))
    PROVE  Follows(Append(s, f), known)
<1> DEFINE t == Append(s, f)
<1>1. /\ Len(t) = Len(s) + 1 /\ Len(s) \in Nat /\ t[Len(s) + 1] = f
      /\ \A i \in 1..Len(s) : t[i] = s[i]
  OBVIOUS
<1> HIDE DEF t
<1> SUFFICES ASSUME NEW i \in 1..Len(t)
             PROVE  Due(t[i], known) \/ \E j \in 1..(i - 1) : t[j] = t[i] - 1
  BY DEF Follows, t
<1>2. CASE i <= Len(s)
  <2>1. i \in 1..Len(s) /\ 1..(i - 1) \subseteq 1..Len(s) BY <1>1, <1>2
  <2>2. Due(s[i], known) \/ \E j \in 1..(i - 1) : s[j] = s[i] - 1 BY <2>1 DEF Follows
  <2> QED BY <1>1, <2>1, <2>2
<1>3. CASE i = Len(s) + 1
  <2>1. t[i] = f /\ i - 1 = Len(s) BY <1>1, <1>3
  <2>2. CASE f \in {Ready, 1} \/ f - 1 \in known BY <2>1, <2>2 DEF Due
  <2>3. CASE f - 1 \in Range(s)
    <3>1. PICK j \in 1..Len(s) : s[j] = f - 1 BY <2>3 DEF Range
    <3> QED BY <1>1, <2>1, <3>1
  <2> QED BY <2>2, <2>3 DEF Due
<1> QED BY <1>1, <1>2, <1>3

LEMMA FollowsTail ==
    ASSUME NEW s \in Seq(Frame), s # <<>>, NEW known, Follows(s, known)
    PROVE  Due(Head(s), known) /\ Follows(Tail(s), known \union {Head(s)})
<1> DEFINE t == Tail(s)
<1>1. /\ Len(t) = Len(s) - 1 /\ Len(s) \in Nat \ {0} /\ Head(s) = s[1]
      /\ \A i \in 1..(Len(s) - 1) : t[i] = s[i + 1]
  OBVIOUS
<1> HIDE DEF t
<1>2. Due(Head(s), known) BY <1>1 DEF Follows
<1>3. ASSUME NEW i \in 1..Len(t)
      PROVE  Due(t[i], known \union {Head(s)}) \/ \E j \in 1..(i - 1) : t[j] = t[i] - 1
  <2>1. i + 1 \in 1..Len(s) /\ t[i] = s[i + 1] BY <1>1
  <2>2. CASE Due(s[i + 1], known) BY <2>1, <2>2 DEF Due
  <2>3. ASSUME NEW j \in 1..i, s[j] = s[i + 1] - 1
        PROVE  Due(t[i], known \union {Head(s)}) \/ \E k \in 1..(i - 1) : t[k] = t[i] - 1
    <3>1. CASE j = 1 BY <1>1, <2>1, <2>3, <3>1 DEF Due
    <3>2. CASE j # 1
      <4>1. j - 1 \in 1..(i - 1) /\ t[j - 1] = s[j] BY <1>1, <2>3, <3>2
      <4> QED BY <2>1, <2>3, <4>1
    <3> QED BY <3>1, <3>2
  <2>4. (i + 1) - 1 = i BY <1>1
  <2>5. Due(s[i + 1], known) \/ \E j \in 1..((i + 1) - 1) : s[j] = s[i + 1] - 1
    BY <2>1 DEF Follows
  <2>6. Due(s[i + 1], known) \/ \E j \in 1..i : s[j] = s[i + 1] - 1
    BY <2>4, <2>5
  <2> QED BY <2>2, <2>3, <2>6
<1> QED BY <1>2, <1>3 DEF Follows, t

\* The backlog begins after an event that was handled and leaves out none.
LEMMA FollowsBacklog ==
    ASSUME log \in Nat, resume \in Nat, resume <= log, NEW known, resume \in known \union {0}
    PROVE  Follows(Backlog, known)
<1> DEFINE n == IF log - resume > Limit THEN Limit ELSE log - resume
<1>1. n \in Nat BY ReplayAssumption
<1>2. Backlog = [i \in 1..n |-> resume + i] BY DEF Backlog
<1> HIDE DEF n
<1>3. Len(Backlog) = n /\ \A i \in 1..n : Backlog[i] = resume + i BY <1>1, <1>2
<1> SUFFICES ASSUME NEW i \in 1..n
             PROVE  \/ Due(Backlog[i], known)
                    \/ \E j \in 1..(i - 1) : Backlog[j] = Backlog[i] - 1
  BY <1>3 DEF Follows
<1>4. CASE i = 1 BY <1>3, <1>4 DEF Due
<1>5. CASE i # 1
  <2>1. i - 1 \in 1..(i - 1) /\ i - 1 \in 1..n BY <1>1, <1>5
  <2> QED BY <1>3, <2>1
<1> QED BY <1>4, <1>5

LEMMA FrontIs ==
    ASSUME log \in Nat, NEW n \in 0..log, seen = 1..n
    PROVE  Front = n
<1>1. \A m \in 0..log : seen = 1..m => m = n
  <2> SUFFICES ASSUME NEW m \in 0..log, 1..m = 1..n PROVE m = n OBVIOUS
  <2>1. m > 0 => m \in 1..n BY DEF Front
  <2>2. n > 0 => n \in 1..m BY DEF Front
  <2> QED BY <2>1, <2>2
<1> QED BY <1>1 DEF Front

\* A step that leaves the connection and what was handled alone, or ends it.
LEMMA SameOrder ==
    ASSUME OrderInv, IInv', UNCHANGED <<log, seen, aborted>>, sending' \subseteq sending,
           \/ UNCHANGED <<link, resume, latest, replay, wire>> /\ sending' = sending
           \/ UNCHANGED <<replay, wire>> /\ link # "open" /\ link' # "open"
           \/ HangUp
    PROVE  OrderInv'
<1> USE DEF OrderInv
<1>1. Prefix' BY DEF Prefix
<1>2. Quiet' /\ Fits' BY DEF Quiet, Fits, HangUp
<1>3. CASE HangUp
  <2>1. InOrder' BY <1>3, FollowsNone DEF InOrder, HangUp
  <2> QED BY <1>1, <1>2, <2>1
<1>4. CASE UNCHANGED <<link, resume, latest, replay, wire>> /\ sending' = sending
  <2>1. InOrder' BY <1>4 DEF InOrder, InFlight, Follows
  <2> QED BY <1>1, <1>2, <2>1
<1>5. CASE UNCHANGED <<replay, wire>> /\ link # "open" /\ link' # "open"
  <2>1. InOrder' BY <1>5 DEF InOrder, Follows
  <2> QED BY <1>1, <1>2, <2>1
<1> QED BY <1>3, <1>4, <1>5

LEMMA PersistOrder == ASSUME OrderInv, IInv', Persist PROVE OrderInv'
<1> USE DEF OrderInv
<1>1. /\ log \in Nat /\ resume \in Nat /\ latest \in Nat /\ seen \subseteq 1..log
      /\ sending \subseteq 1..log
  BY DEF IInv, TypeOK
<1>2. /\ log' = log + 1 /\ sending' = sending \union {log + 1}
      /\ UNCHANGED <<link, resume, latest, replay, wire, seen, aborted>>
  BY DEF Persist, session, client, history
<1>3. Prefix' BY <1>1, <1>2 DEF Prefix
<1>4. Quiet' /\ Fits' BY <1>2 DEF Quiet, Fits
<1>5. ASSUME link = "open" PROVE Due(log + 1, seen \union InFlight)
  <2>1. resume <= log /\ resume \in seen \union {0} BY <1>5 DEF IInv, SessionOrdered, ResumeWasSeen
  <2>2. (resume + 1)..log \subseteq seen \union InFlight
    BY <1>5 DEF IInv, SessionComplete, Fits
  <2>3. log = 0 \/ log \in seen \union InFlight BY <1>1, <2>1, <2>2
  <2> QED BY <1>1, <2>3 DEF Due
<1>6. InOrder'
  <2>1. InFlight \subseteq InFlight' BY <1>2 DEF InFlight
  <2>2. ASSUME link = "open", NEW e \in sending' PROVE Due(e, seen \union InFlight')
    <3>1. Due(e, seen \union InFlight) /\ e \in Nat BY <1>1, <1>2, <1>5, <2>2 DEF InOrder
    <3> QED BY <2>1, <3>1, DueMore
  <2> QED BY <1>2, <2>2 DEF InOrder, Follows
<1> QED BY <1>3, <1>4, <1>6

LEMMA FanoutOrder ==
    ASSUME OrderInv, IInv', Orderly, NEW e \in sending, Fanout(e)
    PROVE  OrderInv'
<1> USE DEF OrderInv
<1>1. /\ log \in Nat /\ sending \subseteq 1..log /\ wire \in Seq(Frame) /\ e \in Frame
  BY DEF IInv, TypeOK, Frame
<1>2. /\ link = "open" /\ wire' = Append(wire, e) /\ sending' = sending \ {e}
      /\ UNCHANGED <<log, link, resume, latest, replay, seen, aborted>>
  BY DEF Fanout, client, history
<1>3. replay = <<>> /\ \A d \in sending : e <= d BY DEF Orderly
<1>4. Range(replay) = {} BY <1>3 DEF Range
<1>5. Range(wire') = Range(wire) \union {e} BY <1>1, <1>2, RangeAppend
<1>6. Due(e, seen \union Range(wire))
  <2>1. Due(e, seen \union InFlight) BY <1>2 DEF InOrder
  <2>2. e - 1 \notin sending BY <1>1, <1>3
  <2> QED BY <1>4, <2>1, <2>2 DEF Due, InFlight
<1>7. Prefix' BY <1>2 DEF Prefix
<1>8. Quiet' /\ Fits' BY <1>2 DEF Quiet, Fits
<1>9. InFlight' = InFlight BY <1>2, <1>4, <1>5 DEF InFlight
<1>10. Follows(wire', seen) BY <1>1, <1>2, <1>6, FollowsAppend DEF InOrder
<1>11. InOrder'
  <2>1. replay' = <<>> BY <1>2, <1>3
  <2>2. Follows(replay', seen' \union Range(wire')) BY <2>1, FollowsNone
  <2>3. \A d \in sending' : Due(d, seen' \union InFlight') BY <1>2, <1>9 DEF InOrder
  <2> QED BY <1>2, <1>10, <2>2, <2>3 DEF InOrder
<1> QED BY <1>7, <1>8, <1>11

LEMMA AcceptOrder == ASSUME OrderInv, IInv', Orderly, Accept PROVE OrderInv'
<1> USE DEF OrderInv
<1>1. /\ log \in Nat /\ resume \in Nat /\ resume <= log /\ sending \subseteq 1..log
      /\ resume \in seen \union {0}
  BY DEF IInv, TypeOK, ResumeWasSeen
<1>2. /\ link # "open" /\ link' = "open" /\ latest' = log /\ replay' = Backlog
      /\ wire' = Append(wire, Ready)
      /\ UNCHANGED <<log, sending, resume, seen, aborted>>
  BY DEF Accept, client, history
<1>3. log - resume <= Limit BY DEF Orderly
<1>4. wire = <<>> /\ wire \in Seq(Frame) /\ Ready \in Frame BY <1>2 DEF Quiet, Ready, Frame
<1>5. (resume + 1)..log \subseteq Range(replay') /\ replay' \in Seq(Frame)
  BY <1>1, <1>2, <1>3, BacklogComplete
<1>6. Prefix' BY <1>2 DEF Prefix
<1>7. Quiet' /\ Fits' BY <1>2, <1>3 DEF Quiet, Fits
<1>8. Follows(wire', seen) BY <1>2, <1>4, FollowsNone, FollowsAppend DEF Due
<1>9. Follows(replay', seen \union Range(wire')) BY <1>1, <1>2, FollowsBacklog
<1>10. ASSUME NEW e \in sending PROVE Due(e, seen \union InFlight')
  <2>1. PICK n \in 0..log : seen = 1..n BY DEF Prefix
  <2>2. e \in Nat /\ e >= 1 /\ e <= log BY <1>1
  <2>3. CASE e - 1 <= resume
    <3>1. resume <= n BY <1>1, <2>1
    <3>2. e = 1 \/ e - 1 \in 1..n BY <1>1, <2>1, <2>2, <2>3, <3>1
    <3> QED BY <2>1, <3>2 DEF Due
  <2>4. CASE e - 1 > resume
    <3>1. e - 1 \in (resume + 1)..log BY <1>1, <2>2, <2>4
    <3> QED BY <1>5, <3>1 DEF Due, InFlight
  <2> QED BY <1>1, <2>2, <2>3, <2>4
<1>11. InOrder' BY <1>2, <1>8, <1>9, <1>10 DEF InOrder
<1> QED BY <1>6, <1>7, <1>11

LEMMA ReplayOrder == ASSUME OrderInv, IInv', Replay PROVE OrderInv'
<1> USE DEF OrderInv
<1>1. /\ link = "open" /\ replay # <<>> /\ wire' = Append(wire, Head(replay))
      /\ replay' = Tail(replay)
      /\ UNCHANGED <<log, sending, link, resume, latest, seen, aborted>>
  BY DEF Replay, client, history
<1>2. /\ wire \in Seq(Frame) /\ replay \in Seq(Frame) /\ replay' \in Seq(Frame)
      /\ Head(replay) \in Frame
      /\ Range(replay) = Range(replay') \union {Head(replay)}
  BY <1>1, RangeTail DEF IInv, TypeOK
<1>3. Range(wire') = Range(wire) \union {Head(replay)} BY <1>1, <1>2, RangeAppend
<1>4. /\ Due(Head(replay), seen \union Range(wire))
      /\ Follows(replay', (seen \union Range(wire)) \union {Head(replay)})
  BY <1>1, <1>2, FollowsTail DEF InOrder
<1>5. Follows(wire', seen) BY <1>1, <1>2, <1>4, FollowsAppend DEF InOrder
<1>6. Follows(replay', seen \union Range(wire')) BY <1>2, <1>3, <1>4, FollowsMore
<1>7. InFlight' = InFlight BY <1>1, <1>2, <1>3 DEF InFlight
<1>8. InOrder' BY <1>1, <1>5, <1>6, <1>7 DEF InOrder
<1>9. Prefix' /\ Quiet' /\ Fits' BY <1>1 DEF Prefix, Quiet, Fits
<1> QED BY <1>8, <1>9

\* The client handles what it knows already, or the next event of the log.
LEMMA ReceiveFacts ==
    ASSUME OrderInv, Receive
    PROVE  \E n \in 0..log : /\ seen = 1..n
                             /\ \/ seen' = 1..n
                                \/ seen' = 1..(n + 1) /\ n + 1 \in 0..log
<1> USE DEF OrderInv
<1>1. PICK n \in 0..log : seen = 1..n BY DEF Prefix
<1>2. /\ wire # <<>> /\ wire \in Seq(Frame) /\ log \in Nat
      /\ seen' = seen \union ({Head(wire)} \ {Ready})
  BY DEF Receive, IInv, TypeOK
<1>3. Head(wire) \in 0..log /\ Due(Head(wire), seen)
  <2>1. Head(wire) \in Range(wire) BY <1>2, RangeTail
  <2> QED BY <1>2, <2>1, FollowsTail DEF InOrder, IInv, FramesExist
<1> PICK f : f = Head(wire) OBVIOUS
<1>4. f = 0 \/ (f \in 1..log /\ f <= n + 1) BY <1>1, <1>2, <1>3 DEF Due, Ready
<1>5. seen' = seen \union ({f} \ {0}) BY <1>2 DEF Ready
<1>6. CASE f = 0 \/ f <= n
  <2>1. seen' = seen BY <1>1, <1>4, <1>5, <1>6
  <2> QED BY <1>1, <2>1
<1>7. CASE f = n + 1
  <2>1. 1..(n + 1) = 1..n \union {n + 1} /\ n + 1 # 0 BY <1>1
  <2>2. seen' = 1..(n + 1) BY <1>1, <1>5, <1>7, <2>1
  <2> QED BY <1>1, <1>2, <1>4, <1>7, <2>2
<1> QED BY <1>1, <1>2, <1>4, <1>6, <1>7

LEMMA ReceiveOrder == ASSUME OrderInv, IInv', Receive PROVE OrderInv'
<1> USE DEF OrderInv
<1>1. /\ wire # <<>> /\ wire' = Tail(wire) /\ seen' = seen \union ({Head(wire)} \ {Ready})
      /\ UNCHANGED <<log, sending, link, resume, latest, replay, aborted>>
  BY DEF Receive, history
<1>2. /\ wire \in Seq(Frame) /\ replay \in Seq(Frame) /\ wire' \in Seq(Frame)
      /\ Head(wire) \in Frame /\ Range(wire) = Range(wire') \union {Head(wire)}
      /\ sending \subseteq Nat
  BY <1>1, RangeTail DEF IInv, TypeOK
<1>3. Follows(wire', seen \union {Head(wire)}) BY <1>1, <1>2, FollowsTail DEF InOrder
<1>4. Follows(wire', seen')
  <2>1. seen \union {Head(wire)} \subseteq seen' \union {0} BY <1>1 DEF Ready
  <2> QED BY <1>2, <1>3, <2>1, FollowsMore
<1>5. Follows(replay', seen' \union Range(wire'))
  <2>1. seen \union Range(wire) \subseteq (seen' \union Range(wire')) \union {0}
    BY <1>1, <1>2 DEF Ready
  <2>2. Follows(replay, seen' \union Range(wire')) BY <1>2, <2>1, FollowsMore DEF InOrder
  <2> QED BY <1>1, <2>2
<1>6. ASSUME link = "open", NEW e \in sending PROVE Due(e, seen' \union InFlight')
  <2>1. seen \union InFlight \subseteq (seen' \union InFlight') \union {0}
    BY <1>1, <1>2 DEF Ready, InFlight
  <2>2. e \in Nat /\ Due(e, seen \union InFlight) BY <1>2, <1>6 DEF InOrder
  <2> QED BY <2>1, <2>2, DueMore
<1>7. InOrder' BY <1>1, <1>4, <1>5, <1>6 DEF InOrder
<1>8. Prefix' BY <1>1, ReceiveFacts DEF Prefix
<1>9. Quiet' /\ Fits' BY <1>1 DEF Quiet, Fits
<1> QED BY <1>7, <1>8, <1>9

LEMMA OrderStep ==
    OrderInv /\ [Next]_vars /\ [Orderly]_vars => OrderInv' /\ [Reader!LogNext]_(Reader!logVars)
<1> SUFFICES ASSUME OrderInv, [Next]_vars, [Orderly]_vars
             PROVE  OrderInv' /\ [Reader!LogNext]_(Reader!logVars)
  OBVIOUS
<1>1. IInv' BY NextIInv DEF OrderInv
<1>2. log \in Nat /\ log' \in Nat BY <1>1 DEF OrderInv, IInv, TypeOK
<1>3. PICK n \in 0..log : seen = 1..n BY DEF OrderInv, Prefix
<1>4. Front = n BY <1>2, <1>3, FrontIs
<1>5. ASSUME UNCHANGED <<log, seen>> PROVE [Reader!LogNext]_(Reader!logVars)
  <2>1. Front' = Front BY <1>5 DEF Front
  <2> QED BY <1>5, <2>1 DEF Reader!logVars
<1>6. CASE UNCHANGED vars
  <2>1. UNCHANGED <<log, sending, link, resume, latest, replay, wire, seen, aborted>>
    BY <1>6 DEF vars, session, client, history
  <2> QED BY <1>1, <1>5, <2>1, SameOrder
<1>7. CASE Persist
  <2>1. OrderInv' BY <1>1, <1>7, PersistOrder
  <2>2. log' = log + 1 /\ seen' = seen BY <1>7 DEF Persist, client
  <2>3. Front' = n
    <3>1. n \in 0..log' /\ seen' = 1..n BY <1>2, <1>3, <2>2
    <3>2. \A m \in 0..log' : seen' = 1..m => m = n
      <4> SUFFICES ASSUME NEW m \in 0..log', 1..m = 1..n PROVE m = n BY <3>1
      <4>1. (m > 0 => m \in 1..n) /\ (n > 0 => n \in 1..m) BY <1>2, <1>3
      <4> QED BY <1>2, <1>3, <4>1
    <3> QED BY <3>1, <3>2 DEF Front
  <2> QED BY <1>4, <2>1, <2>2, <2>3 DEF Reader!LogNext, Reader!Write
<1>8. CASE Receive
  <2>1. OrderInv' BY <1>1, <1>8, ReceiveOrder
  <2>2. log' = log BY <1>8 DEF Receive
  <2>3. PICK m \in 0..log : seen = 1..m /\ (seen' = 1..m \/ (seen' = 1..(m + 1) /\ m + 1 \in 0..log))
    BY <1>8, ReceiveFacts
  <2>4. Front = m BY <1>2, <2>3, FrontIs
  <2>5. CASE seen' = 1..m BY <1>5, <2>1, <2>2, <2>3, <2>5
  <2>6. CASE seen' = 1..(m + 1) /\ m + 1 \in 0..log
    <3>1. Front' = m + 1
      <4>1. \A k \in 0..log' : seen' = 1..k => k = m + 1
        <5> SUFFICES ASSUME NEW k \in 0..log', 1..k = 1..(m + 1) PROVE k = m + 1 BY <2>6
        <5>1. (k > 0 => k \in 1..(m + 1)) /\ m + 1 \in 1..k BY <1>2, <2>3
        <5> QED BY <1>2, <2>3, <5>1
      <4> QED BY <2>2, <2>6, <4>1 DEF Front
    <3>2. m < log BY <1>2, <2>3, <2>6
    <3> QED BY <2>1, <2>2, <2>4, <3>1, <3>2 DEF Reader!LogNext, Reader!Read
  <2> QED BY <2>3, <2>5, <2>6
<1>9. CASE Replay
  <2>1. UNCHANGED <<log, seen>> BY <1>9 DEF Replay, client
  <2> QED BY <1>1, <1>5, <1>9, <2>1, ReplayOrder
<1>10. CASE Orderly /\ Accept
  <2>1. UNCHANGED <<log, seen>> BY <1>10 DEF Accept, client
  <2> QED BY <1>1, <1>5, <1>10, <2>1, AcceptOrder
<1>11. ASSUME Orderly, NEW e \in sending, Fanout(e)
       PROVE  OrderInv' /\ [Reader!LogNext]_(Reader!logVars)
  <2>1. UNCHANGED <<log, seen>> BY <1>11 DEF Fanout, client
  <2> QED BY <1>1, <1>5, <1>11, <2>1, FanoutOrder
<1>12. ASSUME NEW e \in sending, FanoutNobody(e)
       PROVE  OrderInv' /\ [Reader!LogNext]_(Reader!logVars)
  <2>1. /\ UNCHANGED <<log, seen, aborted, replay, wire, link>> /\ link # "open"
        /\ sending' \subseteq sending
    BY <1>12 DEF FanoutNobody, session, client, history
  <2> QED BY <1>1, <1>5, <2>1, SameOrder
<1>13. CASE Dial
  <2>1. /\ UNCHANGED <<log, seen, aborted, replay, wire, sending>> /\ link # "open" /\ link' # "open"
    BY <1>13 DEF Dial, client
  <2> QED BY <1>1, <1>5, <2>1, SameOrder
<1>14. ASSUME NEW c \in unsaved, Save(c)
       PROVE  OrderInv' /\ [Reader!LogNext]_(Reader!logVars)
  <2>1. UNCHANGED <<log, sending, link, resume, latest, replay, wire, seen, aborted>>
    BY <1>14 DEF Save, session, history
  <2> QED BY <1>1, <1>5, <2>1, SameOrder
<1>15. CASE Drop \/ Restart \/ Crash
  <2>1. HangUp /\ UNCHANGED <<log, seen, aborted>> /\ sending' \subseteq sending
    BY <1>15 DEF Drop, Restart, Crash, client, history
  <2> QED BY <1>1, <1>5, <2>1, SameOrder
<1>16. CASE Orderly /\ Next
  <2>1. ASSUME NEW e \in sending, FanoutAborted(e)
        PROVE  OrderInv' /\ [Reader!LogNext]_(Reader!logVars)
    BY <1>16, <2>1 DEF Orderly
  <2> QED
    BY <1>7, <1>8, <1>9, <1>10, <1>11, <1>12, <1>13, <1>14, <1>15, <1>16, <2>1 DEF Next
<1> QED BY <1>6, <1>16

LEMMA OrderInit == Init => OrderInv /\ Reader!LogInit
<1> SUFFICES ASSUME Init PROVE OrderInv /\ Reader!LogInit OBVIOUS
<1>1. IInv BY InitIInv
<1>2. log = 0 /\ seen = {} /\ 0 \in 0..log /\ seen = 1..0 BY DEF Init
<1>3. Front = 0 BY <1>2, FrontIs
<1>4. Prefix /\ Quiet /\ Fits /\ InOrder
  BY <1>2, FollowsNone DEF Init, Prefix, Quiet, Fits, InOrder
<1> QED BY <1>1, <1>2, <1>3, <1>4 DEF OrderInv, Reader!LogInit

\* If no broadcast overtakes the backlog or an older broadcast, none ends in an
\* error and no backlog is cut off, the client reads the log: each event for the
\* first time right after the one before, through every drop, restart and crash.
THEOREM OrderlyReads == Spec /\ [][Orderly]_vars => Reader!LogSpec
BY OrderInit, OrderStep, PTL DEF Spec, Reader!LogSpec

\* So the gap of NoGap has no other cause than these four.
THEOREM OrderlyHasNoGap == Spec /\ [][Orderly]_vars => []NoGap
<1>1. OrderInv => NoGap
  <2> SUFFICES ASSUME OrderInv PROVE 1..cursor \subseteq seen BY DEF NoGap
  <2>1. PICK n \in 0..log : seen = 1..n BY DEF OrderInv, Prefix
  <2>2. cursor \in 1..n \union {0} /\ cursor \in Nat /\ log \in Nat
    BY <2>1 DEF OrderInv, IInv, CursorsWereSeen, TypeOK
  <2> QED BY <2>1, <2>2
<1> QED BY <1>1, OrderInit, OrderStep, PTL DEF Spec

-----------------------------------------------------------------------------
(* Presence.                                                               *)

(* Presence: the sets of sockets.                                          *)

\* A connection that has not come has no set, and nobody holds it.
Fresh ==
    \A s \in Socket : place[s] = "new" =>
        sockets[s] = {} /\ table # s /\ \A t \in Socket : holds[t] # s

\* Sets contain connections that were accepted.
Placed == \A k \in Socket : \A s \in sockets[k] : place[s] \notin {"new", "accepting"}

\* A connection that chat_manager is accepting holds the set in the table,
\* unless that has been dropped since.
Holding ==
    \A s \in Socket : place[s] = "accepting" =>
        kind # None /\ holds[s] \in Socket /\ (s \in dropped \/ holds[s] = table)

Sets == Fresh /\ Placed /\ Holding

\* What a handler broadcasts at which place; those a send failed at are gone.
Tasks ==
    \A x \in Handler : task[x] # None =>
        /\ task[x].event = "other" => task[x].todo = {}
        /\ \A s \in task[x].dead : ~up[s]
        /\ IF x \in Socket
           THEN \/ place[x] = "open" /\ task[x].event = "other"
                \/ place[x] = "announcing" /\ task[x].event = "online"
                \/ place[x] = "leaving" /\ task[x].event = "offline"
           ELSE task[x].event = "other"

Firsts == \A s \in Socket : first[s] => place[s] \in {"accepting", "greeting"}

Served == {"greeting", "announcing", "open"}

Live == \A s \in Socket : place[s] \in Served /\ up[s] => s \in Registered \/ s \in dropped

\* What is in the set is served, unless the handler failed early.
ServedOrEarly == \A s \in Registered : place[s] \in Served \/ s \in early

\* A handler still has to tell a chat of its event.
Owes(x, c) == Presence(x) /\ c \in task[x].todo

\* What the chat will have been told of a member when all that is owed has been.
Tells(u, c, event) ==
    /\ \A x \in Socket : owner[x] = u /\ Owes(x, c) => task[x].event = event
    /\ (\A x \in Socket : owner[x] = u => ~Owes(x, c)) => last[u][c] = event

Unannounced(u) == \E s \in Socket : owner[s] = u /\ first[s] /\ place[s] = "greeting"

\* While nothing of a member went astray one handler of his at a time owes chats
\* its event, what is greeted or announced is in the set, and what the chats are
\* or will be told is true, or his first connection is about to announce itself.
TruthOf(u) ==
    /\ \A x, y \in Socket : \A c, d \in Told :
          owner[x] = u /\ owner[y] = u /\ Owes(x, c) /\ Owes(y, d) => x = y
    /\ \A s \in Socket : owner[s] = u /\ place[s] \in {"greeting", "announcing"} => s \in Registered
    /\ \A c \in Told : /\ Here(u) = {} => Tells(u, c, "offline")
                       /\ Here(u) # {} => Tells(u, c, "online") \/ Unannounced(u)

Whole(u) == u \notin astray /\ \A s \in dropped : owner[s] # u

Truth == \A u \in Member : Whole(u) => TruthOf(u)

PresenceInv ==
    PresenceTypeOK /\ Sets /\ Tasks /\ Firsts /\ Live /\ ServedOrEarly /\ Truth

LEMMA PresenceInitOK == PresenceInit => PresenceInv
<1> SUFFICES ASSUME PresenceInit PROVE PresenceInv OBVIOUS
<1> USE PresenceAssumption
<1>1. PresenceTypeOK BY DEF PresenceInit, PresenceTypeOK
<1>2. Sets /\ Firsts BY DEF PresenceInit, Sets, Fresh, Placed, Holding, Firsts
<1>3. Tasks BY DEF PresenceInit, Tasks
<1>4. Registered = {} BY DEF PresenceInit, Registered
<1>5. Live /\ ServedOrEarly BY <1>4 DEF PresenceInit, Live, ServedOrEarly, Served
<1>6. \A x \in Socket : \A c : ~Owes(x, c) BY DEF PresenceInit, Owes, Presence, Handler
<1>7. Told \subseteq Chat BY DEF PresenceInit, Told
<1>8. ASSUME NEW u \in Member PROVE TruthOf(u)
  <2>1. Here(u) = {} BY <1>4 DEF Here
  <2>2. \A c \in Told : Tells(u, c, "offline") BY <1>6, <1>7 DEF PresenceInit, Tells
  <2>3. \A s \in Socket : place[s] = "new" BY DEF PresenceInit
  <2> QED BY <1>6, <2>1, <2>2, <2>3 DEF TruthOf
<1>9. Truth BY <1>8 DEF Truth
<1> QED BY <1>1, <1>2, <1>3, <1>5, <1>9 DEF PresenceInv

-----------------------------------------------------------------------------
(* What the operators of the manager and of broadcasts do.                 *)

LEMMA RegisteredSet ==
    ASSUME PresenceTypeOK
    PROVE  Registered \subseteq Socket /\ Told \subseteq Chat
BY PresenceAssumption DEF PresenceTypeOK, Registered, Told

LEMMA RemoveFacts ==
    ASSUME PresenceTypeOK, NEW gone, Remove(gone)
    PROVE  /\ table' \in {table, None}
           /\ sockets' \in [Socket -> SUBSET Socket]
           /\ \A k \in Socket : sockets'[k] \subseteq sockets[k]
           /\ Registered' = Registered \ gone
           /\ dropped \subseteq dropped' /\ dropped' \subseteq Socket
           /\ table' # table => \A s \in Socket :
                place[s] = "accepting" /\ holds[s] = table => s \in dropped'
           /\ kind = None /\ table' # None => sockets'[table'] # {}
<1> USE PresenceAssumption, RegisteredSet
<1>1. CASE table = None
  <2>1. sockets' = sockets /\ Registered = {} /\ UNCHANGED <<table, dropped>>
    BY <1>1 DEF Remove, Registered
  <2> QED BY <1>1, <2>1 DEF PresenceTypeOK, Registered
<1>2. CASE table # None
  <2>1. table \in Socket /\ Registered = sockets[table]
    BY <1>2 DEF PresenceTypeOK, Registered
  <2>2. /\ sockets' \in [Socket -> SUBSET Socket]
        /\ \A k \in Socket : sockets'[k] \subseteq sockets[k]
        /\ sockets'[table] = Registered \ gone
    BY <1>2, <2>1 DEF PresenceTypeOK, Remove
  <2>3. CASE Registered # {} /\ Registered \subseteq gone
    <3>1. /\ table' = None
          /\ dropped' = dropped \union {s \in Socket : place[s] = "accepting" /\ holds[s] = table}
      BY <2>3 DEF Remove
    <3>2. Registered' = {} BY <3>1 DEF Registered
    <3> QED BY <1>2, <2>2, <2>3, <3>1, <3>2 DEF PresenceTypeOK
  <2>4. CASE ~(Registered # {} /\ Registered \subseteq gone)
    <3>1. UNCHANGED <<table, dropped>> BY <2>4 DEF Remove
    <3>2. Registered' = Registered \ gone BY <1>2, <2>1, <2>2, <3>1 DEF Registered
    <3>3. Registered # {} => Registered' # {} BY <2>4, <3>2
    <3>4. kind = None => Registered # {} BY <1>2, <2>1 DEF PresenceTypeOK
    <3> QED BY <1>2, <2>1, <2>2, <3>1, <3>2, <3>3, <3>4 DEF PresenceTypeOK
  <2> QED BY <2>3, <2>4
<1> QED BY <1>1, <1>2

LEMMA StartedFacts ==
    ASSUME NEW event \in {"online", "offline", "other"}, NEW todo \in SUBSET Chat
    PROVE  /\ Started(event, todo) \in Task /\ Started(event, todo) # None
           /\ Started(event, todo).event = event /\ Started(event, todo).todo = todo
           /\ Started(event, todo).dead = {}
BY PresenceAssumption DEF Started, Task

\* Who announces owes all chats but the one it has told; no other handler of its
\* user does, and nothing changes for other users.
LEMMA AnnounceFacts ==
    ASSUME PresenceTypeOK, NEW x \in Socket, NEW event \in {"online", "offline"},
           NEW c \in Told, Announce(x, event, c), UNCHANGED <<kind, owner>>
    PROVE  /\ Told' = Told
           /\ task' \in [Handler -> Task \union {None}]
           /\ last' \in [Member -> [Chat -> {"online", "offline"}]]
           /\ \A y \in Handler : y # x => task'[y] = task[y]
           /\ task'[x] # None /\ task'[x].event = event /\ task'[x].dead = {}
           /\ astray \subseteq astray' /\ astray' \subseteq Member
           /\ \A u \in Member : u # owner[x] => last'[u] = last[u]
           /\ owner[x] \notin astray' =>
                /\ \A y \in Socket : \A d \in Told : owner[y] = owner[x] /\ Owes(y, d)' => y = x
                /\ \A d \in Told : Tells(owner[x], d, event)'
<1> USE PresenceAssumption, RegisteredSet
<1> DEFINE new == Started(event, Told \ {c})
<1>1. /\ new \in Task /\ new # None /\ new.event = event
      /\ new.todo = Told \ {c} /\ new.dead = {}
  BY StartedFacts
<1>2. /\ task' = [task EXCEPT ![x] = new]
      /\ last' = [last EXCEPT ![owner[x]] = [last[owner[x]] EXCEPT ![c] = event]]
  BY DEF Announce
<1> HIDE DEF new
<1>3. Told' = Told /\ x \in Handler /\ owner[x] \in Member /\ c \in Chat
  BY DEF Told, Handler, PresenceTypeOK
<1>4. /\ task'[x] = new /\ \A y \in Handler : y # x => task'[y] = task[y]
      /\ task' \in [Handler -> Task \union {None}]
  BY <1>1, <1>2, <1>3 DEF PresenceTypeOK
<1>5. /\ last' \in [Member -> [Chat -> {"online", "offline"}]] /\ last'[owner[x]][c] = event
      /\ \A u \in Member : u # owner[x] => last'[u] = last[u]
  <2>1. [last[owner[x]] EXCEPT ![c] = event] \in [Chat -> {"online", "offline"}]
    BY <1>3 DEF PresenceTypeOK
  <2> QED BY <1>2, <1>3, <2>1 DEF PresenceTypeOK
<1>6. astray \subseteq astray' /\ astray' \subseteq Member BY <1>3 DEF Announce, PresenceTypeOK
<1>7. ASSUME owner[x] \notin astray'
      PROVE  /\ \A y \in Socket : \A d \in Told : owner[y] = owner[x] /\ Owes(y, d)' => y = x
             /\ \A d \in Told : Tells(owner[x], d, event)'
  <2>1. \A y \in Socket : y # x /\ owner[y] = owner[x] => \A d : ~Owes(y, d)
    BY <1>7 DEF Announce, Owes
  <2>2. \A y \in Socket : \A d : owner[y] = owner[x] /\ Owes(y, d)' => y = x
    BY <1>4, <2>1 DEF Owes, Presence, Handler
  <2>3. \A d \in Told : d # c => Owes(x, d)' BY <1>1, <1>4 DEF Owes, Presence
  <2> QED BY <1>1, <1>4, <1>5, <2>2, <2>3 DEF Tells
<1> QED BY <1>1, <1>3, <1>4, <1>5, <1>6, <1>7

\* A step that leaves what chats were and will be told of a member, and whether he
\* is connected, as they are.
LEMMA SameTruth ==
    ASSUME NEW u \in Member, TruthOf(u), UNCHANGED <<kind, owner>>, last'[u] = last[u],
           \A x \in Socket : owner[x] = u => \A c \in Told :
              /\ Owes(x, c)' <=> Owes(x, c)
              /\ Owes(x, c) => task'[x].event = task[x].event,
           Here(u)' = {} <=> Here(u) = {},
           \A s \in Socket : owner[s] = u /\ place'[s] \in {"greeting", "announcing"} => s \in Registered',
           Unannounced(u) => Unannounced(u)' \/ Here(u) = {}
    PROVE  TruthOf(u)'
<1>1. Told' = Told BY DEF Told
<1>2. \A event : \A c \in Told : Tells(u, c, event)' <=> Tells(u, c, event)
  BY <1>1 DEF Tells
<1> QED BY <1>1, <1>2 DEF TruthOf

\* What went astray or was dropped stays so.
LEMMA WholeBefore ==
    ASSUME NEW u \in Member, Whole(u)', UNCHANGED owner,
           astray \subseteq astray', dropped \subseteq dropped'
    PROVE  Whole(u)
BY DEF Whole

-----------------------------------------------------------------------------
(* Steps of broadcasts.                                                    *)

\* A step of a loop changes nothing but what its handler has visited.
LEMMA TaskOnly ==
    ASSUME PresenceInv, NEW x \in Handler,
           UNCHANGED <<kind, owner, table, sockets, place, holds, first, up, last, early, astray, dropped>>,
           NEW new \in Task, task' = [task EXCEPT ![x] = new],
           IF task[x] = None
           THEN new.event = "other" /\ new.todo = {} /\ (x \in Socket => place[x] = "open")
           ELSE new.event = task[x].event /\ new.todo = task[x].todo,
           \A s \in new.dead : ~up[s]
    PROVE  PresenceInv'
<1> USE PresenceAssumption DEF PresenceInv
<1>1. /\ task'[x] = new /\ \A y \in Handler : y # x => task'[y] = task[y]
      /\ task' \in [Handler -> Task \union {None}]
  BY DEF PresenceTypeOK
<1>2. PresenceTypeOK' BY <1>1 DEF PresenceTypeOK
<1>3. Sets' /\ Firsts' BY DEF Sets, Fresh, Placed, Holding, Firsts
<1>4. Tasks' BY <1>1 DEF Tasks
<1>5. Registered' = Registered BY DEF Registered
<1>6. Live' /\ ServedOrEarly' BY <1>5 DEF Live, ServedOrEarly
<1>7. \A y \in Socket : \A c \in Told : /\ Owes(y, c)' <=> Owes(y, c)
                                        /\ Owes(y, c) => task'[y].event = task[y].event
  BY <1>1 DEF Owes, Presence, Handler
<1>8. \A u : (Unannounced(u)' <=> Unannounced(u)) /\ Here(u)' = Here(u) BY <1>5 DEF Unannounced, Here
<1>9. Truth'
  <2> SUFFICES ASSUME NEW u \in Member, Whole(u)' PROVE TruthOf(u)' BY DEF Truth
  <2>1. TruthOf(u) BY WholeBefore DEF Truth
  <2> QED BY <1>5, <1>7, <1>8, <2>1, SameTruth DEF TruthOf
<1> QED BY <1>2, <1>3, <1>4, <1>6, <1>9

LEMMA BroadcastOK ==
    ASSUME PresenceInv, NEW x \in Handler, Broadcast(x)
    PROVE  PresenceInv'
<1> DEFINE new == Started("other", {})
<1>1. new \in Task /\ new.event = "other" /\ new.todo = {} /\ new.dead = {}
  BY StartedFacts
<1>2. task' = [task EXCEPT ![x] = new] /\ task[x] = None /\ (x \in Socket => place[x] = "open")
  BY DEF Broadcast
<1>3. UNCHANGED <<kind, owner, table, sockets, place, holds, first, up, last, early, astray, dropped>>
  BY DEF Broadcast, registry, handlers, marks
<1> HIDE DEF new
<1> QED BY <1>1, <1>2, <1>3, TaskOnly

LEMMA TaskFacts ==
    ASSUME PresenceTypeOK, NEW x \in Handler, NEW at, Stage(x, at)
    PROVE  task[x] # None /\ task[x] \in Task /\ task[x].at = at
BY PresenceAssumption DEF PresenceTypeOK, Stage

LEMMA LoopBeginsOK ==
    ASSUME PresenceInv, NEW x \in Handler, LoopBegins(x)
    PROVE  PresenceInv'
<1> DEFINE new == [task[x] EXCEPT !.at = "loop", !.set = table, !.begun = Registered,
                       !.done = IF kind # None /\ task[x].event = "online" THEN {x} ELSE {}]
<1>1. PresenceTypeOK /\ Tasks BY DEF PresenceInv
<1>2. task[x] # None /\ task[x] \in Task BY <1>1, TaskFacts DEF LoopBegins
<1>3. task[x].event = "online" => x \in Socket BY <1>1, <1>2 DEF Tasks
<1>4. /\ new \in Task /\ new.event = task[x].event /\ new.todo = task[x].todo
      /\ new.dead = task[x].dead
  BY <1>1, <1>2, <1>3, RegisteredSet DEF Task, PresenceTypeOK
<1>5. task' = [task EXCEPT ![x] = new] BY DEF LoopBegins
<1>6. UNCHANGED <<kind, owner, table, sockets, place, holds, first, up, last, early, astray, dropped>>
  BY DEF LoopBegins, registry, handlers, marks
<1>7. \A s \in new.dead : ~up[s] BY <1>1, <1>2, <1>4 DEF Tasks
<1> HIDE DEF new
<1> QED BY <1>2, <1>4, <1>5, <1>6, <1>7, TaskOnly

LEMMA SendOK ==
    ASSUME PresenceInv, NEW x \in Handler, NEW s \in Socket, NEW fails \in BOOLEAN, Send(x, s, fails)
    PROVE  PresenceInv'
<1>1. PresenceTypeOK /\ Tasks BY DEF PresenceInv
<1>2. task[x] # None /\ task[x] \in Task BY <1>1, TaskFacts DEF Send
<1>3. PICK new \in Task : /\ task' = [task EXCEPT ![x] = new]
                          /\ new.event = task[x].event /\ new.todo = task[x].todo
                          /\ \A t \in new.dead : t \in task[x].dead \/ ~up[t]
  <2> DEFINE failed == IF fails THEN {s} ELSE {}
             new == [task[x] EXCEPT !.done = task[x].done \union {s},
                                    !.dead = task[x].dead \union failed]
  <2>1. task' = [task EXCEPT ![x] = new] BY DEF Send
  <2>2. failed \subseteq {s} /\ (fails => ~up[s]) BY DEF Send
  <2> HIDE DEF failed
  <2>3. /\ new \in Task /\ new.event = task[x].event /\ new.todo = task[x].todo
        /\ new.dead = task[x].dead \union failed
    BY <1>2, <2>2 DEF Task
  <2>4. failed = {} \/ ~up[s] BY <2>2 DEF failed
  <2> HIDE DEF new
  <2> QED BY <2>1, <2>2, <2>3, <2>4
<1>4. UNCHANGED <<kind, owner, table, sockets, place, holds, first, up, last, early, astray, dropped>>
  BY DEF Send, registry, handlers, marks
<1>5. \A t \in new.dead : ~up[t] BY <1>1, <1>2, <1>3 DEF Tasks
<1> QED BY <1>2, <1>3, <1>4, <1>5, TaskOnly

\* The cleanup removes sockets whose clients are gone.
LEMMA LoopEndsOK ==
    ASSUME PresenceInv, NEW x \in Handler, LoopEnds(x)
    PROVE  PresenceInv'
<1> USE PresenceAssumption DEF PresenceInv
<1> DEFINE new == [task[x] EXCEPT !.at = "next"]
<1> PICK gone : gone = task[x].dead OBVIOUS
<1>1. task[x] # None /\ task[x] \in Task BY TaskFacts DEF LoopEnds, CleansUp
<1>2. /\ new \in Task /\ new.event = task[x].event /\ new.todo = task[x].todo
      /\ new.dead = gone
  BY <1>1 DEF Task
<1>3. Remove(gone) /\ task' = [task EXCEPT ![x] = new] BY DEF LoopEnds, CleansUp
<1>4. /\ UNCHANGED <<kind, owner, place, holds, first, up, last, early>>
      /\ astray' = astray \union Silenced(gone)
  BY DEF LoopEnds, CleansUp, handlers
<1>5. \A s \in gone : ~up[s] BY <1>1 DEF Tasks
<1> HIDE DEF new
<1>6. /\ task'[x] = new /\ \A y \in Handler : y # x => task'[y] = task[y]
      /\ task' \in [Handler -> Task \union {None}]
  BY <1>2, <1>3 DEF PresenceTypeOK
<1>7. /\ table' \in {table, None} /\ sockets' \in [Socket -> SUBSET Socket]
      /\ \A k \in Socket : sockets'[k] \subseteq sockets[k]
      /\ Registered' = Registered \ gone
      /\ dropped \subseteq dropped' /\ dropped' \subseteq Socket
      /\ table' # table => \A s \in Socket :
           place[s] = "accepting" /\ holds[s] = table => s \in dropped'
      /\ kind = None /\ table' # None => sockets'[table'] # {}
  BY <1>3, RemoveFacts
<1>8. PresenceTypeOK' BY <1>4, <1>6, <1>7 DEF PresenceTypeOK, Silenced
<1>9. Sets' BY <1>4, <1>7 DEF Sets, Fresh, Placed, Holding
<1>10. Tasks' BY <1>1, <1>2, <1>4, <1>5, <1>6 DEF Tasks
<1>11. Firsts' BY <1>4 DEF Firsts
<1>12. Live' BY <1>4, <1>5, <1>7 DEF Live
<1>13. ServedOrEarly' BY <1>4, <1>7 DEF ServedOrEarly
<1>14. \A y \in Socket : \A c \in Told : /\ Owes(y, c)' <=> Owes(y, c)
                                         /\ Owes(y, c) => task'[y].event = task[y].event
  BY <1>1, <1>2, <1>6 DEF Owes, Presence, Handler
<1>15. \A u : (Unannounced(u)' <=> Unannounced(u)) /\ Here(u)' = Here(u) \ gone
  BY <1>4, <1>7 DEF Unannounced, Here
<1>16. Truth'
  <2> SUFFICES ASSUME NEW u \in Member, Whole(u)' PROVE TruthOf(u)' BY DEF Truth
  <2>1. TruthOf(u) BY <1>4, <1>7, WholeBefore DEF Truth
  <2>2. u \notin Silenced(gone) BY <1>4 DEF Whole
  <2>3. Here(u)' = {} <=> Here(u) = {} BY <1>15, <2>2 DEF Silenced
  <2>4. \A s \in gone : owner[s] = u => place[s] \notin {"greeting", "announcing"}
    BY <2>2 DEF Silenced
  <2> QED BY <1>4, <1>7, <1>14, <1>15, <2>1, <2>3, <2>4, SameTruth DEF TruthOf
<1> QED BY <1>8, <1>9, <1>10, <1>11, <1>12, <1>13, <1>16

\* The event of a chat is stored: one chat less is owed it.
LEMMA NextChatOK ==
    ASSUME PresenceInv, NEW x \in Handler, NEW c \in Told, NextChat(x, c)
    PROVE  PresenceInv'
<1> USE PresenceAssumption, RegisteredSet DEF PresenceInv
<1> DEFINE new == [task[x] EXCEPT !.at = "others", !.todo = @ \ {c}, !.dead = {}]
<1> PICK event : event = task[x].event OBVIOUS
<1>1. task[x] # None /\ task[x] \in Task /\ c \in task[x].todo BY TaskFacts DEF NextChat
<1>2. new \in Task /\ new.event = event /\ new.todo = task[x].todo \ {c} /\ new.dead = {}
  BY <1>1 DEF Task
<1>3. /\ task' = [task EXCEPT ![x] = new]
      /\ last' = [last EXCEPT ![owner[x]] = [last[owner[x]] EXCEPT ![c] = event]]
      /\ UNCHANGED <<kind, owner, table, sockets, place, holds, first, up, early, astray, dropped>>
  BY <1>1 DEF NextChat, registry, handlers, marks
<1>4. /\ Owes(x, c) /\ event \in {"online", "offline"}
      /\ x \in Socket /\ owner[x] \in Member /\ c \in Chat
  BY <1>1 DEF Tasks, Owes, Presence, Task, PresenceTypeOK
<1> HIDE DEF new
<1>5. /\ task'[x] = new /\ \A y \in Handler : y # x => task'[y] = task[y]
      /\ task' \in [Handler -> Task \union {None}]
  BY <1>2, <1>3 DEF PresenceTypeOK
<1>6. /\ last' \in [Member -> [Chat -> {"online", "offline"}]] /\ last'[owner[x]][c] = event
      /\ \A d \in Chat : d # c => last'[owner[x]][d] = last[owner[x]][d]
      /\ \A u \in Member : u # owner[x] => last'[u] = last[u]
  <2>1. [last[owner[x]] EXCEPT ![c] = event] \in [Chat -> {"online", "offline"}]
    BY <1>4 DEF PresenceTypeOK
  <2> QED BY <1>3, <1>4, <2>1 DEF PresenceTypeOK
<1>7. PresenceTypeOK' BY <1>3, <1>5, <1>6 DEF PresenceTypeOK
<1>8. Sets' /\ Firsts' BY <1>3 DEF Sets, Fresh, Placed, Holding, Firsts
<1>9. Tasks' BY <1>1, <1>2, <1>3, <1>4, <1>5 DEF Tasks, Owes, Presence
<1>10. Registered' = Registered /\ Told' = Told BY <1>3 DEF Registered, Told
<1>11. Live' /\ ServedOrEarly' BY <1>3, <1>10 DEF Live, ServedOrEarly
<1>12. \A y \in Socket : \A d \in Told : /\ Owes(y, d)' <=> Owes(y, d) /\ ~(y = x /\ d = c)
                                         /\ Owes(y, d) => task'[y].event = task[y].event
  BY <1>1, <1>2, <1>4, <1>5 DEF Owes, Presence, Handler
<1>13. \A e : \A d \in Told : Tells(owner[x], d, e) => Tells(owner[x], d, e)'
  <2> SUFFICES ASSUME NEW e, NEW d \in Told, Tells(owner[x], d, e) PROVE Tells(owner[x], d, e)'
    OBVIOUS
  <2>1. \A y \in Socket : owner[y] = owner[x] /\ Owes(y, d)' => task'[y].event = e
    BY <1>12 DEF Tells
  <2>2. (\A y \in Socket : owner[y] = owner[x] => ~Owes(y, d)') => last'[owner[x]][d] = e
    <3>1. CASE d = c BY <1>4, <1>6, <3>1 DEF Tells
    <3>2. CASE d # c BY <1>6, <1>12, <3>2 DEF Tells
    <3> QED BY <3>1, <3>2
  <2> QED BY <1>3, <2>1, <2>2 DEF Tells
<1>14. \A u : (Unannounced(u)' <=> Unannounced(u)) /\ Here(u)' = Here(u)
  BY <1>3, <1>10 DEF Unannounced, Here
<1>15. Truth'
  <2> SUFFICES ASSUME NEW u \in Member, Whole(u)' PROVE TruthOf(u)' BY DEF Truth
  <2>1. TruthOf(u) BY <1>3, WholeBefore DEF Truth
  <2>2. CASE u = owner[x] BY <1>3, <1>10, <1>12, <1>13, <1>14, <2>1, <2>2 DEF TruthOf
  <2>3. CASE u # owner[x]
    <3>1. \A y \in Socket : owner[y] = u => \A d \in Told : Owes(y, d)' <=> Owes(y, d)
      BY <1>12, <2>3
    <3> QED BY <1>3, <1>6, <1>10, <1>12, <1>14, <2>1, <2>3, <3>1, SameTruth DEF TruthOf
  <2> QED BY <2>2, <2>3
<1> QED BY <1>7, <1>8, <1>9, <1>11, <1>15

\* A handler that has told every chat goes on.
LEMMA EndsOK ==
    ASSUME PresenceInv, NEW x \in Handler, Ends(x)
    PROVE  PresenceInv'
<1> USE PresenceAssumption DEF PresenceInv
<1>1. task[x] # None /\ task[x].todo = {} BY TaskFacts DEF Ends
<1>2. /\ task' = [task EXCEPT ![x] = None]
      /\ UNCHANGED <<kind, owner, table, sockets, holds, first, up, last, early, astray, dropped>>
  BY DEF Ends, registry, marks
<1>3. \A s \in Socket : \/ place'[s] = place[s]
                        \/ s = x /\ place[s] = "announcing" /\ place'[s] = "open"
                        \/ s = x /\ place[s] = "leaving" /\ place'[s] = "closed"
  BY DEF Ends, PresenceTypeOK
<1>4. /\ task'[x] = None /\ \A y \in Handler : y # x => task'[y] = task[y]
      /\ task' \in [Handler -> Task \union {None}]
  BY <1>2 DEF PresenceTypeOK
<1>5. PresenceTypeOK'
  <2>1. place' = [s \in Socket |-> place'[s]] BY DEF Ends, PresenceTypeOK
  <2>2. \A s \in Socket : place[s] \in {"new", "accepting", "greeting", "announcing", "open", "leaving", "closed"}
    BY DEF PresenceTypeOK
  <2> HIDE DEF PresenceInv
  <2>3. \A s \in Socket : place'[s] \in {"new", "accepting", "greeting", "announcing", "open", "leaving", "closed"}
    BY <1>3, <2>2
  <2>4. place' \in [Socket -> {"new", "accepting", "greeting", "announcing", "open", "leaving", "closed"}]
    BY <2>1, <2>3
  <2>5. PresenceTypeOK BY DEF PresenceInv
  <2> QED BY <1>2, <1>4, <2>4, <2>5 DEF PresenceTypeOK
<1>6. Sets' /\ Firsts'
  <2>1. Sets /\ Firsts OBVIOUS
  <2> HIDE DEF PresenceInv
  <2>2. \A s \in Socket : /\ place'[s] = "new" => place[s] = "new"
                          /\ place'[s] = "accepting" => place[s] = "accepting"
                          /\ place'[s] \notin {"new", "accepting"} \/ place'[s] = place[s]
                          /\ place[s] \in {"accepting", "greeting"} => place'[s] = place[s]
    BY <1>3
  <2>3. \A k \in Socket : \A s \in sockets[k] : s \in Socket => place'[s] \notin {"new", "accepting"}
    BY <2>1, <2>2 DEF Sets, Placed
  <2>4. \A k \in Socket : sockets[k] \subseteq Socket BY DEF PresenceInv, PresenceTypeOK
  <2>5. Fresh' BY <1>2, <2>1, <2>2 DEF Sets, Fresh
  <2>6. Placed' BY <1>2, <2>3, <2>4 DEF Placed
  <2>7. Holding' BY <1>2, <2>1, <2>2 DEF Sets, Holding
  <2>8. Firsts' BY <1>2, <2>1, <2>2 DEF Firsts
  <2> QED BY <2>5, <2>6, <2>7, <2>8 DEF Sets
<1>7. Tasks' BY <1>2, <1>3, <1>4 DEF Tasks
<1>8. Registered' = Registered BY <1>2 DEF Registered
<1>9. \A s \in Socket : place'[s] \in Served <=> place[s] \in Served BY <1>3 DEF Served
<1>10. Live' BY <1>2, <1>8, <1>9 DEF Live
<1>11. ServedOrEarly' BY <1>2, <1>8, <1>9, RegisteredSet DEF ServedOrEarly
<1>12. \A y \in Socket : \A c \in Told : /\ Owes(y, c)' <=> Owes(y, c)
                                         /\ Owes(y, c) => task'[y].event = task[y].event
  BY <1>1, <1>4 DEF Owes, Presence, Handler
<1>13. \A u : (Unannounced(u)' <=> Unannounced(u)) /\ Here(u)' = Here(u)
  BY <1>2, <1>3, <1>8 DEF Unannounced, Here
<1>14. \A s \in Socket : place'[s] \in {"greeting", "announcing"} => place'[s] = place[s]
  BY <1>3
<1>15. Truth'
  <2> SUFFICES ASSUME NEW u \in Member, Whole(u)' PROVE TruthOf(u)' BY DEF Truth
  <2>1. TruthOf(u) BY <1>2, WholeBefore DEF Truth
  <2> QED BY <1>2, <1>8, <1>12, <1>13, <1>14, <2>1, SameTruth DEF TruthOf
<1> QED BY <1>5, <1>6, <1>7, <1>10, <1>11, <1>15

-----------------------------------------------------------------------------
(* Steps of the connections.                                               *)

\* A step that changes neither events nor who owes which.
LEMMA SameTasks ==
    ASSUME UNCHANGED <<kind, task>>
    PROVE  \A x \in Socket : \A c : /\ Owes(x, c)' <=> Owes(x, c)
                                    /\ Owes(x, c) => task'[x].event = task[x].event
BY DEF Owes, Presence

\* A connection is inserted: it announces itself, or another of its user is there.
LEMMA InsertTruth ==
    ASSUME NEW s \in Socket, NEW u \in Member, TruthOf(u),
           UNCHANGED <<kind, owner, task, last>>,
           Registered \subseteq Registered', Registered' \subseteq Registered \union {s},
           owner[s] = u => s \in Registered' /\ (first'[s] \/ Here(u) # {}),
           place[s] # "greeting", place'[s] = "greeting",
           \A t \in Socket : t # s => place'[t] = place[t] /\ first'[t] = first[t]
    PROVE  TruthOf(u)'
<1>1. Told' = Told BY DEF Told
<1>2. \A x \in Socket : \A c : Owes(x, c)' <=> Owes(x, c) BY SameTasks
<1>3. \A event : \A c \in Told : Tells(u, c, event)' <=> Tells(u, c, event)
  BY <1>1, <1>2 DEF Tells
<1>4. Unannounced(u) => Unannounced(u)' BY DEF Unannounced
<1>5. \A t \in Socket : owner[t] = u /\ place'[t] \in {"greeting", "announcing"} => t \in Registered'
  BY DEF TruthOf
<1>6. CASE owner[s] = u
  <2>1. Here(u)' # {} BY <1>6 DEF Here
  <2>2. Here(u) # {} \/ Unannounced(u)' BY <1>6 DEF Unannounced
  <2> QED BY <1>1, <1>2, <1>3, <1>4, <1>5, <2>1, <2>2 DEF TruthOf
<1>7. CASE owner[s] # u
  <2>1. Here(u)' = Here(u) BY <1>7 DEF Here
  <2> QED BY <1>1, <1>2, <1>3, <1>4, <1>5, <2>1 DEF TruthOf
<1> QED BY <1>6, <1>7

\* The set that a look-up finds or makes.
LEMMA LookUpFacts ==
    ASSUME PresenceInv, NEW s \in Socket, place[s] = "new", LookUp(s)
    PROVE  /\ table' \in Socket /\ (table # None => table' = table) /\ (table = None => table' = s)
           /\ sockets[table'] = Registered
           /\ first' \in [Socket -> BOOLEAN] /\ first'[s] = (Here(owner[s]) = {})
           /\ \A t \in Socket : t # s => first'[t] = first[t]
<1>1. PresenceTypeOK /\ Fresh BY DEF PresenceInv, Sets
<1>2. /\ table' = IF table = None THEN s ELSE table
      /\ first' = [first EXCEPT ![s] = \A t \in sockets[table'] : owner[t] # owner[s]]
  BY DEF LookUp
<1>3. /\ table' \in Socket /\ (table # None => table' = table) /\ (table = None => table' = s)
      /\ sockets[table'] = Registered
  BY <1>1, <1>2 DEF PresenceTypeOK, Fresh, Registered
<1>4. (\A t \in sockets[table'] : owner[t] # owner[s]) = (Here(owner[s]) = {})
  BY <1>3 DEF Here
<1>5. (Here(owner[s]) = {}) \in BOOLEAN OBVIOUS
<1>6. first' \in [Socket -> BOOLEAN] /\ first'[s] = (Here(owner[s]) = {})
      /\ \A t \in Socket : t # s => first'[t] = first[t]
  BY <1>1, <1>2, <1>4, <1>5, Zenon DEF PresenceTypeOK
<1> QED BY <1>3, <1>6

LEMMA ConnectOK ==
    ASSUME PresenceInv, NEW s \in Socket, Connect(s)
    PROVE  PresenceInv'
<1> USE PresenceAssumption
<1>1. /\ PresenceTypeOK /\ Fresh /\ Placed /\ Holding /\ Tasks /\ Firsts /\ Live
      /\ ServedOrEarly /\ Truth
  BY DEF PresenceInv, Sets
<1>2. /\ kind = None /\ place[s] = "new" /\ LookUp(s)
      /\ UNCHANGED <<kind, owner, holds, up, task, last, early, astray, dropped>>
  BY DEF Connect, marks
<1>3. /\ table' \in Socket /\ (table # None => table' = table) /\ (table = None => table' = s)
      /\ sockets[table'] = Registered
      /\ first' \in [Socket -> BOOLEAN] /\ first'[s] = (Here(owner[s]) = {})
      /\ \A t \in Socket : t # s => first'[t] = first[t]
  BY <1>2, LookUpFacts
<1>4. /\ sockets' \in [Socket -> SUBSET Socket]
      /\ sockets'[table'] = Registered \union {s}
      /\ \A k \in Socket : k # table' => sockets'[k] = sockets[k]
      /\ \A k \in Socket : sockets'[k] \subseteq sockets[k] \union {s}
  BY <1>1, <1>3 DEF Connect, PresenceTypeOK
<1>5. /\ place'[s] = "greeting" /\ \A t \in Socket : t # s => place'[t] = place[t]
      /\ place' \in [Socket -> {"new", "accepting", "greeting", "announcing", "open", "leaving", "closed"}]
  BY <1>1 DEF Connect, PresenceTypeOK
<1>6. PresenceTypeOK' BY <1>1, <1>2, <1>3, <1>4, <1>5 DEF PresenceTypeOK
<1>7. Registered' = Registered \union {s} BY <1>3, <1>4 DEF Registered
<1>8. Sets'
  <2>1. Fresh'
    <3> SUFFICES ASSUME NEW t \in Socket, place'[t] = "new"
                 PROVE  sockets'[t] = {} /\ table' # t /\ \A u \in Socket : holds'[u] # t
      BY DEF Fresh
    <3>1. t # s /\ place[t] = "new" BY <1>5
    <3>2. sockets[t] = {} /\ table # t /\ \A u \in Socket : holds[u] # t BY <1>1, <3>1 DEF Fresh
    <3>3. table' # t BY <1>3, <3>1, <3>2
    <3> QED BY <1>2, <1>4, <3>2, <3>3
  <2>2. Placed' BY <1>1, <1>4, <1>5 DEF Placed, PresenceTypeOK
  <2>3. Holding' BY <1>1, <1>2, <1>5 DEF Holding
  <2> QED BY <2>1, <2>2, <2>3 DEF Sets
<1>9. Tasks' BY <1>1, <1>2, <1>5 DEF Tasks
<1>10. Firsts' BY <1>1, <1>3, <1>5 DEF Firsts
<1>11. Live' BY <1>1, <1>2, <1>5, <1>7 DEF Live
<1>12. ServedOrEarly' BY <1>1, <1>2, <1>5, <1>7, RegisteredSet DEF ServedOrEarly, Served
<1>13. Truth'
  <2> SUFFICES ASSUME NEW u \in Member, Whole(u)' PROVE TruthOf(u)' BY DEF Truth
  <2>1. TruthOf(u) BY <1>1, <1>2, WholeBefore DEF Truth
  <2> QED BY <1>2, <1>3, <1>5, <1>7, <2>1, InsertTruth
<1> QED BY <1>6, <1>8, <1>9, <1>10, <1>11, <1>12, <1>13 DEF PresenceInv

LEMMA ConnectChatOK ==
    ASSUME PresenceInv, NEW s \in Socket, ConnectChat(s)
    PROVE  PresenceInv'
<1> USE PresenceAssumption
<1>1. /\ PresenceTypeOK /\ Fresh /\ Placed /\ Holding /\ Tasks /\ Firsts /\ Live
      /\ ServedOrEarly /\ Truth
  BY DEF PresenceInv, Sets
<1>2. /\ kind # None /\ place[s] = "new" /\ LookUp(s)
      /\ UNCHANGED <<kind, owner, sockets, up, task, last, early, astray, dropped>>
  BY DEF ConnectChat, marks
<1>3. /\ table' \in Socket /\ (table # None => table' = table) /\ (table = None => table' = s)
      /\ sockets[table'] = Registered
      /\ first' \in [Socket -> BOOLEAN] /\ first'[s] = (Here(owner[s]) = {})
      /\ \A t \in Socket : t # s => first'[t] = first[t]
  BY <1>2, LookUpFacts
<1>4. /\ holds' \in [Socket -> Socket \union {None}] /\ holds'[s] = table'
      /\ \A t \in Socket : t # s => holds'[t] = holds[t]
  BY <1>1, <1>3 DEF ConnectChat, PresenceTypeOK
<1>5. /\ place'[s] = "accepting" /\ \A t \in Socket : t # s => place'[t] = place[t]
      /\ place' \in [Socket -> {"new", "accepting", "greeting", "announcing", "open", "leaving", "closed"}]
  BY <1>1 DEF ConnectChat, PresenceTypeOK
<1>6. PresenceTypeOK' BY <1>1, <1>2, <1>3, <1>4, <1>5 DEF PresenceTypeOK
<1>7. Registered' = Registered BY <1>2, <1>3 DEF Registered
<1>8. Sets'
  <2>1. Fresh'
    <3> SUFFICES ASSUME NEW t \in Socket, place'[t] = "new"
                 PROVE  sockets'[t] = {} /\ table' # t /\ \A u \in Socket : holds'[u] # t
      BY DEF Fresh
    <3>1. t # s /\ place[t] = "new" BY <1>5
    <3>2. sockets[t] = {} /\ table # t /\ \A u \in Socket : holds[u] # t BY <1>1, <3>1 DEF Fresh
    <3>3. table' # t BY <1>3, <3>1, <3>2
    <3> QED BY <1>2, <1>4, <3>2, <3>3
  <2>2. Placed' BY <1>1, <1>2, <1>5 DEF Placed, PresenceTypeOK
  <2>3. Holding' 
    <3> SUFFICES ASSUME NEW t \in Socket, place'[t] = "accepting"
                 PROVE  kind' # None /\ holds'[t] \in Socket /\ (t \in dropped' \/ holds'[t] = table')
      BY DEF Holding
    <3>1. CASE t = s BY <1>2, <1>3, <1>4, <3>1
    <3>2. CASE t # s
      <4>1. holds[t] \in Socket /\ (t \in dropped \/ holds[t] = table)
        BY <1>1, <1>5, <3>2 DEF Holding
      <4> QED BY <1>2, <1>3, <1>4, <3>2, <4>1
    <3> QED BY <3>1, <3>2
  <2> QED BY <2>1, <2>2, <2>3 DEF Sets
<1>9. Tasks' BY <1>1, <1>2, <1>5 DEF Tasks
<1>10. Firsts' BY <1>1, <1>3, <1>5 DEF Firsts
<1>11. Live' BY <1>1, <1>2, <1>5, <1>7 DEF Live, Served
<1>12. ServedOrEarly' BY <1>1, <1>2, <1>5, <1>7, RegisteredSet DEF ServedOrEarly, Served
<1>13. Truth'
  <2> SUFFICES ASSUME NEW u \in Member, Whole(u)' PROVE TruthOf(u)' BY DEF Truth
  <2>1. TruthOf(u) BY <1>1, <1>2, WholeBefore DEF Truth
  <2>2. Unannounced(u) => Unannounced(u)' BY <1>2, <1>3, <1>5 DEF Unannounced
  <2>3. Here(u)' = Here(u) BY <1>2, <1>7 DEF Here
  <2> QED BY <1>2, <1>5, <1>7, <2>1, <2>2, <2>3, SameTasks, SameTruth DEF TruthOf
<1> QED BY <1>6, <1>8, <1>9, <1>10, <1>11, <1>12, <1>13 DEF PresenceInv

LEMMA AcceptedOK ==
    ASSUME PresenceInv, NEW s \in Socket, Accepted(s)
    PROVE  PresenceInv'
<1> USE PresenceAssumption
<1>1. /\ PresenceTypeOK /\ Fresh /\ Placed /\ Holding /\ Tasks /\ Firsts /\ Live
      /\ ServedOrEarly /\ Truth
  BY DEF PresenceInv, Sets
<1>2. /\ place[s] = "accepting"
      /\ astray' = astray \union
            IF ~first[s] /\ \A t \in sockets[holds[s]] : owner[t] # owner[s]
            THEN {owner[s]} ELSE {}
      /\ UNCHANGED <<kind, owner, table, first, up, task, last, early, dropped>>
  BY DEF Accepted
<1>3. kind # None /\ holds[s] \in Socket /\ (s \in dropped \/ holds[s] = table)
  BY <1>1, <1>2 DEF Holding
<1>4. /\ sockets' \in [Socket -> SUBSET Socket]
      /\ sockets'[holds[s]] = sockets[holds[s]] \union {s}
      /\ \A k \in Socket : k # holds[s] => sockets'[k] = sockets[k]
      /\ \A k \in Socket : sockets'[k] \subseteq sockets[k] \union {s}
  BY <1>1, <1>3 DEF Accepted, PresenceTypeOK
<1>5. /\ place'[s] = "greeting" /\ \A t \in Socket : t # s => place'[t] = place[t]
      /\ place' \in [Socket -> {"new", "accepting", "greeting", "announcing", "open", "leaving", "closed"}]
      /\ holds' \in [Socket -> Socket \union {None}] /\ holds'[s] = None
      /\ \A t \in Socket : t # s => holds'[t] = holds[t]
  BY <1>1 DEF Accepted, PresenceTypeOK
<1>6. PresenceTypeOK' BY <1>1, <1>2, <1>3, <1>4, <1>5 DEF PresenceTypeOK
<1>7. /\ Registered \subseteq Registered' /\ Registered' \subseteq Registered \union {s}
      /\ s \in Registered' \/ s \in dropped
  BY <1>1, <1>2, <1>3, <1>4 DEF Registered, PresenceTypeOK
<1>8. Sets'
  <2>1. Fresh'
    <3> SUFFICES ASSUME NEW t \in Socket, place'[t] = "new"
                 PROVE  sockets'[t] = {} /\ table' # t /\ \A u \in Socket : holds'[u] # t
      BY DEF Fresh
    <3>1. t # s /\ place[t] = "new" BY <1>5
    <3>2. sockets[t] = {} /\ table # t /\ \A u \in Socket : holds[u] # t BY <1>1, <3>1 DEF Fresh
    <3> QED BY <1>2, <1>4, <1>5, <3>2
  <2>2. Placed' BY <1>1, <1>4, <1>5 DEF Placed, PresenceTypeOK
  <2>3. Holding' BY <1>1, <1>2, <1>5 DEF Holding
  <2> QED BY <2>1, <2>2, <2>3 DEF Sets
<1>9. Tasks' BY <1>1, <1>2, <1>5 DEF Tasks
<1>10. Firsts' BY <1>1, <1>2, <1>5 DEF Firsts
<1>11. Live' BY <1>1, <1>2, <1>5, <1>7 DEF Live
<1>12. ServedOrEarly' BY <1>1, <1>2, <1>5, <1>7, RegisteredSet DEF ServedOrEarly, Served
<1>13. Truth'
  <2> SUFFICES ASSUME NEW u \in Member, Whole(u)' PROVE TruthOf(u)' BY DEF Truth
  <2>1. TruthOf(u) /\ Whole(u) BY <1>1, <1>2, WholeBefore DEF Truth
  <2>2. owner[s] = u => s \notin dropped BY <2>1 DEF Whole
  <2>3. owner[s] = u => Registered = sockets[holds[s]]
    BY <1>1, <1>2, <1>3, <2>2 DEF Registered, PresenceTypeOK
  <2>4. owner[s] = u => first[s] \/ Here(u) # {}
    BY <1>2, <2>3 DEF Whole, Here
  <2> QED BY <1>2, <1>5, <1>7, <2>1, <2>2, <2>4, InsertTruth
<1> QED BY <1>6, <1>8, <1>9, <1>10, <1>11, <1>12, <1>13 DEF PresenceInv

\* A connection that ends before it is served in the set.
LEMMA AcceptFailsOK ==
    ASSUME PresenceInv, NEW s \in Socket, AcceptFails(s)
    PROVE  PresenceInv'
<1> USE PresenceAssumption
<1>1. /\ PresenceTypeOK /\ Fresh /\ Placed /\ Holding /\ Tasks /\ Firsts /\ Live
      /\ ServedOrEarly /\ Truth
  BY DEF PresenceInv, Sets
<1>2. /\ place[s] = "accepting"
      /\ UNCHANGED <<kind, owner, table, sockets, up, task, last, early, astray, dropped>>
  BY DEF AcceptFails, registry, marks
<1>3. /\ place'[s] = "closed" /\ \A t \in Socket : t # s => place'[t] = place[t]
      /\ place' \in [Socket -> {"new", "accepting", "greeting", "announcing", "open", "leaving", "closed"}]
      /\ holds' \in [Socket -> Socket \union {None}] /\ holds'[s] = None
      /\ \A t \in Socket : t # s => holds'[t] = holds[t]
  BY <1>1 DEF AcceptFails, PresenceTypeOK
<1>4. /\ first' \in [Socket -> BOOLEAN] /\ first'[s] = FALSE
      /\ \A t \in Socket : t # s => first'[t] = first[t]
  BY <1>1 DEF AcceptFails, PresenceTypeOK
<1>5. PresenceTypeOK' BY <1>1, <1>2, <1>3, <1>4 DEF PresenceTypeOK
<1>6. Registered' = Registered BY <1>2 DEF Registered
<1>7. Sets'
  <2>1. Fresh' BY <1>1, <1>2, <1>3 DEF Fresh
  <2>2. Placed' BY <1>1, <1>2, <1>3 DEF Placed, PresenceTypeOK
  <2>3. Holding' BY <1>1, <1>2, <1>3 DEF Holding
  <2> QED BY <2>1, <2>2, <2>3 DEF Sets
<1>8. Tasks' BY <1>1, <1>2, <1>3 DEF Tasks
<1>9. Firsts' BY <1>1, <1>3, <1>4 DEF Firsts
<1>10. Live' BY <1>1, <1>2, <1>3, <1>6 DEF Live, Served
<1>11. ServedOrEarly' BY <1>1, <1>2, <1>3, <1>6, RegisteredSet DEF ServedOrEarly, Served
<1>12. Truth'
  <2> SUFFICES ASSUME NEW u \in Member, Whole(u)' PROVE TruthOf(u)' BY DEF Truth
  <2>1. TruthOf(u) BY <1>1, <1>2, WholeBefore DEF Truth
  <2>2. Unannounced(u) => Unannounced(u)' BY <1>2, <1>3, <1>4 DEF Unannounced
  <2>3. Here(u)' = Here(u) BY <1>2, <1>6 DEF Here
  <2> QED BY <1>2, <1>3, <1>6, <2>1, <2>2, <2>3, SameTasks, SameTruth DEF TruthOf
<1> QED BY <1>5, <1>7, <1>8, <1>9, <1>10, <1>11, <1>12 DEF PresenceInv

LEMMA GreetFailsOK ==
    ASSUME PresenceInv, NEW s \in Socket, GreetFails(s)
    PROVE  PresenceInv'
<1> USE PresenceAssumption
<1>1. /\ PresenceTypeOK /\ Fresh /\ Placed /\ Holding /\ Tasks /\ Firsts /\ Live
      /\ ServedOrEarly /\ Truth
  BY DEF PresenceInv, Sets
<1>2. /\ place[s] = "greeting" /\ astray' = astray \union {owner[s]} /\ early' = early \union {s}
      /\ UNCHANGED <<kind, owner, table, sockets, holds, up, task, last, dropped>>
  BY DEF GreetFails, registry
<1>3. /\ place'[s] = "closed" /\ \A t \in Socket : t # s => place'[t] = place[t]
      /\ place' \in [Socket -> {"new", "accepting", "greeting", "announcing", "open", "leaving", "closed"}]
      /\ first' \in [Socket -> BOOLEAN] /\ first'[s] = FALSE
      /\ \A t \in Socket : t # s => first'[t] = first[t]
  BY <1>1 DEF GreetFails, PresenceTypeOK
<1>4. PresenceTypeOK' BY <1>1, <1>2, <1>3 DEF PresenceTypeOK
<1>5. Registered' = Registered BY <1>2 DEF Registered
<1>6. Sets'
  <2>1. Fresh' BY <1>1, <1>2, <1>3 DEF Fresh
  <2>2. Placed' BY <1>1, <1>2, <1>3 DEF Placed, PresenceTypeOK
  <2>3. Holding' BY <1>1, <1>2, <1>3 DEF Holding
  <2> QED BY <2>1, <2>2, <2>3 DEF Sets
<1>7. Tasks' BY <1>1, <1>2, <1>3 DEF Tasks
<1>8. Firsts' BY <1>1, <1>3 DEF Firsts
<1>9. Live' BY <1>1, <1>2, <1>3, <1>5 DEF Live, Served
<1>10. ServedOrEarly' BY <1>1, <1>2, <1>3, <1>5, RegisteredSet DEF ServedOrEarly, Served
<1>11. Truth'
  <2> SUFFICES ASSUME NEW u \in Member, Whole(u)' PROVE TruthOf(u)' BY DEF Truth
  <2>1. TruthOf(u) BY <1>1, <1>2, WholeBefore DEF Truth
  <2>2. owner[s] # u BY <1>2 DEF Whole
  <2>3. Unannounced(u) => Unannounced(u)' BY <1>2, <1>3, <2>2 DEF Unannounced
  <2>4. Here(u)' = Here(u) BY <1>2, <1>5 DEF Here
  <2> QED BY <1>2, <1>3, <1>5, <2>1, <2>3, <2>4, SameTasks, SameTruth DEF TruthOf
<1> QED BY <1>4, <1>6, <1>7, <1>8, <1>9, <1>10, <1>11 DEF PresenceInv

LEMMA VanishOK ==
    ASSUME PresenceInv, NEW s \in Socket, Vanish(s)
    PROVE  PresenceInv'
<1> USE PresenceAssumption
<1>1. /\ PresenceTypeOK /\ Fresh /\ Placed /\ Holding /\ Tasks /\ Firsts /\ Live
      /\ ServedOrEarly /\ Truth
  BY DEF PresenceInv, Sets
<1>2. UNCHANGED <<kind, owner, table, sockets, place, holds, first, task, last, early, astray, dropped>>
  BY DEF Vanish, registry, marks
<1>3. up' \in [Socket -> BOOLEAN] /\ \A t \in Socket : up'[t] => up[t]
  BY <1>1 DEF Vanish, PresenceTypeOK
<1>4. PresenceTypeOK' BY <1>1, <1>2, <1>3 DEF PresenceTypeOK
<1>5. Registered' = Registered BY <1>2 DEF Registered
<1>6. Sets' /\ Firsts' BY <1>1, <1>2 DEF Sets, Fresh, Placed, Holding, Firsts
<1>7. Tasks'
  <2>1. \A x \in Handler : task[x] # None => task[x].dead \subseteq Socket
    BY <1>1 DEF PresenceTypeOK, Task
  <2> QED BY <1>1, <1>2, <1>3, <2>1 DEF Tasks
<1>8. Live' BY <1>1, <1>2, <1>3, <1>5 DEF Live
<1>9. ServedOrEarly' BY <1>1, <1>2, <1>5 DEF ServedOrEarly
<1>10. Truth'
  <2> SUFFICES ASSUME NEW u \in Member, Whole(u)' PROVE TruthOf(u)' BY DEF Truth
  <2>1. TruthOf(u) BY <1>1, <1>2, WholeBefore DEF Truth
  <2>2. (Unannounced(u)' <=> Unannounced(u)) /\ Here(u)' = Here(u)
    BY <1>2, <1>5 DEF Unannounced, Here
  <2> QED BY <1>2, <1>5, <2>1, <2>2, SameTasks, SameTruth DEF TruthOf
<1> QED BY <1>4, <1>6, <1>7, <1>8, <1>9, <1>10 DEF PresenceInv

\* A connection that was greeted announces itself if it was the first one.
LEMMA GreetedOK ==
    ASSUME PresenceInv, NEW s \in Socket, NEW c \in Told, Greeted(s, c)
    PROVE  PresenceInv'
<1> USE PresenceAssumption
<1>1. /\ PresenceTypeOK /\ Fresh /\ Placed /\ Holding /\ Tasks /\ Firsts /\ Live
      /\ ServedOrEarly /\ Truth
  BY DEF PresenceInv, Sets
<1>2. /\ place[s] = "greeting"
      /\ UNCHANGED <<kind, owner, table, sockets, holds, up, early, dropped>>
  BY DEF Greeted, registry
<1>3. /\ first' \in [Socket -> BOOLEAN] /\ first'[s] = FALSE
      /\ \A t \in Socket : t # s => first'[t] = first[t]
  BY <1>1 DEF Greeted, PresenceTypeOK
<1>4. /\ place'[s] \in {"announcing", "open"} /\ \A t \in Socket : t # s => place'[t] = place[t]
      /\ place' \in [Socket -> {"new", "accepting", "greeting", "announcing", "open", "leaving", "closed"}]
      /\ IF first[s] THEN place'[s] = "announcing" ELSE place'[s] = "open"
  BY <1>1 DEF Greeted, PresenceTypeOK
<1>5. Registered' = Registered /\ Told' = Told BY <1>2 DEF Registered, Told
<1>6. Sets'
  <2>1. Fresh' BY <1>1, <1>2, <1>4 DEF Fresh
  <2>2. Placed' BY <1>1, <1>2, <1>4 DEF Placed, PresenceTypeOK
  <2>3. Holding' BY <1>1, <1>2, <1>4 DEF Holding
  <2> QED BY <2>1, <2>2, <2>3 DEF Sets
<1>7. Firsts' BY <1>1, <1>3, <1>4 DEF Firsts
<1>8. Live' BY <1>1, <1>2, <1>4, <1>5 DEF Live, Served
<1>9. ServedOrEarly' BY <1>1, <1>2, <1>4, <1>5, RegisteredSet DEF ServedOrEarly, Served
<1>10. task[s] = None BY <1>1, <1>2 DEF Tasks, Handler
<1>11. CASE first[s]
  <2>1. Announce(s, "online", c) /\ s \in Handler BY <1>11 DEF Greeted, Handler
  <2>2. /\ task' \in [Handler -> Task \union {None}]
        /\ last' \in [Member -> [Chat -> {"online", "offline"}]]
        /\ \A y \in Handler : y # s => task'[y] = task[y]
        /\ task'[s] # None /\ task'[s].event = "online" /\ task'[s].dead = {}
        /\ astray \subseteq astray' /\ astray' \subseteq Member
        /\ \A u \in Member : u # owner[s] => last'[u] = last[u]
        /\ owner[s] \notin astray' =>
             /\ \A y \in Socket : \A d \in Told : owner[y] = owner[s] /\ Owes(y, d)' => y = s
             /\ \A d \in Told : Tells(owner[s], d, "online")'
    BY <1>1, <1>2, <2>1, AnnounceFacts
  <2>3. PresenceTypeOK' BY <1>1, <1>2, <1>3, <1>4, <2>2 DEF PresenceTypeOK
  <2>4. Tasks' BY <1>1, <1>2, <1>4, <1>11, <2>2 DEF Tasks
  <2>5. Truth'
    <3> SUFFICES ASSUME NEW u \in Member, Whole(u)' PROVE TruthOf(u)' BY DEF Truth
    <3>1. TruthOf(u) BY <1>1, <1>2, <2>2, WholeBefore DEF Truth
    <3>2. CASE u = owner[s]
      <4>1. u \notin astray' BY DEF Whole
      <4>2. s \in Registered' BY <1>2, <1>5, <3>1, <3>2 DEF TruthOf
      <4>3. Here(u)' # {} BY <1>2, <3>2, <4>2 DEF Here
      <4>4. \A t \in Socket : owner[t] = u /\ place'[t] \in {"greeting", "announcing"} => t \in Registered'
        BY <1>2, <1>4, <1>5, <3>1, <4>2 DEF TruthOf
      <4> QED BY <1>2, <1>5, <2>2, <3>2, <4>1, <4>3, <4>4 DEF TruthOf
    <3>3. CASE u # owner[s]
      <4>1. \A x \in Socket : owner[x] = u => task'[x] = task[x] BY <2>2, <3>3 DEF Handler
      <4>2. \A x \in Socket : owner[x] = u => \A d : Owes(x, d)' <=> Owes(x, d)
        BY <4>1 DEF Owes, Presence
      <4>3. (Unannounced(u)' <=> Unannounced(u)) /\ Here(u)' = Here(u)
        BY <1>2, <1>3, <1>4, <1>5, <3>3 DEF Unannounced, Here
      <4> QED BY <1>2, <1>4, <1>5, <2>2, <3>1, <3>3, <4>1, <4>2, <4>3, SameTruth DEF TruthOf
    <3> QED BY <3>2, <3>3
  <2> QED BY <1>6, <1>7, <1>8, <1>9, <2>3, <2>4, <2>5 DEF PresenceInv
<1>12. CASE ~first[s]
  <2>1. UNCHANGED <<task, last, astray>> BY <1>12 DEF Greeted
  <2>2. PresenceTypeOK' BY <1>1, <1>2, <1>3, <1>4, <2>1 DEF PresenceTypeOK
  <2>3. Tasks' BY <1>1, <1>2, <1>4, <1>10, <2>1 DEF Tasks
  <2>4. \A u : (Unannounced(u)' <=> Unannounced(u)) /\ Here(u)' = Here(u)
    BY <1>2, <1>3, <1>4, <1>5, <1>12 DEF Unannounced, Here
  <2>5. \A t \in Socket : place'[t] \in {"greeting", "announcing"} => place'[t] = place[t]
    BY <1>4, <1>12
  <2>6. Truth'
    <3> SUFFICES ASSUME NEW u \in Member, Whole(u)' PROVE TruthOf(u)' BY DEF Truth
    <3>1. TruthOf(u) BY <1>1, <1>2, <2>1, WholeBefore DEF Truth
    <3> QED BY <1>2, <1>5, <2>1, <2>4, <2>5, <3>1, SameTasks, SameTruth DEF TruthOf
  <2> QED BY <1>6, <1>7, <1>8, <1>9, <2>2, <2>3, <2>6 DEF PresenceInv
<1> QED BY <1>11, <1>12

\* The end of the receive loop, whether the client closed or a broadcast raised.
LEMMA LeaveOK ==
    ASSUME PresenceInv, NEW s \in Socket, NEW c \in Told, place[s] = "open",
           Leave(s, c), UNCHANGED <<kind, owner, holds, first, early>>
    PROVE  PresenceInv'
<1> USE PresenceAssumption
<1>1. /\ PresenceTypeOK /\ Fresh /\ Placed /\ Holding /\ Tasks /\ Firsts /\ Live
      /\ ServedOrEarly /\ Truth
  BY DEF PresenceInv, Sets
<1>2. /\ table' \in {table, None} /\ sockets' \in [Socket -> SUBSET Socket]
      /\ \A k \in Socket : sockets'[k] \subseteq sockets[k]
      /\ Registered' = Registered \ {s}
      /\ dropped \subseteq dropped' /\ dropped' \subseteq Socket
      /\ table' # table => \A t \in Socket :
           place[t] = "accepting" /\ holds[t] = table => t \in dropped'
      /\ kind = None /\ table' # None => sockets'[table'] # {}
  BY <1>1, RemoveFacts DEF Leave
<1>3. up' \in [Socket -> BOOLEAN] /\ ~up'[s] /\ \A t \in Socket : t # s => up'[t] = up[t]
  BY <1>1 DEF Leave, PresenceTypeOK
<1>4. /\ place'[s] \in {"leaving", "closed"} /\ \A t \in Socket : t # s => place'[t] = place[t]
      /\ place' \in [Socket -> {"new", "accepting", "greeting", "announcing", "open", "leaving", "closed"}]
      /\ IF Last(s) THEN place'[s] = "leaving" ELSE place'[s] = "closed"
  BY <1>1 DEF Leave, PresenceTypeOK
<1>5. \A d : ~Owes(s, d) BY <1>1 DEF Owes, Presence, Tasks, Handler
<1>6. Sets'
  <2>1. Fresh' BY <1>1, <1>2, <1>4 DEF Fresh
  <2>2. Placed' BY <1>1, <1>2, <1>4 DEF Placed, PresenceTypeOK
  <2>3. Holding' BY <1>1, <1>2, <1>4 DEF Holding
  <2> QED BY <2>1, <2>2, <2>3 DEF Sets
<1>7. Firsts' BY <1>1, <1>4 DEF Firsts
<1>8. Live'
  <2>1. \A t \in Socket : place'[t] \in Served => t # s BY <1>4 DEF Served
  <2> QED BY <1>1, <1>2, <1>3, <1>4, <2>1 DEF Live
<1>9. ServedOrEarly' BY <1>1, <1>2, <1>4, RegisteredSet DEF ServedOrEarly
<1>10. \A x \in Handler : task[x] # None => task[x].dead \subseteq Socket
  BY <1>1 DEF PresenceTypeOK, Task
<1>11. \A u : /\ Unannounced(u)' <=> Unannounced(u)
              /\ Here(u)' = Here(u) \ {s}
  BY <1>2, <1>4 DEF Unannounced, Here
<1>12. CASE Last(s)
  <2>1. Announce(s, "offline", c) /\ s \in Handler BY <1>12 DEF Leave, Handler
  <2>2. /\ Told' = Told
        /\ task' \in [Handler -> Task \union {None}]
        /\ last' \in [Member -> [Chat -> {"online", "offline"}]]
        /\ \A y \in Handler : y # s => task'[y] = task[y]
        /\ task'[s] # None /\ task'[s].event = "offline" /\ task'[s].dead = {}
        /\ astray \subseteq astray' /\ astray' \subseteq Member
        /\ \A u \in Member : u # owner[s] => last'[u] = last[u]
        /\ owner[s] \notin astray' =>
             /\ \A y \in Socket : \A d \in Told : owner[y] = owner[s] /\ Owes(y, d)' => y = s
             /\ \A d \in Told : Tells(owner[s], d, "offline")'
    BY <1>1, <2>1, AnnounceFacts
  <2>3. PresenceTypeOK' BY <1>1, <1>2, <1>3, <1>4, <2>2 DEF PresenceTypeOK
  <2>4. Tasks' BY <1>1, <1>3, <1>4, <1>10, <1>12, <2>2 DEF Tasks
  <2>5. Here(owner[s]) = {s} BY <1>12 DEF Last
  <2>6. Truth'
    <3> SUFFICES ASSUME NEW u \in Member, Whole(u)' PROVE TruthOf(u)' BY DEF Truth
    <3>1. TruthOf(u) BY <1>1, <1>2, <2>2, WholeBefore DEF Truth
    <3>2. CASE u = owner[s]
      <4>1. u \notin astray' BY DEF Whole
      <4>2. Here(u)' = {} BY <1>11, <2>5, <3>2
      <4>3. \A t \in Socket : owner[t] = u /\ place[t] \in {"greeting", "announcing"} => t = s
        BY <2>5, <3>1, <3>2 DEF TruthOf, Here
      <4>4. \A t \in Socket : owner[t] = u => place'[t] \notin {"greeting", "announcing"}
        BY <1>4, <4>3
      <4> QED BY <2>2, <3>2, <4>1, <4>2, <4>4 DEF TruthOf
    <3>3. CASE u # owner[s]
      <4>1. \A x \in Socket : owner[x] = u => task'[x] = task[x] BY <2>2, <3>3 DEF Handler
      <4>2. \A x \in Socket : owner[x] = u => \A d : Owes(x, d)' <=> Owes(x, d)
        BY <4>1 DEF Owes, Presence
      <4>3. Here(u)' = Here(u) BY <1>11, <3>3 DEF Here
      <4> QED BY <1>2, <1>4, <1>11, <2>2, <3>1, <3>3, <4>1, <4>2, <4>3, SameTruth DEF TruthOf
    <3> QED BY <3>2, <3>3
  <2> QED BY <1>6, <1>7, <1>8, <1>9, <2>3, <2>4, <2>6 DEF PresenceInv
<1>13. CASE ~Last(s)
  <2>1. UNCHANGED <<last, astray>> /\ task' = [task EXCEPT ![s] = None] BY <1>13 DEF Leave
  <2>2. /\ s \in Handler /\ task'[s] = None /\ \A y \in Handler : y # s => task'[y] = task[y]
        /\ task' \in [Handler -> Task \union {None}]
    BY <1>1, <2>1 DEF PresenceTypeOK, Handler
  <2>3. PresenceTypeOK' BY <1>1, <1>2, <1>3, <1>4, <2>1, <2>2 DEF PresenceTypeOK
  <2>4. Tasks' BY <1>1, <1>3, <1>4, <1>10, <2>2 DEF Tasks
  <2>5. \A x \in Socket : \A d \in Told : /\ Owes(x, d)' <=> Owes(x, d)
                                          /\ Owes(x, d) => task'[x].event = task[x].event
    BY <1>5, <2>2 DEF Owes, Presence, Handler
  <2>6. \A u \in Member : Here(u)' = {} <=> Here(u) = {}
    <3> SUFFICES ASSUME NEW u \in Member, Here(u)' = {} PROVE Here(u) = {} BY <1>11
    <3>1. Here(u) \subseteq {s} BY <1>11
    <3>2. Here(u) # {s} BY <1>13 DEF Last, Here
    <3> QED BY <3>1, <3>2
  <2>7. Truth'
    <3> SUFFICES ASSUME NEW u \in Member, Whole(u)' PROVE TruthOf(u)' BY DEF Truth
    <3>1. TruthOf(u) BY <1>1, <1>2, <2>1, WholeBefore DEF Truth
    <3> QED BY <1>2, <1>4, <1>11, <1>13, <2>1, <2>5, <2>6, <3>1, SameTruth DEF TruthOf
  <2> QED BY <1>6, <1>7, <1>8, <1>9, <2>3, <2>4, <2>7 DEF PresenceInv
<1> QED BY <1>12, <1>13

\* A broadcast that raises outside of the receive loop.
LEMMA RaisesOK ==
    ASSUME PresenceInv, NEW x \in Handler, NEW c \in Told, Raises(x, c)
    PROVE  PresenceInv'
<1> USE PresenceAssumption
<1>1. /\ PresenceTypeOK /\ Fresh /\ Placed /\ Holding /\ Tasks /\ Firsts /\ Live
      /\ ServedOrEarly /\ Truth
  BY DEF PresenceInv, Sets
<1>2. CASE x \in Socket /\ place[x] = "open"
  <2>1. Leave(x, c) /\ UNCHANGED <<kind, owner, holds, first, early>> BY <1>2 DEF Raises
  <2> QED BY <1>2, <2>1, LeaveOK
<1>3. CASE ~(x \in Socket /\ place[x] = "open")
  <2>1. /\ task[x] # None /\ astray' = astray \union IF Presence(x) THEN {owner[x]} ELSE {}
        /\ UNCHANGED <<kind, owner, table, sockets, holds, first, last, dropped>>
        /\ task' = [task EXCEPT ![x] = None]
    BY <1>3 DEF Raises, registry
  <2>2. /\ task'[x] = None /\ \A y \in Handler : y # x => task'[y] = task[y]
        /\ task' \in [Handler -> Task \union {None}]
    BY <1>1, <2>1 DEF PresenceTypeOK
  <2>3. astray' \subseteq Member
    BY <1>1, <2>1 DEF PresenceTypeOK, Presence, Tasks
  <2>4. Registered' = Registered BY <2>1 DEF Registered
  <2>5. \A y \in Handler : task[y] # None => task[y].dead \subseteq Socket
    BY <1>1 DEF PresenceTypeOK, Task
  <2>6. CASE x \in Socket
    <3>1. place[x] \in {"announcing", "leaving"} /\ Presence(x)
      BY <1>1, <1>3, <2>1, <2>6 DEF Tasks, Presence
    <3>2. /\ place' = [place EXCEPT ![x] = "closed"] /\ up' = [up EXCEPT ![x] = FALSE]
          /\ early' = IF place[x] = "announcing" THEN early \union {x} ELSE early
      BY <1>3, <2>6 DEF Raises
    <3>3. /\ place'[x] = "closed" /\ \A t \in Socket : t # x => place'[t] = place[t]
          /\ place' \in [Socket -> {"new", "accepting", "greeting", "announcing", "open", "leaving", "closed"}]
          /\ up' \in [Socket -> BOOLEAN] /\ ~up'[x] /\ \A t \in Socket : t # x => up'[t] = up[t]
      BY <1>1, <2>6, <3>2 DEF PresenceTypeOK
    <3>4. early \subseteq early' /\ early' \subseteq Socket
          /\ (place[x] = "announcing" => x \in early')
      BY <1>1, <2>6, <3>2 DEF PresenceTypeOK
    <3>5. PresenceTypeOK' BY <1>1, <2>1, <2>2, <2>3, <3>3, <3>4 DEF PresenceTypeOK
    <3>6. Sets'
      <4>1. Fresh' BY <1>1, <2>1, <3>3 DEF Fresh
      <4>2. Placed' BY <1>1, <2>1, <3>3 DEF Placed, PresenceTypeOK
      <4>3. Holding' BY <1>1, <2>1, <3>3 DEF Holding
      <4> QED BY <4>1, <4>2, <4>3 DEF Sets
    <3>7. Firsts' BY <1>1, <2>1, <3>1, <3>3 DEF Firsts
    <3>8. Tasks' BY <1>1, <2>2, <2>5, <3>3 DEF Tasks
    <3>9. Live' BY <1>1, <2>1, <2>4, <3>3 DEF Live
    <3>10. ServedOrEarly'
      <4> SUFFICES ASSUME NEW t \in Registered PROVE place'[t] \in Served \/ t \in early'
        BY <2>4 DEF ServedOrEarly
      <4>1. t \in Socket /\ (place[t] \in Served \/ t \in early)
        BY <1>1, RegisteredSet DEF ServedOrEarly
      <4>2. CASE t # x BY <3>3, <3>4, <4>1, <4>2
      <4>3. CASE t = x BY <3>1, <3>4, <4>1, <4>3 DEF Served
      <4> QED BY <4>2, <4>3
    <3>11. Truth'
      <4> SUFFICES ASSUME NEW u \in Member, Whole(u)' PROVE TruthOf(u)' BY DEF Truth
      <4>1. TruthOf(u) BY <1>1, <2>1, WholeBefore DEF Truth
      <4>2. owner[x] # u BY <2>1, <3>1 DEF Whole
      <4>3. \A y \in Socket : owner[y] = u => task'[y] = task[y] BY <2>2, <4>2 DEF Handler
      <4>4. \A y \in Socket : owner[y] = u => \A d : Owes(y, d)' <=> Owes(y, d)
        BY <4>3 DEF Owes, Presence
      <4>5. (Unannounced(u)' <=> Unannounced(u)) /\ Here(u)' = Here(u)
        BY <2>1, <2>4, <3>3, <4>2 DEF Unannounced, Here
      <4> QED BY <2>1, <2>4, <3>3, <4>1, <4>2, <4>3, <4>4, <4>5, SameTruth DEF TruthOf
    <3> QED BY <3>5, <3>6, <3>7, <3>8, <3>9, <3>10, <3>11 DEF PresenceInv
  <2>7. CASE x \notin Socket
    <3>1. UNCHANGED <<place, up, early>> BY <1>3, <2>7 DEF Raises
    <3>2. task[x].event = "other" /\ ~Presence(x) BY <1>1, <2>1, <2>7 DEF Tasks, Presence
    <3>3. PresenceTypeOK' BY <1>1, <2>1, <2>2, <2>3, <3>1 DEF PresenceTypeOK
    <3>4. Sets' /\ Firsts' BY <1>1, <2>1, <3>1 DEF Sets, Fresh, Placed, Holding, Firsts
    <3>5. Tasks' BY <1>1, <2>2, <3>1 DEF Tasks
    <3>6. Live' /\ ServedOrEarly' BY <1>1, <2>1, <2>4, <3>1 DEF Live, ServedOrEarly
    <3>7. \A y \in Socket : \A d \in Told : /\ Owes(y, d)' <=> Owes(y, d)
                                            /\ Owes(y, d) => task'[y].event = task[y].event
      BY <2>2, <3>2 DEF Owes, Presence, Handler
    <3>8. \A u : (Unannounced(u)' <=> Unannounced(u)) /\ Here(u)' = Here(u)
      BY <2>1, <2>4, <3>1 DEF Unannounced, Here
    <3>9. Truth'
      <4> SUFFICES ASSUME NEW u \in Member, Whole(u)' PROVE TruthOf(u)' BY DEF Truth
      <4>1. TruthOf(u) BY <1>1, <2>1, WholeBefore DEF Truth
      <4> QED BY <2>1, <2>4, <3>1, <3>7, <3>8, <4>1, SameTruth DEF TruthOf
    <3> QED BY <3>3, <3>4, <3>5, <3>6, <3>9 DEF PresenceInv
  <2> QED BY <2>6, <2>7
<1> QED BY <1>2, <1>3

-----------------------------------------------------------------------------

LEMMA PresenceStep == PresenceInv /\ [PresenceNext]_presenceVars => PresenceInv'
<1> SUFFICES ASSUME PresenceInv, [PresenceNext]_presenceVars PROVE PresenceInv' OBVIOUS
<1>1. CASE UNCHANGED presenceVars
  <2> USE <1>1 DEF presenceVars, registry, handlers, marks, PresenceInv
  <2>1. PresenceTypeOK' /\ Sets' /\ Tasks' /\ Firsts'
    BY DEF PresenceTypeOK, Sets, Fresh, Placed, Holding, Tasks, Firsts
  <2>2. Registered' = Registered /\ Told' = Told BY DEF Registered, Told
  <2>3. Live' /\ ServedOrEarly' BY <2>2 DEF Live, ServedOrEarly
  <2>4. \A u : (Unannounced(u)' <=> Unannounced(u)) /\ Here(u)' = Here(u)
    BY <2>2 DEF Unannounced, Here
  <2>5. Truth'
    <3> SUFFICES ASSUME NEW u \in Member, Whole(u)' PROVE TruthOf(u)' BY DEF Truth
    <3>1. TruthOf(u) BY WholeBefore DEF Truth
    <3> QED BY <2>2, <2>4, <3>1, SameTasks, SameTruth DEF TruthOf
  <2> QED BY <2>1, <2>3, <2>5
<1>2. ASSUME NEW s \in Socket, Connect(s) PROVE PresenceInv' BY <1>2, ConnectOK
<1>3. ASSUME NEW s \in Socket, ConnectChat(s) PROVE PresenceInv' BY <1>3, ConnectChatOK
<1>4. ASSUME NEW s \in Socket, Accepted(s) PROVE PresenceInv' BY <1>4, AcceptedOK
<1>5. ASSUME NEW s \in Socket, AcceptFails(s) PROVE PresenceInv' BY <1>5, AcceptFailsOK
<1>6. ASSUME NEW s \in Socket, GreetFails(s) PROVE PresenceInv' BY <1>6, GreetFailsOK
<1>7. ASSUME NEW s \in Socket, Vanish(s) PROVE PresenceInv' BY <1>7, VanishOK
<1>8. ASSUME NEW s \in Socket, NEW c \in Told, Greeted(s, c) PROVE PresenceInv'
  BY <1>8, GreetedOK
<1>9. ASSUME NEW s \in Socket, NEW c \in Told, Closes(s, c) PROVE PresenceInv'
  BY <1>9, LeaveOK DEF Closes
<1>10. ASSUME NEW x \in Handler, Broadcast(x) PROVE PresenceInv' BY <1>10, BroadcastOK
<1>11. ASSUME NEW x \in Handler, LoopBegins(x) PROVE PresenceInv' BY <1>11, LoopBeginsOK
<1>12. ASSUME NEW x \in Handler, LoopEnds(x) PROVE PresenceInv' BY <1>12, LoopEndsOK
<1>13. ASSUME NEW x \in Handler, Ends(x) PROVE PresenceInv' BY <1>13, EndsOK
<1>14. ASSUME NEW x \in Handler, NEW s \in Socket, NEW fails \in BOOLEAN, Send(x, s, fails)
       PROVE  PresenceInv'
  BY <1>14, SendOK
<1>15. ASSUME NEW x \in Handler, NEW c \in Told, NextChat(x, c) PROVE PresenceInv'
  BY <1>15, NextChatOK
<1>16. ASSUME NEW x \in Handler, NEW c \in Told, Raises(x, c) PROVE PresenceInv'
  BY <1>16, RaisesOK
<1> QED
  BY <1>1, <1>2, <1>3, <1>4, <1>5, <1>6, <1>7, <1>8, <1>9, <1>10, <1>11, <1>12, <1>13,
     <1>14, <1>15, <1>16
  DEF PresenceNext

LEMMA PresenceInvariant == PresenceSpec => []PresenceInv
BY PresenceInitOK, PresenceStep, PTL DEF PresenceSpec

\* Handlers, sets and broadcasts keep their types, and user_realtime_manager
\* never keeps an empty set in its table.
THEOREM PresenceTypeCorrect == PresenceSpec => []PresenceTypeOK
<1>1. PresenceInv => PresenceTypeOK BY DEF PresenceInv
<1> QED BY <1>1, PresenceInvariant, PTL

\* A connection that is served and whose client is there is in the set that
\* broadcasts go to, whatever the cleanups and disconnects of any number of
\* others did, unless chat_manager dropped its set during accept().
THEOREM ReachableSafe == PresenceSpec => []LiveIsReachable
<1>1. PresenceInv => LiveIsReachable BY DEF PresenceInv, Live, Served, LiveIsReachable
<1> QED BY <1>1, PresenceInvariant, PTL

\* A connection whose handler has ended is not in the set, unless the handler
\* failed before its receive loop.
THEOREM ServedSafe == PresenceSpec => []RegisteredIsServed
<1>1. PresenceInv => RegisteredIsServed
  BY DEF PresenceInv, ServedOrEarly, Served, RegisteredIsServed
<1> QED BY <1>1, PresenceInvariant, PTL

\* When no connection of a member is greeted, announced or leaving, the last
\* presence event about him in every chat says whether he is connected, however
\* many connections of his and of others came and went, unless an event of his
\* was skipped or overtaken, a cleanup removed his last connection, or all his
\* others left chat_manager while it was accepting one.
THEOREM LastEventSafe == PresenceSpec => []LastEventIsTrue
<1>1. PresenceInv => LastEventIsTrue
  <2> USE PresenceAssumption
  <2> SUFFICES ASSUME PresenceInv, NEW u \in Member, u \notin astray,
                      \A s \in Socket : owner[s] = u =>
                          place[s] \in {"new", "open", "closed"} /\ s \notin dropped,
                      NEW c \in Told
               PROVE  (last[u][c] = "online") = (Here(u) # {})
    BY DEF LastEventIsTrue
  <2>1. \A x \in Socket : owner[x] = u => ~Owes(x, c)
    <3> SUFFICES ASSUME NEW x \in Socket, owner[x] = u, Owes(x, c) PROVE FALSE OBVIOUS
    <3>1. task[x] # None /\ task[x].event # "other" BY DEF Owes, Presence
    <3>2. place[x] \in {"announcing", "leaving"}
      BY <3>1 DEF PresenceInv, Tasks, Handler
    <3> QED BY <3>2
  <2>2. ~Unannounced(u) BY DEF Unannounced
  <2>3. TruthOf(u) BY DEF PresenceInv, PresenceTypeOK, Truth, Whole
  <2>4. CASE Here(u) = {}
    <3>1. last[u][c] = "offline" BY <2>1, <2>3, <2>4 DEF TruthOf, Tells
    <3> QED BY <2>4, <3>1
  <2>5. CASE Here(u) # {}
    <3>1. last[u][c] = "online" BY <2>1, <2>2, <2>3, <2>5 DEF TruthOf, Tells
    <3> QED BY <2>5, <3>1
  <2> QED BY <2>4, <2>5
<1> QED BY <1>1, PresenceInvariant, PTL
=============================================================================

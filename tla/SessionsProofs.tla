--------------------------- MODULE SessionsProofs ---------------------------
(***************************************************************************)
(* Theorems about Sessions, for any number of calls, rows, refreshes and   *)
(* faults.                                                                 *)
(***************************************************************************)
EXTENDS Sessions, SequenceTheorems, TLAPS

-----------------------------------------------------------------------------
(* Rows and what a step does to them.                                      *)

LEMMA RowFacts ==
    ASSUME TypeOK
    PROVE  /\ Len(row) \in Nat
           /\ \A n \in RowId : row[n].session \in RowId /\ row[n].active \in BOOLEAN
           /\ \A n \in RowId : row[n] = [session |-> row[n].session, active |-> row[n].active]
<1>1. row \in Seq(RowType) BY DEF TypeOK
<1>2. \A n \in 1..Len(row) : row[n] \in RowType BY <1>1, ElementOfSeq
<1>3. Len(row) \in Nat BY <1>1, LenProperties
<1> QED BY <1>2, <1>3 DEF RowType, RowId

LEMMA RefreshFacts ==
    ASSUME TypeOK
    PROVE  /\ Len(refreshes) \in Nat /\ DOMAIN refreshes = 1..Len(refreshes)
           /\ \A i \in DOMAIN refreshes : refreshes[i] \in Refresh
<1>1. refreshes \in Seq(Refresh) BY DEF TypeOK
<1> QED BY <1>1, ElementOfSeq, LenProperties

\* Revoking leaves every row in place and every session with its rows.
LEMMA Revoking ==
    ASSUME TypeOK, NEW S
    PROVE  /\ Revoke(S) \in Seq(RowType)
           /\ Len(Revoke(S)) = Len(row)
           /\ \A n \in RowId :
                /\ Revoke(S)[n].session = row[n].session
                /\ Revoke(S)[n].active <=> (row[n].active /\ n \notin S)
<1> USE RowFacts
<1>1. \A n \in RowId :
        /\ Revoke(S)[n] \in RowType
        /\ Revoke(S)[n].session = row[n].session
        /\ Revoke(S)[n].active <=> (row[n].active /\ n \notin S)
  <2> TAKE n \in RowId
  <2>1. Revoke(S)[n] = IF n \in S THEN [row[n] EXCEPT !.active = FALSE] ELSE row[n]
    BY DEF Revoke
  <2>2. row[n] \in RowType BY ElementOfSeq DEF TypeOK, RowId
  <2>3. CASE n \in S BY <2>1, <2>2, <2>3 DEF RowType
  <2>4. CASE n \notin S
    <3>1. Revoke(S)[n] = row[n] BY <2>1, <2>4
    <3> QED BY <2>2, <2>4, <3>1
  <2> QED BY <2>3, <2>4
<1>2. Revoke(S) \in [1..Len(row) -> RowType] BY <1>1 DEF Revoke, RowId
<1>3. Revoke(S) \in Seq(RowType) BY <1>2, SeqDef
<1>4. Len(Revoke(S)) = Len(row)
  <2>1. DOMAIN Revoke(S) = 1..Len(row) BY <1>2
  <2>2. DOMAIN Revoke(S) = 1..Len(Revoke(S)) /\ Len(Revoke(S)) \in Nat BY <1>3, LenProperties
  <2> QED BY <2>1, <2>2
<1> QED BY <1>1, <1>3, <1>4

\* An issued row comes after the rows there are.
LEMMA Issuing ==
    ASSUME TypeOK, NEW rows \in Seq(RowType), Len(rows) = Len(row),
           NEW s \in 1..(Len(row) + 1), row' = Issue(rows, s)
    PROVE  /\ row' \in Seq(RowType') /\ Len(row') = Len(row) + 1
           /\ \A n \in RowId : row'[n] = rows[n]
           /\ row'[Len(row) + 1] = [session |-> s, active |-> TRUE]
           /\ RowId' = RowId \union {Len(row) + 1}
<1> USE RowFacts
<1> DEFINE T == [session : 1..(Len(row) + 1), active : BOOLEAN]
           new == [session |-> s, active |-> TRUE]
<1>1. rows \in Seq(T)
  <2>1. RowType \subseteq T BY DEF RowType, RowId
  <2> QED BY <2>1, SeqMonotonic
<1>2. new \in T OBVIOUS
<1>3. /\ row' \in Seq(T) /\ Len(row') = Len(row) + 1
      /\ \A n \in 1..Len(row) : row'[n] = rows[n]
      /\ row'[Len(row) + 1] = new
  <2> HIDE DEF T, new
  <2> QED BY <1>1, <1>2, AppendProperties DEF Issue, new
<1>4. RowId' = 1..(Len(row) + 1) BY <1>3 DEF RowId
<1>5. T = RowType' BY <1>4 DEF RowType
<1>6. RowId' = RowId \union {Len(row) + 1}
  <2>1. Len(row) \in Nat OBVIOUS
  <2> QED BY <1>4, <2>1 DEF RowId
<1>7. row' \in Seq(RowType') BY <1>3, <1>5
<1>8. \A n \in RowId : row'[n] = rows[n] BY <1>3 DEF RowId
<1> QED BY <1>3, <1>6, <1>7, <1>8

-----------------------------------------------------------------------------
(* Type correctness.                                                       *)

\* What is well typed stays so while rows and refreshes are only added.
LEMMA TypesGrow ==
    ASSUME TypeOK, Len(row') \in Nat, Len(row) <= Len(row'),
           DOMAIN refreshes \subseteq (DOMAIN refreshes)'
    PROVE  /\ RowId \subseteq RowId' /\ Known \subseteq Known'
           /\ Pair \subseteq Pair' /\ CallType \subseteq CallType'
           /\ lapsed \in 0..Len(row') /\ refreshes \in Seq(Refresh')
           /\ ending \subseteq RowId' /\ held \in Pair' /\ saved \in Pair'
           /\ saves \in Seq(SavedHalf') /\ call \in [Call -> CallType']
           /\ ended \subseteq RowId' /\ raced \subseteq RowId'
<1> USE RowFacts
<1>1. RowId \subseteq RowId' BY DEF RowId
<1>2. Known \subseteq Known' BY <1>1 DEF Known
<1>3. Pair \subseteq Pair' BY <1>2 DEF Pair
<1>4. CallType \subseteq CallType' BY <1>3 DEF CallType
<1>5. Refresh \subseteq Refresh' BY <1>1, <1>2 DEF Refresh
<1>6. SavedHalf \subseteq SavedHalf' BY <1>3 DEF SavedHalf
<1>7. refreshes \in Seq(Refresh') BY <1>5, SeqMonotonic DEF TypeOK
<1>8. saves \in Seq(SavedHalf') BY <1>6, SeqMonotonic DEF TypeOK
<1>9. lapsed \in 0..Len(row') BY DEF TypeOK
<1>10. call \in [Call -> CallType'] BY <1>4 DEF TypeOK
<1> QED BY <1>1, <1>2, <1>3, <1>4, <1>7, <1>8, <1>9, <1>10 DEF TypeOK

\* Holding a pair the client knows.
LEMMA Holding ==
    ASSUME TypeOK, Len(row') \in Nat, Len(row) <= Len(row'),
           DOMAIN refreshes \subseteq (DOMAIN refreshes)',
           NEW pair \in Pair', Hold(pair)
    PROVE  /\ held' \in Pair' /\ saved' \in Pair'
           /\ saves' \in Seq(SavedHalf') /\ Len(saves') <= MaxSaves
<1>1. saves \in Seq(SavedHalf') /\ saved \in Pair' BY TypesGrow
<1>2. Len(saves) \in Nat /\ MaxSaves \in Nat BY <1>1, LenProperties, SessionsAssumption
<1>3. [pair |-> pair, access |-> FALSE] \in SavedHalf' BY DEF SavedHalf
<1>4. saves' = Append(saves, [pair |-> pair, access |-> FALSE]) /\ Len(saves) < MaxSaves
  BY DEF Hold
<1>5. saves' \in Seq(SavedHalf') /\ Len(saves') = Len(saves) + 1
  BY <1>1, <1>3, <1>4, AppendProperties
<1> QED BY <1>1, <1>2, <1>4, <1>5 DEF Hold

\* A call that awaits a refresh knows which.
Asked == \A t \in Call : call[t].at = "refresh" => call[t].refresh # None

LEMMA AnswerFacts ==
    ASSUME TypeOK, Asked, NEW t \in Call, call[t].at = "refresh"
    PROVE  /\ Answer(t) \in Refresh
           /\ PairOf(Answer(t).made) \in Pair
<1>1. call[t] \in CallType BY DEF TypeOK
<1>2. call[t].refresh \in DOMAIN refreshes BY <1>1 DEF Asked, CallType
<1>3. Answer(t) \in Refresh BY <1>2, RefreshFacts DEF Answer
<1> QED BY <1>3 DEF Refresh, PairOf, Pair

LEMMA LoggedOutIsPair == LoggedOut \in Pair /\ Idle \in CallType
<1>1. None \in Known BY DEF Known
<1>2. LoggedOut \in Pair BY <1>1 DEF LoggedOut, Pair
<1> QED BY <1>2 DEF Idle, CallType

\* Steps of the server keep the types.
LEMMA ServerTypes ==
    ASSUME TypeOK, Asked,
           \/ Lapse \/ EndCommit
           \/ \E S \in SUBSET RowId : EndRead(S)
           \/ \E i \in DOMAIN refreshes : RefreshRead(i) \/ RefreshCommit(i)
    PROVE  TypeOK' /\ Asked'
<1> USE RowFacts, RefreshFacts
<1>1. CASE Lapse
  <2>1. lapsed + 1 \in 0..Len(row) BY <1>1 DEF Lapse, TypeOK
  <2> QED BY <1>1, <2>1 DEF Lapse, client, history, TypeOK, Asked, RowType, Refresh, SavedHalf, CallType,
            Pair, Known, RowId
<1>2. CASE EndCommit
  <2>1. row' \in Seq(RowType) /\ Len(row') = Len(row) BY <1>2, Revoking DEF EndCommit
  <2>2. {row[n].session : n \in ending} \subseteq RowId BY DEF TypeOK
  <2> QED BY <1>2, <2>1, <2>2 DEF EndCommit, client, history, TypeOK, Asked, RowType, Refresh, SavedHalf,
            CallType, Pair, Known, RowId
<1>3. ASSUME NEW S \in SUBSET RowId, EndRead(S) PROVE TypeOK' /\ Asked'
  <2>1. ending' \subseteq RowId BY <1>3 DEF EndRead, ActiveRows
  <2> QED BY <1>3, <2>1 DEF EndRead, client, history, TypeOK, Asked, RowType, Refresh, SavedHalf, CallType,
            Pair, Known, RowId
<1>4. ASSUME NEW i \in DOMAIN refreshes, RefreshRead(i) PROVE TypeOK' /\ Asked'
  <2>1. PICK stage \in {"read", "refused"} : refreshes' = [refreshes EXCEPT ![i].stage = stage]
    BY <1>4 DEF RefreshRead
  <2>2. [refreshes[i] EXCEPT !.stage = stage] \in Refresh BY DEF Refresh
  <2>3. refreshes' \in Seq(Refresh) /\ Len(refreshes') = Len(refreshes)
    BY <2>1, <2>2, ExceptSeq DEF TypeOK
  <2>4. DOMAIN refreshes' = DOMAIN refreshes BY <2>3, LenProperties
  <2>5. raced' \subseteq RowId BY <1>4 DEF RefreshRead, Active, TypeOK
  <2> QED BY <1>4, <2>3, <2>4, <2>5 DEF RefreshRead, client, history, TypeOK, Asked, RowType, Refresh,
            SavedHalf, CallType, Pair, Known, RowId
<1>5. ASSUME NEW i \in DOMAIN refreshes, RefreshCommit(i) PROVE TypeOK' /\ Asked'
  <2> DEFINE n == refreshes[i].token
  <2>1. n \in RowId BY DEF Refresh
  <2>2. row[n].session \in 1..(Len(row) + 1) BY <2>1 DEF RowId
  <2>3. /\ row' \in Seq(RowType') /\ Len(row') = Len(row) + 1
        /\ RowId' = RowId \union {Len(row) + 1}
    <3> DEFINE rows == Revoke({n})
               s == row[n].session
    <3>1. row' = Issue(rows, s) BY <1>5 DEF RefreshCommit
    <3>2. rows \in Seq(RowType) /\ Len(rows) = Len(row) BY Revoking
    <3>3. s \in 1..(Len(row) + 1) BY <2>2
    <3> HIDE DEF n, rows, s
    <3> QED BY <3>1, <3>2, <3>3, Issuing
  <2>4. Len(row') <= MaxRows
    <3>1. MaxRows \in Nat /\ Len(row) \in Nat /\ Len(row) < MaxRows
      BY <1>5, SessionsAssumption DEF RefreshCommit
    <3> QED BY <2>3, <3>1
  <2>5. Refresh \subseteq Refresh' BY <2>3 DEF Refresh, Known
  <2>6. [refreshes[i] EXCEPT !.stage = "granted", !.made = Len(row) + 1] \in Refresh'
    <3>1. refreshes[i] \in Refresh' BY <2>5
    <3>2. Len(row) + 1 \in Known' BY <2>3 DEF Known
    <3> QED BY <3>1, <3>2 DEF Refresh
  <2>7. refreshes' = [refreshes EXCEPT ![i] = [refreshes[i] EXCEPT !.stage = "granted", !.made = Len(row) + 1]]
    BY <1>5 DEF RefreshCommit
  <2>8. refreshes \in Seq(Refresh') BY <2>5, SeqMonotonic DEF TypeOK
  <2>9. refreshes' \in Seq(Refresh') /\ Len(refreshes') = Len(refreshes)
    BY <2>6, <2>7, <2>8, ExceptSeq
  <2>10. DOMAIN refreshes' = DOMAIN refreshes BY <2>9, LenProperties
  <2>11. UNCHANGED <<lapsed, ending, held, saved, saves, call, ended, raced, faults>>
    BY <1>5 DEF RefreshCommit, client, history
  <2> HIDE DEF n
  <2>12. TypeOK'
    BY <2>3, <2>4, <2>9, <2>10, <2>11, TypesGrow DEF TypeOK
  <2>13. Asked' BY <2>11 DEF Asked
  <2> QED BY <2>12, <2>13
<1> QED BY <1>1, <1>2, <1>3, <1>4, <1>5

\* Steps of the client keep the types.
LEMMA ClientTypes ==
    ASSUME TypeOK, Asked,
           \/ LogIn \/ LogOut \/ SaveRefresh
           \/ \E i \in DOMAIN saves : SaveAccess(i)
           \/ \E t \in Call :
              \/ RequestAccepted(t) \/ RequestRefused(t) \/ RequestLost(t)
              \/ AskRefresh(t) \/ RefreshGranted(t) \/ RefreshReturns(t) \/ RefreshRefused(t)
              \/ Start(t) \/ Restart(t)
    PROVE  TypeOK' /\ Asked'
<1> USE RowFacts, RefreshFacts, LoggedOutIsPair
<1>1. CASE LogIn
  <2>1. row \in Seq(RowType) /\ Len(row) + 1 \in 1..(Len(row) + 1) BY DEF TypeOK
  <2>2. row' = Issue(row, Len(row) + 1) BY <1>1 DEF LogIn
  <2>3. /\ row' \in Seq(RowType') /\ Len(row') = Len(row) + 1
        /\ RowId' = RowId \union {Len(row) + 1}
    BY <2>1, <2>2, Issuing
  <2>4. MaxRows \in Nat /\ Len(row) < MaxRows BY <1>1, SessionsAssumption DEF LogIn
  <2>5. PairOf(Len(row) + 1) \in Pair' BY <2>3 DEF PairOf, Pair, Known
  <2>6. refreshes' = refreshes BY <1>1 DEF LogIn
  <2>7. held' \in Pair' /\ saved' \in Pair' /\ saves' \in Seq(SavedHalf') /\ Len(saves') <= MaxSaves
    <3> DEFINE pair == PairOf(Len(row) + 1)
    <3>1. Hold(pair) BY <1>1 DEF LogIn
    <3> HIDE DEF pair
    <3> QED BY <2>3, <2>5, <2>6, <3>1, Holding DEF pair
  <2>8. UNCHANGED <<lapsed, refreshes, ending, call, ended, raced, faults>>
    BY <1>1 DEF LogIn, history
  <2>9. /\ call \in [Call -> CallType'] /\ refreshes \in Seq(Refresh')
        /\ ending \subseteq RowId' /\ ended \subseteq RowId' /\ raced \subseteq RowId'
        /\ lapsed \in 0..Len(row')
    BY <2>3, <2>6, TypesGrow
  <2>10. Len(row') <= MaxRows BY <2>3, <2>4
  <2> QED BY <2>3, <2>7, <2>8, <2>9, <2>10 DEF TypeOK, Asked
<1>2. CASE LogOut
  <2>1. UNCHANGED <<row, refreshes>> BY <1>2 DEF LogOut, server
  <2>2. held' \in Pair' /\ saved' \in Pair' /\ saves' \in Seq(SavedHalf') /\ Len(saves') <= MaxSaves
    <3>1. LoggedOut \in Pair' BY <2>1, TypesGrow
    <3> QED BY <1>2, <2>1, <3>1, Holding DEF LogOut
  <2> QED BY <1>2, <2>2 DEF LogOut, server, history, TypeOK, Asked, RowType, Refresh, CallType, Pair, Known,
            RowId
<1>3. CASE SaveRefresh
  <2>1. saves \in Seq(SavedHalf) /\ saves # <<>> BY <1>3 DEF SaveRefresh, TypeOK
  <2>2. /\ Head(saves) \in SavedHalf /\ Tail(saves) \in Seq(SavedHalf)
        /\ Len(Tail(saves)) = Len(saves) - 1 /\ Len(saves) \in Nat
    BY <2>1, HeadTailProperties, LenProperties
  <2>3. saved' \in Pair BY <1>3, <2>2 DEF SaveRefresh, TypeOK, Pair, SavedHalf
  <2>4. saves' \in Seq(SavedHalf) /\ Len(saves') <= MaxSaves
    BY <1>3, <2>2, SessionsAssumption DEF SaveRefresh, TypeOK
  <2> QED BY <1>3, <2>3, <2>4 DEF SaveRefresh, server, history, TypeOK, Asked, RowType, Refresh, SavedHalf,
            CallType, Pair, Known, RowId
<1>4. ASSUME NEW i \in DOMAIN saves, SaveAccess(i) PROVE TypeOK' /\ Asked'
  <2>1. saves \in Seq(SavedHalf) BY DEF TypeOK
  <2>2. i \in 1..Len(saves) /\ saves[i] \in SavedHalf BY <2>1, LenProperties, ElementOfSeq
  <2>3. [saves[i] EXCEPT !.access = TRUE] \in SavedHalf BY <2>2 DEF SavedHalf
  <2>4. saves' \in Seq(SavedHalf) /\ Len(saves') = Len(saves)
    BY <1>4, <2>1, <2>2, <2>3, ExceptSeq DEF SaveAccess
  <2>5. saved' \in Pair BY <1>4, <2>2 DEF SaveAccess, TypeOK, Pair, SavedHalf
  <2> QED BY <1>4, <2>4, <2>5 DEF SaveAccess, server, history, TypeOK, Asked, RowType, Refresh, SavedHalf,
            CallType, Pair, Known, RowId
<1>5. ASSUME NEW t \in Call,
             \/ RequestAccepted(t) \/ RequestRefused(t) \/ RequestLost(t)
             \/ RefreshGranted(t) \/ RefreshReturns(t) \/ RefreshRefused(t)
             \/ Start(t) \/ Restart(t)
      PROVE  TypeOK' /\ Asked'
  <2>1. UNCHANGED <<row, refreshes, lapsed, ending, ended, raced>>
    BY <1>5 DEF RequestAccepted, RequestRefused, RequestLost, RefreshGranted, RefreshReturns,
            RefreshRefused, Start, Restart, server, history
  <2>2. UNCHANGED <<RowId, Known, Pair, CallType, SavedHalf, RowType, Refresh>>
    BY <2>1 DEF RowId, Known, Pair, CallType, SavedHalf, RowType, Refresh
  <2>3. ASSUME NEW pair \in Pair, Hold(pair)
        PROVE  held' \in Pair' /\ saved' \in Pair' /\ saves' \in Seq(SavedHalf') /\ Len(saves') <= MaxSaves
    BY <2>1, <2>2, <2>3, Holding
  <2>4. /\ UNCHANGED <<held, saved, saves>> \/ (\E pair \in Pair : Hold(pair)) \/ Restart(t)
        /\ faults' \in 0..MaxFaults
    <3>1. CASE RequestAccepted(t) \/ Start(t) BY <3>1 DEF RequestAccepted, Start, history, TypeOK
    <3>2. CASE RequestRefused(t) \/ RequestLost(t) \/ RefreshRefused(t)
      BY <3>2, SessionsAssumption
         DEF RequestRefused, RequestLost, RefreshRefused, Throws, Expired, history, TypeOK
    <3>3. CASE RefreshGranted(t)
      <4>1. Hold(PairOf(Answer(t).made)) /\ call[t].at = "refresh" /\ UNCHANGED faults
        BY <3>3 DEF RefreshGranted, history
      <4> QED BY <4>1, AnswerFacts DEF TypeOK
    <3>4. CASE Restart(t) BY <3>4, SessionsAssumption DEF Restart, TypeOK
    <3>5. CASE RefreshReturns(t)
      <4>1. UNCHANGED <<held, saved, saves>> \/ Throws(t) BY <3>5 DEF RefreshReturns
      <4>2. UNCHANGED faults BY <3>5 DEF RefreshReturns, history
      <4> QED BY <4>1, <4>2 DEF Throws, TypeOK
    <3> QED BY <1>5, <3>1, <3>2, <3>3, <3>4, <3>5
  <2>5. held' \in Pair' /\ saved' \in Pair' /\ saves' \in Seq(SavedHalf') /\ Len(saves') <= MaxSaves
    <3>1. CASE Restart(t)
      <4>1. <<>> \in Seq(SavedHalf) /\ Len(<<>>) = 0 BY EmptySeq
      <4>2. MaxSaves \in Nat BY SessionsAssumption
      <4>3. saves' \in Seq(SavedHalf) /\ Len(saves') <= MaxSaves BY <3>1, <4>1, <4>2 DEF Restart
      <4>4. held' \in Pair /\ saved' \in Pair BY <3>1 DEF Restart, TypeOK
      <4> QED BY <2>2, <4>3, <4>4
    <3> QED BY <2>2, <2>3, <2>4, <3>1 DEF TypeOK
  <2>6. call' \in [Call -> CallType] /\ Asked'
    <3>1. CASE Restart(t)
      <4> DEFINE start == [at |-> "first", pair |-> saved, refresh |-> None, boot |-> TRUE]
      <4>1. start \in CallType BY DEF CallType, TypeOK
      <4>2. call' = [u \in Call |-> IF u = t /\ saved.access # None THEN start ELSE Idle]
        BY <3>1 DEF Restart
      <4>3. start.at = "first" /\ Idle.at = "idle" BY DEF Idle
      <4> HIDE DEF start
      <4> QED BY <4>1, <4>2, <4>3 DEF Asked
    <3>2. ASSUME NEW c \in CallType, c.at # "refresh", call' = [call EXCEPT ![t] = c]
          PROVE  call' \in [Call -> CallType] /\ Asked'
      BY <3>2 DEF TypeOK, Asked
    <3>3. CASE Start(t)
      <4> DEFINE c == [at |-> "first", pair |-> held, refresh |-> None, boot |-> FALSE]
      <4>1. c \in CallType /\ c.at # "refresh" BY DEF CallType, TypeOK
      <4>2. call' = [call EXCEPT ![t] = c] BY <3>3 DEF Start
      <4> HIDE DEF c
      <4> QED BY <3>2, <4>1, <4>2
    <3>4. CASE RefreshGranted(t)
      <4> DEFINE c == [call[t] EXCEPT !.at = "saving"]
      <4>1. c \in CallType /\ c.at # "refresh" BY DEF CallType, TypeOK
      <4>2. call' = [call EXCEPT ![t] = c] BY <3>4 DEF RefreshGranted
      <4> HIDE DEF c
      <4> QED BY <3>2, <4>1, <4>2
    <3>5. CASE Over(t)
      <4>1. call' = [call EXCEPT ![t] = Idle] BY <3>5 DEF Over
      <4>2. Idle.at # "refresh" BY DEF Idle
      <4> QED BY <3>2, <4>1, <4>2
    <3>6. CASE RequestAccepted(t) \/ RequestRefused(t) \/ RequestLost(t) \/ RefreshRefused(t)
      BY <3>5, <3>6 DEF RequestAccepted, RequestRefused, RequestLost, RefreshRefused, Throws, Expired
    <3>7. CASE RefreshReturns(t)
      <4> DEFINE c == [call[t] EXCEPT !.at = "again", !.pair = held]
      <4>1. c \in CallType /\ c.at # "refresh" BY DEF CallType, TypeOK
      <4>2. call' = [call EXCEPT ![t] = c] \/ Over(t) BY <3>7 DEF RefreshReturns, Throws
      <4> HIDE DEF c
      <4> QED BY <3>2, <3>5, <4>1, <4>2
    <3> QED BY <1>5, <3>1, <3>3, <3>4, <3>6, <3>7
  <2> QED BY <2>1, <2>2, <2>4, <2>5, <2>6 DEF TypeOK
<1>6. ASSUME NEW t \in Call, AskRefresh(t) PROVE TypeOK' /\ Asked'
  <2> DEFINE new == [token |-> call[t].pair.refresh, stage |-> "sent", made |-> None]
             c == [call[t] EXCEPT !.at = "refresh", !.refresh = Len(refreshes) + 1]
  <2>1. UNCHANGED <<row, lapsed, ending, held, saved, saves, ended, raced, faults>>
    BY <1>6 DEF AskRefresh, history
  <2>2. UNCHANGED <<RowId, Known, Pair, SavedHalf, RowType, Refresh>>
    BY <2>1 DEF RowId, Known, Pair, SavedHalf, RowType, Refresh
  <2>3. call[t] \in CallType /\ call[t].pair.refresh \in Known BY DEF TypeOK, CallType, Pair
  <2>4. new \in Refresh BY <1>6, <2>3 DEF AskRefresh, Known, Refresh
  <2>5. refreshes' \in Seq(Refresh) /\ Len(refreshes') = Len(refreshes) + 1
    <3>1. refreshes' = Append(refreshes, new) /\ refreshes \in Seq(Refresh)
      BY <1>6 DEF AskRefresh, TypeOK
    <3> HIDE DEF new
    <3> QED BY <2>4, <3>1, AppendProperties
  <2>6. Len(refreshes') <= MaxRefreshes
    <3>1. Len(refreshes) < MaxRefreshes /\ MaxRefreshes \in Nat
      BY <1>6, SessionsAssumption DEF AskRefresh
    <3> QED BY <2>5, <3>1
  <2>7. DOMAIN refreshes' = 1..(Len(refreshes) + 1) BY <2>5, LenProperties
  <2>8. DOMAIN refreshes \subseteq DOMAIN refreshes' BY <2>7
  <2>9. CallType \subseteq CallType' BY <2>2, <2>8 DEF CallType
  <2>10. c \in CallType' /\ c.refresh # None
    <3>1. Len(refreshes) + 1 \in DOMAIN refreshes' BY <2>7
    <3>2. Len(refreshes) + 1 # None BY SessionsAssumption
    <3> QED BY <2>2, <2>3, <3>1, <3>2 DEF CallType
  <2>11. call' = [call EXCEPT ![t] = c] BY <1>6 DEF AskRefresh
  <2> HIDE DEF c, new
  <2>12. call' \in [Call -> CallType'] BY <2>9, <2>10, <2>11 DEF TypeOK
  <2>13. Asked' BY <2>10, <2>11 DEF Asked, TypeOK
  <2> QED BY <2>1, <2>2, <2>5, <2>6, <2>12, <2>13 DEF TypeOK
<1> QED BY <1>1, <1>2, <1>3, <1>4, <1>5, <1>6

-----------------------------------------------------------------------------
(* The tip of a session: the row that is active, or that a rotation has     *)
(* read.  Unless rotations raced a session has one at most, and one         *)
(* rotation that reads it.                                                  *)

Reading(i, s) ==
    /\ i \in DOMAIN refreshes /\ refreshes[i].stage = "read"
    /\ row[refreshes[i].token].session = s

Tips(s) == ActiveRows(s) \union {n \in RowId : RotatesNow(n) /\ row[n].session = s}

OneTip ==
    \A s \in RowId \ raced :
        /\ \A m, n \in Tips(s) : m = n
        /\ \A i, j \in DOMAIN refreshes : Reading(i, s) /\ Reading(j, s) => i = j

IInv == TypeOK /\ Asked /\ OneTip

\* A step that leaves the rows and the rotations alone.
LEMMA TipsUnchanged ==
    ASSUME OneTip, UNCHANGED <<row, raced>>, DOMAIN refreshes \subseteq (DOMAIN refreshes)',
           \A i \in (DOMAIN refreshes)' : refreshes'[i].stage = "read" =>
                i \in DOMAIN refreshes /\ refreshes[i] = refreshes'[i]
    PROVE  OneTip'
<1>1. RowId' = RowId BY DEF RowId
<1>2. \A i, s : Reading(i, s)' => Reading(i, s) BY DEF Reading
<1>3. \A n : RotatesNow(n)' => RotatesNow(n) BY DEF RotatesNow
<1>4. \A s : Tips(s)' \subseteq Tips(s) BY <1>1, <1>3 DEF Tips, ActiveRows
<1> QED BY <1>1, <1>2, <1>4 DEF OneTip, Reading

LEMMA LogInTip ==
    ASSUME IInv, LogIn
    PROVE  OneTip'
<1> USE RowFacts, RefreshFacts DEF IInv
<1> PICK new : new = Len(row) + 1 OBVIOUS
<1>1. row \in Seq(RowType) /\ new \in 1..new /\ row' = Issue(row, new)
  BY DEF TypeOK, LogIn
<1>2. /\ \A n \in RowId : row'[n] = row[n]
      /\ row'[new] = [session |-> new, active |-> TRUE]
      /\ RowId' = RowId \union {new}
  BY <1>1, Issuing
<1>3. UNCHANGED <<refreshes, raced>> BY DEF LogIn, history
<1>4. new \notin RowId BY DEF RowId
<1>5. \A i \in DOMAIN refreshes : refreshes[i].token \in RowId BY DEF Refresh
<1>6. \A n : RotatesNow(n)' <=> RotatesNow(n) BY <1>3 DEF RotatesNow
<1>7. \A n : RotatesNow(n) => n \in RowId BY <1>5 DEF RotatesNow
<1>8. \A s \in RowId : Tips(s)' = Tips(s)
  BY <1>2, <1>4, <1>6, <1>7 DEF Tips, ActiveRows
<1>9. Tips(new)' \subseteq {new}
  <2>1. \A m \in RowId : row'[m].session # new BY <1>2, <1>4
  <2>2. \A m \in Tips(new)' : m \in RowId' /\ row'[m].session = new BY DEF Tips, ActiveRows
  <2> QED BY <1>2, <2>1, <2>2
<1>10. \A i, s : Reading(i, s)' <=> Reading(i, s) BY <1>2, <1>3, <1>5 DEF Reading
<1>11. \A i : ~Reading(i, new) BY <1>4, <1>5 DEF Reading
<1>12. ASSUME NEW s \in RowId' \ raced'
       PROVE  /\ \A m, n \in Tips(s)' : m = n
              /\ \A i, j \in (DOMAIN refreshes)' : Reading(i, s)' /\ Reading(j, s)' => i = j
  <2>1. CASE s = new
    <3>1. \A i : ~Reading(i, s)' BY <1>10, <1>11, <2>1
    <3>2. Tips(s)' \subseteq {new} BY <1>9, <2>1
    <3> QED BY <3>1, <3>2
  <2>2. CASE s \in RowId BY <1>3, <1>8, <1>10, <1>12, <2>2 DEF OneTip
  <2> QED BY <1>2, <1>12, <2>1, <2>2
<1> QED BY <1>12 DEF OneTip

LEMMA EndCommitTip ==
    ASSUME IInv, EndCommit
    PROVE  OneTip'
<1> USE RowFacts, RefreshFacts DEF IInv
<1>1. UNCHANGED <<refreshes, raced>> BY DEF EndCommit
<1>2. /\ RowId' = RowId
      /\ \A n \in RowId : row'[n].session = row[n].session /\ (row'[n].active => row[n].active)
  BY Revoking DEF EndCommit, RowId
<1>3. \A i \in DOMAIN refreshes : refreshes[i].token \in RowId BY DEF Refresh
<1>4. \A n : RotatesNow(n)' <=> RotatesNow(n) BY <1>1 DEF RotatesNow
<1>5. \A s : Tips(s)' \subseteq Tips(s) BY <1>2, <1>4 DEF Tips, ActiveRows
<1>6. \A i, s : Reading(i, s)' <=> Reading(i, s) BY <1>1, <1>2, <1>3 DEF Reading
<1> QED BY <1>1, <1>2, <1>5, <1>6 DEF OneTip

\* A second rotation of the tip makes the session raced; a first one changes
\* nothing about the tip.
LEMMA RefreshReadTip ==
    ASSUME IInv, NEW i \in DOMAIN refreshes, RefreshRead(i)
    PROVE  OneTip'
<1> USE RowFacts, RefreshFacts DEF IInv
<1> DEFINE n == refreshes[i].token
<1>1. UNCHANGED row /\ RowId' = RowId BY DEF RefreshRead, RowId
<1>2. /\ DOMAIN refreshes' = DOMAIN refreshes
      /\ \A j \in DOMAIN refreshes : j # i => refreshes'[j] = refreshes[j]
  BY DEF RefreshRead
<1>3. n \in RowId BY DEF Refresh
<1>4. CASE ~Active(n)
  <2>1. refreshes'[i].stage = "refused" BY <1>4 DEF RefreshRead, Refresh
  <2>2. UNCHANGED raced BY <1>4 DEF RefreshRead
  <2> QED BY <1>1, <1>2, <2>1, <2>2, TipsUnchanged
<1>5. CASE Active(n)
  <2>1. refreshes'[i].token = n /\ refreshes'[i].stage = "read"
    BY <1>5 DEF RefreshRead, Refresh
  <2>2. raced \subseteq raced' BY DEF RefreshRead
  <2>3. \A m : RotatesNow(m)' => RotatesNow(m) \/ m = n
    BY <1>2, <2>1 DEF RotatesNow
  <2>4. \A s : Tips(s)' \subseteq Tips(s)
    BY <1>1, <1>5, <2>3 DEF Tips, ActiveRows, Active
  <2>5. \A j, s : Reading(j, s)' /\ j # i => Reading(j, s)
    BY <1>1, <1>2 DEF Reading
  <2>6. ASSUME NEW s \in RowId \ raced', NEW j \in DOMAIN refreshes, Reading(i, s)', Reading(j, s)', j # i
        PROVE  FALSE
    <3>1. row[n].session = s BY <1>1, <2>1, <2>6 DEF Reading
    <3>2. n \in Tips(s) BY <1>5, <3>1 DEF Tips, ActiveRows, Active
    <3>3. Reading(j, s) BY <2>5, <2>6
    <3>4. refreshes[j].token \in Tips(s) BY <3>3 DEF Reading, Tips, RotatesNow, Refresh
    <3>5. refreshes[j].token = n BY <2>2, <2>6, <3>2, <3>4 DEF OneTip
    <3>6. RotatesNow(n) BY <3>3, <3>5 DEF Reading, RotatesNow
    <3>7. s \in raced' BY <1>5, <3>1, <3>6 DEF RefreshRead
    <3> QED BY <2>6, <3>7
  <2> HIDE DEF n
  <2> QED BY <1>1, <1>2, <2>2, <2>4, <2>5, <2>6 DEF OneTip
<1> QED BY <1>4, <1>5

\* The tip moves on to the new row.
LEMMA RefreshCommitTip ==
    ASSUME IInv, NEW i \in DOMAIN refreshes, RefreshCommit(i)
    PROVE  OneTip'
<1> USE RowFacts, RefreshFacts DEF IInv
<1> DEFINE n == refreshes[i].token
           new == Len(row) + 1
           rows == Revoke({n})
           s == row[n].session
<1>1. n \in RowId BY DEF Refresh
<1>2. s \in RowId /\ s \in 1..(Len(row) + 1) BY <1>1 DEF RowId
<1>3. /\ rows \in Seq(RowType) /\ Len(rows) = Len(row)
      /\ \A m \in RowId : rows[m].session = row[m].session /\ (rows[m].active <=> row[m].active /\ m # n)
  BY Revoking
<1>4. row' = Issue(rows, s) BY DEF RefreshCommit
<1>5. /\ \A m \in RowId : row'[m] = rows[m]
      /\ row'[new] = [session |-> s, active |-> TRUE]
      /\ RowId' = RowId \union {new}
  <2> HIDE DEF rows, s, n
  <2> QED BY <1>2, <1>3, <1>4, Issuing
<1>6. /\ UNCHANGED raced /\ DOMAIN refreshes' = DOMAIN refreshes
      /\ \A j \in DOMAIN refreshes : j # i => refreshes'[j] = refreshes[j]
      /\ refreshes'[i].stage = "granted" /\ refreshes[i].stage = "read"
  BY DEF RefreshCommit, history, Refresh
<1>7. new \notin RowId BY DEF RowId
<1>8. \A j \in DOMAIN refreshes : refreshes[j].token \in RowId BY DEF Refresh
<1>9. Reading(i, s) BY <1>6 DEF Reading
<1> HIDE DEF n, new, rows, s
<1>10. \A m : RotatesNow(m)' => m \in RowId /\ \E j \in DOMAIN refreshes :
            j # i /\ refreshes[j].stage = "read" /\ refreshes[j].token = m
  BY <1>6, <1>8 DEF RotatesNow
<1>11. \A j, r : Reading(j, r)' => Reading(j, r) /\ j # i
  BY <1>3, <1>5, <1>6, <1>8 DEF Reading
<1>12. ASSUME NEW r \in RowId' \ raced'
       PROVE  /\ \A m, k \in Tips(r)' : m = k
              /\ \A j, k \in (DOMAIN refreshes)' : Reading(j, r)' /\ Reading(k, r)' => j = k
  <2>1. CASE r = new
    <3>1. \A m : m \notin Tips(r)'
      <4>1. \A m \in RowId : row[m].session \in RowId OBVIOUS
      <4>2. \A m \in RowId' : row'[m].session # r
        BY <1>2, <1>3, <1>5, <1>7, <2>1, <4>1
      <4> QED BY <4>2 DEF Tips, ActiveRows
    <3>2. \A j : ~Reading(j, r)'
      BY <1>7, <1>8, <1>11, <2>1 DEF Reading
    <3> QED BY <3>1, <3>2
  <2>2. CASE r \in RowId
    <3>1. \A j, k \in DOMAIN refreshes : Reading(j, r) /\ Reading(k, r) => j = k
      BY <1>6, <1>12, <2>2 DEF OneTip
    <3>2. \A m, k \in Tips(r) : m = k BY <1>6, <1>12, <2>2 DEF OneTip
    <3>3. CASE r # s
      <4>1. Tips(r)' \subseteq Tips(r)
        BY <1>3, <1>5, <1>7, <1>10, <3>3 DEF Tips, ActiveRows, RotatesNow
      <4> QED BY <1>6, <1>11, <3>1, <3>2, <4>1
    <3>4. CASE r = s
      <4>1. \A j : ~Reading(j, r)'
        BY <1>9, <1>11, <3>1, <3>4 DEF Reading
      <4>2. \A m \in RowId : RotatesNow(m)' => row'[m].session # r
        <5> SUFFICES ASSUME NEW m \in RowId, RotatesNow(m)' PROVE row'[m].session # r
          OBVIOUS
        <5>1. PICK j \in DOMAIN refreshes : refreshes'[j].stage = "read" /\ refreshes'[j].token = m
          BY <1>6 DEF RotatesNow
        <5> QED BY <1>6, <4>1, <5>1 DEF Reading
      <4>3. n \in Tips(r)
        BY <1>1, <1>6, <3>4 DEF Tips, RotatesNow, n, s
      <4>4. Tips(r)' \subseteq {new}
        <5> SUFFICES ASSUME NEW m \in Tips(r)', m # new PROVE FALSE
          OBVIOUS
        <5>1. m \in RowId BY <1>5 DEF Tips, ActiveRows
        <5>2. row'[m].session = r BY DEF Tips, ActiveRows
        <5>3. row'[m].active BY <4>2, <5>1, <5>2 DEF Tips, ActiveRows
        <5>4. rows[m].active /\ rows[m].session = r BY <1>5, <5>1, <5>2, <5>3
        <5>5. m # n /\ m \in Tips(r) BY <1>3, <5>1, <5>4 DEF Tips, ActiveRows
        <5> QED BY <3>2, <4>3, <5>5
      <4> QED BY <4>1, <4>4
    <3> QED BY <3>3, <3>4
  <2> QED BY <1>5, <1>12, <2>1, <2>2
<1> QED BY <1>12 DEF OneTip

-----------------------------------------------------------------------------
(* The invariant.                                                          *)

\* A posted refresh is added, and has read nothing yet.
LEMMA Asking ==
    ASSUME TypeOK, NEW t \in Call, AskRefresh(t)
    PROVE  /\ UNCHANGED <<row, raced>> /\ DOMAIN refreshes \subseteq DOMAIN refreshes'
           /\ \A i \in DOMAIN refreshes' : refreshes'[i].stage = "read" =>
                i \in DOMAIN refreshes /\ refreshes[i] = refreshes'[i]
<1> USE RowFacts, RefreshFacts
<1> DEFINE new == [token |-> call[t].pair.refresh, stage |-> "sent", made |-> None]
<1>1. refreshes' = Append(refreshes, new) /\ UNCHANGED <<row, raced>>
  BY DEF AskRefresh, history
<1>2. refreshes \in Seq(Refresh \union {new}) /\ new \in Refresh \union {new}
  BY SeqMonotonic DEF TypeOK
<1>3. new.stage = "sent" OBVIOUS
<1> HIDE DEF new
<1>4. /\ Len(refreshes') = Len(refreshes) + 1
      /\ refreshes' \in Seq(Refresh \union {new})
      /\ \A i \in 1..Len(refreshes) : refreshes'[i] = refreshes[i]
      /\ refreshes'[Len(refreshes) + 1] = new
  BY <1>1, <1>2, AppendProperties
<1>5. DOMAIN refreshes' = 1..(Len(refreshes) + 1) BY <1>4, LenProperties
<1>6. DOMAIN refreshes \subseteq DOMAIN refreshes' BY <1>5
<1>7. \A i \in DOMAIN refreshes' : i \in DOMAIN refreshes \/ refreshes'[i] = new
  BY <1>4, <1>5
<1>8. \A i \in DOMAIN refreshes' : refreshes'[i].stage = "read" =>
          i \in DOMAIN refreshes /\ refreshes[i] = refreshes'[i]
  BY <1>3, <1>4, <1>7
<1> QED BY <1>1, <1>6, <1>8

LEMMA InitInv == Init => IInv
<1> SUFFICES ASSUME Init PROVE IInv OBVIOUS
<1>1. \A T : <<>> \in Seq(T) /\ Len(<<>>) = 0 BY EmptySeq
<1>2. RowId = {} /\ DOMAIN refreshes = {} BY <1>1 DEF Init, RowId
<1>3. TypeOK BY <1>1, LoggedOutIsPair, SessionsAssumption DEF Init, TypeOK
<1>4. Asked BY DEF Init, Asked, Idle
<1> QED BY <1>2, <1>3, <1>4 DEF IInv, OneTip

LEMMA StepInv == IInv /\ [Next]_vars => IInv'
<1> SUFFICES ASSUME IInv, [Next]_vars PROVE IInv' OBVIOUS
<1> USE RowFacts, RefreshFacts DEF IInv
<1>1. CASE LogIn BY <1>1, ClientTypes, LogInTip
<1>2. CASE EndCommit BY <1>2, ServerTypes, EndCommitTip
<1>3. ASSUME NEW i \in DOMAIN refreshes, RefreshRead(i) PROVE IInv'
  BY <1>3, ServerTypes, RefreshReadTip
<1>4. ASSUME NEW i \in DOMAIN refreshes, RefreshCommit(i) PROVE IInv'
  BY <1>4, ServerTypes, RefreshCommitTip
<1>5. CASE Lapse \/ \E S \in SUBSET RowId : EndRead(S)
  <2>1. UNCHANGED <<row, refreshes, raced>> BY <1>5 DEF Lapse, EndRead, history
  <2>2. OneTip' BY <2>1, TipsUnchanged
  <2> QED BY <1>5, <2>2, ServerTypes
<1>6. CASE \/ LogOut \/ SaveRefresh
           \/ \E i \in DOMAIN saves : SaveAccess(i)
           \/ \E t \in Call :
              \/ RequestAccepted(t) \/ RequestRefused(t) \/ RequestLost(t)
              \/ RefreshGranted(t) \/ RefreshReturns(t) \/ RefreshRefused(t)
              \/ Start(t) \/ Restart(t)
  <2>1. UNCHANGED <<row, refreshes, raced>>
    BY <1>6 DEF LogOut, SaveRefresh, SaveAccess, RequestAccepted, RequestRefused, RequestLost,
          RefreshGranted, RefreshReturns, RefreshRefused, Start, Restart, server, history
  <2>2. OneTip' BY <2>1, TipsUnchanged
  <2>3. TypeOK' /\ Asked' BY <1>6, ClientTypes
  <2> QED BY <2>2, <2>3
<1>7. ASSUME NEW t \in Call, AskRefresh(t) PROVE IInv'
  <2>1. OneTip' BY <1>7, Asking, TipsUnchanged
  <2> QED BY <1>7, <2>1, ClientTypes
<1>8. CASE UNCHANGED vars
  <2>1. UNCHANGED <<row, lapsed, refreshes, ending, held, saved, saves, call, ended, raced, faults>>
    BY <1>8 DEF vars, server, client, history
  <2>2. OneTip' BY <2>1, TipsUnchanged
  <2>3. TypeOK' /\ Asked'
    BY <2>1 DEF TypeOK, Asked, RowType, Refresh, SavedHalf, CallType, Pair, Known, RowId
  <2> QED BY <2>2, <2>3
<1> QED BY <1>1, <1>2, <1>3, <1>4, <1>5, <1>6, <1>7, <1>8 DEF Next

LEMMA Invariant == Spec => []IInv
<1> QED BY InitInv, StepInv, PTL DEF Spec

\* Type correctness: every token the client holds, has saved or sends is one
\* the server issued.
THEOREM TypeCorrect == Spec => []TypeOK
<1>1. IInv => TypeOK BY DEF IInv
<1> QED BY <1>1, Invariant, PTL

\* A session has one active row at most unless two rotations of one token
\* overlapped.
THEOREM OneRowSafe == Spec => []OneActiveRow
<1>1. IInv => OneActiveRow BY DEF IInv, OneTip, OneActiveRow, Tips
<1> QED BY <1>1, Invariant, PTL

-----------------------------------------------------------------------------
(* Dead sessions.                                                          *)

LEMMA DeadStep ==
    ASSUME IInv, [Next]_vars, NEW s \in RowId, Dead(s)
    PROVE  Dead(s)'
<1> USE RowFacts, RefreshFacts DEF IInv
<1>1. \A n \in RowId : row[n].active => row[n].session # s BY DEF Dead, ActiveRows
<1>2. \A i \in DOMAIN refreshes : refreshes[i].token \in RowId BY DEF Refresh
<1>3. \A i \in DOMAIN refreshes :
        refreshes[i].stage = "read" => row[refreshes[i].token].session # s
  BY <1>2 DEF Dead, RotatesNow
<1>4. CASE LogIn
  <2> PICK new : new = Len(row) + 1 OBVIOUS
  <2>1. row \in Seq(RowType) /\ new \in 1..new /\ row' = Issue(row, new) /\ UNCHANGED refreshes
    BY <1>4 DEF TypeOK, LogIn
  <2>2. /\ \A n \in RowId : row'[n] = row[n]
        /\ row'[new] = [session |-> new, active |-> TRUE]
        /\ RowId' = RowId \union {new}
    BY <2>1, Issuing
  <2>3. s # new BY DEF RowId
  <2>4. \A n \in RowId' : row'[n].active => row'[n].session # s BY <1>1, <2>2, <2>3
  <2>5. \A n \in RowId' : RotatesNow(n)' => row'[n].session # s
    BY <1>2, <1>3, <2>1, <2>2 DEF RotatesNow
  <2> QED BY <2>4, <2>5 DEF Dead, ActiveRows
<1>5. CASE EndCommit
  <2>1. /\ RowId' = RowId /\ UNCHANGED refreshes
        /\ \A n \in RowId : row'[n].session = row[n].session /\ (row'[n].active => row[n].active)
    BY <1>5, Revoking DEF EndCommit, RowId
  <2>2. \A n \in RowId' : row'[n].active => row'[n].session # s BY <1>1, <2>1
  <2>3. \A n \in RowId' : RotatesNow(n)' => row'[n].session # s
    BY <1>3, <2>1 DEF RotatesNow
  <2> QED BY <2>2, <2>3 DEF Dead, ActiveRows
<1>6. ASSUME NEW i \in DOMAIN refreshes, RefreshRead(i) PROVE Dead(s)'
  <2>1. UNCHANGED row /\ RowId' = RowId BY <1>6 DEF RefreshRead, RowId
  <2>2. \A j \in DOMAIN refreshes' : refreshes'[j].stage = "read" =>
            refreshes'[j].token = refreshes[j].token /\ j \in DOMAIN refreshes
            /\ (refreshes[j].stage = "read" \/ Active(refreshes[j].token))
    BY <1>6 DEF RefreshRead, Refresh
  <2>3. \A n \in RowId : RotatesNow(n)' => row[n].session # s
    BY <1>1, <1>3, <2>2 DEF RotatesNow, Active
  <2> QED BY <1>1, <2>1, <2>3 DEF Dead, ActiveRows
<1>7. ASSUME NEW i \in DOMAIN refreshes, RefreshCommit(i) PROVE Dead(s)'
  <2> DEFINE n == refreshes[i].token
             rows == Revoke({n})
             r == row[n].session
  <2> PICK new : new = Len(row) + 1 OBVIOUS
  <2>1. r \in 1..(Len(row) + 1) BY <1>2 DEF RowId
  <2>2. /\ rows \in Seq(RowType) /\ Len(rows) = Len(row)
        /\ \A m \in RowId : rows[m].session = row[m].session /\ (rows[m].active => row[m].active)
    BY Revoking
  <2>3. row' = Issue(rows, r) BY <1>7 DEF RefreshCommit
  <2>4. /\ \A m \in RowId : row'[m] = rows[m]
        /\ row'[new] = [session |-> r, active |-> TRUE]
        /\ RowId' = RowId \union {new}
    <3> HIDE DEF rows, r, n
    <3> QED BY <2>1, <2>2, <2>3, Issuing
  <2>5. r # s BY <1>3, <1>7 DEF RefreshCommit
  <2>6. \A j \in DOMAIN refreshes' : refreshes'[j].stage = "read" =>
            j \in DOMAIN refreshes /\ refreshes'[j] = refreshes[j]
    BY <1>7 DEF RefreshCommit, Refresh
  <2> HIDE DEF rows, r, n
  <2>7. \A m \in RowId' : row'[m].active => row'[m].session # s
    BY <1>1, <2>2, <2>4, <2>5
  <2>8. \A m \in RowId' : RotatesNow(m)' => row'[m].session # s
    BY <1>2, <1>3, <2>2, <2>4, <2>6 DEF RotatesNow
  <2> QED BY <2>7, <2>8 DEF Dead, ActiveRows
<1>8. ASSUME NEW t \in Call, AskRefresh(t) PROVE Dead(s)'
  <2>1. RowId' = RowId /\ UNCHANGED row BY <1>8, Asking DEF RowId
  <2>2. \A n : RotatesNow(n)' => RotatesNow(n) BY <1>8, Asking DEF RotatesNow
  <2> QED BY <2>1, <2>2 DEF Dead, ActiveRows
<1>9. CASE UNCHANGED <<row, refreshes>>
  <2>1. RowId' = RowId BY <1>9 DEF RowId
  <2> QED BY <1>9, <2>1 DEF Dead, ActiveRows, RotatesNow
<1>10. ASSUME ~LogIn, ~EndCommit, \A i \in DOMAIN refreshes : ~RefreshRead(i) /\ ~RefreshCommit(i),
              \A t \in Call : ~AskRefresh(t)
       PROVE  UNCHANGED <<row, refreshes>>
  BY <1>10 DEF Next, vars, server, Lapse, EndRead, LogOut, SaveRefresh, SaveAccess, RequestAccepted,
        RequestRefused, RequestLost, RefreshGranted, RefreshReturns, RefreshRefused, Start, Restart
<1> QED BY <1>4, <1>5, <1>6, <1>7, <1>8, <1>9, <1>10

\* A session without an active row and without a rotation that read one stays
\* without.
THEOREM DeadSafe == Spec => DeadStaysDead
<1>1. IInv /\ [Next]_vars => [\A s \in RowId : Dead(s) => Dead(s)']_vars
  BY DeadStep
<1> QED BY <1>1, Invariant, PTL DEF Spec, DeadStaysDead

-----------------------------------------------------------------------------
(* What is saved.  Calls of saveSession write the access token in the order *)
(* they began and end in that order, so that the last one decides: it saves *)
(* what the app holds.                                                      *)

SavesInOrder ==
    \A i, j \in DOMAIN saves : j < i /\ saves[i].access => saves[j].access

LastIsHeld ==
    saves # <<>> => /\ saves[Len(saves)].pair = held
                    /\ saves[Len(saves)].access => saved.access = held.access

SavesInv == SavesInOrder /\ LastIsHeld /\ SavedIsHeld

LEMMA SavesFacts ==
    ASSUME TypeOK
    PROVE  /\ Len(saves) \in Nat /\ DOMAIN saves = 1..Len(saves)
           /\ \A i \in DOMAIN saves : saves[i] \in SavedHalf
<1>1. saves \in Seq(SavedHalf) BY DEF TypeOK
<1> QED BY <1>1, ElementOfSeq, LenProperties

\* A save that begins is the last one, and has written nothing.
LEMMA HoldSaves ==
    ASSUME TypeOK, SavesInv, NEW pair, Hold(pair)
    PROVE  SavesInv'
<1> USE SavesFacts
<1> DEFINE new == [pair |-> pair, access |-> FALSE]
<1>1. saves \in Seq(SavedHalf \union {new}) /\ new \in SavedHalf \union {new}
  BY SeqMonotonic DEF TypeOK
<1>2. saves' = Append(saves, new) /\ held' = pair BY DEF Hold
<1>3. new.pair = pair /\ new.access = FALSE OBVIOUS
<1> HIDE DEF new
<1>4. /\ saves' \in Seq(SavedHalf \union {new}) /\ Len(saves') = Len(saves) + 1
      /\ \A i \in 1..Len(saves) : saves'[i] = saves[i]
      /\ saves'[Len(saves) + 1] = new
  BY <1>1, <1>2, AppendProperties
<1>5. DOMAIN saves' = 1..(Len(saves) + 1) BY <1>4, LenProperties
<1>6. saves' # <<>> BY <1>4, EmptySeq
<1>7. SavesInOrder' BY <1>3, <1>4, <1>5 DEF SavesInv, SavesInOrder
<1> QED BY <1>2, <1>3, <1>4, <1>6, <1>7 DEF SavesInv, LastIsHeld, SavedIsHeld

LEMMA SaveAccessSaves ==
    ASSUME TypeOK, SavesInv, NEW i \in DOMAIN saves, SaveAccess(i)
    PROVE  SavesInv'
<1> USE SavesFacts
<1>1. saves' = [saves EXCEPT ![i] = [saves[i] EXCEPT !.access = TRUE]] /\ UNCHANGED held
  BY DEF SaveAccess
<1>2. saves[i] \in SavedHalf OBVIOUS
<1>3. [saves[i] EXCEPT !.access = TRUE] \in SavedHalf BY <1>2 DEF SavedHalf
<1>4. saves' \in Seq(SavedHalf) /\ Len(saves') = Len(saves)
  BY <1>1, <1>3, ExceptSeq DEF TypeOK
<1>5. /\ DOMAIN saves' = DOMAIN saves
      /\ \A j \in DOMAIN saves : j # i => saves'[j] = saves[j]
      /\ saves'[i].pair = saves[i].pair /\ saves'[i].access = TRUE
  BY <1>1, <1>2, <1>4, LenProperties DEF SavedHalf
<1>6. saves # <<>> /\ saves' # <<>> BY <1>4, EmptySeq
<1>7. \A j \in 1..(i - 1) : saves[j].access BY DEF SaveAccess
<1>8. SavesInOrder'
  <2> SUFFICES ASSUME NEW k \in DOMAIN saves, NEW j \in DOMAIN saves, j < k, saves'[k].access
               PROVE  saves'[j].access
    BY <1>5 DEF SavesInOrder
  <2>1. CASE j = i BY <1>5, <2>1
  <2>2. CASE k = i
    <3>1. saves[j].access BY <1>7, <2>2
    <3> QED BY <1>5, <2>2, <3>1
  <2>3. CASE j # i /\ k # i BY <1>5, <2>3 DEF SavesInv, SavesInOrder
  <2> QED BY <2>1, <2>2, <2>3
<1>9. LastIsHeld'
  <2>1. Len(saves) \in DOMAIN saves BY <1>4
  <2>2. saves'[Len(saves)].pair = held BY <1>5, <1>6, <2>1 DEF SavesInv, LastIsHeld
  <2>3. CASE i = Len(saves)
    <3>1. saved'.access = saves[i].pair.access BY DEF SaveAccess, TypeOK, Pair
    <3> QED BY <1>1, <1>4, <1>5, <2>2, <2>3, <3>1 DEF LastIsHeld
  <2>4. CASE i # Len(saves)
    <3>1. ~saves[i].access /\ i < Len(saves) BY <2>4 DEF SaveAccess
    <3>2. ~saves[Len(saves)].access BY <2>1, <3>1 DEF SavesInv, SavesInOrder
    <3>3. ~saves'[Len(saves)].access BY <1>5, <2>1, <2>4, <3>2
    <3> QED BY <1>1, <1>4, <2>2, <3>3 DEF LastIsHeld
  <2> QED BY <2>3, <2>4
<1> QED BY <1>6, <1>8, <1>9 DEF SavesInv, SavedIsHeld

LEMMA SaveRefreshSaves ==
    ASSUME TypeOK, SavesInv, SaveRefresh
    PROVE  SavesInv'
<1> USE SavesFacts
<1>1. saves \in Seq(SavedHalf) /\ saves # <<>> /\ saves' = Tail(saves) /\ UNCHANGED held
  BY DEF SaveRefresh, TypeOK
<1>2. /\ Head(saves) = saves[1] /\ Len(saves) >= 1
      /\ Tail(saves) \in Seq(SavedHalf) /\ Len(saves') = Len(saves) - 1
      /\ \A i \in 1..(Len(saves) - 1) : saves'[i] = saves[i + 1]
  BY <1>1, HeadTailProperties, EmptySeq
<1>3. DOMAIN saves' = 1..(Len(saves) - 1) BY <1>1, <1>2, LenProperties
<1>4. SavesInOrder'
  <2> SUFFICES ASSUME NEW i \in 1..(Len(saves) - 1), NEW j \in 1..(Len(saves) - 1),
                      j < i, saves'[i].access
               PROVE  saves'[j].access
    BY <1>3 DEF SavesInOrder
  <2>1. i + 1 \in DOMAIN saves /\ j + 1 \in DOMAIN saves /\ j + 1 < i + 1 OBVIOUS
  <2>2. saves[j + 1].access BY <1>2, <2>1 DEF SavesInv, SavesInOrder
  <2> QED BY <1>2, <2>2
<1>5. saved'.access = saved.access /\ saved'.refresh = Head(saves).pair.refresh /\ saved' \in Pair
  BY <1>1, <1>2 DEF SaveRefresh, TypeOK, Pair, SavedHalf
<1>6. CASE Len(saves) = 1
  <2>1. saves[1].pair = held /\ saved.access = held.access
    BY <1>1, <1>2, <1>6 DEF SaveRefresh, SavesInv, LastIsHeld
  <2>2. saved' = held BY <1>2, <1>5, <2>1 DEF TypeOK, Pair
  <2>3. saves' = <<>> BY <1>1, <1>2, <1>6, EmptySeq
  <2> QED BY <1>1, <1>4, <2>2, <2>3 DEF SavesInv, LastIsHeld, SavedIsHeld
<1>7. CASE Len(saves) # 1
  <2>1. saves'[Len(saves')] = saves[Len(saves)] BY <1>2, <1>7
  <2>2. saves' # <<>> BY <1>2, <1>7, EmptySeq
  <2> QED BY <1>1, <1>4, <1>5, <2>1, <2>2 DEF SavesInv, LastIsHeld, SavedIsHeld
<1> QED BY <1>6, <1>7

LEMMA SavesStep == IInv /\ SavesInv /\ [Next]_vars => SavesInv'
<1> SUFFICES ASSUME IInv, SavesInv, [Next]_vars PROVE SavesInv' OBVIOUS
<1>1. TypeOK BY DEF IInv
<1>2. CASE UNCHANGED <<held, saved, saves>>
  BY <1>2 DEF SavesInv, SavesInOrder, LastIsHeld, SavedIsHeld
<1>3. ASSUME NEW pair, Hold(pair) PROVE SavesInv' BY <1>1, <1>3, HoldSaves
<1>4. ASSUME NEW i \in DOMAIN saves, SaveAccess(i) PROVE SavesInv' BY <1>1, <1>4, SaveAccessSaves
<1>5. CASE SaveRefresh BY <1>1, <1>5, SaveRefreshSaves
<1>6. ASSUME NEW t \in Call, Restart(t) PROVE SavesInv'
  <2>1. saves' = <<>> /\ DOMAIN <<>> = {} BY <1>6 DEF Restart
  <2>2. UNCHANGED saved /\ held' = IF saved.access = None THEN LoggedOut ELSE saved
    BY <1>6 DEF Restart
  <2> QED BY <2>1, <2>2 DEF SavesInv, SavesInOrder, LastIsHeld, SavedIsHeld
<1>7. ASSUME NEW t \in Call,
             \/ RequestAccepted(t) \/ RequestRefused(t) \/ RequestLost(t) \/ AskRefresh(t)
             \/ RefreshGranted(t) \/ RefreshReturns(t) \/ RefreshRefused(t) \/ Start(t)
      PROVE  UNCHANGED <<held, saved, saves>> \/ \E pair : Hold(pair)
  BY <1>7 DEF RequestAccepted, RequestRefused, RequestLost, AskRefresh, RefreshGranted,
        RefreshReturns, RefreshRefused, Start, Throws, Expired
<1>8. CASE LogIn \/ LogOut BY <1>3, <1>8 DEF LogIn, LogOut
<1>9. CASE \/ Lapse \/ EndCommit \/ UNCHANGED vars
           \/ \E S \in SUBSET RowId : EndRead(S)
           \/ \E i \in DOMAIN refreshes : RefreshRead(i) \/ RefreshCommit(i)
  BY <1>2, <1>9 DEF Lapse, EndCommit, EndRead, RefreshRead, RefreshCommit, vars, client
<1> QED BY <1>2, <1>3, <1>4, <1>5, <1>6, <1>7, <1>8, <1>9 DEF Next

\* When no save is under way the preferences hold what the app holds, or no
\* access token if it is logged out, whatever saves took turns or were killed.
THEOREM SavedSafe == Spec => []SavedIsHeld
<1>1. Init => SavesInv
  <2> SUFFICES ASSUME Init PROVE SavesInv OBVIOUS
  <2>1. saves = <<>> /\ saved = held /\ DOMAIN <<>> = {} BY DEF Init
  <2> QED BY <2>1 DEF SavesInv, SavesInOrder, LastIsHeld, SavedIsHeld
<1>2. SavesInv => SavedIsHeld BY DEF SavesInv
<1> QED BY <1>1, <1>2, SavesStep, Invariant, PTL DEF Spec

-----------------------------------------------------------------------------
(* What the app holds.  Without lost answers and kills every refresh that   *)
(* is granted is awaited until its pair is taken over, and until then       *)
(* nobody knows the row it issued, so that no other refresh revokes it.     *)

Awaits(t, i) == call[t].at = "refresh" /\ call[t].refresh = i

Awaited(i) == \E t \in Call : Awaits(t, i)

Granted == {i \in DOMAIN refreshes : refreshes[i].stage = "granted"}

Good(n) == Active(n) \/ row[n].session \in ended

\* No call is that of a start of the app, and each awaits a refresh of its own.
OwnRefresh ==
    \A t, u \in Call :
        ~call[t].boot /\ \A i \in DOMAIN refreshes : Awaits(t, i) /\ Awaits(u, i) => t = u

Waited == \A i \in DOMAIN refreshes : refreshes[i].stage \in {"sent", "read"} => Awaited(i)

Made ==
    /\ \A i \in Granted : refreshes[i].made \in RowId
    /\ \A i, j \in Granted : refreshes[i].made = refreshes[j].made => i = j

HeldKnown == held = LoggedOut \/ held.refresh \in RowId

\* The row of a pair not taken over yet is good, and nobody has its token.
Unknown ==
    \A i \in Granted : Awaited(i) =>
        /\ Good(refreshes[i].made)
        /\ refreshes[i].made # held.refresh
        /\ \A u \in Call : call[u].pair.refresh # refreshes[i].made
        /\ \A k \in DOMAIN refreshes : refreshes[k].token # refreshes[i].made

\* The client does not hold a token whose successor it has taken over.
Moved == \A i \in Granted : Awaited(i) \/ held.refresh # refreshes[i].token

HeldGood ==
    held # LoggedOut =>
        Good(held.refresh) \/ \E i \in Granted : refreshes[i].token = held.refresh

Holder == OwnRefresh /\ Waited /\ Made /\ HeldKnown /\ Unknown /\ Moved /\ HeldGood

\* What the parts of Holder rest on.
LEMMA HolderFacts ==
    ASSUME TypeOK, Asked
    PROVE  /\ LoggedOut.refresh = None /\ None \notin RowId
           /\ \A u \in Call : /\ call[u] \in CallType
                              /\ call[u].pair.refresh \in RowId \union {None}
                              /\ call[u].at = "refresh" => call[u].refresh \in DOMAIN refreshes
           /\ \A i \in DOMAIN refreshes : refreshes[i].token \in RowId
<1>1. \A u \in Call : call[u] \in CallType BY DEF TypeOK
<1>2. None \notin RowId BY RowFacts, SessionsAssumption DEF RowId
<1>3. LoggedOut.refresh = None BY DEF LoggedOut
<1>4. \A u \in Call : call[u].pair.refresh \in RowId \union {None}
  BY <1>1 DEF CallType, Pair, Known
<1>5. \A u \in Call : call[u].at = "refresh" => call[u].refresh \in DOMAIN refreshes
  BY <1>1 DEF CallType, Asked
<1> QED BY <1>1, <1>2, <1>3, <1>4, <1>5, RefreshFacts DEF Refresh

\* A call that ends, or that starts with what the app holds, unless it ends
\* one whose refresh was granted; and a logout.
LEMMA CallHolder ==
    ASSUME TypeOK, Asked, Holder, UNCHANGED <<row, refreshes, ended>>,
           held' \in {held, LoggedOut},
           \A u \in Call :
              \/ call'[u] = call[u]
              \/ /\ ~call'[u].boot /\ call'[u].at # "refresh"
                 /\ call[u].at = "refresh" => Answer(u).stage = "refused"
                 /\ call'[u].pair.refresh \in {None, held.refresh, call[u].pair.refresh}
    PROVE  Holder'
<1> USE HolderFacts DEF Holder
<1>1. RowId' = RowId /\ Granted' = Granted BY DEF RowId, Granted
<1>2. \A n : Good(n)' <=> Good(n) BY <1>1 DEF Good, Active
<1>3. \A u \in Call, i \in DOMAIN refreshes : Awaits(u, i)' => Awaits(u, i) BY DEF Awaits
<1>4. \A u \in Call, i \in DOMAIN refreshes :
        Awaits(u, i) /\ refreshes[i].stage # "refused" => Awaits(u, i)'
  BY DEF Awaits, Answer
<1>5. \A i \in DOMAIN refreshes : Awaited(i)' => Awaited(i) BY <1>3 DEF Awaited
<1>6. \A i \in DOMAIN refreshes : Awaited(i) /\ refreshes[i].stage # "refused" => Awaited(i)'
  BY <1>4 DEF Awaited
<1>7. OwnRefresh' BY <1>3 DEF OwnRefresh
<1>8. Waited' BY <1>6 DEF Waited
<1>9. Made' BY <1>1 DEF Made
<1>10. HeldKnown' BY <1>1 DEF HeldKnown, LoggedOut
<1>11. Unknown'
  <2> SUFFICES ASSUME NEW i \in Granted, Awaited(i)
               PROVE  /\ Good(refreshes[i].made)' /\ refreshes[i].made # held'.refresh
                      /\ \A u \in Call : call'[u].pair.refresh # refreshes[i].made
                      /\ \A k \in DOMAIN refreshes : refreshes[k].token # refreshes[i].made
    BY <1>1, <1>5 DEF Unknown, Granted
  <2>1. refreshes[i].made # None BY DEF Made
  <2> QED BY <1>2, <2>1 DEF Unknown
<1>12. Moved' BY <1>1, <1>6 DEF Moved, Granted
<1>13. HeldGood' BY <1>1, <1>2 DEF HeldGood
<1> QED BY <1>7, <1>8, <1>9, <1>10, <1>11, <1>12, <1>13

\* A pair that is taken over: the row it names was good and known to nobody.
LEMMA GrantedHolder ==
    ASSUME TypeOK, Asked, Holder, NEW t \in Call, RefreshGranted(t)
    PROVE  Holder'
<1> USE HolderFacts DEF Holder
<1> PICK a : a = call[t].refresh OBVIOUS
<1> PICK m : m = refreshes[a].made OBVIOUS
<1>1. UNCHANGED <<row, refreshes, ended>> /\ RowId' = RowId /\ Granted' = Granted
  BY DEF RefreshGranted, server, history, RowId, Granted
<1>2. held' = PairOf(m) /\ held'.refresh = m /\ held'.access = m
  BY DEF RefreshGranted, Hold, Answer, PairOf
<1>3. a \in Granted /\ Awaits(t, a) /\ Awaited(a)
  BY DEF RefreshGranted, Answer, Granted, Awaits, Awaited
<1>4. /\ \A u \in Call : call'[u].pair = call[u].pair /\ call'[u].boot = call[u].boot
      /\ \A u \in Call : u # t => call'[u] = call[u]
      /\ call'[t].at = "saving"
  <2>1. call' = [call EXCEPT ![t] = [call[t] EXCEPT !.at = "saving"]] /\ call \in [Call -> CallType]
    BY DEF RefreshGranted, TypeOK
  <2> QED BY <2>1 DEF CallType
<1>5. m \in RowId /\ m # None BY <1>3 DEF Made
<1>6. \A i : \A u \in Call : Awaits(u, i)' => Awaits(u, i) /\ u # t BY <1>4 DEF Awaits
<1>7. \A i \in DOMAIN refreshes : Awaited(i)' => Awaited(i) /\ i # a
  BY <1>3, <1>6 DEF Awaited, OwnRefresh
<1>8. \A i \in DOMAIN refreshes : Awaited(i) /\ i # a => Awaited(i)'
  <2>1. \A i : \A u \in Call : Awaits(u, i) /\ u # t => Awaits(u, i)' BY <1>4 DEF Awaits
  <2>2. \A i : Awaits(t, i) => i = a BY DEF Awaits
  <2> QED BY <2>1, <2>2 DEF Awaited
<1>9. \A n : Good(n)' <=> Good(n) BY <1>1 DEF Good, Active
<1>10. OwnRefresh' BY <1>1, <1>4, <1>6 DEF OwnRefresh
<1>11. Waited' BY <1>1, <1>3, <1>8 DEF Waited, Granted
<1>12. Made' /\ HeldKnown' BY <1>1, <1>2, <1>5 DEF Made, HeldKnown
<1>13. Unknown'
  <2> SUFFICES ASSUME NEW i \in Granted, Awaited(i), i # a
               PROVE  /\ Good(refreshes[i].made)' /\ refreshes[i].made # held'.refresh
                      /\ \A u \in Call : call'[u].pair.refresh # refreshes[i].made
                      /\ \A k \in DOMAIN refreshes : refreshes[k].token # refreshes[i].made
    BY <1>1, <1>7 DEF Unknown, Granted
  <2>1. refreshes[i].made # m BY <1>3 DEF Made
  <2> QED BY <1>1, <1>2, <1>4, <1>9, <2>1 DEF Unknown
<1>14. \A k \in DOMAIN refreshes : refreshes[k].token # m BY <1>3 DEF Unknown
<1>15. Moved' BY <1>1, <1>2, <1>14 DEF Moved, Granted
<1>16. Good(m)' BY <1>3, <1>9 DEF Unknown
<1>17. HeldGood' BY <1>2, <1>16 DEF HeldGood, Good, Active
<1> QED BY <1>10, <1>11, <1>12, <1>13, <1>15, <1>17

\* A refresh that is read or refused, and sessions that are closed.
LEMMA ServerHolder ==
    ASSUME TypeOK, Asked, Holder, UNCHANGED <<held, call>>, RowId' = RowId,
           \A n \in RowId : Good(n) => Good(n)',
           DOMAIN refreshes' = DOMAIN refreshes,
           \A i \in DOMAIN refreshes :
              /\ refreshes'[i].token = refreshes[i].token
              /\ refreshes'[i].made = refreshes[i].made
              /\ refreshes'[i].stage = "granted" <=> refreshes[i].stage = "granted"
              /\ refreshes'[i].stage \in {"sent", "read"} => refreshes[i].stage \in {"sent", "read"}
    PROVE  Holder'
<1> USE HolderFacts DEF Holder
<1>1. Granted' = Granted BY DEF Granted
<1>2. \A u, i : Awaits(u, i)' <=> Awaits(u, i) BY DEF Awaits
<1>3. \A i : Awaited(i)' <=> Awaited(i) BY <1>2 DEF Awaited
<1>4. \A i \in Granted : i \in DOMAIN refreshes BY DEF Granted
<1>5. OwnRefresh' BY <1>2 DEF OwnRefresh
<1>6. Waited' BY <1>3 DEF Waited
<1>7. Made' BY <1>1, <1>4 DEF Made
<1>8. HeldKnown' BY DEF HeldKnown
<1>9. Unknown'
  <2> SUFFICES ASSUME NEW i \in Granted, Awaited(i), NEW m \in RowId, m = refreshes[i].made
               PROVE  /\ Good(m)' /\ m # held.refresh
                      /\ \A u \in Call : call[u].pair.refresh # m
                      /\ \A k \in DOMAIN refreshes : refreshes[k].token # m
    BY <1>1, <1>3, <1>4 DEF Unknown, Made, Good, Active
  <2> QED BY DEF Unknown
<1>10. Moved' BY <1>1, <1>3, <1>4 DEF Moved
<1>11. HeldGood'
  <2> SUFFICES ASSUME held # LoggedOut, NEW n \in RowId, n = held.refresh
               PROVE  Good(n)' \/ \E i \in Granted : refreshes[i].token = n
    BY <1>1, <1>4 DEF HeldGood, HeldKnown, Good, Active
  <2> QED BY DEF HeldGood
<1> QED BY <1>5, <1>6, <1>7, <1>8, <1>9, <1>10, <1>11

\* A login: the row is new to everybody.
LEMMA LogInHolder ==
    ASSUME TypeOK, Asked, Holder, LogIn
    PROVE  Holder'
<1> USE HolderFacts, RowFacts DEF Holder
<1> PICK new : new = Len(row) + 1 OBVIOUS
<1>1. row \in Seq(RowType) /\ new \in 1..new /\ row' = Issue(row, new) BY DEF TypeOK, LogIn
<1>2. /\ \A n \in RowId : row'[n] = row[n]
      /\ row'[new] = [session |-> new, active |-> TRUE]
      /\ RowId' = RowId \union {new}
  BY <1>1, Issuing
<1>3. new \notin RowId /\ new # None BY SessionsAssumption DEF RowId
<1>4. UNCHANGED <<refreshes, call, ended>> /\ Granted' = Granted
  BY DEF LogIn, history, Granted
<1>5. held' = PairOf(new) /\ held'.refresh = new /\ held'.access = new
  BY DEF LogIn, Hold, PairOf
<1>6. \A n \in RowId : Good(n) => Good(n)' BY <1>2, <1>4 DEF Good, Active
<1>7. Good(new)' BY <1>2 DEF Good, Active
<1>8. \A i : Awaited(i)' <=> Awaited(i) BY <1>4 DEF Awaited, Awaits
<1>9. OwnRefresh' BY <1>4 DEF OwnRefresh, Awaits
<1>10. Waited' BY <1>4, <1>8 DEF Waited
<1>11. Made' BY <1>2, <1>4 DEF Made
<1>12. HeldKnown' BY <1>2, <1>5 DEF HeldKnown
<1>13. Unknown'
  <2> SUFFICES ASSUME NEW i \in Granted, Awaited(i), NEW m \in RowId, m = refreshes[i].made
               PROVE  /\ Good(m)' /\ m # held'.refresh
                      /\ \A u \in Call : call[u].pair.refresh # m
                      /\ \A k \in DOMAIN refreshes : refreshes[k].token # m
    BY <1>4, <1>8 DEF Unknown, Made, Good, Active
  <2> QED BY <1>3, <1>5, <1>6 DEF Unknown
<1>14. Moved' BY <1>3, <1>4, <1>5 DEF Moved, Granted
<1>15. HeldGood' BY <1>5, <1>7 DEF HeldGood, Good, Active
<1> QED BY <1>9, <1>10, <1>11, <1>12, <1>13, <1>14, <1>15

\* A rotation revokes a row nobody is about to take over; its call still waits
\* for the new one.
LEMMA RefreshCommitHolder ==
    ASSUME TypeOK, Asked, Holder, NEW i \in DOMAIN refreshes, RefreshCommit(i)
    PROVE  Holder'
<1> USE HolderFacts, RowFacts DEF Holder
<1> PICK n : n = refreshes[i].token OBVIOUS
<1> PICK new : new = Len(row) + 1 OBVIOUS
<1> PICK s : s = row[n].session OBVIOUS
<1> DEFINE rows == Revoke({n})
<1>1. n \in RowId /\ s \in 1..(Len(row) + 1) BY DEF RowId
<1>2. /\ rows \in Seq(RowType) /\ Len(rows) = Len(row)
      /\ \A m \in RowId : rows[m].session = row[m].session /\ (rows[m].active <=> row[m].active /\ m # n)
  BY Revoking
<1>3. row' = Issue(rows, s) BY DEF RefreshCommit
<1>4. /\ \A m \in RowId : row'[m] = rows[m]
      /\ row'[new] = [session |-> s, active |-> TRUE]
      /\ RowId' = RowId \union {new}
  <2> HIDE DEF rows
  <2> QED BY <1>1, <1>2, <1>3, Issuing
<1>5. /\ UNCHANGED <<held, call, ended>> /\ DOMAIN refreshes' = DOMAIN refreshes
      /\ \A j \in DOMAIN refreshes : j # i => refreshes'[j] = refreshes[j]
      /\ refreshes'[i].stage = "granted" /\ refreshes[i].stage = "read"
      /\ refreshes'[i].token = n /\ refreshes'[i].made = new
  BY RefreshFacts DEF RefreshCommit, client, history, Refresh
<1>6. new \notin RowId /\ new # None BY SessionsAssumption DEF RowId
<1> HIDE DEF rows
<1>7. Granted' = Granted \union {i} /\ i \notin Granted BY <1>5 DEF Granted
<1>8. \A j : Awaited(j)' <=> Awaited(j) BY <1>5 DEF Awaited, Awaits
<1>9. \A m \in RowId : Good(m) /\ m # n => Good(m)' BY <1>2, <1>4, <1>5 DEF Good, Active
<1>10. Good(new)' BY <1>4 DEF Good, Active
<1>11. OwnRefresh' BY <1>5 DEF OwnRefresh, Awaits
<1>12. Waited' BY <1>5, <1>8 DEF Waited
<1>13. \A j \in Granted : j \in DOMAIN refreshes /\ refreshes'[j] = refreshes[j]
  BY <1>5, <1>7 DEF Granted
<1>14. Made' BY <1>4, <1>5, <1>6, <1>7, <1>13 DEF Made
<1>15. HeldKnown' BY <1>4, <1>5 DEF HeldKnown
<1>16. \A k \in DOMAIN refreshes : refreshes'[k].token = refreshes[k].token BY <1>5
<1>17. Unknown'
  <2> SUFFICES ASSUME NEW j \in Granted', Awaited(j), NEW m \in RowId', m = refreshes'[j].made
               PROVE  /\ Good(m)' /\ m # held.refresh
                      /\ \A u \in Call : call[u].pair.refresh # m
                      /\ \A k \in DOMAIN refreshes : refreshes[k].token # m
    BY <1>5, <1>8, <1>14, <1>16 DEF Unknown, Made, Good, Active
  <2>1. CASE j = i
    <3>1. m = new BY <1>5, <2>1
    <3>2. m # held.refresh BY <1>6, <3>1 DEF HeldKnown
    <3> QED BY <1>6, <1>10, <3>1, <3>2
  <2>2. CASE j \in Granted
    <3>1. m = refreshes[j].made /\ m \in RowId BY <1>13, <2>2 DEF Made
    <3>2. Good(m) /\ m # n BY <2>2, <3>1 DEF Unknown
    <3> QED BY <1>9, <2>2, <3>1, <3>2 DEF Unknown
  <2> QED BY <1>7, <2>1, <2>2
<1>18. Moved'
  <2>1. Awaited(i) BY <1>5 DEF Waited
  <2> QED BY <1>5, <1>7, <1>8, <1>13, <2>1 DEF Moved
<1>19. HeldGood'
  <2> SUFFICES ASSUME held # LoggedOut, NEW m \in RowId, m = held.refresh
               PROVE  Good(m)' \/ \E j \in Granted' : refreshes'[j].token = m
    BY <1>5 DEF HeldGood, HeldKnown, Good, Active
  <2>1. CASE m = n BY <1>5, <1>7, <2>1
  <2>2. CASE m # n BY <1>7, <1>9, <1>13, <2>2 DEF HeldGood
  <2> QED BY <2>1, <2>2
<1> QED BY <1>11, <1>12, <1>14, <1>15, <1>17, <1>18, <1>19

\* A refresh that is asked for has a call of its own, and a token whose row
\* was not issued by a refresh still awaited.
LEMMA AskRefreshHolder ==
    ASSUME TypeOK, Asked, Holder, NEW t \in Call, AskRefresh(t)
    PROVE  Holder'
<1> USE HolderFacts, RefreshFacts DEF Holder
<1> PICK last : last = Len(refreshes) + 1 OBVIOUS
<1> DEFINE new == [token |-> call[t].pair.refresh, stage |-> "sent", made |-> None]
<1>1. refreshes' = Append(refreshes, new) BY DEF AskRefresh
<1>2. new.stage = "sent" /\ new.token = call[t].pair.refresh OBVIOUS
<1>3. refreshes \in Seq(Refresh \union {new}) /\ new \in Refresh \union {new}
  BY SeqMonotonic DEF TypeOK
<1> HIDE DEF new
<1>4. /\ Len(refreshes') = last /\ refreshes' \in Seq(Refresh \union {new})
      /\ \A i \in 1..Len(refreshes) : refreshes'[i] = refreshes[i]
      /\ refreshes'[last] = new
  BY <1>1, <1>3, AppendProperties
<1>5. DOMAIN refreshes' = DOMAIN refreshes \union {last} /\ last \notin DOMAIN refreshes
  BY <1>4, LenProperties
<1>6. \A i \in DOMAIN refreshes : refreshes'[i] = refreshes[i] BY <1>4
<1>7. UNCHANGED <<row, held, ended>> /\ RowId' = RowId BY DEF AskRefresh, history, RowId
<1>8. /\ \A u \in Call : call'[u].pair = call[u].pair /\ call'[u].boot = call[u].boot
      /\ \A u \in Call : u # t => call'[u] = call[u]
      /\ call'[t].at = "refresh" /\ call'[t].refresh = last /\ call[t].at = "first"
  <2>1. /\ call' = [call EXCEPT ![t] = [call[t] EXCEPT !.at = "refresh", !.refresh = last]]
        /\ call \in [Call -> CallType] /\ call[t].at = "first"
    BY DEF AskRefresh, TypeOK
  <2> QED BY <2>1 DEF CallType
<1>9. Granted' = Granted BY <1>2, <1>4, <1>5, <1>6 DEF Granted
<1>10. \A i \in DOMAIN refreshes, u \in Call : Awaits(u, i)' <=> Awaits(u, i)
  BY <1>5, <1>8 DEF Awaits
<1>11. \A u \in Call : Awaits(u, last)' <=> u = t BY <1>5, <1>8 DEF Awaits
<1>12. \A i \in DOMAIN refreshes : Awaited(i)' <=> Awaited(i) BY <1>10 DEF Awaited
<1>13. \A n : Good(n)' <=> Good(n) BY <1>7 DEF Good, Active
<1>14. \A i \in Granted : i \in DOMAIN refreshes /\ refreshes'[i] = refreshes[i]
  BY <1>6 DEF Granted
<1>15. OwnRefresh' BY <1>5, <1>8, <1>10, <1>11 DEF OwnRefresh
<1>16. Waited'
  <2>1. Awaited(last)' BY <1>11 DEF Awaited
  <2> QED BY <1>5, <1>6, <1>12, <2>1 DEF Waited
<1>17. Made' BY <1>7, <1>9, <1>14 DEF Made
<1>18. HeldKnown' BY <1>7 DEF HeldKnown
<1>19. Unknown'
  <2> SUFFICES ASSUME NEW i \in Granted, Awaited(i), NEW m \in RowId, m = refreshes[i].made
               PROVE  /\ Good(m)' /\ m # held.refresh
                      /\ \A u \in Call : call'[u].pair.refresh # m
                      /\ \A k \in DOMAIN refreshes' : refreshes'[k].token # m
    BY <1>7, <1>9, <1>12, <1>14 DEF Unknown, Made, Good, Active
  <2>1. Good(m) /\ m # held.refresh BY DEF Unknown
  <2>2. \A u \in Call : call'[u].pair.refresh # m BY <1>8 DEF Unknown
  <2>3. \A k \in DOMAIN refreshes : refreshes'[k].token # m BY <1>6 DEF Unknown
  <2>4. refreshes'[last].token # m BY <1>2, <1>4 DEF Unknown
  <2> QED BY <1>5, <1>13, <2>1, <2>2, <2>3, <2>4
<1>20. Moved' BY <1>7, <1>9, <1>12, <1>14 DEF Moved
<1>21. HeldGood' BY <1>7, <1>9, <1>14 DEF HeldGood, Good, Active
<1> QED BY <1>15, <1>16, <1>17, <1>18, <1>19, <1>20, <1>21

HolderInv == faults = 0 => Holder

LEMMA HolderStep == IInv /\ HolderInv /\ [Next]_vars => HolderInv'
<1> SUFFICES ASSUME IInv, HolderInv, [Next]_vars, faults' = 0 PROVE Holder'
  BY DEF HolderInv
<1> USE HolderFacts, RowFacts, RefreshFacts
<1>1. TypeOK /\ Asked BY DEF IInv
<1>2. faults \in Nat BY <1>1, SessionsAssumption DEF TypeOK
<1>3. \A t \in Call : ~RequestLost(t) /\ ~Restart(t) BY <1>2 DEF RequestLost, Restart
<1>4. UNCHANGED faults
  BY <1>3 DEF Next, vars, history, Lapse, LogIn, LogOut, EndCommit, SaveRefresh, EndRead, RefreshRead,
        RefreshCommit, SaveAccess, RequestAccepted, RequestRefused, AskRefresh, RefreshGranted,
        RefreshReturns, RefreshRefused, Start
<1>5. Holder BY <1>4 DEF HolderInv
<1>6. CASE LogIn BY <1>1, <1>5, <1>6, LogInHolder
<1>7. CASE EndCommit
  <2>1. /\ RowId' = RowId
        /\ \A n \in RowId : /\ row'[n].session = row[n].session
                            /\ row'[n].active <=> (row[n].active /\ n \notin ending)
    BY <1>1, <1>7, Revoking DEF EndCommit, RowId
  <2>2. ended' = ended \union {row[n].session : n \in ending} BY <1>7 DEF EndCommit
  <2>3. \A n \in RowId : Good(n) => Good(n)' BY <2>1, <2>2 DEF Good, Active
  <2>4. UNCHANGED <<held, call, refreshes>> BY <1>7 DEF EndCommit, client
  <2> QED BY <1>1, <1>5, <2>1, <2>3, <2>4, ServerHolder
<1>8. ASSUME NEW i \in DOMAIN refreshes, RefreshRead(i) PROVE Holder'
  <2>1. PICK stage \in {"read", "refused"} : refreshes' = [refreshes EXCEPT ![i].stage = stage]
    BY <1>8 DEF RefreshRead
  <2>2. UNCHANGED <<row, held, call, ended>> /\ refreshes[i].stage = "sent"
    BY <1>8 DEF RefreshRead, client
  <2>3. RowId' = RowId /\ \A n : Good(n)' <=> Good(n) BY <2>2 DEF RowId, Good, Active
  <2>4. /\ DOMAIN refreshes' = DOMAIN refreshes
        /\ \A j \in DOMAIN refreshes : j # i => refreshes'[j] = refreshes[j]
        /\ refreshes'[i].stage = stage /\ refreshes'[i].token = refreshes[i].token
        /\ refreshes'[i].made = refreshes[i].made
    BY <1>1, <2>1 DEF Refresh
  <2> QED BY <1>1, <1>5, <2>2, <2>3, <2>4, ServerHolder
<1>9. ASSUME NEW i \in DOMAIN refreshes, RefreshCommit(i) PROVE Holder'
  BY <1>1, <1>5, <1>9, RefreshCommitHolder
<1>10. ASSUME NEW t \in Call, AskRefresh(t) PROVE Holder' BY <1>1, <1>5, <1>10, AskRefreshHolder
<1>11. ASSUME NEW t \in Call, RefreshGranted(t) PROVE Holder' BY <1>1, <1>5, <1>11, GrantedHolder
<1>12. ASSUME NEW t \in Call,
              \/ RequestAccepted(t) \/ RequestRefused(t) \/ RefreshRefused(t)
              \/ RefreshReturns(t) \/ Start(t)
       PROVE  Holder'
  <2>1. UNCHANGED <<row, refreshes, ended>>
    BY <1>12 DEF RequestAccepted, RequestRefused, RefreshRefused, RefreshReturns, Start, server, history
  <2>2. held' \in {held, LoggedOut}
    BY <1>12 DEF RequestAccepted, RequestRefused, RefreshRefused, RefreshReturns, Start, Throws,
             Expired, Hold
  <2>3. PICK c : call' = [call EXCEPT ![t] = c] /\ ~c.boot /\ c.at # "refresh"
                 /\ c.pair.refresh \in {None, held.refresh}
    <3>1. CASE Start(t)
      <4> DEFINE c == [at |-> "first", pair |-> held, refresh |-> None, boot |-> FALSE]
      <4>1. call' = [call EXCEPT ![t] = c] BY <3>1 DEF Start
      <4>2. ~c.boot /\ c.at # "refresh" /\ c.pair.refresh = held.refresh OBVIOUS
      <4> HIDE DEF c
      <4> QED BY <4>1, <4>2
    <3>2. CASE Over(t)
      <4>1. ~Idle.boot /\ Idle.at # "refresh" /\ Idle.pair.refresh = None BY DEF Idle, LoggedOut
      <4> QED BY <3>2, <4>1 DEF Over
    <3>3. CASE RefreshReturns(t) /\ ~Over(t)
      <4> DEFINE c == [call[t] EXCEPT !.at = "again", !.pair = held]
      <4>1. call' = [call EXCEPT ![t] = c] BY <3>3 DEF RefreshReturns, Throws
      <4>2. call[t] \in CallType /\ ~call[t].boot BY <1>1, <1>5 DEF TypeOK, Holder, OwnRefresh
      <4>3. ~c.boot /\ c.at # "refresh" /\ c.pair.refresh = held.refresh BY <4>2 DEF CallType
      <4> HIDE DEF c
      <4> QED BY <4>1, <4>3
    <3>4. CASE RequestAccepted(t) \/ RequestRefused(t) \/ RefreshRefused(t)
      BY <3>2, <3>4 DEF RequestAccepted, RequestRefused, RefreshRefused, Throws, Expired
    <3> QED BY <1>12, <3>1, <3>2, <3>3, <3>4
  <2>4. call[t].at = "refresh" => Answer(t).stage = "refused"
    BY <1>12 DEF RequestAccepted, RequestRefused, RefreshRefused, RefreshReturns, Start, Requests
  <2>5. \A u \in Call :
          \/ call'[u] = call[u]
          \/ /\ ~call'[u].boot /\ call'[u].at # "refresh"
             /\ call[u].at = "refresh" => Answer(u).stage = "refused"
             /\ call'[u].pair.refresh \in {None, held.refresh, call[u].pair.refresh}
    BY <1>1, <2>3, <2>4 DEF TypeOK
  <2> QED BY <1>1, <1>5, <2>1, <2>2, <2>5, CallHolder
<1>13. CASE \/ Lapse \/ LogOut \/ SaveRefresh \/ UNCHANGED vars
            \/ \E S \in SUBSET RowId : EndRead(S)
            \/ \E i \in DOMAIN saves : SaveAccess(i)
  <2>1. UNCHANGED <<row, refreshes, ended, call>> /\ held' \in {held, LoggedOut}
    BY <1>13 DEF Lapse, LogOut, SaveRefresh, EndRead, SaveAccess, Hold, vars, server, client, history
  <2> QED BY <1>1, <1>5, <2>1, CallHolder
<1> QED BY <1>3, <1>6, <1>7, <1>8, <1>9, <1>10, <1>11, <1>12, <1>13 DEF Next

\* The refresh token the client holds is good as long as no answer is lost and
\* the app is not killed, unless another device closed the session or the
\* answer of the refresh that used it is under way.
THEOREM HeldSafe == Spec => []HeldIsActive
<1>1. Init => HolderInv
  <2> SUFFICES ASSUME Init PROVE Holder BY DEF HolderInv
  <2>1. DOMAIN refreshes = {} BY EmptySeq DEF Init
  <2>2. \A t \in Call : ~call[t].boot BY DEF Init, Idle
  <2>3. Granted = {} BY <2>1 DEF Granted
  <2> QED BY <2>1, <2>2, <2>3 DEF Init, Holder, OwnRefresh, Waited, Made, HeldKnown, Unknown, Moved, HeldGood
<1>2. HolderInv => HeldIsActive
  <2> SUFFICES ASSUME Holder, held # LoggedOut, ~Good(held.refresh)
               PROVE  \E t \in Call : /\ call[t].at = "refresh" /\ Answer(t).stage = "granted"
                                      /\ Answer(t).token = held.refresh
    BY DEF HolderInv, HeldIsActive, Good
  <2>1. PICK i \in Granted : refreshes[i].token = held.refresh BY DEF Holder, HeldGood
  <2>2. Awaited(i) BY <2>1 DEF Holder, Moved
  <2> QED BY <2>1, <2>2 DEF Awaited, Awaits, Answer, Granted
<1> QED BY <1>1, <1>2, HolderStep, Invariant, PTL DEF Spec
=============================================================================

---------------------------- MODULE ChatsProofs ----------------------------
(***************************************************************************)
(* Proofs about Chats, for every number of users, chats and requests, and  *)
(* after them about Media, whose names carry the prefix Media.             *)
(*                                                                         *)
(* What keeps the private chat of two users unique is Alone: among the     *)
(* chats nobody was added to there is at most one of theirs, and none      *)
(* while a request is about to create it.  What keeps the check of a       *)
(* message honest is Two: such a chat has at most two members.  What keeps *)
(* an upload safe is that its file comes before its row (Underway) and     *)
(* that a client_upload_id has one row (RowPerId).                         *)
(***************************************************************************)
EXTENDS Chats, Media, TLAPS

\* The private chats of two users to which nobody was added.
Ours(u, v) == Between(u, v) \ grown

Pair(t) == {call[t].by, call[t].peer}

\* Nobody opens a private chat with himself.
Others == \A t \in Thread : Finding(t) \/ Creating(t) => call[t].by # call[t].peer

Alone ==
    \A u, v \in User : u # v /\ {u, v} \notin raced =>
        /\ \A c, d \in Ours(u, v) : c = d
        /\ \A t \in Thread : Creating(t) /\ Pair(t) = {u, v} =>
              /\ Ours(u, v) = {}
              /\ \A o \in Thread : Creating(o) /\ Pair(o) = {u, v} => o = t

Two ==
    \A c \in Private \ grown : \A x, y, z \in chat[c].members : x = y \/ y = z \/ x = z

IInv == TypeOK /\ Others /\ Alone /\ Two /\ BlockIsRespected

-----------------------------------------------------------------------------
LEMMA InitOK == Init => IInv
BY ChatsAssumption DEF ChatsAssumption, Init, IInv, TypeOK, Others, Alone, Two, BlockIsRespected,
   Ours, Between, Private, Creating, Finding, Id

\* What the kinds of requests carry.
LEMMA CallKinds ==
    ASSUME TypeOK, NEW t \in Thread
    PROVE  /\ Finding(t) => call[t] \in [op : {"find"}, by : User, peer : User]
           /\ Creating(t) => call[t] \in [op : {"create"}, by : User, peer : User]
           /\ Adding(t) => call[t] \in [op : {"add"}, chat : 1..created, user : User, manager : BOOLEAN]
BY DEF TypeOK, Call, Finding, Creating, Adding

LEMMA SaveKind ==
    ASSUME TypeOK, NEW t \in Thread, call[t] # None, call[t].op = "save"
    PROVE  call[t].by \in User
BY DEF TypeOK, Call

-----------------------------------------------------------------------------
(* Type correctness.                                                       *)

\* A stored chat keeps the table well formed.
LEMMA StoreOK ==
    ASSUME TypeOK, NEW c \in Chat, c.owner \in c.managers, c.managers \subseteq c.members, Store(c)
    PROVE  /\ created' \in 0..MaxChats /\ created + 1 \in Id
           /\ chat' \in [Id -> Chat \union {None}]
           /\ \A i \in Id : IF i > created' THEN chat'[i] = None
                            ELSE /\ chat'[i] \in Chat
                                 /\ chat'[i].owner \in chat'[i].managers
                                 /\ chat'[i].managers \subseteq chat'[i].members
           /\ grown \subseteq 1..created'
           /\ call \in [Thread -> Call' \union {None}]
<1> USE ChatsAssumption DEF ChatsAssumption
<1>1. created + 1 \in Id /\ created' \in 0..MaxChats
  BY DEF TypeOK, Store, Id
<1>2. chat' = [chat EXCEPT ![created + 1] = c] /\ created' = created + 1
  BY DEF Store
<1>3. chat' \in [Id -> Chat \union {None}]
  BY <1>1, <1>2 DEF TypeOK
<1>4. ASSUME NEW i \in Id
      PROVE  IF i > created' THEN chat'[i] = None
             ELSE /\ chat'[i] \in Chat
                  /\ chat'[i].owner \in chat'[i].managers
                  /\ chat'[i].managers \subseteq chat'[i].members
  <2>1. CASE i = created + 1
    BY <2>1, <1>1, <1>2 DEF TypeOK, Id
  <2>2. CASE i # created + 1
    <3>1. chat'[i] = chat[i]
      BY <2>2, <1>1, <1>2 DEF TypeOK
    <3>2. i > created' <=> i > created
      BY <2>2, <1>1, <1>2 DEF TypeOK, Id
    <3> QED
      BY <3>1, <3>2 DEF TypeOK
  <2> QED
    BY <2>1, <2>2
<1>5. grown \subseteq 1..created'
  BY <1>1, <1>2 DEF TypeOK, Id
<1>6. Call \subseteq Call'
  BY <1>1, <1>2 DEF Call, TypeOK, Id
<1> QED
  BY <1>1, <1>3, <1>4, <1>5, <1>6 DEF TypeOK

LEMMA PrivateChatOK ==
    ASSUME NEW u \in User, NEW others \in SUBSET User
    PROVE  LET c == PrivateChat(u, others) IN
           c \in Chat /\ c.owner \in c.managers /\ c.managers \subseteq c.members
BY DEF PrivateChat, Chat

LEMMA CallOK ==
    ASSUME TypeOK, UNCHANGED created,
           \/ UNCHANGED call
           \/ \E t \in Thread, r \in Call \union {None} : call' = [call EXCEPT ![t] = r]
    PROVE  call' \in [Thread -> Call' \union {None}]
<1>1. Call' = Call
  BY DEF Call
<1> QED
  BY <1>1 DEF TypeOK

LEMMA TypeStep == TypeOK /\ [Next]_vars => TypeOK'
<1> SUFFICES ASSUME TypeOK, [Next]_vars PROVE TypeOK'
  OBVIOUS
<1> USE ChatsAssumption DEF ChatsAssumption
<1>1. ASSUME NEW t \in Thread, NEW u \in User, NEW v \in User, OpenCheck(t, u, v) PROVE TypeOK'
  <2>1. [op |-> "find", by |-> u, peer |-> v] \in Call
    BY DEF Call
  <2> QED
    BY <1>1, <2>1, CallOK DEF OpenCheck, TypeOK, database, history
<1>2. ASSUME NEW t \in Thread, NEW c \in Id, OpenFound(t, c) PROVE TypeOK'
  BY <1>2, CallOK DEF OpenFound, Free, TypeOK, database, history
<1>3. ASSUME NEW t \in Thread, OpenMissing(t) PROVE TypeOK'
  <2>1. call[t] \in [op : {"find"}, by : User, peer : User]
    BY <1>3, CallKinds DEF OpenMissing
  <2>2. [call[t] EXCEPT !.op = "create"] \in Call
    BY <2>1 DEF Call
  <2>3. raced' \subseteq SUBSET User
    BY <1>3, <2>1 DEF OpenMissing, TypeOK
  <2>4. call' = [call EXCEPT ![t] = [call[t] EXCEPT !.op = "create"]]
    BY <1>3 DEF OpenMissing
  <2>5. call' \in [Thread -> Call' \union {None}]
    BY <1>3, <2>2, <2>4, CallOK DEF OpenMissing, database
  <2> QED
    BY <1>3, <2>5, <2>3 DEF OpenMissing, TypeOK, database
<1>4. ASSUME NEW t \in Thread, OpenCreate(t) PROVE TypeOK'
  <2>1. call[t] \in [op : {"create"}, by : User, peer : User]
    BY <1>4, CallKinds DEF OpenCreate
  <2>2. Store(PrivateChat(call[t].by, {call[t].peer}))
    BY <1>4 DEF OpenCreate
  <2> QED
    BY <1>4, <2>1, <2>2, StoreOK, PrivateChatOK DEF OpenCreate, Free, TypeOK, history
<1>5. ASSUME NEW t \in Thread, NEW u \in User, SavedMissing(t, u) PROVE TypeOK'
  <2>1. [op |-> "save", by |-> u] \in Call
    BY DEF Call
  <2> QED
    BY <1>5, <2>1, CallOK DEF SavedMissing, TypeOK, database, history
<1>6. ASSUME NEW t \in Thread, SavedCreate(t) PROVE TypeOK'
  <2>1. call[t].by \in User
    BY <1>6, SaveKind DEF SavedCreate
  <2>2. Store(PrivateChat(call[t].by, {}))
    BY <1>6 DEF SavedCreate
  <2> QED
    BY <1>6, <2>1, <2>2, StoreOK, PrivateChatOK DEF SavedCreate, Free, TypeOK, history
<1>7. ASSUME NEW u \in User, NEW others \in SUBSET User, CreateGroup(u, others) PROVE TypeOK'
  <2> DEFINE g == [type |-> "group", owner |-> u, members |-> {u} \union others, managers |-> {u}]
  <2>1. g \in Chat /\ g.owner \in g.managers /\ g.managers \subseteq g.members /\ Store(g)
    BY <1>7 DEF CreateGroup, Chat
  <2> HIDE DEF g
  <2> QED
    BY <1>7, <2>1, StoreOK DEF CreateGroup, TypeOK, requests, history
<1>8. ASSUME NEW t \in Thread, NEW u \in User, NEW c \in Id, NEW v \in User,
             NEW manager \in BOOLEAN, AddCheck(t, u, c, v, manager)
      PROVE  TypeOK'
  <2>1. [op |-> "add", chat |-> c, user |-> v, manager |-> manager] \in Call
    BY <1>8 DEF AddCheck, Call
  <2> QED
    BY <1>8, <2>1, CallOK DEF AddCheck, TypeOK, database, history
<1>9. ASSUME NEW t \in Thread, AddCommit(t) PROVE TypeOK'
  <2> DEFINE c == call[t].chat
  <2>1. call[t] \in [op : {"add"}, chat : 1..created, user : User, manager : BOOLEAN]
    BY <1>9, CallKinds DEF AddCommit
  <2>2. c \in Id /\ c <= created /\ c \in 1..created /\ call[t].user \in User
    BY <2>1 DEF Id, TypeOK
  <2>3. chat[c] \in Chat /\ chat[c].owner \in chat[c].managers /\ chat[c].managers \subseteq chat[c].members
    BY <2>2 DEF TypeOK
  <2>4. PICK m \in SUBSET User : /\ chat[c].managers \subseteq m
                                 /\ m \subseteq chat[c].members \union {call[t].user}
                                 /\ chat' = [chat EXCEPT ![c] = [chat[c] EXCEPT
                                      !.members = chat[c].members \union {call[t].user},
                                      !.managers = m]]
    <3> DEFINE m == chat[c].managers \union (IF call[t].manager THEN {call[t].user} ELSE {})
    <3>1. chat' = [chat EXCEPT ![c] = [chat[c] EXCEPT
                     !.members = chat[c].members \union {call[t].user}, !.managers = m]]
      BY <1>9 DEF AddCommit
    <3>2. m \in SUBSET User /\ chat[c].managers \subseteq m
          /\ m \subseteq chat[c].members \union {call[t].user}
      BY <2>2, <2>3 DEF Chat
    <3> HIDE DEF m
    <3> QED BY <3>1, <3>2
  <2>5. chat'[c] = [type |-> chat[c].type, owner |-> chat[c].owner,
                    members |-> chat[c].members \union {call[t].user}, managers |-> m]
    BY <2>2, <2>3, <2>4 DEF TypeOK, Chat
  <2>6. chat'[c] \in Chat /\ chat'[c].owner \in chat'[c].managers
        /\ chat'[c].managers \subseteq chat'[c].members
    <3>1. /\ chat[c].type \in {"private", "group"} /\ chat[c].owner \in User
          /\ chat[c].members \union {call[t].user} \in SUBSET User
      BY <2>2, <2>3 DEF Chat
    <3>2. chat[c].owner \in m /\ m \subseteq chat[c].members \union {call[t].user}
      BY <2>3, <2>4
    <3> QED
      BY <2>5, <3>1, <3>2 DEF Chat
  <2>7. \A i \in Id : i # c => chat'[i] = chat[i]
    BY <2>4 DEF TypeOK
  <2>8. /\ chat' \in [Id -> Chat \union {None}]
        /\ \A i \in Id : IF i > created THEN chat'[i] = None
                         ELSE /\ chat'[i] \in Chat
                              /\ chat'[i].owner \in chat'[i].managers
                              /\ chat'[i].managers \subseteq chat'[i].members
    <3>1. \A i \in Id : IF i > created THEN chat'[i] = None
                        ELSE /\ chat'[i] \in Chat
                             /\ chat'[i].owner \in chat'[i].managers
                             /\ chat'[i].managers \subseteq chat'[i].members
      BY <2>2, <2>6, <2>7 DEF TypeOK, Id
    <3>2. DOMAIN chat' = Id /\ chat' = [i \in Id |-> chat'[i]]
      BY <2>4 DEF TypeOK
    <3>3. \A i \in Id : chat'[i] \in Chat \union {None}
      BY <3>1
    <3> QED
      BY <3>1, <3>2, <3>3
  <2>9. /\ created' = created /\ blocked' = blocked /\ sending' = sending /\ raced' = raced
        /\ call' = [call EXCEPT ![t] = None] /\ grown' \subseteq grown \union {c}
    BY <1>9 DEF AddCommit, Free
  <2>10. call' \in [Thread -> Call' \union {None}]
    BY <2>9, CallOK
  <2> QED
    BY <2>2, <2>8, <2>9, <2>10 DEF TypeOK
<1>10. ASSUME NEW t \in Thread, AddFails(t) PROVE TypeOK'
  BY <1>10, CallOK DEF AddFails, Free, TypeOK, database, history
<1>11. ASSUME NEW u \in User, NEW v \in User, Block(u, v) \/ Unblock(u, v) PROVE TypeOK'
  <2>1. blocked' \subseteq User \X User
    BY <1>11 DEF Block, Unblock, TypeOK
  <2> QED
    BY <1>11, <2>1, CallOK DEF Block, Unblock, TypeOK, requests, history
<1>12. ASSUME NEW u \in User, NEW c \in Id, SendCheck(u, c) PROVE TypeOK'
  <2>1. c \in 1..created /\ chat[c].members \subseteq User
    BY <1>12 DEF SendCheck, Private, TypeOK, Chat, Id
  <2>2. sending' \in Sending
    BY <1>12, <2>1 DEF SendCheck, Sending
  <2> QED
    BY <1>12, <2>2, CallOK DEF SendCheck, TypeOK, database, history
<1>13. CASE SendCommit
  BY <1>13, CallOK DEF SendCommit, TypeOK, database, history
<1>14. CASE UNCHANGED vars
  BY <1>14, CallOK DEF vars, database, requests, history, TypeOK
<1> QED
  BY <1>1, <1>2, <1>3, <1>4, <1>5, <1>6, <1>7, <1>8, <1>9, <1>10, <1>11, <1>12, <1>13, <1>14
  DEF Next

\* TypeOK: the tables and requests are always of their kinds, and every chat has
\* its owner among its managers and its managers among its members.
THEOREM TypeCorrect == Spec => []TypeOK
<1>1. Init => TypeOK
  BY InitOK DEF IInv
<1> QED
  BY <1>1, TypeStep, PTL DEF Spec

-----------------------------------------------------------------------------
(* One private chat, and the check of a message.                           *)

\* What the private chats of two users are made of.
LEMMA BetweenIs ==
    ASSUME TypeOK, NEW u \in User, NEW v \in User, NEW c
    PROVE  c \in Between(u, v) <=> /\ c \in 1..created /\ chat[c].type = "private"
                                   /\ u \in chat[c].members /\ v \in chat[c].members
BY DEF Between, Private

\* Steps that leave the tables alone and in which no request becomes one that
\* creates a private chat.
LEMMA OnlyCall ==
    ASSUME TypeOK, Others, Alone, Two, UNCHANGED <<created, chat, history>>,
           NEW t \in Thread, NEW r, call' = [call EXCEPT ![t] = r],
           r # None => r.op # "create" /\ (r.op = "find" => r.by # r.peer)
    PROVE  Others' /\ Alone' /\ Two'
<1>1. \A o \in Thread : call'[o] = IF o = t THEN r ELSE call[o]
  BY DEF TypeOK
<1>2. \A o \in Thread : Creating(o)' => Creating(o) /\ Pair(o)' = Pair(o)
  BY <1>1 DEF Creating, Pair
<1>3. \A u, v : Ours(u, v)' = Ours(u, v)
  BY DEF Ours, Between, Private, history
<1>4. Others'
  BY <1>1 DEF Others, Finding, Creating
<1>5. Alone'
  BY <1>2, <1>3 DEF Alone, history
<1>6. Two'
  BY DEF Two, Private, history
<1> QED
  BY <1>4, <1>5, <1>6

\* A chat that is stored is new.
LEMMA StoreIs ==
    ASSUME TypeOK, NEW c, Store(c)
    PROVE  /\ created' = created + 1 /\ created' \in Nat /\ created \in Nat /\ created + 1 \in Id
           /\ created + 1 \notin grown /\ created + 1 \notin 1..created
           /\ 1..created' = 1..created \union {created + 1}
           /\ chat'[created + 1] = c
           /\ \A i \in 1..created : chat'[i] = chat[i]
<1> USE ChatsAssumption DEF ChatsAssumption
<1>1. created \in Nat /\ created' = created + 1 /\ created + 1 \in Id
  BY DEF Store, TypeOK, Id
<1>2. \A i \in 1..created : i \in Id /\ i # created + 1
  BY <1>1 DEF Id
<1> QED
  BY <1>1, <1>2 DEF Store, TypeOK

\* A private chat with one member, or a group, is nobody's private chat.
LEMMA StoreOther ==
    ASSUME TypeOK, Others, Alone, Two, NEW k \in Chat, Store(k), UNCHANGED history,
           k.type = "private" => \E w \in User : k.members = {w},
           \/ UNCHANGED call
           \/ \E t \in Thread : call' = [call EXCEPT ![t] = None]
    PROVE  Others' /\ Alone' /\ Two'
<1>1. \A o \in Thread : /\ Creating(o)' => Creating(o) /\ Pair(o)' = Pair(o)
                        /\ Finding(o)' => Finding(o) /\ Pair(o)' = Pair(o)
                        /\ call'[o] # None => call'[o] = call[o]
  BY DEF TypeOK, Creating, Finding, Pair
<1>2. Others'
  BY <1>1 DEF Others, Finding, Creating
<1>3. ASSUME NEW u \in User, NEW v \in User, u # v PROVE Ours(u, v)' = Ours(u, v)
  <2>1. Between(u, v)' = Between(u, v)
    BY <1>3, StoreIs DEF Between, Private
  <2> QED
    BY <2>1 DEF Ours, history
<1>4. Alone'
  BY <1>1, <1>3 DEF Alone, history
<1>5. Two'
  BY StoreIs DEF Two, Private, history
<1> QED
  BY <1>2, <1>4, <1>5

LEMMA OpenMissingStep ==
    ASSUME IInv, NEW t \in Thread, OpenMissing(t)
    PROVE  Others' /\ Alone' /\ Two'
<1> USE DEF IInv
<1>1. call[t] \in [op : {"find"}, by : User, peer : User] /\ call[t].by # call[t].peer
  BY CallKinds DEF OpenMissing, Others
<1>2. /\ call' = [call EXCEPT ![t] = [call[t] EXCEPT !.op = "create"]]
      /\ UNCHANGED <<created, chat, grown>>
  BY DEF OpenMissing, database
<1>3. \A o \in Thread : o # t => call'[o] = call[o]
  BY <1>2 DEF TypeOK
<1>4. call'[t] = [op |-> "create", by |-> call[t].by, peer |-> call[t].peer]
  BY <1>1, <1>2 DEF TypeOK
<1>5. \A o \in Thread : o # t => (Creating(o)' <=> Creating(o)) /\ (Finding(o)' <=> Finding(o))
                                 /\ Pair(o)' = Pair(o)
  BY <1>3 DEF Creating, Finding, Pair
<1>6. Pair(t)' = Pair(t) /\ ~Finding(t)'
  BY <1>4 DEF Pair, Finding
<1>7. Others'
  BY <1>1, <1>3, <1>4, <1>5 DEF Others
<1>8. \A u, v : Ours(u, v)' = Ours(u, v)
  BY <1>2 DEF Ours, Between, Private
<1>9. raced' = IF \E o \in Thread : Creating(o) /\ Pair(o) = Pair(t)
               THEN raced \union {Pair(t)} ELSE raced
  BY DEF OpenMissing, Pair
<1>10. ASSUME NEW u \in User, NEW v \in User, u # v, {u, v} \notin raced'
       PROVE  /\ \A c, d \in Ours(u, v)' : c = d
              /\ \A p \in Thread : Creating(p)' /\ Pair(p)' = {u, v} =>
                    /\ Ours(u, v)' = {}
                    /\ \A o \in Thread : Creating(o)' /\ Pair(o)' = {u, v} => o = p
  <2>1. {u, v} \notin raced
    BY <1>9, <1>10
  <2>2. CASE Pair(t) # {u, v}
    BY <2>1, <2>2, <1>5, <1>6, <1>8, <1>10 DEF Alone
  <2>3. CASE Pair(t) = {u, v}
    <3>1. \A o \in Thread : ~(Creating(o) /\ Pair(o) = {u, v})
      BY <2>3, <1>9, <1>10
    <3>2. Between(u, v) = {}
      <4>1. Between(call[t].by, call[t].peer) = {}
        BY DEF OpenMissing
      <4>2. (u = call[t].by /\ v = call[t].peer) \/ (v = call[t].by /\ u = call[t].peer)
        BY <2>3, <1>1, <1>10 DEF Pair
      <4> QED
        BY <4>1, <4>2 DEF Between
    <3> QED
      BY <3>1, <3>2, <1>5, <1>8 DEF Ours
  <2> QED
    BY <2>2, <2>3
<1>11. Alone'
  BY <1>10 DEF Alone
<1>12. Two'
  BY <1>2 DEF Two, Private
<1> QED
  BY <1>7, <1>11, <1>12

LEMMA OpenCreateStep ==
    ASSUME IInv, NEW t \in Thread, OpenCreate(t)
    PROVE  Others' /\ Alone' /\ Two'
<1> DEFINE k == PrivateChat(call[t].by, {call[t].peer})
<1> USE DEF IInv
<1>1. call[t] \in [op : {"create"}, by : User, peer : User] /\ call[t].by # call[t].peer
  BY CallKinds DEF OpenCreate, Others
<1>2. Store(k) /\ UNCHANGED history /\ call' = [call EXCEPT ![t] = None] /\ Creating(t)
  BY DEF OpenCreate, Free
<1>3. k.type = "private" /\ k.members = Pair(t)
  BY DEF PrivateChat, Pair
<1> HIDE DEF k
<1>4. \A o \in Thread : /\ Creating(o)' => Creating(o) /\ Pair(o)' = Pair(o) /\ o # t
                        /\ Finding(o)' => Finding(o)
                        /\ call'[o] # None => call'[o] = call[o]
  BY <1>2 DEF TypeOK, Creating, Finding, Pair
<1>5. Others'
  BY <1>4 DEF Others, Finding, Creating
<1>6. ASSUME NEW u \in User, NEW v \in User, u # v
      PROVE  Ours(u, v)' = IF Pair(t) = {u, v} THEN Ours(u, v) \union {created + 1} ELSE Ours(u, v)
  <2>1. Between(u, v)' = IF Pair(t) = {u, v} THEN Between(u, v) \union {created + 1}
                         ELSE Between(u, v)
    <3>1. u \in k.members /\ v \in k.members <=> Pair(t) = {u, v}
      BY <1>1, <1>3, <1>6 DEF Pair
    <3> QED
      BY <1>2, <1>3, <3>1, StoreIs DEF Between, Private
  <2> QED
    BY <2>1, <1>2, StoreIs DEF Ours, history
<1>7. ASSUME NEW u \in User, NEW v \in User, u # v, {u, v} \notin raced'
      PROVE  /\ \A c, d \in Ours(u, v)' : c = d
             /\ \A p \in Thread : Creating(p)' /\ Pair(p)' = {u, v} =>
                   /\ Ours(u, v)' = {}
                   /\ \A o \in Thread : Creating(o)' /\ Pair(o)' = {u, v} => o = p
  <2>1. {u, v} \notin raced
    BY <1>7, <1>2 DEF history
  <2>2. CASE Pair(t) # {u, v}
    <3>1. Ours(u, v)' = Ours(u, v)
      BY <2>2, <1>6, <1>7
    <3> QED
      BY <2>1, <3>1, <1>4, <1>7 DEF Alone
  <2>3. CASE Pair(t) = {u, v}
    <3>1. Ours(u, v) = {} /\ \A o \in Thread : Creating(o) /\ Pair(o) = {u, v} => o = t
      BY <2>1, <2>3, <1>2, <1>7 DEF Alone
    <3>2. Ours(u, v)' = {created + 1}
      BY <2>3, <3>1, <1>6, <1>7
    <3> QED
      BY <3>1, <3>2, <1>4
  <2> QED
    BY <2>2, <2>3
<1>8. Alone'
  BY <1>7 DEF Alone
<1>9. Two'
  <2>1. \A x, y, z \in k.members : x = y \/ y = z \/ x = z
    BY <1>3 DEF Pair
  <2> QED
    BY <2>1, <1>2, StoreIs DEF Two, Private, history
<1> QED
  BY <1>5, <1>8, <1>9

LEMMA AddCommitStep ==
    ASSUME IInv, NEW t \in Thread, AddCommit(t)
    PROVE  Others' /\ Alone' /\ Two'
<1> DEFINE c == call[t].chat
<1> USE DEF IInv
<1>1. call[t] \in [op : {"add"}, chat : 1..created, user : User, manager : BOOLEAN]
  BY CallKinds DEF AddCommit
<1>2. /\ created' = created /\ raced' = raced /\ call' = [call EXCEPT ![t] = None]
      /\ grown' = IF chat[c].type = "private" THEN grown \union {c} ELSE grown
  BY DEF AddCommit, Free
<1>0. 1..created \subseteq Id
  BY ChatsAssumption DEF ChatsAssumption, TypeOK, Id
<1>3. \A i \in 1..created : i # c => chat'[i] = chat[i]
  <2>1. \A i \in Id : i # c => chat'[i] = chat[i]
    BY DEF AddCommit, TypeOK
  <2> QED
    BY <1>0, <2>1
<1>4. chat'[c].type = chat[c].type
  <2>1. c \in 1..created /\ c \in Id
    BY <1>0, <1>1
  <2>2. chat[c] \in Chat
    BY <2>1 DEF TypeOK, Id
  <2> QED
    BY <2>1, <2>2 DEF AddCommit, TypeOK, Chat
<1> HIDE DEF c
<1>5. \A o \in Thread : /\ Creating(o)' => Creating(o) /\ Pair(o)' = Pair(o)
                        /\ Finding(o)' => Finding(o)
                        /\ call'[o] # None => call'[o] = call[o]
  BY <1>2 DEF TypeOK, Creating, Finding, Pair
<1>6. Others'
  BY <1>5 DEF Others, Finding, Creating
<1>7. \A u, v \in User : Ours(u, v)' \subseteq Ours(u, v)
  BY <1>2, <1>3, <1>4 DEF Ours, Between, Private
<1>8. Alone'
  <2> SUFFICES ASSUME NEW u \in User, NEW v \in User, u # v, {u, v} \notin raced
               PROVE  /\ \A a, d \in Ours(u, v)' : a = d
                      /\ \A p \in Thread : Creating(p)' /\ Pair(p)' = {u, v} =>
                            /\ Ours(u, v)' = {}
                            /\ \A o \in Thread : Creating(o)' /\ Pair(o)' = {u, v} => o = p
    BY <1>2 DEF Alone
  <2>1. Ours(u, v)' \subseteq Ours(u, v)
    BY <1>7
  <2> QED
    BY <2>1, <1>5 DEF Alone
<1>9. Two'
  BY <1>2, <1>3, <1>4 DEF Two, Private
<1> QED
  BY <1>6, <1>8, <1>9

\* The check looks at one member: with two of them, that is the other one.
LEMMA SendCheckStep ==
    ASSUME IInv, NEW u \in User, NEW c \in Id, SendCheck(u, c)
    PROVE  BlockIsRespected'
<1> DEFINE others == chat[c].members \ {u}
<1>1. sending' = [chat |-> c, barred |-> {v \in others : <<u, v>> \in blocked \/ <<v, u>> \in blocked}]
  BY DEF SendCheck
<1>2. grown' = grown /\ u \in chat[c].members /\ c \in Private
  BY DEF SendCheck, history
<1>3. CASE c \notin grown
  <2>1. \A v, w \in others : v = w
    BY <1>2, <1>3 DEF IInv, Two
  <2>2. \A v \in others : ~IsBlockedPair(u, v)
    <3>1. others # {} => \E peer \in others : ~IsBlockedPair(u, peer)
      BY DEF SendCheck
    <3> QED
      BY <2>1, <3>1
  <2> QED
    BY <1>1, <2>2 DEF BlockIsRespected, IsBlockedPair
<1>4. CASE c \in grown
  BY <1>1, <1>2, <1>4 DEF BlockIsRespected
<1> QED
  BY <1>3, <1>4

LEMMA SafeStep == IInv /\ [Next]_vars => IInv'
<1> SUFFICES ASSUME IInv, [Next]_vars PROVE IInv'
  OBVIOUS
<1> USE DEF IInv
<1>0. TypeOK'
  BY TypeStep
<1>1. ASSUME UNCHANGED <<sending, grown>> PROVE BlockIsRespected'
  BY <1>1 DEF BlockIsRespected
<1>2. ASSUME sending' = sending, grown \subseteq grown' PROVE BlockIsRespected'
  BY <1>2 DEF BlockIsRespected
<1>3. ASSUME NEW t \in Thread, NEW u \in User, NEW v \in User, OpenCheck(t, u, v) PROVE IInv'
  BY <1>0, <1>1, <1>3, OnlyCall DEF OpenCheck, database, history
<1>4. ASSUME NEW t \in Thread, NEW c \in Id, OpenFound(t, c) PROVE IInv'
  BY <1>0, <1>1, <1>4, OnlyCall DEF OpenFound, Free, database, history
<1>5. ASSUME NEW t \in Thread, OpenMissing(t) PROVE IInv'
  BY <1>0, <1>1, <1>5, OpenMissingStep DEF OpenMissing
<1>6. ASSUME NEW t \in Thread, OpenCreate(t) PROVE IInv'
  BY <1>0, <1>1, <1>6, OpenCreateStep DEF OpenCreate, history
<1>7. ASSUME NEW t \in Thread, NEW u \in User, SavedMissing(t, u) PROVE IInv'
  BY <1>0, <1>1, <1>7, OnlyCall DEF SavedMissing, database, history
<1>8. ASSUME NEW t \in Thread, SavedCreate(t) PROVE IInv'
  <2> DEFINE k == PrivateChat(call[t].by, {})
  <2>1. call[t].by \in User
    BY <1>8, SaveKind DEF SavedCreate
  <2>2. Store(k) /\ UNCHANGED <<history, sending>> /\ call' = [call EXCEPT ![t] = None]
    BY <1>8 DEF SavedCreate, Free
  <2>3. k \in Chat /\ k.members = {call[t].by}
    BY <2>1, PrivateChatOK DEF PrivateChat
  <2> HIDE DEF k
  <2>4. Others' /\ Alone' /\ Two'
    BY <2>1, <2>2, <2>3, StoreOther
  <2> QED
    BY <1>0, <1>1, <2>2, <2>4 DEF history
<1>9. ASSUME NEW u \in User, NEW others \in SUBSET User, CreateGroup(u, others) PROVE IInv'
  <2> DEFINE g == [type |-> "group", owner |-> u, members |-> {u} \union others, managers |-> {u}]
  <2>1. g \in Chat /\ g.type # "private" /\ Store(g) /\ UNCHANGED <<requests, history>>
    BY <1>9 DEF CreateGroup, Chat
  <2> HIDE DEF g
  <2>2. Others' /\ Alone' /\ Two'
    BY <2>1, StoreOther DEF requests
  <2> QED
    BY <1>0, <1>1, <2>1, <2>2 DEF history, requests
<1>10. ASSUME NEW t \in Thread, NEW u \in User, NEW c \in Id, NEW v \in User,
              NEW manager \in BOOLEAN, AddCheck(t, u, c, v, manager)
       PROVE  IInv'
  BY <1>0, <1>1, <1>10, OnlyCall DEF AddCheck, database, history
<1>11. ASSUME NEW t \in Thread, AddCommit(t) PROVE IInv'
  BY <1>0, <1>2, <1>11, AddCommitStep DEF AddCommit
<1>12. ASSUME NEW t \in Thread, AddFails(t) PROVE IInv'
  BY <1>0, <1>1, <1>12, OnlyCall DEF AddFails, Free, database, history
<1>13. ASSUME UNCHANGED <<created, chat, call, history>> PROVE Others' /\ Alone' /\ Two'
  BY <1>13 DEF Others, Alone, Two, Finding, Creating, Pair, Ours, Between, Private, history
<1>14. ASSUME NEW u \in User, NEW v \in User, Block(u, v) \/ Unblock(u, v) PROVE IInv'
  BY <1>0, <1>1, <1>13, <1>14 DEF Block, Unblock, requests, history
<1>15. ASSUME NEW u \in User, NEW c \in Id, SendCheck(u, c) PROVE IInv'
  BY <1>0, <1>13, <1>15, SendCheckStep DEF SendCheck, database
<1>16. CASE SendCommit
  BY <1>0, <1>13, <1>16 DEF SendCommit, database, BlockIsRespected
<1>17. CASE UNCHANGED vars
  BY <1>0, <1>1, <1>13, <1>17 DEF vars, database, requests, history
<1> QED
  BY <1>3, <1>4, <1>5, <1>6, <1>7, <1>8, <1>9, <1>10, <1>11, <1>12, <1>14, <1>15, <1>16, <1>17
  DEF Next

\* OnePrivateChat: however many requests open private chats at a time, two users
\* have one private chat unless two requests raced to create theirs.
THEOREM PrivateChatSafe == Spec => []OnePrivateChat
<1>1. IInv => OnePrivateChat
  BY DEF IInv, Alone, OnePrivateChat, Crowded, Ours
<1> QED
  BY <1>1, InitOK, SafeStep, PTL DEF Spec

\* BlockIsRespected: no message passes its check for a member whom a block
\* separates from its sender, unless the private chat has grown.
THEOREM BlockSafe == Spec => []BlockIsRespected
<1>1. IInv => BlockIsRespected
  BY DEF IInv
<1> QED
  BY <1>1, InitOK, SafeStep, PTL DEF Spec

-----------------------------------------------------------------------------
(* Media.                                                                  *)

Streaming == {r \in Request : at[r] = "streaming"}

\* A request that has not begun has no row and no answer; one under way has its
\* file and no row.
Underway ==
    /\ \A r \in Request : at[r] = "new" => r \notin rows /\ answer[r] = Nothing
    /\ Streaming \subseteq files \ rows

\* No two rows have one client_upload_id.
RowPerId == \A m, n \in rows : upload[m] = upload[n] /\ upload[m] # Nothing => m = n

\* An answer names the request's own row, or the row of its client_upload_id.
AnswerIsOwn ==
    \A r \in Request : answer[r] # Nothing =>
        answer[r] = r \/ (upload[answer[r]] = upload[r] /\ upload[r] # Nothing)

MediaInv == MediaTypeOK /\ Underway /\ FilesMatchRows /\ RowPerId /\ AnswerIsOwn

LEMMA MediaInitOK == MediaInit => MediaInv
BY DEF MediaInit, MediaInv, MediaTypeOK, Underway, Streaming, FilesMatchRows, RowPerId, AnswerIsOwn

LEMMA RepeatOK ==
    ASSUME MediaInv, NEW r \in Request, NEW u \in UploadId \union {Nothing}, Repeat(r, u)
    PROVE  MediaInv'
<1> USE DEF MediaInv
<1>1. PICK m \in rows : /\ answer' = [answer EXCEPT ![r] = m]
                        /\ upload[m] = u /\ u # Nothing
  BY DEF Repeat, Existing, Answers
<1>2. /\ at[r] = "new" /\ at' = [at EXCEPT ![r] = "done"]
      /\ upload' = [upload EXCEPT ![r] = u]
      /\ UNCHANGED <<files, thumbs, rows, thumbed, lost, left>>
  BY DEF Repeat, Answers, Ends, disk, table
<1>3. r \notin rows BY <1>2 DEF Underway
<1>4. MediaTypeOK' BY <1>1, <1>2 DEF MediaTypeOK
<1>5. Streaming' = Streaming BY <1>2 DEF MediaTypeOK, Streaming
<1>6. Underway' BY <1>1, <1>2, <1>5 DEF MediaTypeOK, Underway
<1>7. FilesMatchRows' BY <1>2, <1>5 DEF FilesMatchRows, Streaming
<1>8. \A n \in rows : upload'[n] = upload[n] BY <1>2, <1>3 DEF MediaTypeOK
<1>9. RowPerId' BY <1>2, <1>8 DEF RowPerId
<1>10. AnswerIsOwn' BY <1>1, <1>2, <1>3, <1>8 DEF AnswerIsOwn, MediaTypeOK
<1> QED BY <1>4, <1>6, <1>7, <1>9, <1>10

LEMMA OpenOK ==
    ASSUME MediaInv, NEW r \in Request, NEW u \in UploadId \union {Nothing}, Open(r, u)
    PROVE  MediaInv'
<1> USE DEF MediaInv
<1>1. /\ at[r] = "new" /\ at' = [at EXCEPT ![r] = "streaming"]
      /\ upload' = [upload EXCEPT ![r] = u] /\ files' = files \union {r}
      /\ UNCHANGED <<thumbs, rows, thumbed, answer, lost, left>>
  BY DEF Open, table
<1>2. r \notin rows /\ answer[r] = Nothing BY <1>1 DEF Underway
<1>3. MediaTypeOK' BY <1>1 DEF MediaTypeOK
<1>4. Streaming' = Streaming \union {r} BY <1>1 DEF MediaTypeOK, Streaming
<1>5. Underway' BY <1>1, <1>2, <1>4 DEF MediaTypeOK, Underway
<1>6. FilesMatchRows' BY <1>1, <1>4 DEF FilesMatchRows, Streaming
<1>7. \A n \in rows : upload'[n] = upload[n] BY <1>1, <1>2 DEF MediaTypeOK
<1>8. RowPerId' BY <1>1, <1>7 DEF RowPerId
<1>9. AnswerIsOwn' BY <1>1, <1>2, <1>7 DEF AnswerIsOwn, MediaTypeOK
<1> QED BY <1>3, <1>5, <1>6, <1>8, <1>9

LEMMA CommitOK ==
    ASSUME MediaInv, NEW r \in Request, NEW thumb \in SUBSET {r}, Commit(r, thumb)
    PROVE  MediaInv'
<1> USE DEF MediaInv
<1>1. /\ at[r] = "streaming" /\ at' = [at EXCEPT ![r] = "done"]
      /\ answer' = [answer EXCEPT ![r] = r]
      /\ rows' = rows \union {r}
      /\ thumbs' = thumbs \union thumb /\ thumbed' = thumbed \union thumb
      /\ UNCHANGED <<files, upload, lost, left>>
  BY DEF Commit, Answers, Ends
<1>2. \A m \in rows : upload[r] # Nothing => upload[m] # upload[r]
  BY DEF Commit, Existing
<1>3. MediaTypeOK' BY <1>1 DEF MediaTypeOK
<1>4. Streaming' = Streaming \ {r} /\ r \in files
  BY <1>1 DEF MediaTypeOK, Streaming, Underway
<1>5. Underway' BY <1>1, <1>4 DEF MediaTypeOK, Underway
<1>6. FilesMatchRows' BY <1>1, <1>4 DEF FilesMatchRows, Streaming
<1>7. RowPerId' BY <1>1, <1>2 DEF RowPerId
<1>8. AnswerIsOwn' BY <1>1 DEF AnswerIsOwn, MediaTypeOK
<1> QED BY <1>3, <1>5, <1>6, <1>7, <1>8

LEMMA ConflictOK ==
    ASSUME MediaInv, NEW r \in Request, Conflict(r)
    PROVE  MediaInv'
<1> USE DEF MediaInv
<1>1. PICK m \in rows : /\ answer' = [answer EXCEPT ![r] = m]
                        /\ upload[m] = upload[r] /\ upload[r] # Nothing
  BY DEF Conflict, Existing, Answers
<1>2. /\ at[r] = "streaming" /\ at' = [at EXCEPT ![r] = "done"]
      /\ files' = files \ {r}
      /\ UNCHANGED <<thumbs, rows, thumbed, upload, lost, left>>
  BY DEF Conflict, Answers, Ends, table
<1>3. MediaTypeOK' BY <1>1, <1>2 DEF MediaTypeOK
<1>4. Streaming' = Streaming \ {r} /\ r \notin rows
  BY <1>2 DEF MediaTypeOK, Streaming, Underway
<1>5. Underway' BY <1>1, <1>2, <1>4 DEF MediaTypeOK, Underway
<1>6. FilesMatchRows' BY <1>2, <1>4 DEF FilesMatchRows, Streaming
<1>7. RowPerId' BY <1>2 DEF RowPerId
<1>8. AnswerIsOwn' BY <1>1, <1>2 DEF AnswerIsOwn, MediaTypeOK
<1> QED BY <1>3, <1>5, <1>6, <1>7, <1>8

\* Requests that end without a row, and what is lost, change no answer.
LEMMA NoRowOK ==
    ASSUME MediaInv, UNCHANGED <<rows, thumbed, upload, answer>>,
           MediaTypeOK', Streaming' \subseteq Streaming \intersect files',
           \A r \in Request : at'[r] = "new" => at[r] = "new",
           FilesMatchRows'
    PROVE  MediaInv'
<1>1. Underway' BY DEF MediaInv, Underway
<1>2. RowPerId' /\ AnswerIsOwn' BY DEF MediaInv, RowPerId, AnswerIsOwn
<1> QED BY <1>1, <1>2 DEF MediaInv

LEMMA MediaStep == MediaInv /\ [MediaNext]_mediaVars => MediaInv'
<1> SUFFICES ASSUME MediaInv, [MediaNext]_mediaVars PROVE MediaInv' OBVIOUS
<1>1. MediaTypeOK /\ Streaming \subseteq files \ rows /\ FilesMatchRows
  BY DEF MediaInv, Underway
<1>2. ASSUME NEW r \in Request, Refuse(r) PROVE MediaInv'
  <2>1. /\ at[r] = "streaming" /\ at' = [at EXCEPT ![r] = "done"] /\ files' = files \ {r}
        /\ UNCHANGED <<thumbs, rows, thumbed, upload, answer, lost, left>>
    BY <1>2 DEF Refuse, Ends, table
  <2>2. Streaming' = Streaming \ {r} /\ r \notin rows
    BY <1>1, <2>1 DEF MediaTypeOK, Streaming
  <2>3. MediaTypeOK' BY <1>1, <2>1 DEF MediaTypeOK
  <2>4. FilesMatchRows' BY <1>1, <2>1, <2>2 DEF FilesMatchRows, Streaming
  <2> QED BY <1>1, <2>1, <2>2, <2>3, <2>4, NoRowOK DEF MediaTypeOK
<1>3. ASSUME NEW r \in Request, NEW thumb \in SUBSET {r}, Raises(r, thumb) PROVE MediaInv'
  <2>1. /\ at[r] = "streaming" /\ at' = [at EXCEPT ![r] = "done"]
        /\ thumbs' = thumbs \union thumb /\ left' = left \union {r}
        /\ UNCHANGED <<files, rows, thumbed, upload, answer, lost>>
    BY <1>3 DEF Raises, Ends, table
  <2>2. Streaming' = Streaming \ {r} BY <1>1, <2>1 DEF MediaTypeOK, Streaming
  <2>3. MediaTypeOK' BY <1>1, <2>1 DEF MediaTypeOK
  <2>4. FilesMatchRows' BY <1>1, <2>1, <2>2 DEF FilesMatchRows, Streaming
  <2> QED BY <1>1, <2>1, <2>2, <2>3, <2>4, NoRowOK DEF MediaTypeOK
<1>4. CASE Crash
  <2>1. /\ left' = left \union Streaming
        /\ at' = [r \in Request |-> IF at[r] = "streaming" THEN "done" ELSE at[r]]
        /\ UNCHANGED <<files, thumbs, rows, thumbed, upload, answer, lost>>
    BY <1>4 DEF Crash, Streaming, disk, table
  <2>2. Streaming' = {} BY <2>1 DEF Streaming
  <2>3. MediaTypeOK' BY <1>1, <2>1 DEF MediaTypeOK, Streaming
  <2>4. FilesMatchRows' BY <1>1, <2>1, <2>2 DEF FilesMatchRows, Streaming
  <2> QED BY <2>1, <2>2, <2>3, <2>4, NoRowOK
<1>5. ASSUME NEW m \in Request, Lose(m) PROVE MediaInv'
  <2>1. /\ m \in rows /\ lost' = lost \union {m}
        /\ files \ {m} \subseteq files' /\ files' \subseteq files
        /\ thumbs \ {m} \subseteq thumbs' /\ thumbs' \subseteq thumbs
        /\ UNCHANGED <<rows, thumbed, at, upload, answer, left>>
    BY <1>5 DEF Lose, table
  <2>2. Streaming' = Streaming /\ m \notin Streaming BY <1>1, <2>1 DEF Streaming
  <2>3. MediaTypeOK' BY <1>1, <2>1 DEF MediaTypeOK
  <2>4. FilesMatchRows' BY <1>1, <2>1, <2>2 DEF FilesMatchRows, Streaming
  <2> QED BY <1>1, <2>1, <2>2, <2>3, <2>4, NoRowOK
<1>6. CASE UNCHANGED mediaVars
  BY <1>6 DEF mediaVars, disk, table, MediaInv, MediaTypeOK, Underway, Streaming, FilesMatchRows,
     RowPerId, AnswerIsOwn
<1> QED BY <1>2, <1>3, <1>4, <1>5, <1>6, RepeatOK, OpenOK, CommitOK, ConflictOK DEF MediaNext

LEMMA MediaInvariant == MediaSpec => []MediaInv
<1> QED BY MediaInitOK, MediaStep, PTL DEF MediaSpec

\* Type correctness; in particular an answer names a row that is there.
THEOREM MediaTypeCorrect == MediaSpec => []MediaTypeOK
<1>1. MediaInv => MediaTypeOK BY DEF MediaInv
<1> QED BY <1>1, MediaInvariant, PTL

\* Disk and rows agree whatever uploads overlap, fail or are torn off.
THEOREM FilesSafe == MediaSpec => []FilesMatchRows
<1>1. MediaInv => FilesMatchRows BY DEF MediaInv
<1> QED BY <1>1, MediaInvariant, PTL

\* Repeated uploads of one client_upload_id are answered with one row.
THEOREM UploadsSafe == MediaSpec => []OneUploadPerId
<1>1. MediaInv => OneUploadPerId
  <2> SUFFICES ASSUME MediaInv, NEW r \in Request, NEW q \in Request,
                      answer[r] # Nothing, answer[q] # Nothing,
                      upload[r] = upload[q], upload[r] # Nothing
               PROVE  answer[r] = answer[q]
    BY DEF OneUploadPerId
  <2>1. answer[r] \in rows /\ answer[q] \in rows BY DEF MediaInv, MediaTypeOK
  <2>2. upload[answer[r]] = upload[r] /\ upload[answer[q]] = upload[q]
    BY DEF MediaInv, AnswerIsOwn
  <2> QED BY <2>1, <2>2 DEF MediaInv, RowPerId
<1> QED BY <1>1, MediaInvariant, PTL
=============================================================================

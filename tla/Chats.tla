------------------------------- MODULE Chats -------------------------------
(***************************************************************************)
(* Chats and who belongs to them: private chats and "Saved Messages",      *)
(* which are looked up and created when there are none, groups, added      *)
(* members, blocks, and what they mean for a message to a private chat.    *)
(*                                                                         *)
(* All requests but the sending of a message run in worker threads; each   *)
(* query and each commit is a step.  Blocking and unblocking change one    *)
(* row and are single steps.  Nothing removes a chat or a member.          *)
(***************************************************************************)
EXTENDS Naturals, FiniteSets

CONSTANTS
    User,
    Thread,     \* bound: requests at a time
    MaxChats,   \* bound: chats created
    None        \* no chat or request

ASSUME ChatsAssumption == MaxChats \in Nat

VARIABLES
    created,    \* chats so far; their ids are 1..created
    chat,       \* chats and chat_members
    blocked,    \* blocked_users: pairs of who blocks and who is blocked
    call,       \* the request of each worker thread
    sending,    \* create_message between its check and its commit
    raced,      \* history: pairs for which two requests created a chat at once
    grown       \* history: private chats to which a member was added

database == <<created, chat, blocked>>
requests == <<call, sending>>
history == <<raced, grown>>
vars == <<database, requests, history>>

Id == 1..MaxChats

Chat == [type : {"private", "group"}, owner : User, members : SUBSET User, managers : SUBSET User]

\* A /private request that checked, one that found no chat, a /saved request
\* that found none, an add_member request that passed its checks.
Call ==
    [op : {"find", "create"}, by : User, peer : User]
    \union [op : {"save"}, by : User]
    \union [op : {"add"}, chat : 1..created, user : User, manager : BOOLEAN]

Sending == [chat : Id, barred : SUBSET User]

TypeOK ==
    /\ created \in 0..MaxChats
    /\ chat \in [Id -> Chat \union {None}]
    /\ \A c \in Id : IF c > created THEN chat[c] = None
                     ELSE /\ chat[c] \in Chat
                          /\ chat[c].owner \in chat[c].managers
                          /\ chat[c].managers \subseteq chat[c].members
    /\ blocked \subseteq User \X User
    /\ call \in [Thread -> Call \union {None}]
    /\ sending \in Sending \union {None}
    /\ raced \subseteq SUBSET User
    /\ grown \subseteq 1..created

Init ==
    /\ created = 0 /\ chat = [c \in Id |-> None] /\ blocked = {}
    /\ call = [t \in Thread |-> None] /\ sending = None
    /\ raced = {} /\ grown = {}

-----------------------------------------------------------------------------
(* Queries.                                                                *)

Private == {c \in 1..created : chat[c].type = "private"}

\* _find_private_chat_between: without an order, any of these may be returned.
Between(u, v) == {c \in Private : {u, v} \subseteq chat[c].members}

\* _find_saved_messages_chat: the count is over the rows that the condition
\* leaves, which are the user's own.
SavedOf(u) == {c \in Private : chat[c].owner = u /\ u \in chat[c].members}

\* Mutant of IsBlockedPair: only one direction is looked up.
IsBlockedOneWay(u, v) == u # v /\ <<u, v>> \in blocked

IsBlockedPair(u, v) == u # v /\ (<<u, v>> \in blocked \/ <<v, u>> \in blocked)

Store(c) ==
    /\ created < MaxChats
    /\ created' = created + 1
    /\ chat' = [chat EXCEPT ![created + 1] = c]

PrivateChat(u, others) ==
    [type |-> "private", owner |-> u, members |-> {u} \union others, managers |-> {u}]

Free(t) == call' = [call EXCEPT ![t] = None]

-----------------------------------------------------------------------------
(* POST /chats/private and POST /chats with the type "private".            *)

\* ensure_private_messaging_allowed.
OpenCheck(t, u, v) ==
    /\ call[t] = None /\ u # v /\ ~IsBlockedPair(u, v)
    /\ call' = [call EXCEPT ![t] = [op |-> "find", by |-> u, peer |-> v]]
    /\ UNCHANGED <<database, sending, history>>

Finding(t) == IF call[t] = None THEN FALSE ELSE call[t].op = "find"

Creating(t) == IF call[t] = None THEN FALSE ELSE call[t].op = "create"

\* There is a chat: it is the answer.
OpenFound(t, c) ==
    /\ Finding(t) /\ c \in Between(call[t].by, call[t].peer)
    /\ Free(t)
    /\ UNCHANGED <<database, sending, history>>

\* Mutant of OpenMissing: a chat counts only for the user who created it.
OpenMissingOwned(t) ==
    /\ Finding(t)
    /\ \A c \in Between(call[t].by, call[t].peer) : chat[c].owner # call[t].by
    /\ call' = [call EXCEPT ![t].op = "create"]
    /\ LET pair == {call[t].by, call[t].peer} IN
       raced' = IF \E o \in Thread : Creating(o) /\ {call[o].by, call[o].peer} = pair
                THEN raced \union {pair} ELSE raced
    /\ UNCHANGED <<database, sending, grown>>

\* There is none: it is to be created, perhaps by several requests at once.
OpenMissing(t) ==
    /\ Finding(t) /\ Between(call[t].by, call[t].peer) = {}
    /\ call' = [call EXCEPT ![t].op = "create"]
    /\ LET pair == {call[t].by, call[t].peer} IN
       raced' = IF \E o \in Thread : Creating(o) /\ {call[o].by, call[o].peer} = pair
                THEN raced \union {pair} ELSE raced
    /\ UNCHANGED <<database, sending, grown>>

OpenCreate(t) ==
    /\ Creating(t)
    /\ Store(PrivateChat(call[t].by, {call[t].peer}))
    /\ Free(t)
    /\ UNCHANGED <<blocked, sending, history>>

-----------------------------------------------------------------------------
(* GET /chats/saved: if there is a chat, it is the answer and nothing      *)
(* changes.                                                                *)

SavedMissing(t, u) ==
    /\ call[t] = None /\ SavedOf(u) = {}
    /\ call' = [call EXCEPT ![t] = [op |-> "save", by |-> u]]
    /\ UNCHANGED <<database, sending, history>>

SavedCreate(t) ==
    /\ IF call[t] = None THEN FALSE ELSE call[t].op = "save"
    /\ Store(PrivateChat(call[t].by, {}))
    /\ Free(t)
    /\ UNCHANGED <<blocked, sending, history>>

-----------------------------------------------------------------------------
(* Groups, members and blocks.                                             *)

\* Mutant of CreateGroup: only the members of the request join.
CreateGroupOthers(u, others) ==
    /\ Store([type |-> "group", owner |-> u, members |-> others, managers |-> {u}])
    /\ UNCHANGED <<blocked, requests, history>>

\* create_chat of another type than "private".
CreateGroup(u, others) ==
    /\ Store([type |-> "group", owner |-> u, members |-> {u} \union others, managers |-> {u}])
    /\ UNCHANGED <<blocked, requests, history>>

\* add_member up to its insert: the role may be any, the type of the chat too.
AddCheck(t, u, c, v, manager) ==
    /\ call[t] = None /\ c \in 1..created
    /\ u \in chat[c].managers /\ v \notin chat[c].members
    /\ call' = [call EXCEPT ![t] = [op |-> "add", chat |-> c, user |-> v, manager |-> manager]]
    /\ UNCHANGED <<database, sending, history>>

Adding(t) == IF call[t] = None THEN FALSE ELSE call[t].op = "add"

AddCommit(t) ==
    /\ Adding(t)
    /\ LET c == call[t].chat
           v == call[t].user IN
       /\ v \notin chat[c].members
       /\ chat' = [chat EXCEPT ![c] = [chat[c] EXCEPT
             !.members = chat[c].members \union {v},
             !.managers = chat[c].managers \union (IF call[t].manager THEN {v} ELSE {})]]
       /\ grown' = IF chat[c].type = "private" THEN grown \union {c} ELSE grown
    /\ Free(t)
    /\ UNCHANGED <<created, blocked, sending, raced>>

\* Another request added the user: uq_chat_member.
AddFails(t) ==
    /\ Adding(t) /\ call[t].user \in chat[call[t].chat].members
    /\ Free(t)
    /\ UNCHANGED <<database, sending, history>>

Block(u, v) ==
    /\ u # v
    /\ blocked' = blocked \union {<<u, v>>}
    /\ UNCHANGED <<created, chat, requests, history>>

Unblock(u, v) ==
    /\ <<u, v>> \in blocked
    /\ blocked' = blocked \ {<<u, v>>}
    /\ UNCHANGED <<created, chat, requests, history>>

-----------------------------------------------------------------------------
(* Sending to a private chat, on the event loop.                           *)

\* _private_chat_peer_id takes one of the other members, and the message is
\* refused if the two have a block.
SendCheck(u, c) ==
    /\ sending = None /\ c \in Private /\ u \in chat[c].members
    /\ LET others == chat[c].members \ {u} IN
       /\ others # {} => \E peer \in others : ~IsBlockedPair(u, peer)
       /\ sending' = [chat |-> c,
                      barred |-> {v \in others : <<u, v>> \in blocked \/ <<v, u>> \in blocked}]
    /\ UNCHANGED <<database, call, history>>

\* The message is stored for every member.
SendCommit ==
    /\ sending # None /\ sending' = None
    /\ UNCHANGED <<database, call, history>>

Next ==
    \/ \E t \in Thread :
       \/ OpenMissing(t) \/ OpenCreate(t) \/ SavedCreate(t) \/ AddCommit(t) \/ AddFails(t)
       \/ \E c \in Id : OpenFound(t, c)
       \/ \E u \in User :
          \/ SavedMissing(t, u)
          \/ \E v \in User :
             \/ OpenCheck(t, u, v)
             \/ \E c \in Id, manager \in BOOLEAN : AddCheck(t, u, c, v, manager)
    \/ \E u \in User :
       \/ \E c \in Id : SendCheck(u, c)
       \/ \E others \in SUBSET User : CreateGroup(u, others)
       \/ \E v \in User : Block(u, v) \/ Unblock(u, v)
    \/ SendCommit

Spec == Init /\ [][Next]_vars

-----------------------------------------------------------------------------
(* Properties.                                                             *)

\* A private chat that two users share without being its only members.
Crowded(u, v) == Between(u, v) \intersect grown # {}

\* Whoever of the two opens their private chat, and however often, there is
\* only one that POST /chats/private can answer with, unless two requests
\* created it at once or somebody added one of them to another private chat.
OnePrivateChat ==
    \A u, v \in User : u # v =>
        \/ \A c, d \in Between(u, v) : c = d
        \/ {u, v} \in raced
        \/ Crowded(u, v)

\* A message that has passed its check is not stored for a user whom the sender
\* had blocked, or who had blocked the sender, by then, unless a third member
\* was added to the private chat: the check looks at one of the members only.
BlockIsRespected == sending # None => sending.barred = {} \/ sending.chat \in grown

\* "Personal cloud chat" (chat_service.py:155): the chat that /saved answers
\* with has no member but its user, unless one was added.
SavedIsOwn ==
    \A u \in User : \A c \in SavedOf(u) : c \in grown \/ chat[c].members = {u}
=============================================================================

------------------------------ MODULE Presence ------------------------------
(***************************************************************************)
(* One entry of one of the two managers, and what chats are told: the set  *)
(* of one user in user_realtime_manager, for /me/ws, which announces him   *)
(* in all his chats; or the dict of one chat in chat_manager, which holds  *)
(* the sockets of all its members and announces each of them in that chat. *)
(* Everything runs on the event loop and steps end at its awaits.          *)
(*                                                                         *)
(* The set or dict is an object: a manager drops an empty one and makes a  *)
(* new one later, while others may still hold the old one.  It is named    *)
(* after the connection that made it.  What a broadcast does at sockets of *)
(* the other manager, or of another entry, is external to this module: an  *)
(* await that may fail.  Names that RealtimeReplay has too carry a prefix, *)
(* since RealtimeProofs is about both modules.                             *)
(***************************************************************************)
EXTENDS Naturals, FiniteSets

CONSTANTS
    Socket,    \* connections; one that is closed does not come back
    Member,    \* the users who connect
    Request,   \* other handlers that broadcast: HTTP requests, the dispatch loop
    Chat,      \* the chats of the user, or the one of chat_manager
    None       \* no set, task or chat

VARIABLES
    kind,      \* the chat of chat_manager, or None: user_realtime_manager
    owner,     \* the user of each connection
    table,     \* the set the manager has for the user or chat
    sockets,   \* the sockets in each set
    place,     \* where the handler of each connection is
    holds,     \* the set it has looked up, until it inserts itself
    first,     \* it was its user's first one, until that is announced
    up,        \* its client is there
    task,      \* the broadcast of each handler
    last,      \* realtime_events: each member's last presence event in each chat
    early,     \* history: handlers that failed before their receive loop
    astray,    \* history: members of whom an announcement was skipped, or
               \* began before another had ended, or whose last socket, or
               \* one not announced yet, a cleanup removed, or whose others
               \* all left while the next one was in accept()
    dropped    \* history: connections whose set was dropped during accept()

registry == <<table, sockets>>
handlers == <<place, holds, first, up>>
marks == <<early, astray, dropped>>
presenceVars == <<kind, owner, registry, handlers, task, last, marks>>

Handler == Socket \union Request

\* A broadcast: its event, the chats still to come, and for the present one the
\* loop over the user's set: the set, its sockets when the loop began, those it
\* has visited and those that failed.
Task == [event : {"online", "offline", "other"}, todo : SUBSET Chat,
         at : {"others", "loop", "next"}, set : Socket \union {None},
         begun : SUBSET Socket, done : SUBSET Socket, dead : SUBSET Socket]

ASSUME PresenceAssumption == None \notin Socket \union Chat /\ None \notin Task

PresenceTypeOK ==
    /\ kind \in Chat \union {None} /\ owner \in [Socket -> Member]
    /\ table \in Socket \union {None} /\ sockets \in [Socket -> SUBSET Socket]
    /\ kind = None /\ table # None => sockets[table] # {}
    /\ place \in [Socket -> {"new", "accepting", "greeting", "announcing", "open", "leaving", "closed"}]
    /\ holds \in [Socket -> Socket \union {None}]
    /\ first \in [Socket -> BOOLEAN] /\ up \in [Socket -> BOOLEAN]
    /\ task \in [Handler -> Task \union {None}]
    /\ last \in [Member -> [Chat -> {"online", "offline"}]]
    /\ early \subseteq Socket /\ astray \subseteq Member /\ dropped \subseteq Socket

PresenceInit ==
    /\ kind \in Chat \union {None} /\ owner \in [Socket -> Member]
    /\ kind = None => \E u \in Member : \A s \in Socket : owner[s] = u
    /\ table = None /\ sockets = [s \in Socket |-> {}]
    /\ place = [s \in Socket |-> "new"] /\ holds = [s \in Socket |-> None]
    /\ first = [s \in Socket |-> FALSE] /\ up = [s \in Socket |-> TRUE]
    /\ task = [x \in Handler |-> None]
    /\ last = [u \in Member |-> [c \in Chat |-> "offline"]]
    /\ early = {} /\ astray = {} /\ dropped = {}

-----------------------------------------------------------------------------
(* The managers.                                                           *)

Registered == IF table = None THEN {} ELSE sockets[table]

\* The connections of a member among them.
Here(u) == {s \in Registered : owner[s] = u}

\* Mutant of Remove: an empty set stays in the table.
RemoveOnly(gone) ==
    /\ sockets' = IF table = None THEN sockets ELSE [sockets EXCEPT ![table] = @ \ gone]
    /\ UNCHANGED <<table, dropped>>

\* disconnect of each of these sockets: a set that got empty is dropped, and
\* with it what connections in accept() hold.
Remove(gone) ==
    /\ sockets' = IF table = None THEN sockets ELSE [sockets EXCEPT ![table] = @ \ gone]
    /\ IF Registered # {} /\ Registered \subseteq gone
       THEN /\ table' = None
            /\ dropped' = dropped \union
                  {s \in Socket : place[s] = "accepting" /\ holds[s] = table}
       ELSE UNCHANGED <<table, dropped>>

\* The set of the user or chat, made if there is none, and whether the user has
\* no other connection in it.
LookUp(s) ==
    LET set == IF table = None THEN s ELSE table IN
    /\ table' = set
    /\ first' = [first EXCEPT ![s] = \A t \in sockets[set] : owner[t] # owner[s]]

-----------------------------------------------------------------------------
(* Broadcasts.                                                             *)

Presence(x) == IF task[x] = None THEN FALSE ELSE task[x].event # "other"

\* The chats the manager's events are for.
Told == IF kind = None THEN Chat ELSE {kind}

\* The broadcast of an event to these chats and then to those still to come.
Started(event, todo) == [event |-> event, todo |-> todo, at |-> "others", set |-> None,
                         begun |-> {}, done |-> {}, dead |-> {}]

\* _broadcast_user_presence, or the one event of a chat socket: the event is
\* stored for the first chat before anything is awaited.
Announce(x, event, c) ==
    /\ task' = [task EXCEPT ![x] = Started(event, Told \ {c})]
    /\ last' = [last EXCEPT ![owner[x]] = [last[owner[x]] EXCEPT ![c] = event]]
    /\ astray' = astray \union
          IF \E y \in Socket \ {x} : owner[y] = owner[x] /\ Presence(y) /\ task[y].todo # {}
          THEN {owner[x]} ELSE {}

\* Another event: a message, a status, typing.
Broadcast(x) ==
    /\ task[x] = None /\ (x \in Socket => place[x] = "open")
    /\ task' = [task EXCEPT ![x] = Started("other", {})]
    /\ UNCHANGED <<kind, owner, registry, handlers, last, marks>>

Stage(x, at) == IF task[x] = None THEN FALSE ELSE task[x].at = at

\* The loop over the set begins; a chat socket is not told that it is online.
LoopBegins(x) ==
    /\ Stage(x, "others")
    /\ task' = [task EXCEPT ![x] =
          [@ EXCEPT !.at = "loop", !.set = table, !.begun = Registered,
                    !.done = IF kind # None /\ task[x].event = "online" THEN {x} ELSE {}]]
    /\ UNCHANGED <<kind, owner, registry, handlers, last, marks>>

InSet(x) == IF task[x].set = None THEN {} ELSE sockets[task[x].set]

\* The iterator of a set or dict raises when its size has changed, and that of a
\* dict may when the keys have.
Intact(x) == Cardinality(InSet(x)) = Cardinality(task[x].begun)
MayRaise(x) == ~Intact(x) \/ (kind # None /\ InSet(x) # task[x].begun)

\* The send to one socket, which may fail if its client is gone.
Send(x, s, fails) ==
    /\ Stage(x, "loop") /\ Intact(x)
    /\ s \in InSet(x) \ task[x].done /\ (fails => ~up[s])
    /\ task' = [task EXCEPT ![x] =
          [@ EXCEPT !.done = task[x].done \union {s},
                    !.dead = task[x].dead \union (IF fails THEN {s} ELSE {})]]
    /\ UNCHANGED <<kind, owner, registry, handlers, last, marks>>

\* One that came during the loop may be visited or not.
Visited(x) == InSet(x) \intersect task[x].begun \subseteq task[x].done

\* Members who lose their last connection if these go, and those with one that
\* is not announced yet.
Silenced(gone) ==
    {u \in Member : \/ Here(u) # {} /\ Here(u) \subseteq gone
                    \/ \E s \in gone : owner[s] = u /\ place[s] \in {"greeting", "announcing"}}

\* The cleanup after the loop, which tells nobody.
CleansUp(x, gone) ==
    /\ Stage(x, "loop") /\ Intact(x) /\ Visited(x)
    /\ Remove(gone)
    /\ astray' = astray \union Silenced(gone)
    /\ task' = [task EXCEPT ![x].at = "next"]
    /\ UNCHANGED <<kind, owner, handlers, last, early>>

\* Mutant of LoopEnds: a failed socket takes all others with it.
LoopEndsAll(x) == CleansUp(x, IF task[x].dead = {} THEN {} ELSE Socket)

LoopEnds(x) == CleansUp(x, task[x].dead)

\* The event of the next chat is stored and sent.
NextChat(x, c) ==
    /\ Stage(x, "next") /\ c \in task[x].todo
    /\ task' = [task EXCEPT ![x] =
          [@ EXCEPT !.at = "others", !.todo = task[x].todo \ {c}, !.dead = {}]]
    /\ last' = [last EXCEPT ![owner[x]] = [last[owner[x]] EXCEPT ![c] = task[x].event]]
    /\ UNCHANGED <<kind, owner, registry, handlers, marks>>

\* After the last chat a handler goes on: to its receive loop, or to its end.
Ends(x) ==
    /\ Stage(x, "next") /\ task[x].todo = {}
    /\ task' = [task EXCEPT ![x] = None]
    /\ place' = IF x \notin Socket THEN place
                ELSE [place EXCEPT ![x] = CASE @ = "announcing" -> "open"
                                            [] @ = "leaving" -> "closed"
                                            [] OTHER -> @]
    /\ UNCHANGED <<kind, owner, registry, holds, first, up, last, marks>>

-----------------------------------------------------------------------------
(* me_socket and chat_socket.                                              *)

\* It is the only one of its user.
Last(s) == Here(owner[s]) = {s}

\* Mutant of Leave: the offline event waits until the dict is empty.
LeaveEmpty(s, c) ==
    /\ Remove({s})
    /\ IF Registered = {s}
       THEN place' = [place EXCEPT ![s] = "leaving"] /\ Announce(s, "offline", c)
       ELSE /\ place' = [place EXCEPT ![s] = "closed"]
            /\ task' = [task EXCEPT ![s] = None]
            /\ UNCHANGED <<last, astray>>
    /\ up' = [up EXCEPT ![s] = FALSE]

\* Mutant of Leave: only the last connection is taken out.
LeaveLast(s, c) ==
    /\ IF Last(s)
       THEN place' = [place EXCEPT ![s] = "leaving"] /\ Announce(s, "offline", c) /\ Remove({s})
       ELSE /\ place' = [place EXCEPT ![s] = "closed"]
            /\ task' = [task EXCEPT ![s] = None]
            /\ UNCHANGED <<registry, dropped, last, astray>>
    /\ up' = [up EXCEPT ![s] = FALSE]

\* The end of the receive loop: disconnect, and its user's last one is announced.
\* One that a cleanup took out is not in the set, and announces nothing.
Leave(s, c) ==
    /\ Remove({s})
    /\ IF Last(s)
       THEN place' = [place EXCEPT ![s] = "leaving"] /\ Announce(s, "offline", c)
       ELSE /\ place' = [place EXCEPT ![s] = "closed"]
            /\ task' = [task EXCEPT ![s] = None]
            /\ UNCHANGED <<last, astray>>
    /\ up' = [up EXCEPT ![s] = FALSE]

\* me_socket accepts before, and looks up and inserts in one step.
Connect(s) ==
    /\ kind = None /\ place[s] = "new"
    /\ LookUp(s)
    /\ sockets' = [sockets EXCEPT ![table'] = @ \union {s}]
    /\ place' = [place EXCEPT ![s] = "greeting"]
    /\ UNCHANGED <<kind, owner, holds, up, task, last, marks>>

\* chat_socket looks up, awaits accept() and inserts after that.
ConnectChat(s) ==
    /\ kind # None /\ place[s] = "new"
    /\ LookUp(s)
    /\ holds' = [holds EXCEPT ![s] = table']
    /\ place' = [place EXCEPT ![s] = "accepting"]
    /\ UNCHANGED <<kind, owner, sockets, up, task, last, marks>>

\* Whether it was the first one was found before accept().
Accepted(s) ==
    /\ place[s] = "accepting"
    /\ sockets' = [sockets EXCEPT ![holds[s]] = @ \union {s}]
    /\ holds' = [holds EXCEPT ![s] = None]
    /\ place' = [place EXCEPT ![s] = "greeting"]
    /\ astray' = astray \union
          IF ~first[s] /\ \A t \in sockets[holds[s]] : owner[t] # owner[s]
          THEN {owner[s]} ELSE {}
    /\ UNCHANGED <<kind, owner, table, first, up, task, last, early, dropped>>

AcceptFails(s) ==
    /\ place[s] = "accepting" /\ ~up[s]
    /\ place' = [place EXCEPT ![s] = "closed"]
    /\ holds' = [holds EXCEPT ![s] = None] /\ first' = [first EXCEPT ![s] = FALSE]
    /\ UNCHANGED <<kind, owner, registry, up, task, last, marks>>

\* "ready" and the backlog are sent, and the first connection is announced.
Greeted(s, c) ==
    /\ place[s] = "greeting"
    /\ IF first[s]
       THEN place' = [place EXCEPT ![s] = "announcing"] /\ Announce(s, "online", c)
       ELSE place' = [place EXCEPT ![s] = "open"] /\ UNCHANGED <<task, last, astray>>
    /\ first' = [first EXCEPT ![s] = FALSE]
    /\ UNCHANGED <<kind, owner, registry, holds, up, early, dropped>>

\* The sends are outside of the try: the handler fails and nobody disconnects.
GreetFails(s) ==
    /\ place[s] = "greeting" /\ ~up[s]
    /\ place' = [place EXCEPT ![s] = "closed"]
    /\ first' = [first EXCEPT ![s] = FALSE]
    /\ early' = early \union {s} /\ astray' = astray \union {owner[s]}
    /\ UNCHANGED <<kind, owner, registry, holds, up, task, last, dropped>>

\* The client goes away, and the handler notices when it receives.
Vanish(s) ==
    /\ place[s] \notin {"new", "closed"} /\ up[s]
    /\ up' = [up EXCEPT ![s] = FALSE]
    /\ UNCHANGED <<kind, owner, registry, place, holds, first, task, last, marks>>

Closes(s, c) ==
    /\ place[s] = "open" /\ task[s] = None /\ ~up[s]
    /\ Leave(s, c)
    /\ UNCHANGED <<kind, owner, holds, first, early>>

\* A broadcast raises: the set has changed under the loop, here or at another
\* user.  Inside of the receive loop that ends the loop; before it, the handler
\* fails like in GreetFails; after it, and in a request, the rest is lost.
Raises(x, c) ==
    /\ task[x] # None /\ (Stage(x, "loop") => MayRaise(x))
    /\ IF x \in Socket /\ place[x] = "open"
       THEN Leave(x, c) /\ UNCHANGED early
       ELSE /\ task' = [task EXCEPT ![x] = None]
            /\ astray' = astray \union IF Presence(x) THEN {owner[x]} ELSE {}
            /\ UNCHANGED <<registry, last, dropped>>
            /\ IF x \in Socket
               THEN /\ place' = [place EXCEPT ![x] = "closed"]
                    /\ up' = [up EXCEPT ![x] = FALSE]
                    /\ early' = IF place[x] = "announcing" THEN early \union {x} ELSE early
               ELSE UNCHANGED <<place, up, early>>
    /\ UNCHANGED <<kind, owner, holds, first>>

PresenceNext ==
    \/ \E s \in Socket :
       \/ Connect(s) \/ ConnectChat(s) \/ Accepted(s) \/ AcceptFails(s) \/ GreetFails(s) \/ Vanish(s)
       \/ \E c \in Told : Greeted(s, c) \/ Closes(s, c)
    \/ \E x \in Handler :
       \/ Broadcast(x) \/ LoopBegins(x) \/ LoopEnds(x) \/ Ends(x)
       \/ \E s \in Socket, fails \in BOOLEAN : Send(x, s, fails)
       \/ \E c \in Told : NextChat(x, c) \/ Raises(x, c)

PresenceSpec == PresenceInit /\ [][PresenceNext]_presenceVars

-----------------------------------------------------------------------------
(* Properties.                                                             *)

\* A connection that is served and whose client is there is in the set that
\* broadcasts go to, whatever cleanups and disconnects of others did.  Only
\* chat_manager can lose one: when its set is dropped during accept().
LiveIsReachable ==
    \A s \in Socket : place[s] = "open" /\ up[s] => s \in Registered \/ s \in dropped

\* What counts as online is served: a connection that has ended is not in the
\* set, unless its handler failed before its receive loop.
RegisteredIsServed ==
    \A s \in Registered : place[s] = "closed" => s \in early

\* When no connection of a member is under way, every chat has last been told
\* whether he is connected, whatever those of others do, unless an event of his
\* was skipped, one announcement of him overtook another, a cleanup removed his
\* last connection, or chat_manager was accepting one of his while all his others
\* left: then it is never announced, or even lost with the dict.
LastEventIsTrue ==
    \A u \in Member :
        (/\ u \notin astray
         /\ \A s \in Socket : owner[s] = u =>
               place[s] \in {"new", "open", "closed"} /\ s \notin dropped) =>
            \A c \in Told : (last[u][c] = "online") = (Here(u) # {})
=============================================================================

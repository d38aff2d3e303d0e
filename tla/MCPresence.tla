----------------------------- MODULE MCPresence -----------------------------
(***************************************************************************)
(* Instances of Presence for TLC.                                          *)
(***************************************************************************)
EXTENDS Presence, TLC

\* Connections are interchangeable, and so are members and chats.
Symmetry == Permutations(Socket) \union Permutations(Member) \union Permutations(Chat)

\* At most two handlers at once are between their awaits: in accept(), greeting,
\* announcing, leaving or broadcasting; and at most one of them broadcasts
\* something else than a presence event.
FewUnderWay ==
    /\ Cardinality({x \in Handler : \/ task[x] # None
                                    \/ x \in Socket /\ place[x] \in {"accepting", "greeting"}}) <= 2
    /\ Cardinality({x \in Handler : task[x] # None /\ ~Presence(x)}) <= 1
=============================================================================

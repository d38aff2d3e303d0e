------------------------------ MODULE MCChats ------------------------------
(***************************************************************************)
(* Instances of Chats for TLC.                                             *)
(***************************************************************************)
EXTENDS Chats, TLC

\* Users are interchangeable, and so are threads.
Symmetry == Permutations(User) \union Permutations(Thread)

\* Bound: one block at a time, and a message is checked while no request is
\* under way.  Nothing of a request matters to the check but what it commits.
FewUnderWay ==
    /\ Cardinality(blocked) <= 1
    /\ sending = None \/ \A t \in Thread : call[t] = None
=============================================================================

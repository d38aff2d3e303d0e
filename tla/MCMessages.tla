----------------------------- MODULE MCMessages -----------------------------
(***************************************************************************)
(* Instances of Messages for TLC.                                          *)
(***************************************************************************)
EXTENDS Messages, TLC

\* The members other than the sender are interchangeable.
Symmetry == Permutations(Peer)

\* Bound: what is under way at a time.
FewUnderWay ==
    LET toClient == Cardinality(frames) + (IF answer = None THEN 0 ELSE 1)
        requests_ == (IF acking = None THEN 0 ELSE 1)
                     + Cardinality({p \in Peer : page[p] # None})
                     + Cardinality({p \in Peer : clearing[p] # {}})
                     + Cardinality({p \in Peer : telling[p] # None}) IN
    toClient + requests_ <= IF posted = 1 THEN 4 ELSE 2
=============================================================================

----------------------------- MODULE MCPrivacy -----------------------------
(***************************************************************************)
(* Instances of Privacy for TLC.                                           *)
(***************************************************************************)
EXTENDS Privacy, TLC

\* Viewers are interchangeable, and so are threads.
Symmetry == Permutations(Viewer) \union Permutations(Thread)

\* Bound: a payload has one field or none, as each setting is checked by itself.
OneField == {f \in Fields : Cardinality({k \in Key : f[k] # None}) <= 1}

\* Settings that have changed or are about to.
InUse ==
    {k \in Key : \/ AudienceOf(k) # "everyone"
                 \/ \E v \in Viewer : exception[k][v] # None
                 \/ \E t \in Thread :
                    IF call[t] = None \/ Viewing(t) THEN FALSE
                    ELSE IF call[t].op = "patch" THEN call[t].fields[k] # None
                    ELSE call[t].key = k}

\* Bound: one viewer's request and one of the owner's at a time, and either the
\* setting that "find" reads is changed or those that "profile" reads.
FewUnderWay ==
    /\ Cardinality({t \in Thread : Viewing(t)}) <= 1
    /\ Cardinality({t \in Thread : call[t] # None /\ ~Viewing(t)}) <= 1
    /\ "phone_search_visibility" \in InUse => InUse = {"phone_search_visibility"}
=============================================================================

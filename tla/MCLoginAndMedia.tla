-------------------------- MODULE MCLoginAndMedia --------------------------
(***************************************************************************)
(* Instances of LoginCodes and of Media for TLC.  The two share no state:  *)
(* in each behaviour the requests of one of them move, and the other stays *)
(* as it begins.                                                           *)
(***************************************************************************)
EXTENDS LoginCodes, Media, TLC

BothInit == Init /\ MediaInit

LoginStep ==
    /\ \A r \in Request : at[r] = "new"
    /\ Next
    /\ UNCHANGED mediaVars

\* Whether the phone has a user makes no difference to an upload.
UploadStep ==
    /\ ~user /\ \A r \in Worker : At(r, "new")
    /\ MediaNext
    /\ UNCHANGED vars

BothNext == LoginStep \/ UploadStep

BothSpec == BothInit /\ [][BothNext]_<<vars, mediaVars>>

\* Codes, identifiers and requests are interchangeable.
Symmetry ==
    Permutations(Code) \union Permutations(UploadId) \union
    Permutations(Worker) \union Permutations(Request)
=============================================================================

------------------------------ MODULE MCOutbox ------------------------------
(***************************************************************************)
(* Instances of Outbox for TLC.                                            *)
(***************************************************************************)
EXTENDS Outbox

\* Bound of kills: the app is killed only while it has written at most one
\* message; the others are written after it.  When two are written and no kill can
\* follow, nothing is saved any more, because nobody would read it.
OneBeforeKill ==
    /\ restarts' > restarts => composed <= 1
    /\ restarts' = 0 /\ composed' > 1 => disk' = <<{}, {}>>
=============================================================================

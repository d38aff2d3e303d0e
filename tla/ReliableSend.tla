---------------------------- MODULE ReliableSend ----------------------------
(***************************************************************************)
(* What sending promises, without outbox, requests or frames: a message    *)
(* that was written waits until the server holds it or the user takes it   *)
(* back, and the server takes it at most once.  A message that has been    *)
(* persisted waits again after the app was killed and started.             *)
(***************************************************************************)
EXTENDS Naturals

CONSTANT Message

VARIABLES
    written,     \* the messages the user has written
    waiting,     \* those the client still undertakes to send
    kept,        \* those that survive the death of the app
    copies,      \* how many times the server holds each message
    withdrawn,   \* those the user took back
    killed       \* how many times the app died

vars == <<written, waiting, kept, copies, withdrawn, killed>>

Init ==
    /\ written = {} /\ waiting = {} /\ kept = {} /\ withdrawn = {} /\ killed = 0
    /\ copies = [m \in Message |-> 0]

Write(m) ==
    /\ m \in Message \ written
    /\ written' = written \union {m}
    /\ waiting' = waiting \union {m}
    /\ UNCHANGED <<kept, copies, withdrawn, killed>>

\* A message may still arrive after it was taken back or forgotten.
Store(m) ==
    /\ m \in written /\ copies[m] = 0
    /\ copies' = [copies EXCEPT ![m] = 1]
    /\ UNCHANGED <<written, waiting, kept, withdrawn, killed>>

\* The client learns that the server holds these messages.
Settle(S) ==
    /\ \A m \in S : copies[m] > 0
    /\ waiting' = waiting \ S
    /\ UNCHANGED <<written, kept, copies, withdrawn, killed>>

Withdraw(m) ==
    /\ m \in written
    /\ waiting' = waiting \ {m}
    /\ withdrawn' = withdrawn \union {m}
    /\ UNCHANGED <<written, kept, copies, killed>>

\* All that waits is persisted; something persisted before may stay.
Persist ==
    /\ waiting \subseteq kept' /\ kept' \subseteq waiting \union kept
    /\ UNCHANGED <<written, waiting, copies, withdrawn, killed>>

\* The app dies and is started again: what was persisted waits.
Kill ==
    /\ waiting' = kept
    /\ killed' = killed + 1
    /\ UNCHANGED <<written, kept, copies, withdrawn>>

Next ==
    \/ \E m \in Message : Write(m) \/ Store(m) \/ Withdraw(m)
    \/ \E S \in SUBSET waiting : Settle(S)
    \/ Persist \/ Kill

Spec == Init /\ [][Next]_vars

\* What is left of the promise when a restart brings back nothing to be sent.
Forget ==
    /\ waiting' = {}
    /\ killed' = killed + 1
    /\ UNCHANGED <<written, kept, copies, withdrawn>>
=============================================================================

--------------------------- MODULE ReplicatedLog ---------------------------
(***************************************************************************)
(* What a reader of a log may hope for: it reads every entry, in order.    *)
(***************************************************************************)
EXTENDS Naturals

VARIABLES
    log,     \* how many entries have been written
    read     \* how many of them the reader has read: the first ones

logVars == <<log, read>>

LogInit == log = 0 /\ read = 0

Write == log' = log + 1 /\ UNCHANGED read

Read == read < log /\ read' = read + 1 /\ UNCHANGED log

LogNext == Write \/ Read

LogSpec == LogInit /\ [][LogNext]_logVars
=============================================================================

------------------------ MODULE MCScheduledMessages ------------------------
(***************************************************************************)
(* Instances of ScheduledMessages for TLC.                                 *)
(***************************************************************************)
EXTENDS ScheduledMessages
=============================================================================

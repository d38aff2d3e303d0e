-------------------------- MODULE MCRealtimeReplay --------------------------
(***************************************************************************)
(* Instances of RealtimeReplay for TLC.                                    *)
(***************************************************************************)
EXTENDS RealtimeReplay
=============================================================================

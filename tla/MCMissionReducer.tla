-------------------------- MODULE MCMissionReducer --------------------------
(* Instance of MissionReducer for TLC. *)
EXTENDS MissionReducer
=============================================================================

------------------------------ MODULE MCAccess ------------------------------
(***************************************************************************)
(* Instances of Access, with runs of the profiler for a client, for TLC.   *)
(***************************************************************************)
EXTENDS ProfilerRun

CONSTANTS u1

MCUsers    == {u1}
MCProfiles == <<u1, u1>>
=============================================================================

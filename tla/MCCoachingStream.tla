-------------------------- MODULE MCCoachingStream --------------------------
(***************************************************************************)
(* Instances of CoachingStream, within ApiServer, for TLC.                 *)
(***************************************************************************)
EXTENDS ApiServer, TLC

CONSTANTS r1, r2, h1

TwoRequests == {r1, r2}
OneOther    == {h1}
=============================================================================

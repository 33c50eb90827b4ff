-------------------------- MODULE MCSignalDetector --------------------------
(***************************************************************************)
(* Instances of SignalDetector for TLC.                                    *)
(***************************************************************************)
EXTENDS SignalDetector

\* The minutes around 13:00, where the hour changes, and two offsets, one of
\* them a half hour: 18:29 at +05:30 and 12:59 at +00:00 are one instant.
MCLocalTimes == {779, 780, 1109}
MCOffsets    == {0, 330}
=============================================================================

--------------------------- MODULE MCContextQuery ---------------------------
(***************************************************************************)
(* Instances of ContextQuery for TLC.                                      *)
(***************************************************************************)
EXTENDS ContextQuery, TLC

CONSTANTS u1, u2, s1, s2, s3, p1, tilt

MCUsers    == {u1, u2}
MCSessions == {s1, s2, s3}
MCPatterns == {p1}
MCSignals  == {tilt}

\* A session without tags, with one in two spellings, and a list that is
\* refused, in a store of three of which Limit is two.
MCWritten == {<<>>, <<[of |-> tilt, as |-> "loose"], [of |-> tilt, as |-> "loose"]>>,
              <<[of |-> tilt, as |-> "blank"]>>}
MCSpelt   == {[of |-> tilt, as |-> "clean"], [of |-> tilt, as |-> "loose"]}
MCStamps  == 1..2

Symmetry == Permutations(MCUsers) \cup Permutations(MCSessions)
=============================================================================

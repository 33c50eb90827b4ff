--------------------------- MODULE MCSessionStore ---------------------------
(***************************************************************************)
(* Instances of SessionStore for TLC.                                      *)
(***************************************************************************)
EXTENDS SessionStore, TLC

CONSTANTS r1, r2, u1, u2, s1, summary, metrics, a, b, c

MCRequests == {r1, r2}
MCUsers    == {u1, u2}
MCSessions == {s1}
MCColumns  == {summary, metrics}
MCValues   == {a, b, c}

\* Three bodies, two of which differ from the first in one column only: the
\* smallest set in which two overlapping updates touch different columns.
Body(x, y) == (summary :> x) @@ (metrics :> y)
MCBodies   == {Body(a, a), Body(b, a), Body(a, c)}

MCStamps   == 1..3

\* Where a user's updates do not overlap, two bodies without a common column.
TwoBodies  == {Body(a, a), Body(b, c)}

Symmetry == Permutations(MCRequests) \cup Permutations(MCUsers)
=============================================================================

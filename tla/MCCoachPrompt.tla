--------------------------- MODULE MCCoachPrompt ----------------------------
(***************************************************************************)
(* Instances of CoachPrompt for TLC.                                       *)
(***************************************************************************)
EXTENDS CoachPrompt

S(n, w, t) == [summary |-> n, width |-> w, tags |-> t]

\* No summary and no tag; as long as a shortened one; three of which fill a
\* context; the longest, with no tag and with twenty; the longest in emoji.
Samples == {S(NoSummary, 1, 2), S(500, 1, 2), S(800, 1, 120),
            S(2000, 1, 2), S(2000, 1, 1360), S(2000, 12, 1360)}

\* Up to five sessions: the limit get_context is called with.
MCSessionLists == UNION {[1..n -> Samples] : n \in 0..5}

\* The longest trade there is, and a short one.
MCTrades == {[id |-> 128, signal |-> 29, claim |-> 127, rationale |-> 1000],
             [id |-> 36, signal |-> 12, claim |-> 60, rationale |-> 12]}
=============================================================================

------------------------------ MODULE MCAudit -------------------------------
(***************************************************************************)
(* Instances of Audit for TLC.                                             *)
(***************************************************************************)
EXTENDS Audit, TLC

CONSTANTS s1, s2, s3

MCSessions == {s1, s2, s3}

\* Up to two spellings of each session.
Small == [MCSessions -> 0..2]

\* One reference besides 199 or 200 of another session (or, s being t, none):
\* between these sizes two decimals stop telling one from none.  And two
\* besides 220, the most a request has room for.
Large == {[x \in MCSessions |-> CASE x = s -> n[1] [] x = t -> n[2] [] OTHER -> 0] :
             s \in MCSessions, t \in MCSessions, n \in {<<199, 1>>, <<200, 1>>, <<220, 2>>}}

MCResponses == Small \cup Large

SymmetrySessions == Permutations(MCSessions)
=============================================================================

---------------------------- MODULE ContextQuery ----------------------------
(***************************************************************************)
(* get_context (app/memory/service.py): the patterns and the last Limit    *)
(* sessions of a user that bear on a signal, for GET /context and for the  *)
(* coaching prompt.                                                        *)
(*                                                                         *)
(* Two SELECTs in one READ COMMITTED transaction: the patterns, then all   *)
(* sessions of the user, newest first, of which the first Limit relevant   *)
(* ones are kept.  Between the two other requests commit sessions, and     *)
(* whatever maintains the patterns table (nothing in this repository does: *)
(* external) commits patterns, so the answer mixes two moments.            *)
(***************************************************************************)
EXTENDS Integers, FiniteSets, Sequences, Functions

CONSTANTS
    Users, Sessions, Patterns,  \* identifiers
    Signals,    \* what tags and signal types are about
    Written,    \* the lists of tags that clients send
    Spelt,      \* the signals of queries and patterns, as they are spelt
    Stamps,     \* creation times, in any order of commit; two may be equal
    Limit,      \* sessions kept: 5 in the code
    None        \* no such row

\* A tag as it is spelt: "clean" (lower case, "_" for a space), with capitals,
\* spaces or blanks around it, nothing but blanks, or beyond MAX_TAG_CHARS.
Tag     == [of : Signals, as : {"clean", "loose", "blank", "long"}]

Session == [owner : Users, tags : SUBSET Tag, sent : Written, created : Stamps]
Pattern == [owner : Users, signal : Spelt, evidence : SUBSET Sessions]

ASSUME ContextQueryAssumption ==
    /\ Limit \in Nat \ {0}
    /\ Stamps \subseteq Nat
    /\ Written \subseteq Seq(Tag)
    /\ Spelt \subseteq Tag
    /\ IsFiniteSet(Sessions)
    /\ None \notin Session

VARIABLES
    sessions,   \* the sessions table, and with each row the tags it was sent with
    patterns,   \* the patterns table
    pc,         \* "idle", "patterns" (read them, not the sessions), "done"
    asked,      \* the user and the signal of the query
    active,     \* active_pattern_ids
    evidence,   \* evidence_session_ids
    result      \* the sessions of the answer, in order

vars == <<sessions, patterns, pc, asked, active, evidence, result>>

Bound(s) == sessions[s] # None

-----------------------------------------------------------------------------
(***************************************************************************)
(* Mistakes: what the definition each comment names would be if the code   *)
(* had a plausible bug.  Nothing below uses them.                          *)
(***************************************************************************)

\* Rows, with everyone's sessions: the evidence is trusted across users.
RowsOfAll(u) == {s \in Sessions : Bound(s)}

\* Clean, without lower(): capitals stay.
CleanKeepsCase(tag) == tag

\* Newer, with the oldest sessions first.
Older(s, t) == sessions[s].created < sessions[t].created

-----------------------------------------------------------------------------

Init ==
    /\ sessions = [s \in Sessions |-> None]
    /\ patterns = [p \in Patterns |-> None]
    /\ pc = "idle"
    /\ asked \in [user : Users, signal : Spelt]
    /\ active = {} /\ evidence = {}
    /\ result = <<>>

\* normalize_tags: strip, lower and "_" for each space; blank and long tags are
\* refused with a 422, and what is equal then is one tag.
Accepted(list) == \A i \in DOMAIN list : list[i].as \notin {"blank", "long"}
Clean(tag)     == [tag EXCEPT !.as = "clean"]
Normalized(list) == {Clean(list[i]) : i \in DOMAIN list}

\* Another request's upsert commits: a new session, or new tags for one.
Store(s, u, list) ==
    /\ Accepted(list)
    /\ \/ /\ ~Bound(s)
          /\ \E t \in Stamps :
                sessions' = [sessions EXCEPT ![s] =
                    [owner |-> u, tags |-> Normalized(list), sent |-> list, created |-> t]]
       \/ /\ Bound(s) /\ sessions[s].owner = u
          /\ sessions' = [sessions EXCEPT ![s].tags = Normalized(list), ![s].sent = list]
    /\ UNCHANGED <<patterns, pc, asked, active, evidence, result>>

\* The maintainer of the patterns table (external) writes or drops one.
Analyse(p, row) ==
    /\ patterns[p] # row
    /\ patterns' = [patterns EXCEPT ![p] = row]
    /\ UNCHANGED <<sessions, pc, asked, active, evidence, result>>

\* The first SELECT, and the identifiers its evidence names.  The signal asked
\* for is taken as it is spelt.
ReadPatterns(u, sig) ==
    LET mine == {p \in Patterns : /\ patterns[p] # None
                                  /\ patterns[p].owner = u
                                  /\ patterns[p].signal = sig}
    IN  /\ pc = "idle"
        /\ asked' = [user |-> u, signal |-> sig]
        /\ active' = mine
        /\ evidence' = UNION {patterns[p].evidence : p \in mine}
        /\ result' = <<>>
        /\ pc' = "patterns"
        /\ UNCHANGED <<sessions, patterns>>

\* WHERE user_id: the patterns' evidence is not a reason to see a session.
Rows(u) == {s \in Sessions : Bound(s) /\ sessions[s].owner = u}

Newer(s, t) == sessions[s].created > sessions[t].created

\* ORDER BY created_at DESC: the database may order equal times as it likes.
Ordered(rows) ==
    {seq \in Bijection(1..Cardinality(rows), rows) :
        \A i, j \in DOMAIN seq : Newer(seq[j], seq[i]) => j < i}

\* A session is relevant by its tags or because a pattern cites it.
Matches(sig, ids, s) == sig \in sessions[s].tags \/ s \in ids

\* One turn of the loop over the rows, and the loop.
Turn(kept, sig, ids, s) ==
    IF Len(kept) < Limit /\ Matches(sig, ids, s) THEN Append(kept, s) ELSE kept

Kept(seq, sig, ids) ==
    LET kept[i \in 0..Len(seq)] ==
            IF i = 0 THEN <<>> ELSE Turn(kept[i-1], sig, ids, seq[i])
    IN  kept[Len(seq)]

\* The second SELECT and the loop.
ReadSessions ==
    /\ pc = "patterns"
    /\ \E seq \in Ordered(Rows(asked.user)) :
           result' = Kept(seq, asked.signal, evidence)
    /\ pc' = "done"
    /\ UNCHANGED <<sessions, patterns, asked, active, evidence>>

\* The answer is sent, or the request fails at one of its awaits.
Forget ==
    /\ pc # "idle"
    /\ pc' = "idle"
    /\ active' = {} /\ evidence' = {} /\ result' = <<>>
    /\ UNCHANGED <<sessions, patterns, asked>>

Next ==
    \/ \E s \in Sessions, u \in Users, list \in Written : Store(s, u, list)
    \/ \E p \in Patterns, row \in Pattern \cup {None} : Analyse(p, row)
    \/ \E u \in Users, sig \in Spelt : ReadPatterns(u, sig)
    \/ ReadSessions
    \/ Forget

Spec == Init /\ [][Next]_vars
-----------------------------------------------------------------------------
(***************************************************************************)
(* Properties.                                                             *)
(***************************************************************************)

\* No session of another user reaches an answer, or a coaching prompt, not
\* even one that a pattern of the user's cites as evidence.
OwnSessionsOnly == \A i \in DOMAIN result : sessions[result[i]].owner = asked.user

\* What the caller means: his sessions that were sent with a tag about the
\* signal, however he spelt it, or that the patterns cite.  (That he asks in
\* the clean spelling is up to him.)
Wanted == {s \in Sessions :
    /\ Bound(s) /\ sessions[s].owner = asked.user
    /\ \/ s \in evidence
       \/ /\ asked.signal.as = "clean"
          /\ \E i \in DOMAIN sessions[s].sent : sessions[s].sent[i].of = asked.signal.of}

\* "Return last N relevant sessions": when the sessions are read, those kept
\* are the newest of the wanted ones, newest first, each once, and none is
\* left out while there is room.
LastRelevant ==
    [][pc = "patterns" /\ pc' = "done" =>
        /\ Range(result') \subseteq Wanted /\ Len(result') <= Limit
        /\ \A i, j \in DOMAIN result' : i < j =>
              /\ result'[i] # result'[j]
              /\ sessions[result'[i]].created >= sessions[result'[j]].created
        /\ \A s \in Wanted \ Range(result') :
              /\ Len(result') = Limit
              /\ \A i \in DOMAIN result' :
                    sessions[result'[i]].created >= sessions[s].created]_vars
=============================================================================

------------------------------- MODULE Audit --------------------------------
(***************************************************************************)
(* POST /audit: which of the session identifiers a coaching response cites *)
(* exist in memory, and the share that do not (app/audit/router.py).       *)
(*                                                                         *)
(* The references are the distinct substrings of the text that look like   *)
(* UUIDs, in whatever case they are written: a session may be cited in     *)
(* several spellings, each a reference of its own, and all that matters of *)
(* a response is in how many.  Each is looked up by a SELECT of its own,   *)
(* in the order of a Python set; the transaction is READ COMMITTED, so     *)
(* every SELECT sees the sessions committed before it, and PUTs of         *)
(* sessions commit in between.  No code deletes a session.                 *)
(***************************************************************************)
EXTENDS Percent, FiniteSets

CONSTANTS
    Sessions,   \* session identifiers, as UUIDs
    Responses   \* what texts cite: in how many spellings each session.  The
                \* 8,000 characters of a text have room for 222 in all

ASSUME AuditAssumption == Responses \subseteq [Sessions -> Nat]

VARIABLES
    known,              \* the sessions in the table, of whatever user
    pc,                 \* "idle", "checking" or "answered"
    cited,              \* extracted_uuids: the response being audited
    found,              \* of each session, the references answered "found"
    notFound,           \* and those answered "notfound"
    found_count,
    not_found_count,
    rate,               \* hallucination_rate, in hundredths
    atStart             \* history: the sessions known when the audit began

vars == <<known, pc, cited, found, notFound, found_count, not_found_count, rate, atStart>>

None == [s \in Sessions |-> 0]

\* The references to a session that are still to be looked up.
Left(s) == cited[s] - (found[s] + notFound[s])

-----------------------------------------------------------------------------
(***************************************************************************)
(* Mistakes: what the definition each comment names would be if the code   *)
(* had a plausible bug.  Nothing below uses them.                          *)
(***************************************************************************)

\* Check, with an identifier compared as it is written: of the spellings of a
\* session one at most is the one that is stored.
CheckAsWritten(s) ==
    /\ pc = "checking"
    /\ Left(s) > 0
    /\ IF s \in known /\ found[s] = 0
       THEN /\ found'       = [found EXCEPT ![s] = @ + 1]
            /\ found_count' = found_count + 1
            /\ UNCHANGED <<notFound, not_found_count>>
       ELSE /\ notFound'        = [notFound EXCEPT ![s] = @ + 1]
            /\ not_found_count' = not_found_count + 1
            /\ UNCHANGED <<found, found_count>>
    /\ UNCHANGED <<known, pc, cited, rate, atStart>>

-----------------------------------------------------------------------------

Init ==
    /\ known \in SUBSET Sessions
    /\ pc = "idle"
    /\ cited = None /\ found = None /\ notFound = None
    /\ found_count = 0 /\ not_found_count = 0
    /\ rate = 0
    /\ atStart = {}

\* A PUT of a new session commits.
Store(s) ==
    /\ s \notin known
    /\ known' = known \cup {s}
    /\ UNCHANGED <<pc, cited, found, notFound, found_count, not_found_count, rate, atStart>>

\* A response without references is answered at once, with rate 0.
Receive(response) ==
    /\ pc = "idle"
    /\ cited' = response
    /\ atStart' = known
    /\ pc' = IF response = None THEN "answered" ELSE "checking"
    /\ UNCHANGED <<known, found, notFound, found_count, not_found_count, rate>>

\* One turn of the loop: one SELECT by parsed UUID.
Check(s) ==
    /\ pc = "checking"
    /\ Left(s) > 0
    /\ IF s \in known
       THEN /\ found'       = [found EXCEPT ![s] = @ + 1]
            /\ found_count' = found_count + 1
            /\ UNCHANGED <<notFound, not_found_count>>
       ELSE /\ notFound'        = [notFound EXCEPT ![s] = @ + 1]
            /\ not_found_count' = not_found_count + 1
            /\ UNCHANGED <<found, found_count>>
    /\ UNCHANGED <<known, pc, cited, rate, atStart>>

Answer ==
    /\ pc = "checking"
    /\ \A s \in Sessions : Left(s) = 0
    /\ rate' = Round(not_found_count, found_count + not_found_count)
    /\ pc' = "answered"
    /\ UNCHANGED <<known, cited, found, notFound, found_count, not_found_count, atStart>>

\* The response is sent, or a SELECT fails and a 500 is: the next audit may
\* begin.
Forget ==
    /\ pc # "idle"
    /\ pc' = "idle"
    /\ cited' = None /\ found' = None /\ notFound' = None
    /\ found_count' = 0 /\ not_found_count' = 0
    /\ rate' = 0
    /\ atStart' = {}
    /\ UNCHANGED known

Next ==
    \/ \E response \in Responses : Receive(response)
    \/ \E s \in Sessions : Store(s) \/ Check(s)
    \/ Answer
    \/ Forget

Spec == Init /\ [][Next]_vars
-----------------------------------------------------------------------------
(***************************************************************************)
(* Properties.                                                             *)
(***************************************************************************)

\* The lookups are not a snapshot, but their answer lies between two: what
\* was in memory when the audit began is found, and what is found is in
\* memory when it ends.
Bracketed == pc = "answered" => \A s \in Sessions :
    /\ s \in atStart => found[s] = cited[s]
    /\ found[s] > 0 => s \in known

\* What a rate of 0 or 1 says of the verdicts it is sent with.  It is given when
\* no reference is missing, or all are; and otherwise only by rounding away
\* fewer than one reference in 200: none in a response of up to 200, and
\* no more than one in any that a request has room for.
ExtremesNearlyExact == pc = "answered" =>
    LET total       == found_count + not_found_count
        noneMissing == \A s \in Sessions : notFound[s] = 0
        noneFound   == \A s \in Sessions : found[s] = 0
    IN  /\ noneMissing => rate = 0
        /\ noneFound /\ ~noneMissing => rate = 100
        /\ rate = 0   => noneMissing \/ 200 * not_found_count < total
        /\ rate = 100 => noneFound   \/ 200 * found_count < total

\* "Extract unique UUIDs found in text" (audit/router.py:42): a session that
\* is cited twice counts once.
UniqueCounted == pc = "answered" =>
    found_count + not_found_count = Cardinality({s \in Sessions : cited[s] > 0})
=============================================================================

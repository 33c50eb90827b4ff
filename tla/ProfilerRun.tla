---------------------------- MODULE ProfilerRun -----------------------------
(***************************************************************************)
(* A run of profiler.py against the service (main, get_token,              *)
(* summarize_api_failure): for each profile detected, one after another,   *)
(* ask for a token and PUT the profile under a session id drawn for the    *)
(* purpose.  What the service does with tokens is Access; what it does     *)
(* with a PUT of a new id is to store it once or not at all.               *)
(*                                                                         *)
(* A PUT that is answered is reported and the run goes on, whatever the    *)
(* answer.  A call that is not (10 s timeout, no connection), a token that *)
(* is refused and a data set in which the detection raises all end the run *)
(* there.  Nothing of a run is remembered by the next.                     *)
(***************************************************************************)
EXTENDS Access, Sequences, FiniteSets

CONSTANTS
    Profiles,   \* the users whose profiles the detection yields, in its order
    MaxRuns     \* bound: runs of the script

ASSUME ProfilerRunAssumption == Profiles \in Seq(Users) /\ MaxRuns \in Nat

VARIABLES
    run,        \* the number of the run
    step,       \* "idle", "token" (about to ask for one) or "put"
    place,      \* the profile it is at
    mine,       \* its token: a set of at most one
    memory,     \* the profiles stored, as <<run, place>>, oldest first
    reports,    \* history: what the run has printed of which profile, and why
    begun       \* history: the starts of the service when it began

runOnly == <<run, step, place, mine, memory, reports, begun>>
runVars == <<vars, runOnly>>

\* summarize_api_failure, or "stored".
Category(status) ==
    CASE status \in {200, 201} -> "stored"     [] status >= 500 -> "server_error"
      [] status = 401 -> "unauthorized"        [] status = 403  -> "forbidden"
      [] status = 404 -> "not_found"           [] status >= 400 -> "client_error"
      [] OTHER -> "unexpected_status"

\* The next profile, or the end of the run.
Advance ==
    /\ step' = IF place < Len(Profiles) THEN "token" ELSE "idle"
    /\ place' = place + 1
    /\ mine' = {}

Store  == memory' = Append(memory, <<run, place>>)
Report(status, why) == reports' = reports \cup
    {[place |-> place, said |-> Category(status), why |-> why]}

-----------------------------------------------------------------------------
(***************************************************************************)
(* Mistakes: what the definition each comment names would be if the code   *)
(* had a plausible bug.  Nothing below uses them.                          *)
(***************************************************************************)

\* AskToken, only where the user has no token yet.
AskTokenOnce ==
    /\ step = "token"
    /\ IF tokens = {} THEN Issue(Profiles[place]) /\ mine' = tokens'
                      ELSE UNCHANGED vars /\ \E t \in tokens : mine' = {t}
    /\ step' = "put"
    /\ UNCHANGED <<run, place, memory, reports, begun>>

\* PutFails, tried again under another fresh id.
PutFailsRetried(t) ==
    /\ step = "put" /\ t \in mine /\ Verify(t) = "ok"
    /\ up
    /\ Report(500, "ok")
    /\ Store \/ UNCHANGED memory
    /\ step' = "token"
    /\ UNCHANGED <<vars, run, place, mine, begun>>

\* PutLost, caught and passed over.
PutLostIgnored(t) ==
    /\ step = "put" /\ t \in mine
    /\ \/ up /\ Verify(t) = "ok" /\ Store
       \/ UNCHANGED memory
    /\ Advance
    /\ UNCHANGED <<vars, run, reports, begun>>

-----------------------------------------------------------------------------

RunInit ==
    /\ Init
    /\ run = 0 /\ step = "idle" /\ place = 0 /\ begun = 0
    /\ mine = {} /\ memory = <<>> /\ reports = {}

Begin ==
    /\ step = "idle"
    /\ run < MaxRuns /\ Profiles # <<>>
    /\ run' = run + 1
    /\ step' = "token" /\ place' = 1 /\ mine' = {}
    /\ reports' = {} /\ begun' = starts
    /\ UNCHANGED <<vars, memory>>

\* get_token, for every profile anew.
AskToken ==
    /\ step = "token"
    /\ Issue(Profiles[place]) /\ mine' = {Claims(Profiles[place])}
    /\ step' = "put"
    /\ UNCHANGED <<run, place, memory, reports, begun>>

\* raise_for_status, a call that is not answered, or a detection that raises.
Abort ==
    /\ step = "token"
    /\ step' = "idle"
    /\ UNCHANGED <<vars, run, place, mine, memory, reports, begun>>

\* The PUT is answered: stored; refused with its token; or failed, before the
\* commit or after it.
PutStored(t) ==
    /\ step = "put" /\ t \in mine /\ Verify(t) = "ok"
    /\ Present(t)
    /\ Store
    /\ Report(200, "ok")
    /\ Advance
    /\ UNCHANGED <<run, begun>>

PutRefused(t) ==
    /\ step = "put" /\ t \in mine /\ Verify(t) # "ok"
    /\ Present(t)
    /\ Report(401, Verify(t))
    /\ Advance
    /\ UNCHANGED <<run, memory, begun>>

PutFails(t) ==
    /\ step = "put" /\ t \in mine /\ Verify(t) = "ok"
    /\ up
    /\ Report(500, "ok")
    /\ Store \/ UNCHANGED memory
    /\ Advance
    /\ UNCHANGED <<vars, run, begun>>

\* No answer reaches the client, which raises; the PUT may have been stored.
PutLost(t) ==
    /\ step = "put" /\ t \in mine
    /\ \/ up /\ Verify(t) = "ok" /\ Store
       \/ UNCHANGED memory
    /\ step' = "idle" /\ mine' = {}
    /\ UNCHANGED <<vars, run, place, reports, begun>>

Service == Start \/ Crash \/ Tick \/ \E t \in tokens : Present(t)

Put(t) == PutStored(t) \/ PutRefused(t) \/ PutFails(t) \/ PutLost(t)

RunNext ==
    \/ Service /\ UNCHANGED runOnly
    \/ Begin \/ AskToken \/ Abort
    \/ \E t \in mine : Put(t)

RunSpec == RunInit /\ [][RunNext]_runVars
-----------------------------------------------------------------------------
(***************************************************************************)
(* Properties.                                                             *)
(***************************************************************************)

Copies(r, p) == Cardinality({k \in DOMAIN memory : memory[k] = <<r, p>>})

\* What is printed is true: "stored" means stored and "unauthorized" means not
\* stored, whatever happened to the process in between; and of what a run has
\* stored at most its last profile has no line printed for it.
ReportsHonest ==
    /\ \A x \in reports :
        /\ x.said = "stored" => Copies(run, x.place) = 1
        /\ x.said = "unauthorized" => Copies(run, x.place) = 0
    /\ \A k \in 1..(Len(memory) - 1) : memory[k][1] = run =>
        \E x \in reports : x.place = memory[k][2]

\* Restarts refuse a run at most one profile each: every profile has a token of
\* its own, so a change of the secret refuses one PUT.  (A restart that leaves a
\* call without its answer ends the run, in Abort or PutLost, and with it all
\* the profiles still to come.)
RestartRefusesOne ==
    Cardinality({x \in reports : x.why = "INVALID_TOKEN"}) <= starts - begun

\* A run adds at most one copy of a profile, however it ends: of the newest
\* sessions with one pathology, which a coaching stream asks for, it takes up one
\* place at most.  Every further run may take up another.
OneCopyPerRun == \A k \in DOMAIN memory : Copies(memory[k][1], memory[k][2]) = 1
=============================================================================

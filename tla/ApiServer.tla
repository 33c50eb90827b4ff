----------------------------- MODULE ApiServer ------------------------------
(***************************************************************************)
(* The streams of CoachingStream with the other users of their pool: the   *)
(* GETs, the audit and GET /health (app/health/router.py), which ask the   *)
(* database and answer, and the PUT, which commits in between.  Such a     *)
(* request holds a connection from its first statement until get_db closes *)
(* its session; a commit returns it, and refresh takes one again.  It      *)
(* never waits for anyone outside, but it shares fifteen connections with  *)
(* streams that do.  On failure, the pool's timeout included, the health   *)
(* check answers "degraded" and the others raise: "failed" is either.      *)
(***************************************************************************)
EXTENDS CoachingStream

VARIABLE
    at          \* where each of the other handlers is suspended

apiVars == <<vars, at>>

Move(h, l) ==
    /\ at' = [at EXCEPT ![h] = l]
    /\ UNCHANGED <<configured, pc, trade, client, sent, index, rest>>

-----------------------------------------------------------------------------
(***************************************************************************)
(* Mistakes: what the definition each comment names would be if the code   *)
(* had a plausible bug.  Nothing below uses them.                          *)
(***************************************************************************)

\* TimesOut, with a pool that waits without limit.
TimesOutNever(h) == FALSE /\ Move(h, "failed") /\ UNCHANGED <<held, waiting>>

\* Fails, with the session abandoned by the exception.
FailsAbandoning(h) ==
    at[h] \in {"query", "refresh"} /\ Move(h, "idle") /\ UNCHANGED <<held, waiting>>

-----------------------------------------------------------------------------

ApiInit == Init /\ at = [h \in Others |-> "idle"]

\* A request arrives and executes its first statement.
Arrive(h) ==
    /\ at[h] = "idle"
    /\ \/ Pool!Take(h) /\ Move(h, "query")
       \/ Pool!Wait(h) /\ Move(h, "waiting")

\* The pool has one for it, or its timeout passes first.
Granted(h)  ==
    /\ at[h] \in {"waiting", "waiting again"}
    /\ Pool!Grant(h)
    /\ Move(h, IF at[h] = "waiting" THEN "query" ELSE "refresh")
TimesOut(h) ==
    at[h] \in {"waiting", "waiting again"} /\ Pool!GiveUp(h) /\ Move(h, "failed")

\* A PUT commits, and refreshes the record in a transaction of its own.
Commits(h) == at[h] = "query" /\ Pool!Return(h) /\ Move(h, "committed")
Refreshes(h) ==
    /\ at[h] = "committed"
    /\ \/ Pool!Take(h) /\ Move(h, "refresh")
       \/ Pool!Wait(h) /\ Move(h, "waiting again")

\* Its statements are done ("ok", "connected"), or one of them raises.
Succeeds(h) ==
    at[h] \in {"query", "refresh"} /\ Move(h, "ok") /\ UNCHANGED <<held, waiting>>
Fails(h) ==
    at[h] \in {"query", "refresh"} /\ Move(h, "failed") /\ UNCHANGED <<held, waiting>>

\* The answer is out; the exit of get_db returns the connection, if any.
Close(h) == at[h] \in {"ok", "failed"} /\ Pool!Return(h) /\ Move(h, "idle")

Ask(h) == \/ Granted(h) \/ TimesOut(h) \/ Commits(h) \/ Refreshes(h)
          \/ Succeeds(h) \/ Fails(h) \/ Close(h)

ApiNext ==
    \/ Next /\ UNCHANGED at
    \/ \E h \in Others : Arrive(h) \/ Ask(h)

ApiSpec == ApiInit /\ [][ApiNext]_apiVars

\* As for the streams: event loop, pool and database do their part.
ApiFairSpec == ApiSpec /\ Fairness /\ \A h \in Others : WF_apiVars(Ask(h))
-----------------------------------------------------------------------------
(***************************************************************************)
(* Properties.                                                             *)
(***************************************************************************)

\* The pool is accounted for: a connection is out only for a stream between its
\* query and its end and for a request that is asking the database; whoever is
\* over, however it ended, has given it back, and no waiter is forgotten.
PoolAccounted ==
    /\ ConnectionsReturned
    /\ \A h \in Others :
          /\ at[h] \in {"query", "refresh"} => h \in held
          /\ h \in held => at[h] \in {"query", "refresh", "ok", "failed"}
          /\ h \in waiting <=> at[h] \in {"waiting", "waiting again"}

\* The health check and the memory requests end, even while every connection
\* is held by a stream whose provider hangs for ever and whose client stays.
OthersAnswered == \A h \in Others : at[h] # "idle" ~> at[h] = "idle"
=============================================================================

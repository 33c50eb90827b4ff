------------------------------ MODULE ConnPool ------------------------------
(***************************************************************************)
(* The connection pool of the engine app/db/session.py creates: pool_size  *)
(* connections kept and max_overflow more on demand, PoolSize in all.  The *)
(* pool is SQLAlchemy's (external); it is modelled from that configuration *)
(* and from how the handlers use it.                                       *)
(*                                                                         *)
(* A handler takes a connection with its first statement.  It waits only   *)
(* when every connection is out, and then until one is returned or the     *)
(* pool's timeout raises.  Waiters are not served in order: a handler that *)
(* asks at the right moment may take a connection before one that waits.   *)
(***************************************************************************)
EXTENDS Integers, FiniteSets

CONSTANTS
    Handlers,   \* request handlers of the API process
    PoolSize    \* pool_size + max_overflow

VARIABLES
    held,       \* handlers whose session has checked out a connection
    waiting     \* handlers suspended until one is returned

PoolInit == held = {} /\ waiting = {}

Free == Cardinality(held) < PoolSize

Take(h) ==
    /\ h \notin held \cup waiting
    /\ Free
    /\ held' = held \cup {h}
    /\ UNCHANGED waiting

Wait(h) ==
    /\ h \notin held \cup waiting
    /\ ~Free
    /\ waiting' = waiting \cup {h}
    /\ UNCHANGED held

Grant(h) ==
    /\ h \in waiting
    /\ Free
    /\ held' = held \cup {h}
    /\ waiting' = waiting \ {h}

\* The pool's timeout, or the cancellation of the handler.
GiveUp(h) ==
    /\ h \in waiting
    /\ waiting' = waiting \ {h}
    /\ UNCHANGED held

\* The end of the handler's session: rollback, connection back to the pool.
Return(h) ==
    /\ held' = held \ {h}
    /\ UNCHANGED waiting

PoolOK ==
    /\ held \cup waiting \subseteq Handlers
    /\ held \cap waiting = {}
    /\ Cardinality(held) <= PoolSize
=============================================================================

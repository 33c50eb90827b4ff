---------------------------- MODULE SessionStore ----------------------------
(***************************************************************************)
(* The memory service: PUT and GET of one session record, run by several   *)
(* request handlers at once against the "sessions" table.                  *)
(*                                                                         *)
(* The granularity is the await: app/memory/service.py suspends at every   *)
(* statement it sends, and between two statements any other handler may    *)
(* run.  An upsert is SELECT (execute), a reading of the clock, INSERT or  *)
(* UPDATE (the flush inside commit), COMMIT, and a second SELECT (refresh) *)
(* in a new transaction.  The engine is created with no isolation level,   *)
(* so PostgreSQL runs each statement at READ COMMITTED: a statement sees   *)
(* the rows committed before it, and waits for an uncommitted write of the *)
(* same row.                                                               *)
(*                                                                         *)
(* The unit of work of the ORM sends an UPDATE of the columns whose value  *)
(* differs from the one it read, not of the whole row (see Dirty).         *)
(*                                                                         *)
(* Requests here have passed authentication and validation: the user of a  *)
(* request is the subject of its token, and its body is a normalized one.  *)
(***************************************************************************)
EXTENDS Integers, FiniteSets

CONSTANTS
    Users,      \* tenants: the parsed userId of path and token
    Sessions,   \* session identifiers (the primary key, shared by all users)
    Requests,   \* handlers that may be running at the same time
    Columns,    \* the columns a body carries: summary, metrics, tags
    Values,     \* contents of a column
    Bodies,     \* the bodies clients send
    Stamps,     \* the readings the clock may give
    Overlap,    \* may a user have two PUTs of one session in flight?
    NoRow       \* no record (None in the code)

Row == [owner : Users, data : [Columns -> Values],
        created : Stamps, updated : Stamps]

ASSUME SessionStoreAssumption ==
    /\ Bodies \subseteq [Columns -> Values]
    /\ Stamps \subseteq Nat
    /\ 0 \notin Stamps
    /\ Overlap \in BOOLEAN
    /\ NoRow \notin Row

Put    == [op : {"PUT"}, user : Users, session : Sessions, body : Bodies]
Get    == [op : {"GET"}, user : Users, session : Sessions]
NoCall == [op |-> "none"]

NoReply == [status |-> "none", row |-> NoRow]
Reply   == [status : {"none", "ok", "not_found", "conflict", "error"},
            row : Row \cup {NoRow}]

VARIABLES
    table,      \* committed rows: [Sessions -> Row \cup {NoRow}]
    clock,      \* the last reading of datetime.now(timezone.utc)
    pc,         \* where each handler is suspended
    call,       \* the request each handler serves
    seen,       \* the record its first SELECT returned
    stamp,      \* the reading it took of the clock
    reply,      \* the answer it gives
    puts        \* history: every PUT that was accepted

vars == <<table, clock, pc, call, seen, stamp, reply, puts>>

-----------------------------------------------------------------------------
(***************************************************************************)
(* Mistakes.  Each operator of this section is what the definition named   *)
(* in its comment would be if the code had a plausible bug.  Nothing below *)
(* uses them: they are there to check that the properties can fail.        *)
(***************************************************************************)

\* Owned, without user_id in the WHERE clause.
OwnedByAnyone(u, s) == table[s]

\* Flush, taken while another transaction holds the row.
FlushUnlocked(r) ==
    /\ pc[r] = "flush"
    /\ pc' = [pc EXCEPT ![r] = "commit"]
    /\ UNCHANGED <<table, clock, call, seen, stamp, reply, puts>>

\* Written, with an update that creates the record anew.
WrittenAnew(r) ==
    [owner |-> call[r].user, data |-> call[r].body,
     created |-> stamp[r], updated |-> stamp[r]]

\* Dirty, with a flush that misses one changed column.
DirtyButOne(r) ==
    LET changed == {c \in Columns : call[r].body[c] # seen[r].data[c]}
    IN  IF changed = {} THEN {} ELSE changed \ {CHOOSE c \in changed : TRUE}

\* Respond, when the response of a failed request is never sent.
RespondIfOk(r) ==
    /\ pc[r] = "done"
    /\ reply[r].status # "error"
    /\ pc'    = [pc EXCEPT ![r] = "idle"]
    /\ call'  = [call EXCEPT ![r] = NoCall]
    /\ seen'  = [seen EXCEPT ![r] = NoRow]
    /\ stamp' = [stamp EXCEPT ![r] = 0]
    /\ reply' = [reply EXCEPT ![r] = NoReply]
    /\ UNCHANGED <<table, clock, puts>>

\* Refresh, reading the record the first SELECT returned.
RefreshFromSeen(r) ==
    /\ pc[r] = "refresh"
    /\ pc'    = [pc EXCEPT ![r] = "done"]
    /\ reply' = [reply EXCEPT ![r] = [status |-> "ok",
        row |-> IF seen[r] = NoRow THEN table[call[r].session] ELSE seen[r]]]
    /\ UNCHANGED <<table, clock, call, seen, stamp, puts>>

\* Select, when the lookup is skipped and every PUT is taken for a new one.
SelectNothing(r) ==
    /\ pc[r] = "select"
    /\ call[r] \in Put
    /\ pc' = [pc EXCEPT ![r] = "stamp"]
    /\ UNCHANGED <<table, clock, call, seen, stamp, reply, puts>>

\* TakeStamp, with a default computed once instead of at every write.
TakeStampOnce(r) ==
    /\ pc[r] = "stamp"
    /\ stamp' = [stamp EXCEPT ![r] = clock]
    /\ pc' = [pc EXCEPT ![r] = "flush"]
    /\ UNCHANGED <<table, clock, call, seen, reply, puts>>

-----------------------------------------------------------------------------

Init ==
    /\ table = [s \in Sessions |-> NoRow]
    /\ clock = 0
    /\ pc    = [r \in Requests |-> "idle"]
    /\ call  = [r \in Requests |-> NoCall]
    /\ seen  = [r \in Requests |-> NoRow]
    /\ stamp = [r \in Requests |-> 0]
    /\ reply = [r \in Requests |-> NoReply]
    /\ puts  = {}

\* The handler that serves nothing: the state before a request and after it.
Idle(r) ==
    /\ pc'    = [pc EXCEPT ![r] = "idle"]
    /\ call'  = [call EXCEPT ![r] = NoCall]
    /\ seen'  = [seen EXCEPT ![r] = NoRow]
    /\ stamp' = [stamp EXCEPT ![r] = 0]
    /\ reply' = [reply EXCEPT ![r] = NoReply]

Answer(r, status, row) ==
    /\ pc'    = [pc EXCEPT ![r] = "done"]
    /\ reply' = [reply EXCEPT ![r] = [status |-> status, row |-> row]]

\* The row of session s as a query with WHERE session_id = s AND user_id = u
\* returns it (scalar_one_or_none).
Owned(u, s) ==
    IF table[s] # NoRow /\ table[s].owner = u THEN table[s] ELSE NoRow

\* Another user's PUT of the session may be in flight, or this user's too
\* when Overlap allows it.
MayPut(u, s) ==
    Overlap \/ \A q \in Requests :
        ~(pc[q] # "idle" /\ call[q] \in Put
            /\ call[q].user = u /\ call[q].session = s)

\* Bound: a PUT is accepted while the clock can still give it a reading.
Unstamped == {q \in Requests : pc[q] \in {"select", "stamp"} /\ call[q] \in Put}
ClockLeft == clock + Cardinality(Unstamped) + 1 \in Stamps

ReceivePut(r, u, s, b) ==
    /\ pc[r] = "idle"
    /\ MayPut(u, s)
    /\ ClockLeft
    /\ LET put == [op |-> "PUT", user |-> u, session |-> s, body |-> b] IN
        /\ call' = [call EXCEPT ![r] = put]
        /\ puts' = puts \cup {put}
    /\ pc' = [pc EXCEPT ![r] = "select"]
    /\ UNCHANGED <<table, clock, seen, stamp, reply>>

ReceiveGet(r, u, s) ==
    /\ pc[r] = "idle"
    /\ call' = [call EXCEPT ![r] = [op |-> "GET", user |-> u, session |-> s]]
    /\ pc' = [pc EXCEPT ![r] = "select"]
    /\ UNCHANGED <<table, clock, seen, stamp, reply, puts>>

\* get_session_memory: one SELECT, then 200 with the record or 404.
Lookup(r) ==
    /\ pc[r] = "select"
    /\ call[r] \in Get
    /\ LET found == Owned(call[r].user, call[r].session) IN
        Answer(r, IF found = NoRow THEN "not_found" ELSE "ok", found)
    /\ UNCHANGED <<table, clock, call, seen, stamp, puts>>

\* upsert_session_memory: the SELECT that decides between insert and update.
Select(r) ==
    /\ pc[r] = "select"
    /\ call[r] \in Put
    /\ seen' = [seen EXCEPT ![r] = Owned(call[r].user, call[r].session)]
    /\ pc' = [pc EXCEPT ![r] = "stamp"]
    /\ UNCHANGED <<table, clock, call, stamp, reply, puts>>

\* The reading of the clock that becomes updated_at and, for a new record,
\* created_at (two readings of one flush there, taken for one here).  It is
\* taken before the row is locked.
TakeStamp(r) ==
    /\ pc[r] = "stamp"
    /\ clock + 1 \in Stamps
    /\ clock' = clock + 1
    /\ stamp' = [stamp EXCEPT ![r] = clock + 1]
    /\ pc' = [pc EXCEPT ![r] = "flush"]
    /\ UNCHANGED <<table, call, seen, reply, puts>>

\* A handler between its INSERT or UPDATE and its COMMIT holds the row lock.
Locked(s) == \E q \in Requests : pc[q] = "commit" /\ call[q].session = s

\* The columns the unit of work finds changed: those whose new value differs
\* from the value that was read.
Dirty(r) == {c \in Columns : call[r].body[c] # seen[r].data[c]}

\* INSERT of a session that is unbound, or UPDATE of one that was found.
Flush(r) ==
    /\ pc[r] = "flush"
    /\ ~Locked(call[r].session)
    /\ seen[r] # NoRow \/ table[call[r].session] = NoRow
    /\ pc' = [pc EXCEPT ![r] = "commit"]
    /\ UNCHANGED <<table, clock, call, seen, stamp, reply, puts>>

\* INSERT of a session that was bound since the SELECT, or that another user
\* owns: the primary key is violated and nothing handles IntegrityError.
FlushConflict(r) ==
    /\ pc[r] = "flush"
    /\ ~Locked(call[r].session)
    /\ seen[r] = NoRow
    /\ table[call[r].session] # NoRow
    /\ Answer(r, "conflict", NoRow)
    /\ UNCHANGED <<table, clock, call, seen, stamp, puts>>

\* The row a commit leaves: a new row, or the committed row with the dirty
\* columns and updated_at rewritten.
Written(r) ==
    LET put == call[r]
        old == table[put.session]
    IN  IF seen[r] = NoRow
        THEN [owner |-> put.user, data |-> put.body,
              created |-> stamp[r], updated |-> stamp[r]]
        ELSE [owner   |-> old.owner,
              data    |-> [c \in Columns |-> IF c \in Dirty(r) THEN put.body[c]
                                                               ELSE old.data[c]],
              created |-> old.created,
              updated |-> stamp[r]]

Commit(r) ==
    /\ pc[r] = "commit"
    /\ table' = [table EXCEPT ![call[r].session] = Written(r)]
    /\ pc' = [pc EXCEPT ![r] = "refresh"]
    /\ UNCHANGED <<clock, call, seen, stamp, reply, puts>>

\* db.refresh: a SELECT by primary key in a transaction of its own.
Refresh(r) ==
    /\ pc[r] = "refresh"
    /\ Answer(r, "ok", table[call[r].session])
    /\ UNCHANGED <<table, clock, call, seen, stamp, puts>>

\* The database, the connection or the pool raises at an await: the session
\* closes, an open transaction rolls back, the client gets a 500.  At
\* "refresh" the write is already committed.
DbError(r) ==
    /\ pc[r] \in {"select", "flush", "commit", "refresh"}
    /\ Answer(r, "error", NoRow)
    /\ UNCHANGED <<table, clock, call, seen, stamp, puts>>

\* The response leaves and the handler is free.
Respond(r) ==
    /\ pc[r] = "done"
    /\ Idle(r)
    /\ UNCHANGED <<table, clock, puts>>

\* The API process dies and starts again: handlers and open transactions are
\* gone, the committed rows are in the database's volume.
Restart ==
    /\ \E r \in Requests : pc[r] # "idle"
    /\ pc'    = [r \in Requests |-> "idle"]
    /\ call'  = [r \in Requests |-> NoCall]
    /\ seen'  = [r \in Requests |-> NoRow]
    /\ stamp' = [r \in Requests |-> 0]
    /\ reply' = [r \in Requests |-> NoReply]
    /\ UNCHANGED <<table, clock, puts>>

Receive(r) == \E u \in Users, s \in Sessions :
    \/ ReceiveGet(r, u, s)
    \/ \E b \in Bodies : ReceivePut(r, u, s, b)

Serve(r) == Lookup(r) \/ Select(r) \/ TakeStamp(r) \/ Flush(r)
                \/ FlushConflict(r) \/ Commit(r) \/ Refresh(r) \/ Respond(r)

Next == Restart \/ \E r \in Requests : Receive(r) \/ Serve(r) \/ DbError(r)

Spec == Init /\ [][Next]_vars

\* The event loop resumes every handler whose await has completed, and
\* PostgreSQL grants a contended row lock to its waiters in turn.
Fairness == \A r \in Requests :
    /\ WF_vars(Serve(r))
    /\ SF_vars(Flush(r) \/ FlushConflict(r))

FairSpec == Spec /\ Fairness
-----------------------------------------------------------------------------
(***************************************************************************)
(* Properties.                                                             *)
(***************************************************************************)

\* The types of the variables.
TypeOK ==
    /\ table \in [Sessions -> Row \cup {NoRow}]
    /\ clock \in Stamps \cup {0}
    /\ pc    \in [Requests -> {"idle", "select", "stamp", "flush", "commit",
                                "refresh", "done"}]
    /\ call  \in [Requests -> Put \cup Get \cup {NoCall}]
    /\ seen  \in [Requests -> Row \cup {NoRow}]
    /\ stamp \in [Requests -> Stamps \cup {0}]
    /\ reply \in [Requests -> Reply]
    /\ puts  \subseteq Put

\* Every column of every record holds what the record's owner sent for that
\* column of that session: overlapping upserts, stale reads, conflicts,
\* rollbacks and restarts never carry a value into another user's record or
\* another session's (service.py's SELECT by user, then UPDATE by key alone).
OwnData ==
    \A s \in Sessions : table[s] # NoRow =>
        \A c \in Columns : \E put \in puts :
            /\ put.session = s
            /\ put.user = table[s].owner
            /\ put.body[c] = table[s].data[c]

\* What an upsert read before its awaits is still good enough to write by
\* after them: the record it found is still there, still its user's, with
\* the creation time it saw, although the UPDATE checks none of these.
StaleReadHolds ==
    \A r \in Requests :
        pc[r] \in {"stamp", "flush", "commit", "refresh"} /\ seen[r] # NoRow =>
            LET row == table[call[r].session] IN
            /\ row # NoRow
            /\ row.owner = call[r].user
            /\ row.created = seen[r].created

\* No answer shows a user a record of another user, a PUT's answer included,
\* which is read back by primary key alone after the commit.
AnswersOwnTenant ==
    \A r \in Requests : reply[r].status = "ok" =>
        /\ reply[r].row # NoRow
        /\ reply[r].row.owner = call[r].user

\* "Idempotent - re-PUT replaces the existing record" (memory/router.py): a
\* record is the body of one PUT, never a blend of two.
WholeRecord ==
    \A s \in Sessions : table[s] # NoRow =>
        \E put \in puts :
            /\ put.session = s
            /\ put.user = table[s].owner
            /\ put.body = table[s].data

\* "if session_id already exists for user_id, update it" (service.py): a PUT
\* fails on the primary key only when the session is another user's.
ConflictOnlyForeign ==
    \A r \in Requests : reply[r].status = "conflict" =>
        table[call[r].session].owner # call[r].user

\* A PUT that succeeds answers with the record it was given.
EchoesPut ==
    \A r \in Requests : reply[r].status = "ok" /\ call[r] \in Put =>
        reply[r].row.data = call[r].body

\* The table evolves as the ledger says: overlaying columns in general,
\* replacing records when a user's PUTs of a session do not overlap.
Ledger == INSTANCE SessionLedger
ImplementsColumns == Ledger!ColumnSpec
ImplementsRecords == Ledger!RecordSpec

\* Every request that is received is answered (or dies with the process):
\* row locks and failed statements leave no handler waiting for ever.
Answered == \A r \in Requests : pc[r] # "idle" ~> pc[r] = "idle"
=============================================================================

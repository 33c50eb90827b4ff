------------------------ MODULE SessionStoreProofs -------------------------
(***************************************************************************)
(* Theorems about SessionStore, for any number of users, sessions,         *)
(* handlers and columns, and any contents of a record.                     *)
(*                                                                         *)
(* The argument has three layers.  TypeOK is inductive by itself.  What    *)
(* holds however requests overlap needs IInv, which says what a handler    *)
(* may still rely on at each of its awaits.  What holds only while no two  *)
(* PUTs of a session overlap needs SInv, which says that a handler is then *)
(* alone with the record it has read.  See their parts below.              *)
(***************************************************************************)
EXTENDS SessionStore, TLAPS

-----------------------------------------------------------------------------
(***************************************************************************)
(* Type correctness.                                                       *)
(***************************************************************************)

\* The initial state is well typed.
LEMMA InitTypeOK == Init => TypeOK
  BY SessionStoreAssumption
  DEF Init, TypeOK, NoReply, Reply

\* The row a commit leaves has the type of a row.
LEMMA WrittenType ==
  ASSUME TypeOK, NEW r \in Requests,
         call[r] \in Put, stamp[r] \in Stamps,
         seen[r] # NoRow => table[call[r].session] # NoRow
  PROVE  Written(r) \in Row
  <1> DEFINE put == call[r]
             old == table[put.session]
  <1>1. /\ put.user \in Users
        /\ put.session \in Sessions
        /\ put.body \in [Columns -> Values]
    BY SessionStoreAssumption DEF Put
  <1>2. CASE seen[r] = NoRow
    BY <1>1, <1>2 DEF Written, Row
  <1>3. CASE seen[r] # NoRow
    <2>1. old \in Row
      BY <1>1, <1>3 DEF TypeOK
    <2>2. [c \in Columns |-> IF c \in Dirty(r) THEN put.body[c] ELSE old.data[c]]
             \in [Columns -> Values]
      BY <1>1, <2>1 DEF Row
    <2> QED
      BY <1>3, <2>1, <2>2 DEF Written, Row
  <1> QED
    BY <1>2, <1>3

\* What a handler's position says of its request: an upsert in progress is
\* serving a PUT, has taken its reading of the clock, and relies on the
\* session being bound if it found it so.
Progress ==
    \A r \in Requests :
        /\ pc[r] \in {"stamp", "flush", "commit", "refresh"} => call[r] \in Put
        /\ pc[r] \in {"flush", "commit", "refresh"} => stamp[r] \in Stamps
        /\ pc[r] \in {"stamp", "flush", "commit", "refresh"} /\ seen[r] # NoRow
              => table[call[r].session] # NoRow
        /\ pc[r] = "refresh" => table[call[r].session] # NoRow

\* Progress and TypeOK are preserved together by every step.
LEMMA NextTypeOK == TypeOK /\ Progress /\ [Next]_vars => TypeOK' /\ Progress'
  <1> SUFFICES ASSUME TypeOK, Progress, [Next]_vars
               PROVE  TypeOK' /\ Progress'
    OBVIOUS
  <1>1. ASSUME NEW r \in Requests, NEW u \in Users, NEW s \in Sessions,
               NEW b \in Bodies, ReceivePut(r, u, s, b)
        PROVE  TypeOK' /\ Progress'
    <2>1. [op |-> "PUT", user |-> u, session |-> s, body |-> b] \in Put
      BY DEF Put
    <2> QED
      BY <1>1, <2>1 DEF ReceivePut, TypeOK, Progress
  <1>2. ASSUME NEW r \in Requests, NEW u \in Users, NEW s \in Sessions,
               ReceiveGet(r, u, s)
        PROVE  TypeOK' /\ Progress'
    <2>1. [op |-> "GET", user |-> u, session |-> s] \in Get
      BY DEF Get
    <2> QED
      BY <1>2, <2>1 DEF ReceiveGet, TypeOK, Progress
  <1>3. ASSUME NEW r \in Requests, Lookup(r)
        PROVE  TypeOK' /\ Progress'
    <2>1. Owned(call[r].user, call[r].session) \in Row \cup {NoRow}
      BY <1>3 DEF Lookup, Owned, TypeOK, Get
    <2> QED
      BY <1>3, <2>1 DEF Lookup, Answer, TypeOK, Progress, Reply
  <1>4. ASSUME NEW r \in Requests, Select(r)
        PROVE  TypeOK' /\ Progress'
    <2>1. /\ Owned(call[r].user, call[r].session) \in Row \cup {NoRow}
          /\ Owned(call[r].user, call[r].session) # NoRow
                => table[call[r].session] # NoRow
      BY <1>4 DEF Select, Owned, TypeOK, Put
    <2> QED
      BY <1>4, <2>1 DEF Select, TypeOK, Progress
  <1>5. ASSUME NEW r \in Requests, TakeStamp(r)
        PROVE  TypeOK' /\ Progress'
    BY <1>5 DEF TakeStamp, TypeOK, Progress
  <1>6. ASSUME NEW r \in Requests, Flush(r)
        PROVE  TypeOK' /\ Progress'
    BY <1>6 DEF Flush, TypeOK, Progress
  <1>7. ASSUME NEW r \in Requests, FlushConflict(r)
        PROVE  TypeOK' /\ Progress'
    BY <1>7 DEF FlushConflict, Answer, TypeOK, Progress, Reply
  <1>8. ASSUME NEW r \in Requests, Commit(r)
        PROVE  TypeOK' /\ Progress'
    <2>1. /\ call[r] \in Put
          /\ call[r].session \in Sessions
          /\ stamp[r] \in Stamps
          /\ seen[r] # NoRow => table[call[r].session] # NoRow
      BY <1>8 DEF Commit, Progress, Put
    <2>2. Written(r) \in Row
      BY <2>1, WrittenType
    <2>3. /\ table' \in [Sessions -> Row \cup {NoRow}]
          /\ \A s \in Sessions : table[s] # NoRow => table'[s] # NoRow
          /\ table'[call[r].session] # NoRow
      BY <1>8, <2>1, <2>2, SessionStoreAssumption DEF Commit, TypeOK
    <2>4. \A q \in Requests : call[q] \in Put => call[q].session \in Sessions
      BY DEF Put
    <2>5. TypeOK'
      BY <1>8, <2>3 DEF Commit, TypeOK
    <2>6. Progress'
      BY <1>8, <2>1, <2>3, <2>4 DEF Commit, TypeOK, Progress
    <2> QED
      BY <2>5, <2>6
  <1>9. ASSUME NEW r \in Requests, Refresh(r)
        PROVE  TypeOK' /\ Progress'
    <2>1. table[call[r].session] \in Row \cup {NoRow}
      BY <1>9 DEF Refresh, Progress, TypeOK, Put
    <2> QED
      BY <1>9, <2>1 DEF Refresh, Answer, TypeOK, Progress, Reply
  <1>10. ASSUME NEW r \in Requests, DbError(r)
         PROVE  TypeOK' /\ Progress'
    BY <1>10 DEF DbError, Answer, TypeOK, Progress, Reply
  <1>11. ASSUME NEW r \in Requests, Respond(r)
         PROVE  TypeOK' /\ Progress'
    BY <1>11 DEF Respond, Idle, TypeOK, Progress, Reply, NoReply
  <1>12. CASE Restart
    BY <1>12 DEF Restart, TypeOK, Progress, Reply, NoReply
  <1>13. CASE UNCHANGED vars
    BY <1>13 DEF vars, TypeOK, Progress
  <1> QED
    BY <1>1, <1>2, <1>3, <1>4, <1>5, <1>6, <1>7, <1>8, <1>9, <1>10, <1>11,
       <1>12, <1>13
    DEF Next, Receive, Serve

\* Every variable keeps its type: in particular no handler ever commits a row
\* that lacks a column, an owner or a reading of the clock.
THEOREM TypeCorrect == Spec => []TypeOK
  <1>1. Init => TypeOK /\ Progress
    BY InitTypeOK DEF Init, Progress
  <1> QED
    BY <1>1, NextTypeOK, PTL DEF Spec

-----------------------------------------------------------------------------
(***************************************************************************)
(* The inductive invariant.                                                *)
(***************************************************************************)

Upserting(r) == pc[r] \in {"stamp", "flush", "commit", "refresh"}

\* A PUT that is being served is in the history.
PutsRecorded == \A r \in Requests :
    pc[r] \in {"select", "stamp", "flush", "commit", "refresh"} /\ call[r] \in Put
        => call[r] \in puts

\* Only a finished handler has an answer.
RepliesLast == \A r \in Requests : pc[r] # "done" => reply[r] = NoReply

\* Readings of the clock lie in its past, and a reading is later than the
\* creation of the record it will update.
Times ==
    /\ \A s \in Sessions : table[s] # NoRow => table[s].created <= clock
    /\ \A r \in Requests : stamp[r] <= clock
    /\ \A r \in Requests : pc[r] \in {"flush", "commit"} /\ seen[r] # NoRow
          => seen[r].created < stamp[r]

\* The row lock: one writer of a session at a time, and the session of an
\* insert is unbound until it commits.
Locks ==
    /\ \A q, r \in Requests :
          /\ pc[q] = "commit" /\ pc[r] = "commit"
          /\ call[q].session = call[r].session
          => q = r
    /\ \A r \in Requests : pc[r] = "commit" /\ seen[r] = NoRow
          => table[call[r].session] = NoRow

\* What the refresh after a commit will read is the caller's.
RefreshOwn == \A r \in Requests :
    pc[r] = "refresh" => /\ table[call[r].session] # NoRow
                         /\ table[call[r].session].owner = call[r].user

IInv ==
    /\ TypeOK /\ Progress
    /\ PutsRecorded /\ RepliesLast /\ Times /\ Locks
    /\ StaleReadHolds /\ RefreshOwn
    /\ OwnData /\ AnswersOwnTenant

LEMMA InitIInv == Init => IInv
  <1> SUFFICES ASSUME Init PROVE IInv
    OBVIOUS
  <1>1. TypeOK /\ Progress
    BY InitTypeOK DEF Init, Progress
  <1>2. PutsRecorded /\ RepliesLast /\ Locks /\ StaleReadHolds /\ RefreshOwn
    BY DEF Init, PutsRecorded, RepliesLast, Locks, StaleReadHolds, RefreshOwn
  <1>3. Times /\ OwnData /\ AnswersOwnTenant
    BY DEF Init, Times, OwnData, AnswersOwnTenant, NoReply
  <1> QED
    BY <1>1, <1>2, <1>3 DEF IInv

\* A commit creates the row of an unbound session, or keeps the owner and the
\* creation time of the row it rewrites.
LEMMA CommitKeeps ==
  ASSUME IInv, NEW r \in Requests, Commit(r)
  PROVE  /\ call[r] \in Put
         /\ call[r].session \in Sessions
         /\ Written(r) \in Row
         /\ table' = [table EXCEPT ![call[r].session] = Written(r)]
         /\ Written(r) # NoRow
         /\ Written(r).owner = call[r].user
         /\ table[call[r].session] = NoRow <=> seen[r] = NoRow
         /\ table[call[r].session] # NoRow =>
               /\ table[call[r].session].owner = call[r].user
               /\ Written(r).created = table[call[r].session].created
               /\ table[call[r].session].created < stamp[r]
         /\ Written(r).created <= clock
  <1>1. /\ call[r] \in Put
        /\ call[r].session \in Sessions
        /\ call[r].user \in Users
        /\ stamp[r] \in Stamps
        /\ seen[r] # NoRow => table[call[r].session] # NoRow
        /\ seen[r] = NoRow => table[call[r].session] = NoRow
    BY DEF IInv, Commit, Progress, Put, Locks
  <1>2. Written(r) \in Row /\ Written(r) # NoRow
    BY <1>1, WrittenType, SessionStoreAssumption DEF IInv
  <1>3. seen[r] # NoRow =>
            /\ table[call[r].session].owner = call[r].user
            /\ table[call[r].session].created = seen[r].created
            /\ seen[r].created < stamp[r]
    BY DEF IInv, Commit, StaleReadHolds, Times
  <1>4. stamp[r] <= clock
    BY DEF IInv, Times
  <1>5. table[call[r].session] # NoRow => table[call[r].session].created <= clock
    BY <1>1 DEF IInv, Times
  <1> QED
    BY <1>1, <1>2, <1>3, <1>4, <1>5 DEF Commit, Written

\* No step but a commit writes the table, and a row once bound keeps its
\* owner and its creation time.
LEMMA RowsKept ==
  ASSUME IInv, [Next]_vars
  PROVE  \A s \in Sessions : table[s] # NoRow =>
            /\ table'[s] # NoRow
            /\ table'[s].owner = table[s].owner
            /\ table'[s].created = table[s].created
  <1>1. ASSUME NEW r \in Requests, Commit(r)
        PROVE  \A s \in Sessions : table[s] # NoRow =>
                  /\ table'[s] # NoRow
                  /\ table'[s].owner = table[s].owner
                  /\ table'[s].created = table[s].created
    BY <1>1, CommitKeeps DEF IInv, TypeOK
  <1>2. CASE UNCHANGED table
    BY <1>2
  <1>3. UNCHANGED table \/ \E r \in Requests : Commit(r)
    BY DEF Next, Receive, Serve, ReceivePut, ReceiveGet, Lookup, Select,
       TakeStamp, Flush, FlushConflict, Refresh, DbError, Respond, Restart, vars
  <1> QED
    BY <1>1, <1>2, <1>3

IInvParts ==
    /\ PutsRecorded /\ RepliesLast /\ Times /\ Locks
    /\ StaleReadHolds /\ RefreshOwn
    /\ OwnData /\ AnswersOwnTenant

\* A step that touches neither the table, the clock nor the history, and
\* moves one handler to "done", to "idle" or to "select" with a new request.
LEMMA ReadOnlyStep ==
  ASSUME IInv, TypeOK', Progress', NEW r \in Requests,
         UNCHANGED <<table, clock, puts>>,
         \A q \in Requests \ {r} : /\ pc'[q] = pc[q]
                                   /\ call'[q] = call[q]
                                   /\ seen'[q] = seen[q]
                                   /\ stamp'[q] = stamp[q]
                                   /\ reply'[q] = reply[q],
         stamp'[r] <= clock,
         \/ pc'[r] = "idle" /\ reply'[r] = NoReply
         \/ pc'[r] = "select" /\ reply'[r] = NoReply /\ call'[r] \notin Put
         \/ /\ pc'[r] = "done"
            /\ reply'[r].status = "ok" =>
                  reply'[r].row # NoRow /\ reply'[r].row.owner = call'[r].user
  PROVE  IInvParts'
  <1>1. PutsRecorded' /\ RepliesLast'
    BY DEF IInv, PutsRecorded, RepliesLast
  <1>2. Times' /\ Locks'
    BY DEF IInv, Times, Locks
  <1>3. StaleReadHolds' /\ RefreshOwn'
    BY DEF IInv, StaleReadHolds, RefreshOwn
  <1>4. OwnData' /\ AnswersOwnTenant'
    BY DEF IInv, OwnData, AnswersOwnTenant, NoReply
  <1> QED
    BY <1>1, <1>2, <1>3, <1>4 DEF IInvParts

LEMMA NextIInv == IInv /\ [Next]_vars => IInv'
  <1> SUFFICES ASSUME IInv, [Next]_vars
               PROVE  IInv'
    OBVIOUS
  <1>0. TypeOK' /\ Progress'
    BY NextTypeOK DEF IInv
  <1> SUFFICES IInvParts'
    BY <1>0 DEF IInv, IInvParts
  <1> USE <1>0
  <1>1. ASSUME NEW r \in Requests, NEW u \in Users, NEW s \in Sessions,
               NEW b \in Bodies, ReceivePut(r, u, s, b)
        PROVE  IInvParts'
    <2> DEFINE put == [op |-> "PUT", user |-> u, session |-> s, body |-> b]
    <2>1. /\ pc' = [pc EXCEPT ![r] = "select"]
          /\ call' = [call EXCEPT ![r] = put]
          /\ puts' = puts \cup {put}
          /\ UNCHANGED <<table, clock, seen, stamp, reply>>
          /\ pc[r] = "idle"
      BY <1>1 DEF ReceivePut
    <2> HIDE DEF put
    <2>2. PutsRecorded' /\ RepliesLast' /\ Times' /\ Locks'
      BY <2>1 DEF IInv, TypeOK, PutsRecorded, RepliesLast, Times, Locks
    <2>3. StaleReadHolds' /\ RefreshOwn'
      BY <2>1 DEF IInv, TypeOK, StaleReadHolds, RefreshOwn
    <2>4. OwnData'
      BY <2>1 DEF IInv, OwnData
    <2>5. AnswersOwnTenant'
      BY <2>1 DEF IInv, TypeOK, RepliesLast, AnswersOwnTenant, NoReply
    <2> QED
      BY <2>2, <2>3, <2>4, <2>5 DEF IInvParts
  <1>2. ASSUME NEW r \in Requests, NEW u \in Users, NEW s \in Sessions,
               ReceiveGet(r, u, s)
        PROVE  IInvParts'
    <2>1. /\ pc'[r] = "select" /\ reply'[r] = NoReply
          /\ call'[r] = [op |-> "GET", user |-> u, session |-> s]
          /\ stamp'[r] <= clock
      BY <1>2 DEF ReceiveGet, IInv, TypeOK, RepliesLast, Times
    <2>2. call'[r] \notin Put
      BY <2>1 DEF Put
    <2>3. /\ UNCHANGED <<table, clock, puts>>
          /\ \A q \in Requests \ {r} : /\ pc'[q] = pc[q]
                                       /\ call'[q] = call[q]
                                       /\ seen'[q] = seen[q]
                                       /\ stamp'[q] = stamp[q]
                                       /\ reply'[q] = reply[q]
      BY <1>2 DEF ReceiveGet, IInv, TypeOK
    <2> QED
      BY <2>1, <2>2, <2>3, ReadOnlyStep
  <1>3. ASSUME NEW r \in Requests, Lookup(r)
        PROVE  IInvParts'
    <2>1. /\ UNCHANGED <<table, clock, puts>>
          /\ \A q \in Requests \ {r} : /\ pc'[q] = pc[q]
                                       /\ call'[q] = call[q]
                                       /\ seen'[q] = seen[q]
                                       /\ stamp'[q] = stamp[q]
                                       /\ reply'[q] = reply[q]
          /\ pc'[r] = "done" /\ call'[r] = call[r]
          /\ stamp'[r] <= clock
      BY <1>3 DEF Lookup, Answer, IInv, TypeOK, Times
    <2>2. reply'[r].status = "ok" =>
              reply'[r].row # NoRow /\ reply'[r].row.owner = call'[r].user
      BY <1>3, <2>1 DEF Lookup, Answer, IInv, TypeOK, Owned
    <2> QED
      BY <2>1, <2>2, ReadOnlyStep
  <1>4. ASSUME NEW r \in Requests, Select(r)
        PROVE  IInvParts'
    <2>1. /\ pc' = [pc EXCEPT ![r] = "stamp"]
          /\ seen' = [seen EXCEPT ![r] = Owned(call[r].user, call[r].session)]
          /\ UNCHANGED <<table, clock, call, stamp, reply, puts>>
          /\ pc[r] = "select" /\ call[r] \in Put
      BY <1>4 DEF Select
    <2>2. PutsRecorded' /\ RepliesLast' /\ Times' /\ Locks'
      BY <2>1 DEF IInv, TypeOK, PutsRecorded, RepliesLast, Times, Locks
    <2>3. StaleReadHolds' /\ RefreshOwn'
      BY <2>1 DEF IInv, TypeOK, StaleReadHolds, RefreshOwn, Owned
    <2>4. OwnData' /\ AnswersOwnTenant'
      BY <2>1 DEF IInv, OwnData, AnswersOwnTenant
    <2> QED
      BY <2>2, <2>3, <2>4 DEF IInvParts
  <1>5. ASSUME NEW r \in Requests, TakeStamp(r)
        PROVE  IInvParts'
    <2>1. /\ pc' = [pc EXCEPT ![r] = "flush"]
          /\ stamp' = [stamp EXCEPT ![r] = clock + 1]
          /\ clock' = clock + 1
          /\ clock \in Nat
          /\ UNCHANGED <<table, call, seen, reply, puts>>
          /\ pc[r] = "stamp" /\ call[r] \in Put
      BY <1>5, SessionStoreAssumption DEF TakeStamp, IInv, TypeOK, Progress
    <2>2. PutsRecorded' /\ RepliesLast' /\ Locks'
      BY <2>1 DEF IInv, TypeOK, PutsRecorded, RepliesLast, Locks
    <2>3. Times'
      <3>1. \A s \in Sessions : table[s] # NoRow => table[s].created \in Nat
        BY SessionStoreAssumption DEF IInv, TypeOK, Row
      <3>2. \A q \in Requests : stamp[q] \in Nat
        <4>1. \A n \in Stamps \cup {0} : n \in Nat
          BY SessionStoreAssumption
        <4>2. \A q \in Requests : stamp[q] \in Stamps \cup {0}
          BY DEF IInv, TypeOK
        <4> QED
          BY <4>1, <4>2
      <3>3. call[r].session \in Sessions
        BY <2>1 DEF Put
      <3>4. seen[r] # NoRow => seen[r].created < clock + 1
        BY <2>1, <3>1, <3>3 DEF IInv, StaleReadHolds, Times
      <3> QED
        BY <2>1, <3>1, <3>2, <3>4 DEF IInv, TypeOK, Times
    <2>4. StaleReadHolds' /\ RefreshOwn'
      BY <2>1 DEF IInv, TypeOK, StaleReadHolds, RefreshOwn
    <2>5. OwnData' /\ AnswersOwnTenant'
      BY <2>1 DEF IInv, OwnData, AnswersOwnTenant
    <2> QED
      BY <2>2, <2>3, <2>4, <2>5 DEF IInvParts
  <1>6. ASSUME NEW r \in Requests, Flush(r)
        PROVE  IInvParts'
    <2>1. /\ pc' = [pc EXCEPT ![r] = "commit"]
          /\ UNCHANGED <<table, clock, call, seen, stamp, reply, puts>>
          /\ pc[r] = "flush" /\ ~Locked(call[r].session)
          /\ seen[r] # NoRow \/ table[call[r].session] = NoRow
      BY <1>6 DEF Flush
    <2>2. PutsRecorded' /\ RepliesLast'
      BY <2>1 DEF IInv, TypeOK, PutsRecorded, RepliesLast
    <2>3. Times'
      BY <2>1 DEF IInv, TypeOK, Times
    <2>4. Locks'
      BY <2>1 DEF IInv, TypeOK, Locks, Locked
    <2>5. StaleReadHolds' /\ RefreshOwn'
      BY <2>1 DEF IInv, TypeOK, StaleReadHolds, RefreshOwn
    <2>6. OwnData' /\ AnswersOwnTenant'
      BY <2>1 DEF IInv, OwnData, AnswersOwnTenant
    <2> QED
      BY <2>2, <2>3, <2>4, <2>5, <2>6 DEF IInvParts
  <1>7. ASSUME NEW r \in Requests, FlushConflict(r) \/ DbError(r)
        PROVE  IInvParts'
    <2>1. /\ UNCHANGED <<table, clock, puts>>
          /\ \A q \in Requests \ {r} : /\ pc'[q] = pc[q]
                                       /\ call'[q] = call[q]
                                       /\ seen'[q] = seen[q]
                                       /\ stamp'[q] = stamp[q]
                                       /\ reply'[q] = reply[q]
          /\ pc'[r] = "done"
          /\ reply'[r].status # "ok"
          /\ stamp'[r] <= clock
      BY <1>7 DEF FlushConflict, DbError, Answer, IInv, TypeOK, Times
    <2> QED
      BY <2>1, ReadOnlyStep
  <1>8. ASSUME NEW r \in Requests, Commit(r)
        PROVE  IInvParts'
    <2> DEFINE w == Written(r)
    <2>1. /\ pc' = [pc EXCEPT ![r] = "refresh"]
          /\ UNCHANGED <<clock, call, seen, stamp, reply, puts>>
          /\ pc[r] = "commit"
          /\ call[r] \in puts
      BY <1>8 DEF Commit, IInv, PutsRecorded, Progress
    <2>2. /\ call[r] \in Put
          /\ call[r].session \in Sessions
          /\ table' = [table EXCEPT ![call[r].session] = w]
          /\ w # NoRow
          /\ w.owner = call[r].user
          /\ w.created <= clock
      BY <1>8, CommitKeeps
    <2>3. PutsRecorded' /\ RepliesLast'
      BY <2>1 DEF IInv, TypeOK, PutsRecorded, RepliesLast
    <2>4. Times'
      BY <2>1, <2>2 DEF IInv, TypeOK, Times
    <2>5. Locks'
      BY <2>1, <2>2 DEF IInv, TypeOK, Locks, Progress, Put
    <2>6. StaleReadHolds' /\ RefreshOwn'
      <3>1. \A q \in Requests : Upserting(q) => call[q].session \in Sessions
        BY DEF IInv, Progress, Put, Upserting
      <3>2. StaleReadHolds'
        <4> SUFFICES ASSUME NEW q \in Requests, Upserting(q)', seen'[q] # NoRow
                     PROVE  /\ table'[call[q].session] # NoRow
                            /\ table'[call[q].session].owner = call[q].user
                            /\ table'[call[q].session].created = seen[q].created
          BY <2>1 DEF StaleReadHolds, Upserting
        <4>1. Upserting(q) /\ seen[q] # NoRow
          BY <2>1 DEF Upserting, IInv, TypeOK
        <4> QED
          BY <4>1, <3>1, RowsKept DEF IInv, StaleReadHolds, Upserting
      <3>3. RefreshOwn'
        <4> SUFFICES ASSUME NEW q \in Requests, pc'[q] = "refresh"
                     PROVE  /\ table'[call[q].session] # NoRow
                            /\ table'[call[q].session].owner = call[q].user
          BY <2>1 DEF RefreshOwn
        <4>1. CASE q = r
          BY <4>1, <2>2 DEF IInv, TypeOK
        <4>2. CASE q # r
          BY <4>2, <2>1, <3>1, RowsKept DEF IInv, TypeOK, RefreshOwn, Upserting
        <4> QED
          BY <4>1, <4>2
      <3> QED
        BY <3>2, <3>3
    <2>7. OwnData'
      <3> SUFFICES ASSUME NEW s \in Sessions, table'[s] # NoRow, NEW c \in Columns
                   PROVE  \E put \in puts : /\ put.session = s
                                            /\ put.user = table'[s].owner
                                            /\ put.body[c] = table'[s].data[c]
        BY <2>1 DEF OwnData
      <3>1. CASE s # call[r].session
        BY <3>1, <2>2 DEF IInv, TypeOK, OwnData
      <3>2. CASE s = call[r].session /\ w.data[c] = call[r].body[c]
        BY <3>2, <2>1, <2>2 DEF IInv, TypeOK
      <3>3. CASE s = call[r].session /\ w.data[c] # call[r].body[c]
        <4>1. /\ seen[r] # NoRow
              /\ table[s] # NoRow
              /\ w.data[c] = table[s].data[c]
          BY <3>3, <1>8, CommitKeeps DEF Written
        <4>2. table[s].owner = w.owner
          BY <4>1, <3>3, <1>8, CommitKeeps
        <4> QED
          BY <4>1, <4>2, <3>3, <2>2 DEF IInv, TypeOK, OwnData
      <3> QED
        BY <3>1, <3>2, <3>3
    <2>8. AnswersOwnTenant'
      BY <2>1 DEF IInv, AnswersOwnTenant
    <2> QED
      BY <2>3, <2>4, <2>5, <2>6, <2>7, <2>8 DEF IInvParts
  <1>9. ASSUME NEW r \in Requests, Refresh(r)
        PROVE  IInvParts'
    <2>1. /\ UNCHANGED <<table, clock, puts>>
          /\ \A q \in Requests \ {r} : /\ pc'[q] = pc[q]
                                       /\ call'[q] = call[q]
                                       /\ seen'[q] = seen[q]
                                       /\ stamp'[q] = stamp[q]
                                       /\ reply'[q] = reply[q]
          /\ pc'[r] = "done" /\ call'[r] = call[r]
          /\ reply'[r].row = table[call[r].session]
          /\ stamp'[r] <= clock
          /\ pc[r] = "refresh"
      BY <1>9 DEF Refresh, Answer, IInv, TypeOK, Times
    <2>2. reply'[r].row # NoRow /\ reply'[r].row.owner = call'[r].user
      BY <2>1 DEF IInv, RefreshOwn
    <2> QED
      BY <2>1, <2>2, ReadOnlyStep
  <1>10. ASSUME NEW r \in Requests, Respond(r)
         PROVE  IInvParts'
    <2>1. /\ UNCHANGED <<table, clock, puts>>
          /\ \A q \in Requests \ {r} : /\ pc'[q] = pc[q]
                                       /\ call'[q] = call[q]
                                       /\ seen'[q] = seen[q]
                                       /\ stamp'[q] = stamp[q]
                                       /\ reply'[q] = reply[q]
          /\ pc'[r] = "idle" /\ reply'[r] = NoReply
          /\ stamp'[r] = 0 /\ clock \in Nat
      BY <1>10, SessionStoreAssumption DEF Respond, Idle, IInv, TypeOK
    <2> QED
      BY <2>1, ReadOnlyStep
  <1>11. CASE Restart
    <2>1. /\ UNCHANGED <<table, clock, puts>>
          /\ clock \in Nat
          /\ \A r \in Requests : pc'[r] = "idle" /\ reply'[r] = NoReply
                                 /\ stamp'[r] = 0
      BY <1>11, SessionStoreAssumption DEF Restart, IInv, TypeOK
    <2>2. PutsRecorded' /\ RepliesLast' /\ Times' /\ Locks'
      BY <2>1 DEF IInv, PutsRecorded, RepliesLast, Times, Locks
    <2>3. StaleReadHolds' /\ RefreshOwn' /\ OwnData' /\ AnswersOwnTenant'
      BY <2>1 DEF IInv, StaleReadHolds, RefreshOwn, OwnData, AnswersOwnTenant,
         NoReply
    <2> QED
      BY <2>2, <2>3 DEF IInvParts
  <1>12. CASE UNCHANGED vars
    BY <1>12 DEF vars, IInv, IInvParts, PutsRecorded, RepliesLast, Times, Locks,
       StaleReadHolds, RefreshOwn, OwnData, AnswersOwnTenant
  <1> QED
    BY <1>1, <1>2, <1>3, <1>4, <1>5, <1>6, <1>7, <1>8, <1>9, <1>10, <1>11, <1>12
    DEF Next, Receive, Serve

-----------------------------------------------------------------------------
(***************************************************************************)
(* The properties the runs check, for every value of the constants.        *)
(***************************************************************************)

THEOREM Inductive == Spec => []IInv
  BY InitIInv, NextIInv, PTL DEF Spec

\* No interleaving, failure or restart carries a value into another user's
\* record or another session's.
THEOREM OwnDataHolds == Spec => []OwnData
  <1>1. IInv => OwnData
    BY DEF IInv
  <1> QED
    BY <1>1, Inductive, PTL

\* The record an upsert read before its awaits is good enough to write by
\* after them, although the UPDATE names it by primary key alone.
THEOREM StaleReadIsSafe == Spec => []StaleReadHolds
  <1>1. IInv => StaleReadHolds
    BY DEF IInv
  <1> QED
    BY <1>1, Inductive, PTL

\* No answer, of a GET or of a PUT, shows a record of another tenant.
THEOREM TenantIsolation == Spec => []AnswersOwnTenant
  <1>1. IInv => AnswersOwnTenant
    BY DEF IInv
  <1> QED
    BY <1>1, Inductive, PTL

\* A step of the service is a step of the ledger or leaves the table alone.
LEMMA StepImplementsColumns ==
  ASSUME IInv, [Next]_vars
  PROVE  [Ledger!ColumnNext]_table
  <1>1. ASSUME NEW r \in Requests, Commit(r)
        PROVE  Ledger!ColumnNext
    <2> DEFINE u == call[r].user
               s == call[r].session
               b == call[r].body
               t == stamp[r]
    <2>1. /\ u \in Users /\ s \in Sessions /\ b \in Bodies /\ t \in Stamps
      BY <1>1, CommitKeeps DEF Put, Commit, IInv, Progress
    <2>2. table' = [table EXCEPT ![s] = Written(r)]
      BY <1>1, CommitKeeps
    <2>3. CASE seen[r] = NoRow
      <3>1. table[s] = NoRow
        BY <2>3, <1>1, CommitKeeps
      <3>2. Written(r) = [owner |-> u, data |-> b, created |-> t, updated |-> t]
        BY <2>3 DEF Written
      <3>3. Ledger!Create(u, s, b, t)
        BY <3>1, <3>2, <2>2 DEF Ledger!Create
      <3> QED
        BY <3>3, <2>1 DEF Ledger!ColumnNext
    <2>4. CASE seen[r] # NoRow
      <3>1. /\ table[s] # NoRow
            /\ table[s].owner = u
            /\ table[s].created < t
        BY <2>4, <1>1, CommitKeeps
      <3>2. Written(r) = [owner   |-> u,
                          data    |-> Ledger!Overlay(table[s].data, b, Dirty(r)),
                          created |-> table[s].created,
                          updated |-> t]
        BY <2>4, <3>1 DEF Written, Ledger!Overlay
      <3>3. Ledger!Rewrite(u, s, b, t, Dirty(r))
        BY <3>1, <3>2, <2>2 DEF Ledger!Rewrite
      <3>4. Dirty(r) \in SUBSET Columns
        BY DEF Dirty
      <3> QED
        BY <3>3, <3>4, <2>1 DEF Ledger!ColumnNext
    <2> QED
      BY <2>3, <2>4
  <1>2. UNCHANGED table \/ \E r \in Requests : Commit(r)
    BY DEF Next, Receive, Serve, ReceivePut, ReceiveGet, Lookup, Select,
       TakeStamp, Flush, FlushConflict, Refresh, DbError, Respond, Restart, vars
  <1> QED
    BY <1>1, <1>2

\* The service implements the ledger: whatever overlaps, fails or restarts,
\* the table changes only by a creation or by an owner's overlay of columns
\* that keeps the creation time and moves updated_at past it.
THEOREM ColumnsRefinement == Spec => ImplementsColumns
  <1>1. Init => Ledger!LedgerInit
    BY DEF Init, Ledger!LedgerInit
  <1>2. IInv /\ [Next]_vars => [Ledger!ColumnNext]_table
    BY StepImplementsColumns
  <1> QED
    BY <1>1, <1>2, Inductive, PTL DEF Spec, ImplementsColumns, Ledger!ColumnSpec

-----------------------------------------------------------------------------
(***************************************************************************)
(* Without overlap: a user has at most one PUT of a session in flight.     *)
(* The stronger promises of the docstrings hold then, on top of IInv,      *)
(* because what a handler read stays what the table holds: a row is        *)
(* written by its owner only, and the owner's other handlers leave the     *)
(* session alone.                                                          *)
(***************************************************************************)

\* One PUT of a session by a user at a time.
Alone == \A q, r \in Requests :
    /\ pc[q] # "idle" /\ pc[r] # "idle"
    /\ call[q] \in Put /\ call[r] \in Put
    /\ call[q].user = call[r].user /\ call[q].session = call[r].session
    => q = r

\* The record an upsert read is the one it will write over; a record it did
\* not find is still missing, or is another user's.
SeenCurrent == \A r \in Requests :
    pc[r] \in {"stamp", "flush", "commit"} =>
        \/ seen[r] # NoRow /\ table[call[r].session] = seen[r]
        \/ seen[r] = NoRow /\ table[call[r].session] = NoRow
        \/ seen[r] = NoRow /\ table[call[r].session].owner # call[r].user

\* Until it is read back, the record a PUT wrote is the body it was given.
WroteAll == \A r \in Requests :
    pc[r] = "refresh" => table[call[r].session].data = call[r].body

\* A PUT that met the primary key met a record of another user.
Conflicts == \A r \in Requests :
    reply[r].status = "conflict" =>
        /\ call[r] \in Put
        /\ table[call[r].session] # NoRow
        /\ table[call[r].session].owner # call[r].user

SInvParts ==
    /\ Alone /\ SeenCurrent /\ WroteAll /\ Conflicts
    /\ WholeRecord /\ EchoesPut

SInv == ~Overlap /\ IInv /\ SInvParts

LEMMA InitSInv == ~Overlap /\ Init => SInv
  <1> SUFFICES ASSUME ~Overlap, Init PROVE SInv
    OBVIOUS
  <1>1. Alone /\ SeenCurrent /\ WroteAll
    BY DEF Init, Alone, SeenCurrent, WroteAll
  <1>2. Conflicts /\ WholeRecord /\ EchoesPut
    BY DEF Init, Conflicts, WholeRecord, EchoesPut, NoReply
  <1> QED
    BY <1>1, <1>2, InitIInv DEF SInv, SInvParts

\* A GET is no PUT, and neither is the call of an idle handler.
LEMMA OnlyPuts == /\ \A x \in Get : x \notin Put
                  /\ NoCall \notin Put
                  /\ \A x \in Put : x.session \in Sessions /\ x.user \in Users
  BY DEF Get, Put, NoCall

\* A commit replaces the whole record: the columns left out of the UPDATE are
\* those in which the record already holds what the body says.
LEMMA WrittenWhole ==
  ASSUME SInv, NEW r \in Requests, Commit(r)
  PROVE  Written(r).data = call[r].body
  <1>1. call[r] \in Put /\ pc[r] = "commit"
    BY CommitKeeps DEF SInv, Commit
  <1>2. call[r].body \in [Columns -> Values]
    BY <1>1, SessionStoreAssumption DEF Put
  <1>3. CASE seen[r] = NoRow
    BY <1>3 DEF Written
  <1>4. CASE seen[r] # NoRow
    <2> DEFINE old == table[call[r].session]
    <2>1. old = seen[r]
      BY <1>1, <1>4 DEF SInv, SInvParts, SeenCurrent
    <2>2. Written(r).data =
            [c \in Columns |-> IF c \in Dirty(r) THEN call[r].body[c]
                                                 ELSE old.data[c]]
      BY <1>4 DEF Written
    <2>3. \A c \in Columns : c \notin Dirty(r) => old.data[c] = call[r].body[c]
      BY <2>1 DEF Dirty
    <2>4. Written(r).data = [c \in Columns |-> call[r].body[c]]
      BY <2>2, <2>3
    <2> QED
      BY <2>4, <1>2
  <1> QED
    BY <1>3, <1>4

\* Who writes a session another handler is upserting is another user.
LEMMA CommitForeign ==
  ASSUME SInv, NEW q \in Requests, Commit(q), NEW r \in Requests \ {q},
         pc[r] # "idle", call[r] \in Put, call[r].session = call[q].session
  PROVE  /\ Written(q).owner # call[r].user
         /\ table[call[q].session] # NoRow =>
                table[call[q].session].owner # call[r].user
  <1>1. call[q] \in Put /\ pc[q] = "commit"
    BY CommitKeeps DEF SInv, Commit
  <1>2. call[q].user # call[r].user
    BY <1>1 DEF SInv, SInvParts, Alone
  <1> QED
    BY <1>2, CommitKeeps DEF SInv

\* A step that leaves the table and the history alone and ends the request of
\* one handler, or gives it one that is no PUT.
LEMMA QuietStep ==
  ASSUME SInv, NEW r \in Requests,
         UNCHANGED <<table, puts>>,
         \A q \in Requests \ {r} : /\ pc'[q] = pc[q]
                                   /\ call'[q] = call[q]
                                   /\ seen'[q] = seen[q]
                                   /\ reply'[q] = reply[q],
         \/ pc'[r] = "idle" /\ reply'[r] = NoReply
         \/ pc'[r] = "select" /\ reply'[r] = NoReply /\ call'[r] \notin Put
         \/ /\ pc'[r] = "done" /\ pc[r] # "idle" /\ call'[r] = call[r]
            /\ reply'[r].status = "ok" /\ call[r] \in Put =>
                  reply'[r].row.data = call[r].body
            /\ reply'[r].status = "conflict" =>
                  /\ call[r] \in Put
                  /\ table[call[r].session] # NoRow
                  /\ table[call[r].session].owner # call[r].user
  PROVE  SInvParts'
  <1>1. Alone'
    BY DEF SInv, SInvParts, Alone
  <1>2. SeenCurrent' /\ WroteAll'
    BY DEF SInv, SInvParts, SeenCurrent, WroteAll
  <1>3. Conflicts'
    BY DEF SInv, SInvParts, Conflicts, NoReply
  <1>4. WholeRecord'
    BY DEF SInv, SInvParts, WholeRecord
  <1>5. EchoesPut'
    BY DEF SInv, SInvParts, EchoesPut, NoReply
  <1> QED
    BY <1>1, <1>2, <1>3, <1>4, <1>5 DEF SInvParts

\* A commit writes one row: the others' reads of it stay current, since they
\* found nothing there that is theirs.
LEMMA CommitKeepsSInv ==
  ASSUME SInv, IInv', NEW q \in Requests, Commit(q)
  PROVE  SInvParts'
  <1> DEFINE s == call[q].session
  <1>1. /\ pc[q] = "commit"
        /\ pc' = [pc EXCEPT ![q] = "refresh"]
        /\ UNCHANGED <<clock, call, seen, stamp, reply, puts>>
        /\ table' = [table EXCEPT ![s] = Written(q)]
        /\ call[q] \in Put /\ s \in Sessions
        /\ Written(q) # NoRow
        /\ Written(q).owner = call[q].user
        /\ Written(q).data = call[q].body
    BY CommitKeeps, WrittenWhole DEF SInv, Commit
  <1>2. /\ table'[s] = Written(q)
        /\ \A x \in Sessions : x # s => table'[x] = table[x]
        /\ pc'[q] = "refresh"
        /\ \A r \in Requests : r # q => pc'[r] = pc[r]
    BY <1>1 DEF SInv, IInv, TypeOK
  <1> HIDE DEF s
  <1>3. Alone'
    BY <1>1, <1>2 DEF SInv, SInvParts, Alone
  <1>4. SeenCurrent'
    <2> SUFFICES ASSUME NEW r \in Requests, pc'[r] \in {"stamp", "flush", "commit"}
                 PROVE  \/ seen[r] # NoRow /\ table'[call[r].session] = seen[r]
                        \/ seen[r] = NoRow /\ table'[call[r].session] = NoRow
                        \/ /\ seen[r] = NoRow
                           /\ table'[call[r].session].owner # call[r].user
      BY <1>1 DEF SeenCurrent
    <2>1. r # q /\ pc[r] \in {"stamp", "flush", "commit"}
      BY <1>2
    <2>2. call[r] \in Put /\ call[r].session \in Sessions
      BY <2>1, OnlyPuts DEF SInv, IInv, Progress
    <2>3. CASE call[r].session # s
      BY <1>2, <2>1, <2>2, <2>3 DEF SInv, SInvParts, SeenCurrent
    <2>4. CASE call[r].session = s
      <3>1. /\ Written(q).owner # call[r].user
            /\ table[s] # NoRow => table[s].owner # call[r].user
        BY <2>1, <2>2, <2>4, CommitForeign DEF s
      <3>2. seen[r] # NoRow => table[s] # NoRow /\ table[s].owner = call[r].user
        BY <2>1, <2>4 DEF SInv, IInv, StaleReadHolds
      <3> QED
        BY <1>2, <2>4, <3>1, <3>2
    <2> QED
      BY <2>3, <2>4
  <1>5. WroteAll'
    <2> SUFFICES ASSUME NEW r \in Requests, pc'[r] = "refresh"
                 PROVE  table'[call[r].session].data = call[r].body
      BY <1>1 DEF WroteAll
    <2>1. CASE r = q
      BY <2>1, <1>1, <1>2 DEF s
    <2>2. CASE r # q
      <3>1. pc[r] = "refresh"
        BY <2>2, <1>2
      <3>2. call[r] \in Put /\ call[r].session \in Sessions
        BY <3>1, OnlyPuts DEF SInv, IInv, Progress
      <3>3. call[r].session # s
        BY <2>2, <3>1, <3>2, CommitForeign DEF SInv, IInv, RefreshOwn, s
      <3> QED
        BY <3>1, <3>2, <3>3, <1>2 DEF SInv, SInvParts, WroteAll
    <2> QED
      BY <2>1, <2>2
  <1>6. Conflicts'
    <2> SUFFICES ASSUME NEW r \in Requests, reply[r].status = "conflict"
                 PROVE  /\ call[r] \in Put
                        /\ table'[call[r].session] # NoRow
                        /\ table'[call[r].session].owner # call[r].user
      BY <1>1 DEF Conflicts
    <2>1. /\ call[r] \in Put /\ call[r].session \in Sessions
          /\ table[call[r].session] # NoRow
          /\ table[call[r].session].owner # call[r].user
      BY OnlyPuts DEF SInv, SInvParts, Conflicts
    <2>2. Written(q).owner = table[s].owner \/ table[s] = NoRow
      BY CommitKeeps DEF SInv, s
    <2> QED
      BY <2>1, <2>2, <1>1, <1>2
  <1>7. WholeRecord'
    <2> SUFFICES ASSUME NEW x \in Sessions, table'[x] # NoRow
                 PROVE  \E put \in puts : /\ put.session = x
                                          /\ put.user = table'[x].owner
                                          /\ put.body = table'[x].data
      BY <1>1 DEF WholeRecord
    <2>1. CASE x = s
      <3>1. call[q] \in puts
        BY <1>1 DEF SInv, IInv, PutsRecorded
      <3> QED
        BY <2>1, <3>1, <1>1, <1>2 DEF s
    <2>2. CASE x # s
      BY <2>2, <1>2 DEF SInv, SInvParts, WholeRecord
    <2> QED
      BY <2>1, <2>2
  <1>8. EchoesPut'
    BY <1>1 DEF SInv, SInvParts, EchoesPut
  <1> QED
    BY <1>3, <1>4, <1>5, <1>6, <1>7, <1>8 DEF SInvParts

LEMMA NextSInv == SInv /\ [Next]_vars => SInv'
  <1> SUFFICES ASSUME SInv, [Next]_vars
               PROVE  SInv'
    OBVIOUS
  <1>0. IInv'
    BY NextIInv DEF SInv
  <1> SUFFICES SInvParts'
    BY <1>0 DEF SInv
  <1>1. ASSUME NEW r \in Requests, NEW u \in Users, NEW s \in Sessions,
               NEW b \in Bodies, ReceivePut(r, u, s, b)
        PROVE  SInvParts'
    <2> DEFINE put == [op |-> "PUT", user |-> u, session |-> s, body |-> b]
    <2>1. /\ pc[r] = "idle" /\ pc' = [pc EXCEPT ![r] = "select"]
          /\ call' = [call EXCEPT ![r] = put]
          /\ puts' = puts \cup {put}
          /\ UNCHANGED <<table, clock, seen, stamp, reply>>
          /\ put.user = u /\ put.session = s
          /\ reply[r] = NoReply
      BY <1>1 DEF ReceivePut, SInv, IInv, RepliesLast
    <2>2. \A q \in Requests : ~(pc[q] # "idle" /\ call[q] \in Put
                                  /\ call[q].user = u /\ call[q].session = s)
      BY <1>1 DEF ReceivePut, MayPut, SInv
    <2>3. /\ call'[r] = put /\ pc'[r] = "select"
          /\ \A q \in Requests : q # r => call'[q] = call[q] /\ pc'[q] = pc[q]
      BY <2>1 DEF SInv, IInv, TypeOK
    <2> HIDE DEF put
    <2>4. Alone'
      BY <2>1, <2>2, <2>3 DEF SInv, SInvParts, Alone
    <2>5. SeenCurrent' /\ WroteAll'
      BY <2>1, <2>3 DEF SInv, SInvParts, SeenCurrent, WroteAll
    <2>6. Conflicts' /\ EchoesPut'
      BY <2>1, <2>3 DEF SInv, SInvParts, Conflicts, EchoesPut, NoReply
    <2>7. WholeRecord'
      BY <2>1 DEF SInv, SInvParts, WholeRecord
    <2> QED
      BY <2>4, <2>5, <2>6, <2>7 DEF SInvParts
  <1>2. ASSUME NEW r \in Requests, NEW u \in Users, NEW s \in Sessions,
               ReceiveGet(r, u, s)
        PROVE  SInvParts'
    <2>1. /\ UNCHANGED <<table, puts>>
          /\ \A q \in Requests \ {r} : /\ pc'[q] = pc[q]
                                       /\ call'[q] = call[q]
                                       /\ seen'[q] = seen[q]
                                       /\ reply'[q] = reply[q]
          /\ pc'[r] = "select" /\ reply'[r] = NoReply
          /\ call'[r] = [op |-> "GET", user |-> u, session |-> s]
      BY <1>2 DEF ReceiveGet, SInv, IInv, TypeOK, RepliesLast
    <2>2. call'[r] \notin Put
      BY <2>1 DEF Put
    <2> QED
      BY <2>1, <2>2, QuietStep
  <1>3. ASSUME NEW r \in Requests, Lookup(r)
        PROVE  SInvParts'
    <2>1. /\ UNCHANGED <<table, puts>>
          /\ \A q \in Requests \ {r} : /\ pc'[q] = pc[q]
                                       /\ call'[q] = call[q]
                                       /\ seen'[q] = seen[q]
                                       /\ reply'[q] = reply[q]
          /\ pc'[r] = "done" /\ pc[r] # "idle" /\ call'[r] = call[r]
          /\ reply'[r].status # "conflict"
          /\ call[r] \notin Put
      BY <1>3, OnlyPuts DEF Lookup, Answer, SInv, IInv, TypeOK
    <2> QED
      BY <2>1, QuietStep
  <1>4. ASSUME NEW r \in Requests, Select(r) \/ TakeStamp(r) \/ Flush(r)
        PROVE  SInvParts'
    <2>1. /\ UNCHANGED <<table, call, reply, puts>>
          /\ \A q \in Requests \ {r} : pc'[q] = pc[q] /\ seen'[q] = seen[q]
          /\ pc[r] \in {"select", "stamp", "flush"}
          /\ pc'[r] \in {"stamp", "flush", "commit"}
          /\ \/ seen'[r] = Owned(call[r].user, call[r].session)
             \/ pc[r] # "select" /\ seen'[r] = seen[r]
      BY <1>4 DEF Select, TakeStamp, Flush, SInv, IInv, TypeOK
    <2>2. Alone' /\ WroteAll'
      BY <2>1 DEF SInv, SInvParts, Alone, WroteAll
    <2>3. SeenCurrent'
      BY <2>1 DEF SInv, SInvParts, SeenCurrent, Owned
    <2>4. Conflicts' /\ EchoesPut' /\ WholeRecord'
      BY <2>1 DEF SInv, SInvParts, Conflicts, EchoesPut, WholeRecord
    <2> QED
      BY <2>2, <2>3, <2>4 DEF SInvParts
  <1>5. ASSUME NEW r \in Requests, FlushConflict(r)
        PROVE  SInvParts'
    <2>1. /\ UNCHANGED <<table, puts>>
          /\ \A q \in Requests \ {r} : /\ pc'[q] = pc[q]
                                       /\ call'[q] = call[q]
                                       /\ seen'[q] = seen[q]
                                       /\ reply'[q] = reply[q]
          /\ pc'[r] = "done" /\ pc[r] = "flush" /\ call'[r] = call[r]
          /\ reply'[r].status = "conflict"
          /\ seen[r] = NoRow /\ table[call[r].session] # NoRow
          /\ call[r] \in Put
      BY <1>5 DEF FlushConflict, Answer, SInv, IInv, TypeOK, Progress
    <2>2. table[call[r].session].owner # call[r].user
      BY <2>1 DEF SInv, SInvParts, SeenCurrent
    <2> QED
      BY <2>1, <2>2, QuietStep
  <1>6. ASSUME NEW r \in Requests, Commit(r)
        PROVE  SInvParts'
    BY <1>0, <1>6, CommitKeepsSInv
  <1>7. ASSUME NEW r \in Requests, Refresh(r)
        PROVE  SInvParts'
    <2>1. /\ UNCHANGED <<table, puts>>
          /\ \A q \in Requests \ {r} : /\ pc'[q] = pc[q]
                                       /\ call'[q] = call[q]
                                       /\ seen'[q] = seen[q]
                                       /\ reply'[q] = reply[q]
          /\ pc'[r] = "done" /\ pc[r] = "refresh" /\ call'[r] = call[r]
          /\ reply'[r].status = "ok"
          /\ reply'[r].row = table[call[r].session]
      BY <1>7 DEF Refresh, Answer, SInv, IInv, TypeOK
    <2>2. reply'[r].row.data = call[r].body
      BY <2>1 DEF SInv, SInvParts, WroteAll
    <2> QED
      BY <2>1, <2>2, QuietStep
  <1>8. ASSUME NEW r \in Requests, DbError(r)
        PROVE  SInvParts'
    <2>1. /\ UNCHANGED <<table, puts>>
          /\ \A q \in Requests \ {r} : /\ pc'[q] = pc[q]
                                       /\ call'[q] = call[q]
                                       /\ seen'[q] = seen[q]
                                       /\ reply'[q] = reply[q]
          /\ pc'[r] = "done" /\ pc[r] # "idle" /\ call'[r] = call[r]
          /\ reply'[r].status = "error"
      BY <1>8 DEF DbError, Answer, SInv, IInv, TypeOK
    <2> QED
      BY <2>1, QuietStep
  <1>9. ASSUME NEW r \in Requests, Respond(r)
        PROVE  SInvParts'
    <2>1. /\ UNCHANGED <<table, puts>>
          /\ \A q \in Requests \ {r} : /\ pc'[q] = pc[q]
                                       /\ call'[q] = call[q]
                                       /\ seen'[q] = seen[q]
                                       /\ reply'[q] = reply[q]
          /\ pc'[r] = "idle" /\ reply'[r] = NoReply
      BY <1>9 DEF Respond, Idle, SInv, IInv, TypeOK
    <2> QED
      BY <2>1, QuietStep
  <1>10. CASE Restart
    <2>1. /\ UNCHANGED <<table, puts>>
          /\ \A r \in Requests : pc'[r] = "idle" /\ reply'[r] = NoReply
      BY <1>10 DEF Restart
    <2>2. Alone' /\ SeenCurrent' /\ WroteAll'
      BY <2>1 DEF Alone, SeenCurrent, WroteAll
    <2>3. Conflicts' /\ EchoesPut' /\ WholeRecord'
      BY <2>1 DEF SInv, SInvParts, Conflicts, EchoesPut, WholeRecord, NoReply
    <2> QED
      BY <2>2, <2>3 DEF SInvParts
  <1>11. CASE UNCHANGED vars
    BY <1>11 DEF vars, SInv, SInvParts, Alone, SeenCurrent, WroteAll, Conflicts,
       WholeRecord, EchoesPut
  <1> QED
    BY <1>1, <1>2, <1>3, <1>4, <1>5, <1>6, <1>7, <1>8, <1>9, <1>10, <1>11
    DEF Next, Receive, Serve

\* Where no user's PUTs of a session overlap, an upsert writes over exactly
\* what it read, whatever other users and failures do in between.
THEOREM SerialInductive == ~Overlap /\ Spec => []SInv
  BY InitSInv, NextSInv, PTL DEF Spec

\* "Re-PUT replaces the existing record": a record is the body of one PUT.
THEOREM RecordsAreWhole == ~Overlap /\ Spec => []WholeRecord
  <1>1. SInv => WholeRecord
    BY DEF SInv, SInvParts
  <1> QED
    BY <1>1, SerialInductive, PTL

\* A PUT fails on the primary key only when the session is another user's.
THEOREM ConflictsAreForeign == ~Overlap /\ Spec => []ConflictOnlyForeign
  <1>1. SInv => ConflictOnlyForeign
    BY DEF SInv, SInvParts, Conflicts, ConflictOnlyForeign
  <1> QED
    BY <1>1, SerialInductive, PTL

\* A PUT that succeeds answers with the record it was given, although it reads
\* it back in a transaction of its own.
THEOREM PutsAreEchoed == ~Overlap /\ Spec => []EchoesPut
  <1>1. SInv => EchoesPut
    BY DEF SInv, SInvParts
  <1> QED
    BY <1>1, SerialInductive, PTL

\* A commit creates a record or replaces all of its columns.
LEMMA StepImplementsRecords ==
  ASSUME SInv, [Next]_vars
  PROVE  [Ledger!RecordNext]_table
  <1>1. ASSUME NEW r \in Requests, Commit(r)
        PROVE  Ledger!RecordNext
    <2> DEFINE u == call[r].user
               s == call[r].session
               b == call[r].body
               t == stamp[r]
    <2>0. IInv
      BY DEF SInv
    <2>1. /\ u \in Users /\ s \in Sessions /\ b \in Bodies /\ t \in Stamps
      BY <1>1, <2>0, CommitKeeps DEF Put, Commit, IInv, Progress
    <2>2. table' = [table EXCEPT ![s] = Written(r)]
      BY <1>1, <2>0, CommitKeeps
    <2>3. CASE seen[r] = NoRow
      <3>1. table[s] = NoRow
        BY <2>3, <1>1, <2>0, CommitKeeps
      <3>2. Written(r) = [owner |-> u, data |-> b, created |-> t, updated |-> t]
        BY <2>3 DEF Written
      <3>3. Ledger!Create(u, s, b, t)
        BY <3>1, <3>2, <2>2 DEF Ledger!Create
      <3> QED
        BY <3>3, <2>1 DEF Ledger!RecordNext
    <2>4. CASE seen[r] # NoRow
      <3>1. /\ table[s] # NoRow
            /\ table[s].owner = u
            /\ table[s].created < t
        BY <2>4, <1>1, <2>0, CommitKeeps
      <3>2. b = Ledger!Overlay(table[s].data, b, Columns)
        <4>1. b \in [Columns -> Values]
          BY <2>1, SessionStoreAssumption
        <4> HIDE DEF b
        <4> QED
          BY <4>1 DEF Ledger!Overlay
      <3>3. /\ Written(r) = [owner   |-> u,
                             data    |-> Written(r).data,
                             created |-> table[s].created,
                             updated |-> t]
            /\ Written(r).data = b
        BY <2>4, <3>1, <1>1, WrittenWhole DEF Written
      <3>4. Ledger!Rewrite(u, s, b, t, Columns)
        BY <3>1, <3>2, <3>3, <2>2 DEF Ledger!Rewrite
      <3> QED
        BY <3>4, <2>1 DEF Ledger!RecordNext
    <2> QED
      BY <2>3, <2>4
  <1>2. UNCHANGED table \/ \E r \in Requests : Commit(r)
    BY DEF Next, Receive, Serve, ReceivePut, ReceiveGet, Lookup, Select,
       TakeStamp, Flush, FlushConflict, Refresh, DbError, Respond, Restart, vars
  <1> QED
    BY <1>1, <1>2

\* Without overlap the service is the ledger of whole records.
THEOREM RecordsRefinement == ~Overlap /\ Spec => ImplementsRecords
  <1>1. Init => Ledger!LedgerInit
    BY DEF Init, Ledger!LedgerInit
  <1>2. SInv /\ [Next]_vars => [Ledger!RecordNext]_table
    BY StepImplementsRecords
  <1> QED
    BY <1>1, <1>2, SerialInductive, PTL
    DEF Spec, ImplementsRecords, Ledger!RecordSpec
=============================================================================

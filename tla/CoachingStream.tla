--------------------------- MODULE CoachingStream ---------------------------
(***************************************************************************)
(* POST /session/events: a trade comes in, a behavioural signal is looked  *)
(* for, and a coaching message is streamed to the client as server-sent    *)
(* events (app/events/router.py).                                          *)
(*                                                                         *)
(* The granularity is the await.  A stream reads the user's past sessions  *)
(* with the request's database session, which then keeps its connection,   *)
(* idle in transaction, until the response is over: FastAPI closes the     *)
(* get_db dependency after the last byte.  Between two awaits the client   *)
(* may disconnect; the response task is then cancelled by sse-starlette,   *)
(* and the generator's own poll of is_disconnected may see it first.       *)
(*                                                                         *)
(* The provider's client is given no timeout: a call to it may answer, may *)
(* raise, or may hang for ever.  No fairness is assumed of it.             *)
(***************************************************************************)
EXTENDS Integers, Sequences, FiniteSets, SequencesExt

CONSTANTS
    Requests,   \* request slots of the API process for streams
    Others,     \* its other handlers that use the database
    PoolSize,   \* connections of the pool
    MaxChunks   \* bound: chunks in a reply (HF_MAX_TOKENS in the code)

ASSUME CoachingStreamAssumption ==
    /\ Requests \cap Others = {}
    /\ PoolSize \in Nat \ {0}
    /\ MaxChunks \in Nat

\* What the handler tells apart in a trade: another user's, one in which the
\* rules find nothing, one whose userId is no UUID, and one to be coached.
Trade == {"foreign", "quiet", "no_uuid", "coached"}

\* A reply of the provider: chunks that carry a piece of text or do not.
Reply == UNION {[1..n -> {"text", "empty"}] : n \in 0..MaxChunks}

VARIABLES
    configured, \* is HF_TOKEN set, blanks aside?  Read once, at start
    pc,         \* where each request is suspended
    trade,      \* the trade it carries
    client,     \* "on", or "gone" once it has disconnected
    sent,       \* the events written to a connected client
    index,      \* the generator's token counter
    rest,       \* the chunks of the reply not yet read
    held,       \* requests that hold a connection
    waiting     \* requests that wait for one

vars == <<configured, pc, trade, client, sent, index, rest, held, waiting>>

Pool     == INSTANCE ConnPool WITH Handlers <- Requests \cup Others
open     == [r \in Requests |-> pc[r] \notin {"idle", "closing", "closed"}]
Contract == INSTANCE SseContract

Token(n)  == Contract!Token(n)
Done      == Contract!Done
Error(e)  == Contract!Error(e)

-----------------------------------------------------------------------------
(***************************************************************************)
(* Steps the actions share.                                                *)
(***************************************************************************)

Goto(r, l) == pc' = [pc EXCEPT ![r] = l]

\* An event is written; it goes nowhere when the client has gone.
Emit(r, e) ==
    sent' = IF client[r] = "on" THEN [sent EXCEPT ![r] = Append(@, e)] ELSE sent

\* The generator writes its last event and returns.
Finish(r, e) == Emit(r, e) /\ Goto(r, "closing")

\* The generator raises: the response ends where it is.
Raise(r) == Goto(r, "closing") /\ UNCHANGED sent

-----------------------------------------------------------------------------
(***************************************************************************)
(* Mistakes: what the definition each comment names would be if the code   *)
(* had a plausible bug.  Nothing below uses them.                          *)
(***************************************************************************)

\* ReadChunk, counting chunks instead of tokens.
ReadChunkCountsAll(r) ==
    /\ pc[r] = "chunks"
    /\ rest[r] # <<>>
    /\ rest'  = [rest EXCEPT ![r] = Tail(@)]
    /\ index' = [index EXCEPT ![r] = @ + 1]
    /\ IF Head(rest[r]) = "text" THEN Emit(r, Token(index[r])) ELSE UNCHANGED sent
    /\ UNCHANGED <<pc, trade, client, held, waiting>>

\* ReadChunk, taking a chunk without text for the end of the message.
ReadChunkStopsAtEmpty(r) ==
    /\ pc[r] = "chunks"
    /\ rest[r] # <<>>
    /\ rest' = [rest EXCEPT ![r] = Tail(@)]
    /\ IF Head(rest[r]) = "text"
       THEN /\ Emit(r, Token(index[r]))
            /\ index' = [index EXCEPT ![r] = @ + 1]
            /\ UNCHANGED pc
       ELSE /\ Finish(r, Done)
            /\ UNCHANGED index
    /\ UNCHANGED <<trade, client, held, waiting>>

\* ProviderFails, without the except clause.
ProviderFailsUncaught(r) ==
    /\ pc[r] \in {"call", "chunks"}
    /\ Raise(r)
    /\ UNCHANGED <<trade, client, index, rest, held, waiting>>

\* CloseSession, with a session that outlives its request.
CloseSessionLeaks(r) ==
    /\ pc[r] = "closing"
    /\ Goto(r, "closed")
    /\ UNCHANGED <<trade, client, sent, index, rest, held, waiting>>

\* Cancel, only at the generator's own poll.
CancelAtPoll(r) ==
    /\ client[r] = "gone"
    /\ pc[r] = "chunks"
    /\ Raise(r)
    /\ UNCHANGED <<trade, client, index, rest, held, waiting>>

\* Receive, with a token counter that survives from stream to stream.
ReceiveKeepsIndex(r, t) ==
    /\ pc[r] = "idle"
    /\ Goto(r, "received")
    /\ trade' = [trade EXCEPT ![r] = t]
    /\ sent'  = [sent EXCEPT ![r] = <<>>]
    /\ UNCHANGED <<client, index, rest, held, waiting>>

\* PoolTimeout, with a pool that waits without limit.
PoolTimeoutNever(r) == FALSE /\ UNCHANGED vars

-----------------------------------------------------------------------------

Init ==
    /\ configured \in BOOLEAN
    /\ pc     = [r \in Requests |-> "idle"]
    /\ trade  = [r \in Requests |-> "quiet"]
    /\ client = [r \in Requests |-> "on"]
    /\ sent   = [r \in Requests |-> <<>>]
    /\ index  = [r \in Requests |-> 0]
    /\ rest   = [r \in Requests |-> <<>>]
    /\ Pool!PoolInit

\* A validated trade with a valid token: get_db has opened a session, which
\* has no connection yet.
Receive(r, t) ==
    /\ pc[r] = "idle"
    /\ Goto(r, "received")
    /\ trade' = [trade EXCEPT ![r] = t]
    /\ sent'  = [sent EXCEPT ![r] = <<>>]
    /\ index' = [index EXCEPT ![r] = 0]
    /\ UNCHANGED <<client, rest, held, waiting>>

\* process_trade_event: 403 for another user's trade, a stream of one event
\* when the rules find nothing, the coaching generator otherwise.
Dispatch(r) ==
    /\ pc[r] = "received"
    /\ Goto(r, CASE trade[r] = "foreign" -> "closing"
                 [] trade[r] = "quiet"   -> "quiet"
                 [] OTHER                -> "context")
    /\ UNCHANGED <<trade, client, sent, index, rest, held, waiting>>

\* empty_stream.
NoCoaching(r) ==
    /\ pc[r] = "quiet"
    /\ Finish(r, Done)
    /\ UNCHANGED <<trade, client, index, rest, held, waiting>>

\* UUID(trade.userId) is outside the try: it raises after the 200 has gone out.
BadUserId(r) ==
    /\ pc[r] = "context"
    /\ trade[r] = "no_uuid"
    /\ Raise(r)
    /\ UNCHANGED <<trade, client, index, rest, held, waiting>>

\* The first statement of get_context needs a connection.
AskConnection(r) ==
    /\ pc[r] = "context"
    /\ trade[r] = "coached"
    /\ \/ Pool!Take(r) /\ Goto(r, "query")
       \/ Pool!Wait(r) /\ Goto(r, "waiting")
    /\ UNCHANGED <<trade, client, sent, index, rest>>

GetConnection(r) ==
    /\ pc[r] = "waiting"
    /\ Pool!Grant(r)
    /\ Goto(r, "query")
    /\ UNCHANGED <<trade, client, sent, index, rest>>

\* QueuePool limit reached, connection timed out: raised by get_context,
\* outside the try.
PoolTimeout(r) ==
    /\ pc[r] = "waiting"
    /\ Pool!GiveUp(r)
    /\ Raise(r)
    /\ UNCHANGED <<trade, client, index, rest>>

\* A statement of get_context fails, outside the try.
ContextFails(r) ==
    /\ pc[r] = "query"
    /\ Raise(r)
    /\ UNCHANGED <<trade, client, index, rest, held, waiting>>

\* The context is read and the prompt built; without a token the stream is
\* one error event, otherwise the provider is called.  No commit: the
\* connection stays out.
ContextRead(r) ==
    /\ pc[r] = "query"
    /\ IF configured THEN Goto(r, "call") /\ UNCHANGED sent
                     ELSE Finish(r, Error("unconfigured"))
    /\ UNCHANGED <<trade, client, index, rest, held, waiting>>

\* chat_completion returns the reply as a stream of chunks.
ProviderReplies(r) == \E reply \in Reply :
    /\ pc[r] = "call"
    /\ Goto(r, "chunks")
    /\ rest' = [rest EXCEPT ![r] = reply]
    /\ UNCHANGED <<trade, client, sent, index, held, waiting>>

\* The call, the reading of a chunk or its decoding raises: the exception is
\* caught and becomes one error event, after whatever tokens went before.
ProviderFails(r) ==
    /\ pc[r] \in {"call", "chunks"}
    /\ Finish(r, Error("provider"))
    /\ UNCHANGED <<trade, client, index, rest, held, waiting>>

\* A chunk arrives and the poll does not see the client gone (it may have
\* gone since): its text, if any, becomes the next token.
ReadChunk(r) ==
    /\ pc[r] = "chunks"
    /\ rest[r] # <<>>
    /\ rest' = [rest EXCEPT ![r] = Tail(@)]
    /\ IF Head(rest[r]) = "text"
       THEN /\ Emit(r, Token(index[r]))
            /\ index' = [index EXCEPT ![r] = @ + 1]
       ELSE UNCHANGED <<sent, index>>
    /\ UNCHANGED <<pc, trade, client, held, waiting>>

\* A chunk arrives and the poll sees the client gone: break, then "done".
SeeDisconnect(r) ==
    /\ pc[r] = "chunks"
    /\ rest[r] # <<>>
    /\ client[r] = "gone"
    /\ Finish(r, Done)
    /\ UNCHANGED <<trade, client, index, rest, held, waiting>>

\* The reply is exhausted.
ReplyEnds(r) ==
    /\ pc[r] = "chunks"
    /\ rest[r] = <<>>
    /\ Finish(r, Done)
    /\ UNCHANGED <<trade, client, index, rest, held, waiting>>

Disconnect(r) ==
    /\ pc[r] \notin {"idle", "closed"}
    /\ client[r] = "on"
    /\ client' = [client EXCEPT ![r] = "gone"]
    /\ UNCHANGED <<pc, trade, sent, index, rest, held, waiting>>

\* sse-starlette hears of the disconnect and cancels the response wherever it
\* is suspended; CancelledError is not an Exception, so nothing is written.
Cancel(r) ==
    /\ client[r] = "gone"
    /\ pc[r] \in {"quiet", "context", "waiting", "query", "call", "chunks"}
    /\ Raise(r)
    /\ IF pc[r] = "waiting" THEN Pool!GiveUp(r) ELSE UNCHANGED <<held, waiting>>
    /\ UNCHANGED <<trade, client, index, rest>>

\* The exit of get_db: the session rolls back and returns its connection.  It
\* runs after the last byte of the response from FastAPI 0.118 on, which the
\* image installs; pyproject.toml:7 also admits versions that run it before.
CloseSession(r) ==
    /\ pc[r] = "closing"
    /\ Pool!Return(r)
    /\ Goto(r, "closed")
    /\ UNCHANGED <<trade, client, sent, index, rest>>

\* The slot is free for another request.
Forget(r) ==
    /\ pc[r] = "closed"
    /\ Goto(r, "idle")
    /\ trade'  = [trade EXCEPT ![r] = "quiet"]
    /\ client' = [client EXCEPT ![r] = "on"]
    /\ rest'   = [rest EXCEPT ![r] = <<>>]
    /\ UNCHANGED <<sent, index, held, waiting>>

\* The steps the event loop, the pool and the database take by themselves,
\* those of the provider, and those of clients.
Server(r) ==
    \/ Dispatch(r) \/ NoCoaching(r) \/ BadUserId(r) \/ AskConnection(r)
    \/ GetConnection(r) \/ PoolTimeout(r) \/ ContextFails(r) \/ ContextRead(r)
    \/ CloseSession(r)

Provider(r) == ProviderReplies(r) \/ ProviderFails(r) \/ ReadChunk(r)
                   \/ SeeDisconnect(r) \/ ReplyEnds(r)

Client(r) == Disconnect(r) \/ Forget(r) \/ \E t \in Trade : Receive(r, t)

Next == \E r \in Requests :
    /\ Server(r) \/ Provider(r) \/ Client(r) \/ Cancel(r)
    /\ UNCHANGED configured

Spec == Init /\ [][Next]_vars

\* The event loop runs what can run, the pool's timeout fires, the database
\* answers or fails, and a disconnect is heard of.  Nothing is assumed of the
\* provider or of clients.
Fairness == \A r \in Requests :
    /\ WF_vars(Server(r) /\ UNCHANGED configured)
    /\ WF_vars(Cancel(r) /\ UNCHANGED configured)

FairSpec == Spec /\ Fairness
-----------------------------------------------------------------------------
(***************************************************************************)
(* Properties.                                                             *)
(***************************************************************************)

\* The types of the variables.
TypeOK ==
    /\ configured \in BOOLEAN
    /\ pc \in [Requests -> {"idle", "received", "quiet", "context", "waiting",
                            "query", "call", "chunks", "closing", "closed"}]
    /\ trade  \in [Requests -> Trade]
    /\ client \in [Requests -> {"on", "gone"}]
    /\ \A r \in Requests : \A i \in DOMAIN sent[r] :
          sent[r][i] \in Contract!Terminal \cup {Token(n) : n \in 0..MaxChunks}
    /\ index  \in [Requests -> 0..MaxChunks]
    /\ rest   \in [Requests -> Reply]
    /\ Pool!PoolOK

\* What clients are promised (SseContract): tokens numbered from 0 without a
\* gap, whatever empty chunks, failures and disconnects come between; at most
\* one "done" or "error", and nothing after it.
ImplementsContract == Contract!ContractSpec

Ended(r) == sent[r] # <<>> /\ Last(sent[r]) \in Contract!Terminal

\* A client that stays is told how its message ended: once a token has been
\* written, the stream does not stop without "done" or "error".
NeverCutShort == \A r \in Requests :
    pc[r] \in {"closing", "closed"} /\ client[r] = "on" /\ sent[r] # <<>>
        => Ended(r)

\* "done" tells a client that stays that it has the whole reply, not that
\* the generator left its loop.
DoneMeansWhole == \A r \in Requests :
    sent[r] # <<>> /\ Last(sent[r]) = Done => rest[r] = <<>>

\* Connections: only a request that has read its context, or is about to,
\* keeps one out of the pool; one that is over, however it ended, has given
\* it back, and no waiter is forgotten.
ConnectionsReturned == \A r \in Requests :
    /\ r \in held => pc[r] \in {"query", "call", "chunks", "closing"}
    /\ r \in waiting <=> pc[r] = "waiting"

\* A request that waits for a connection stops waiting, even when the streams
\* that hold them hang in the provider for ever.
WaitEnds == \A r \in Requests : pc[r] = "waiting" ~> pc[r] # "waiting"

\* A stream whose client has gone gives its connection back, even when the
\* provider never answers.
GoneReleases == \A r \in Requests :
    client[r] = "gone" /\ r \in held ~> r \notin held
=============================================================================

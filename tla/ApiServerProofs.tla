--------------------------- MODULE ApiServerProofs ---------------------------
(***************************************************************************)
(* Proofs about the coaching streams and the other requests on their pool, *)
(* for any number of request slots, connections and chunks.                *)
(***************************************************************************)
EXTENDS ApiServer, FiniteSetTheorems, SequenceTheorems, TLAPS

Positions == {"idle", "received", "quiet", "context", "waiting",
              "query", "call", "chunks", "closing", "closed"}
Event     == Contract!Terminal \cup {Token(n) : n \in 0..MaxChunks}

Types ==
    /\ configured \in BOOLEAN
    /\ pc     \in [Requests -> Positions]
    /\ trade  \in [Requests -> Trade]
    /\ client \in [Requests -> {"on", "gone"}]
    /\ sent   \in [Requests -> Seq(Event)]
    /\ index  \in [Requests -> 0..MaxChunks]
    /\ rest   \in [Requests -> Reply]

\* What has been written, by the position of the stream: nothing until the
\* provider has answered; while chunks are read, tokens numbered from 0, all of
\* them if the client is there, and room for the chunks to come; at the end
\* nothing or an ending, for a client that is there.
Written(r) ==
    /\ pc[r] \in {"received", "quiet", "context", "waiting", "query", "call"}
          => sent[r] = <<>> /\ index[r] = 0 /\ rest[r] = <<>>
    /\ pc[r] = "idle" => rest[r] = <<>>
    /\ pc[r] = "chunks" =>
          /\ client[r] = "on" => Len(sent[r]) = index[r]
          /\ index[r] + Len(rest[r]) <= MaxChunks
          /\ sent[r] # <<>> => Last(sent[r]) \notin Contract!Terminal
    /\ pc[r] \in {"closing", "closed"} /\ client[r] = "on" =>
          sent[r] = <<>> \/ Last(sent[r]) \in Contract!Terminal
    /\ sent[r] # <<>> /\ Last(sent[r]) = Done => rest[r] = <<>>

StreamInv == Types /\ \A r \in Requests : Written(r)

\* The variables of a stream, and a step that leaves those of another alone.
streamVars == <<configured, pc, trade, client, sent, index, rest>>

Untouched(q) ==
    /\ pc'[q] = pc[q] /\ client'[q] = client[q] /\ sent'[q] = sent[q]
    /\ index'[q] = index[q] /\ rest'[q] = rest[q]

LEMMA UntouchedKeeps ==
    ASSUME NEW q \in Requests, Written(q), Untouched(q)
    PROVE  Written(q)'
  BY DEF Written, Untouched

\* Reading a reply to its end and appending to what was sent.
LEMMA ReplyFacts ==
    ASSUME NEW p \in Reply
    PROVE  /\ p \in Seq({"text", "empty"}) /\ Len(p) \in 0..MaxChunks
           /\ p # <<>> => Tail(p) \in Reply /\ Len(Tail(p)) = Len(p) - 1
  <1>1. PICK n \in 0..MaxChunks : p \in [1..n -> {"text", "empty"}]
    BY DEF Reply
  <1>2. n \in Nat /\ Len(p) = n /\ p \in Seq({"text", "empty"})
    BY <1>1, CoachingStreamAssumption
  <1>3. ASSUME p # <<>> PROVE Tail(p) \in Reply /\ Len(Tail(p)) = Len(p) - 1
    <2>1. n > 0 /\ n - 1 \in 0..MaxChunks
      BY <1>1, <1>2, <1>3, CoachingStreamAssumption
    <2>2. Tail(p) \in Seq({"text", "empty"}) /\ Len(Tail(p)) = n - 1
      BY <1>2, <1>3, HeadTailProperties
    <2>3. Tail(p) \in [1..(n - 1) -> {"text", "empty"}]
      BY <2>2, LenProperties
    <2> QED
      BY <1>2, <2>1, <2>2, <2>3 DEF Reply
  <1> QED
    BY <1>2, <1>3

LEMMA EventFacts ==
    /\ Done \in Event /\ Done \in Contract!Terminal
    /\ \A w \in {"unconfigured", "provider"} :
          Error(w) \in Event /\ Error(w) \in Contract!Terminal /\ Error(w) # Done
    /\ \A n \in 0..MaxChunks : Token(n) \in Event /\ Token(n) \notin Contract!Terminal
  BY DEF Event, Done, Error, Token, Contract!Terminal, Contract!Done,
         Contract!Error, Contract!Token

LEMMA AppendFacts ==
    ASSUME NEW s \in Seq(Event), NEW e \in Event
    PROVE  /\ Append(s, e) \in Seq(Event) /\ Append(s, e) # <<>>
           /\ Len(Append(s, e)) = Len(s) + 1 /\ Last(Append(s, e)) = e
  BY AppendProperties DEF Last

LEMMA InitStream == ApiInit => StreamInv
  <1> SUFFICES ASSUME ApiInit PROVE StreamInv
    OBVIOUS
  <1>1. <<>> \in Reply /\ 0 \in 0..MaxChunks /\ <<>> \in Seq(Event)
    <2>1. 0 \in 0..MaxChunks /\ <<>> \in [1..0 -> {"text", "empty"}]
      BY CoachingStreamAssumption
    <2> QED
      BY <2>1 DEF Reply
  <1>2. Types
    BY <1>1 DEF ApiInit, Init, Types, Positions, Trade
  <1>3. \A r \in Requests : Written(r)
    BY DEF ApiInit, Init, Written
  <1> QED
    BY <1>2, <1>3 DEF StreamInv

-----------------------------------------------------------------------------
(***************************************************************************)
(* One step of a stream.                                                   *)
(***************************************************************************)

\* A step that only moves request r.
LEMMA Moves ==
    ASSUME StreamInv, NEW r \in Requests, NEW l \in Positions, Goto(r, l),
           UNCHANGED <<configured, trade, client, sent, index, rest>>,
           Written(r)'
    PROVE  StreamInv'
  <1>1. Types' /\ pc'[r] = l
    BY DEF StreamInv, Types, Goto
  <1>3. \A q \in Requests \ {r} : Untouched(q)
    BY DEF StreamInv, Types, Goto, Untouched
  <1> QED
    BY <1>1, <1>3, UntouchedKeeps DEF StreamInv

\* The last event of a stream; "done" only with the whole reply, unless the
\* client has gone.
LEMMA Ends ==
    ASSUME StreamInv, NEW r \in Requests, NEW e \in Contract!Terminal, Finish(r, e),
           UNCHANGED <<configured, trade, client, index, rest>>,
           e = Done /\ client[r] = "on" => rest[r] = <<>>
    PROVE  StreamInv'
  <1>1. e \in Event /\ sent[r] \in Seq(Event) /\ "closing" \in Positions
    BY DEF Event, StreamInv, Types, Positions
  <1>2. /\ Append(sent[r], e) \in Seq(Event) /\ Append(sent[r], e) # <<>>
        /\ Last(Append(sent[r], e)) = e
    BY <1>1, AppendFacts
  <1>3. Types'
    BY <1>1, <1>2 DEF StreamInv, Types, Finish, Emit, Goto
  <1>4. /\ pc'[r] = "closing"
        /\ sent'[r] = IF client[r] = "on" THEN Append(sent[r], e) ELSE sent[r]
    BY DEF StreamInv, Types, Finish, Emit, Goto
  <1>5. Written(r)'
    BY <1>2, <1>4 DEF StreamInv, Written
  <1>6. \A q \in Requests \ {r} : Untouched(q)
    BY DEF StreamInv, Types, Finish, Emit, Goto, Untouched
  <1> QED
    BY <1>3, <1>5, <1>6, UntouchedKeeps DEF StreamInv

\* An exception nobody catches: before the first token, or without a client.
LEMMA Raises ==
    ASSUME StreamInv, NEW r \in Requests, Raise(r),
           UNCHANGED <<configured, trade, client, index, rest>>,
           client[r] = "gone" \/ sent[r] = <<>>
    PROVE  StreamInv'
  <1>1. Goto(r, "closing") /\ UNCHANGED sent /\ "closing" \in Positions
    BY DEF Raise, Positions
  <1>2. pc'[r] = "closing"
    BY <1>1 DEF StreamInv, Types, Goto
  <1>3. Written(r)'
    BY <1>1, <1>2 DEF StreamInv, Written
  <1> QED
    BY <1>1, <1>3, Moves

LEMMA ReceiveKeeps ==
    ASSUME StreamInv, NEW r \in Requests, NEW t \in Trade, Receive(r, t),
           UNCHANGED configured
    PROVE  StreamInv'
  <1>1. <<>> \in Seq(Event) /\ 0 \in 0..MaxChunks /\ "received" \in Positions
    BY CoachingStreamAssumption DEF Positions
  <1>2. Types'
    BY <1>1 DEF StreamInv, Types, Receive, Goto
  <1>3. pc[r] = "idle" /\ pc'[r] = "received" /\ sent'[r] = <<>> /\ index'[r] = 0 /\ rest'[r] = rest[r]
    BY DEF StreamInv, Types, Receive, Goto
  <1>5. Written(r)'
    BY <1>3 DEF StreamInv, Written
  <1>6. \A q \in Requests \ {r} : Untouched(q)
    BY DEF StreamInv, Types, Receive, Goto, Untouched
  <1> QED
    BY <1>2, <1>5, <1>6, UntouchedKeeps DEF StreamInv

\* A step that only moves r, before the provider has answered.
LEMMA MovesEarly ==
    ASSUME StreamInv, NEW r \in Requests, NEW l \in Positions, Goto(r, l),
           UNCHANGED <<configured, trade, client, sent, index, rest>>,
           pc[r] \in {"received", "quiet", "context", "waiting", "query"},
           l \in {"closing", "quiet", "context", "waiting", "query", "call"}
    PROVE  StreamInv'
  <1>1. pc'[r] = l
    BY DEF StreamInv, Types, Goto
  <1>2. Written(r)'
    BY <1>1 DEF StreamInv, Written
  <1> QED
    BY <1>2, Moves

LEMMA ServerKeeps ==
    ASSUME StreamInv, NEW r \in Requests, Server(r), UNCHANGED configured
    PROVE  StreamInv'
  <1> USE DEF Positions
  <1>1. CASE Dispatch(r)
    <2>1. PICK l \in {"closing", "quiet", "context"} : Goto(r, l)
      BY <1>1 DEF Dispatch, StreamInv, Types, Trade
    <2> QED
      BY <1>1, <2>1, MovesEarly DEF Dispatch
  <1>2. CASE NoCoaching(r)
    BY <1>2, Ends, EventFacts DEF NoCoaching, StreamInv, Written
  <1>3. CASE BadUserId(r)
    BY <1>3, Raises DEF BadUserId, StreamInv, Written
  <1>4. CASE AskConnection(r)
    <2>1. PICK l \in {"query", "waiting"} : Goto(r, l)
      BY <1>4 DEF AskConnection
    <2> QED
      BY <1>4, <2>1, MovesEarly DEF AskConnection
  <1>5. CASE GetConnection(r)
    BY <1>5, MovesEarly DEF GetConnection
  <1>6. CASE PoolTimeout(r)
    BY <1>6, Raises DEF PoolTimeout, StreamInv, Written
  <1>7. CASE ContextFails(r)
    BY <1>7, Raises DEF ContextFails, StreamInv, Written
  <1>8. CASE ContextRead(r)
    <2>1. CASE configured
      BY <1>8, <2>1, MovesEarly DEF ContextRead
    <2>2. CASE ~configured
      BY <1>8, <2>2, Ends, EventFacts DEF ContextRead
    <2> QED
      BY <2>1, <2>2
  <1>9. CASE CloseSession(r)
    <2>1. Goto(r, "closed") /\ UNCHANGED <<trade, client, sent, index, rest>>
      BY <1>9 DEF CloseSession
    <2>2. Written(r)'
      BY <1>9, <2>1 DEF CloseSession, Goto, StreamInv, Types, Written
    <2> QED
      BY <2>1, <2>2, Moves
  <1> QED
    BY <1>1, <1>2, <1>3, <1>4, <1>5, <1>6, <1>7, <1>8, <1>9 DEF Server

\* A chunk read becomes the next token, and leaves room for those to come.
LEMMA ReadChunkKeeps ==
    ASSUME StreamInv, NEW r \in Requests, ReadChunk(r), UNCHANGED configured
    PROVE  StreamInv'
  <1> DEFINE n == index[r]
             p == rest[r]
             s == sent[r]
  <1>1. /\ n \in 0..MaxChunks /\ p \in Reply /\ s \in Seq(Event) /\ MaxChunks \in Nat
        /\ p # <<>> /\ pc[r] = "chunks"
    BY CoachingStreamAssumption DEF StreamInv, Types, ReadChunk
  <1>2. /\ client[r] = "on" => Len(s) = n
        /\ n + Len(p) <= MaxChunks
        /\ s # <<>> => Last(s) \notin Contract!Terminal
    BY <1>1 DEF StreamInv, Written
  <1>3. Tail(p) \in Reply /\ Len(Tail(p)) = Len(p) - 1 /\ Len(p) \in Nat
    BY <1>1, ReplyFacts
  <1>4. Token(n) \in Event /\ Token(n) \notin Contract!Terminal
    BY <1>1, EventFacts
  <1>5. /\ Append(s, Token(n)) \in Seq(Event) /\ Append(s, Token(n)) # <<>>
        /\ Len(Append(s, Token(n))) = Len(s) + 1
        /\ Last(Append(s, Token(n))) = Token(n)
    BY <1>1, <1>4, AppendFacts
  <1>6. \A q \in Requests \ {r} : Untouched(q)
    BY DEF StreamInv, Types, ReadChunk, Emit, Untouched
  <1>7. pc' = pc /\ client' = client /\ rest'[r] = Tail(p)
    BY DEF StreamInv, Types, ReadChunk
  <1>8. CASE Head(p) = "text"
    <2>1. /\ index'[r] = n + 1
          /\ sent'[r] = IF client[r] = "on" THEN Append(s, Token(n)) ELSE s
      BY <1>8 DEF StreamInv, Types, ReadChunk, Emit
    <2>2. n + 1 \in 0..MaxChunks /\ (n + 1) + Len(Tail(p)) <= MaxChunks
      BY <1>1, <1>2, <1>3, LenProperties
    <2>3. Types'
      BY <1>3, <1>5, <1>8, <2>1, <2>2 DEF StreamInv, Types, ReadChunk, Emit
    <2>4. Written(r)'
      BY <1>1, <1>2, <1>4, <1>5, <1>7, <2>1, <2>2, EventFacts DEF Written
    <2> QED
      BY <1>6, <2>3, <2>4, UntouchedKeeps DEF StreamInv
  <1>9. CASE Head(p) # "text"
    <2>1. sent' = sent /\ index' = index
      BY <1>9 DEF ReadChunk
    <2>2. Types'
      BY <1>3, <2>1 DEF StreamInv, Types, ReadChunk
    <2>3. n + Len(Tail(p)) <= MaxChunks
      BY <1>1, <1>2, <1>3
    <2>4. Written(r)'
      BY <1>1, <1>2, <1>7, <2>1, <2>3, EventFacts DEF Written
    <2> QED
      BY <1>6, <2>2, <2>4, UntouchedKeeps DEF StreamInv
  <1> QED
    BY <1>8, <1>9

LEMMA ProviderKeeps ==
    ASSUME StreamInv, NEW r \in Requests, Provider(r), UNCHANGED configured
    PROVE  StreamInv'
  <1>1. CASE ProviderReplies(r)
    <2>1. PICK reply \in Reply : rest' = [rest EXCEPT ![r] = reply]
      BY <1>1 DEF ProviderReplies
    <2>2. pc[r] = "call" /\ sent[r] = <<>> /\ index[r] = 0
      BY <1>1 DEF ProviderReplies, StreamInv, Written
    <2>3. Types'
      BY <1>1, <2>1 DEF ProviderReplies, Goto, StreamInv, Types, Positions
    <2>4. pc'[r] = "chunks" /\ rest'[r] = reply /\ sent' = sent /\ index' = index
      BY <1>1, <2>1 DEF ProviderReplies, Goto, StreamInv, Types
    <2>5. Written(r)'
      BY <2>2, <2>4, ReplyFacts, LenProperties, CoachingStreamAssumption DEF Written
    <2>6. \A q \in Requests \ {r} : Untouched(q)
      BY <1>1 DEF ProviderReplies, Goto, StreamInv, Types, Untouched
    <2> QED
      BY <2>3, <2>5, <2>6, UntouchedKeeps DEF StreamInv
  <1>2. CASE ProviderFails(r)
    BY <1>2, Ends, EventFacts DEF ProviderFails
  <1>3. CASE ReadChunk(r)
    BY <1>3, ReadChunkKeeps
  <1>4. CASE SeeDisconnect(r)
    BY <1>4, Ends, EventFacts DEF SeeDisconnect
  <1>5. CASE ReplyEnds(r)
    BY <1>5, Ends, EventFacts DEF ReplyEnds
  <1> QED
    BY <1>1, <1>2, <1>3, <1>4, <1>5 DEF Provider

LEMMA ClientKeeps ==
    ASSUME StreamInv, NEW r \in Requests, Client(r) \/ Cancel(r), UNCHANGED configured
    PROVE  StreamInv'
  <1>1. CASE Disconnect(r)
    <2>1. Types'
      BY <1>1 DEF Disconnect, StreamInv, Types
    <2>2. /\ pc' = pc /\ sent' = sent /\ index' = index /\ rest' = rest
          /\ client'[r] = "gone"
      BY <1>1 DEF Disconnect, StreamInv, Types
    <2>3. Written(r)'
      BY <2>2 DEF StreamInv, Written
    <2>4. \A q \in Requests \ {r} : Untouched(q)
      BY <1>1 DEF Disconnect, StreamInv, Types, Untouched
    <2> QED
      BY <2>1, <2>3, <2>4, UntouchedKeeps DEF StreamInv
  <1>2. CASE Forget(r)
    <2>1. <<>> \in Reply
      <3>1. 0 \in 0..MaxChunks /\ <<>> \in [1..0 -> {"text", "empty"}]
        BY CoachingStreamAssumption
      <3> QED
        BY <3>1 DEF Reply
    <2>2. Types'
      BY <1>2, <2>1 DEF Forget, Goto, StreamInv, Types, Positions, Trade
    <2>3. pc'[r] = "idle" /\ rest'[r] = <<>>
      BY <1>2 DEF Forget, Goto, StreamInv, Types
    <2>4. Written(r)'
      BY <2>3 DEF Written
    <2>5. \A q \in Requests \ {r} : Untouched(q)
      BY <1>2 DEF Forget, Goto, StreamInv, Types, Untouched
    <2> QED
      BY <2>2, <2>4, <2>5, UntouchedKeeps DEF StreamInv
  <1>3. ASSUME NEW t \in Trade, Receive(r, t) PROVE StreamInv'
    BY <1>3, ReceiveKeeps
  <1>4. CASE Cancel(r)
    BY <1>4, Raises DEF Cancel
  <1> QED
    BY <1>1, <1>2, <1>3, <1>4 DEF Client

LEMMA NextStream == StreamInv /\ [ApiNext]_apiVars => StreamInv'
  <1> SUFFICES ASSUME StreamInv, [ApiNext]_apiVars PROVE StreamInv'
    OBVIOUS
  <1>1. CASE UNCHANGED streamVars
    <2>1. Types'
      BY <1>1 DEF StreamInv, Types, streamVars
    <2>2. \A q \in Requests : Untouched(q)
      BY <1>1 DEF Untouched, streamVars
    <2> QED
      BY <2>1, <2>2, UntouchedKeeps DEF StreamInv
  <1>2. CASE Next
    <2>1. PICK r \in Requests : /\ Server(r) \/ Provider(r) \/ Client(r) \/ Cancel(r)
                                /\ UNCHANGED configured
      BY <1>2 DEF Next
    <2> QED
      BY <2>1, ServerKeeps, ProviderKeeps, ClientKeeps
  <1>3. ASSUME NEW h \in Others, Arrive(h) \/ Ask(h) PROVE UNCHANGED streamVars
    BY <1>3 DEF Arrive, Ask, Granted, TimesOut, Commits, Refreshes, Succeeds, Fails,
                 Close, Move, streamVars
  <1>4. CASE UNCHANGED apiVars
    BY <1>1, <1>4 DEF apiVars, vars, streamVars
  <1> QED
    BY <1>1, <1>2, <1>3, <1>4 DEF ApiNext

LEMMA StreamInvHolds == ApiSpec => []StreamInv
  BY InitStream, NextStream, PTL DEF ApiSpec

-----------------------------------------------------------------------------
(***************************************************************************)
(* What the client sees.                                                   *)
(***************************************************************************)

\* A client that stays never sees a message stop in the middle: the except
\* clause covers everything that can fail after the first token.
THEOREM NeverCut == ApiSpec => []NeverCutShort
  <1>1. StreamInv => NeverCutShort
    BY DEF StreamInv, Written, NeverCutShort, Ended
  <1> QED
    BY <1>1, StreamInvHolds, PTL

\* "done" is written to a client that is there only after the last chunk.
THEOREM DoneIsWhole == ApiSpec => []DoneMeansWhole
  <1>1. StreamInv => DoneMeansWhole
    BY DEF StreamInv, Written, DoneMeansWhole
  <1> QED
    BY <1>1, StreamInvHolds, PTL

\* The positions from which more may be written.
OpenAt(l) == l \notin {"idle", "closing", "closed"}

\* How a step that moves r, or does not, looks to its client.
LEMMA OpenMoves ==
    ASSUME Types, NEW r \in Requests, NEW l, Goto(r, l)
    PROVE  open' = [open EXCEPT ![r] = OpenAt(l)]
  <1>1. \A q \in Requests : pc'[q] = IF q = r THEN l ELSE pc[q]
    BY DEF Types, Goto
  <1>2. open' = [q \in Requests |-> OpenAt(pc'[q])]
    BY DEF open, OpenAt
  <1>3. [open EXCEPT ![r] = OpenAt(l)] =
        [q \in Requests |-> IF q = r THEN OpenAt(l) ELSE OpenAt(pc[q])]
    BY DEF open, OpenAt
  <1> QED
    BY <1>1, <1>2, <1>3

LEMMA OpenIs == \A r \in Requests : open[r] <=> OpenAt(pc[r])
  BY DEF open, OpenAt

\* Within a stream, or within its end, the client notices no step.
LEMMA InnerMaps ==
    ASSUME Types, NEW r \in Requests, NEW l, Goto(r, l), UNCHANGED sent,
           OpenAt(pc[r]) <=> OpenAt(l)
    PROVE  UNCHANGED <<sent, open>>
  <1>1. \A q \in Requests : pc'[q] = IF q = r THEN l ELSE pc[q]
    BY DEF Types, Goto
  <1>2. \A q \in Requests : OpenAt(pc'[q]) = OpenAt(pc[q])
    BY <1>1 DEF OpenAt
  <1>3. open' = [q \in Requests |-> OpenAt(pc'[q])] /\ open = [q \in Requests |-> OpenAt(pc[q])]
    BY DEF open, OpenAt
  <1> QED
    BY <1>2, <1>3

LEMMA RaiseMaps ==
    ASSUME Types, NEW r \in Requests, Raise(r), OpenAt(pc[r])
    PROVE  Contract!Stop(r)
  <1>1. open' = [open EXCEPT ![r] = OpenAt("closing")]
    BY OpenMoves DEF Raise
  <1> QED
    BY <1>1, OpenIs DEF Contract!Stop, OpenAt, Raise

LEMMA FinishMaps ==
    ASSUME Types, NEW r \in Requests, NEW e \in Contract!Terminal, Finish(r, e),
           OpenAt(pc[r])
    PROVE  Contract!EmitTerminal(r) \/ Contract!Stop(r)
  <1>1. open' = [open EXCEPT ![r] = OpenAt("closing")]
    BY OpenMoves DEF Finish
  <1>2. open' = [open EXCEPT ![r] = FALSE] /\ open[r]
    BY <1>1, OpenIs DEF OpenAt
  <1>3. \/ sent' = [sent EXCEPT ![r] = Append(@, e)]
        \/ UNCHANGED sent
    BY DEF Finish, Emit
  <1> QED
    BY <1>2, <1>3 DEF Contract!EmitTerminal, Contract!Stop

ContractStep == Contract!ContractNext \/ UNCHANGED <<sent, open>>

LEMMA ServerMaps ==
    ASSUME StreamInv, NEW r \in Requests, Server(r)
    PROVE  ContractStep
  <1> USE DEF StreamInv, ContractStep, Contract!ContractNext, OpenAt
  <1>1. CASE Dispatch(r)
    <2>1. CASE trade[r] = "foreign"
      <3>1. Raise(r)
        BY <1>1, <2>1 DEF Dispatch, Raise
      <3> QED
        BY <1>1, <3>1, RaiseMaps DEF Dispatch
    <2>2. CASE trade[r] # "foreign"
      <3>1. PICK l \in {"quiet", "context"} : Goto(r, l)
        BY <1>1, <2>2 DEF Dispatch
      <3> QED
        BY <1>1, <3>1, InnerMaps DEF Dispatch
    <2> QED
      BY <2>1, <2>2
  <1>2. CASE NoCoaching(r)
    BY <1>2, FinishMaps, EventFacts DEF NoCoaching
  <1>3. CASE BadUserId(r)
    BY <1>3, RaiseMaps DEF BadUserId
  <1>4. CASE AskConnection(r)
    BY <1>4, InnerMaps DEF AskConnection
  <1>5. CASE GetConnection(r)
    BY <1>5, InnerMaps DEF GetConnection
  <1>6. CASE PoolTimeout(r)
    BY <1>6, RaiseMaps DEF PoolTimeout
  <1>7. CASE ContextFails(r)
    BY <1>7, RaiseMaps DEF ContextFails
  <1>8. CASE ContextRead(r)
    <2>1. CASE configured
      BY <1>8, <2>1, InnerMaps DEF ContextRead
    <2>2. CASE ~configured
      BY <1>8, <2>2, FinishMaps, EventFacts DEF ContextRead
    <2> QED
      BY <2>1, <2>2
  <1>9. CASE CloseSession(r)
    BY <1>9, InnerMaps DEF CloseSession
  <1> QED
    BY <1>1, <1>2, <1>3, <1>4, <1>5, <1>6, <1>7, <1>8, <1>9 DEF Server

LEMMA ProviderMaps ==
    ASSUME StreamInv, NEW r \in Requests, Provider(r)
    PROVE  ContractStep
  <1> USE DEF StreamInv, ContractStep, Contract!ContractNext, OpenAt
  <1>1. CASE ProviderReplies(r)
    BY <1>1, InnerMaps DEF ProviderReplies
  <1>2. CASE ProviderFails(r)
    BY <1>2, FinishMaps, EventFacts DEF ProviderFails
  <1>3. CASE ReadChunk(r)
    <2>1. open' = open
      BY <1>3 DEF ReadChunk, open
    <2>2. CASE Head(rest[r]) = "text" /\ client[r] = "on"
      <3>1. Len(sent[r]) = index[r]
        BY <1>3, <2>2 DEF ReadChunk, Written
      <3>2. sent' = [sent EXCEPT ![r] = Append(@, Token(index[r]))]
        BY <1>3, <2>2 DEF ReadChunk, Emit
      <3>3. sent' = [sent EXCEPT ![r] = Append(@, Contract!Token(Len(@)))]
        BY <3>1, <3>2 DEF Token
      <3>4. open[r]
        BY <1>3, OpenIs DEF ReadChunk
      <3> QED
        BY <2>1, <3>3, <3>4 DEF Contract!EmitToken
    <2>3. CASE ~(Head(rest[r]) = "text" /\ client[r] = "on")
      BY <1>3, <2>1, <2>3 DEF ReadChunk, Emit
    <2> QED
      BY <2>2, <2>3
  <1>4. CASE SeeDisconnect(r)
    BY <1>4, FinishMaps, EventFacts DEF SeeDisconnect
  <1>5. CASE ReplyEnds(r)
    BY <1>5, FinishMaps, EventFacts DEF ReplyEnds
  <1> QED
    BY <1>1, <1>2, <1>3, <1>4, <1>5 DEF Provider

LEMMA ClientMaps ==
    ASSUME StreamInv, NEW r \in Requests, Client(r) \/ Cancel(r)
    PROVE  ContractStep
  <1> USE DEF StreamInv, ContractStep, Contract!ContractNext, OpenAt
  <1>1. CASE Disconnect(r)
    BY <1>1 DEF Disconnect, open
  <1>2. CASE Forget(r)
    BY <1>2, InnerMaps DEF Forget
  <1>3. ASSUME NEW t \in Trade, Receive(r, t) PROVE ContractStep
    <2>1. open' = [open EXCEPT ![r] = OpenAt("received")] /\ ~open[r]
      BY <1>3, OpenMoves, OpenIs DEF Receive
    <2>2. open' = [open EXCEPT ![r] = TRUE]
      BY <2>1
    <2> QED
      BY <1>3, <2>1, <2>2 DEF Receive, Contract!Begin
  <1>4. CASE Cancel(r)
    BY <1>4, RaiseMaps DEF Cancel
  <1> QED
    BY <1>1, <1>2, <1>3, <1>4 DEF Client

\* The streams keep the contract with their clients: tokens from 0 without a
\* gap, then at most one ending, then nothing.
THEOREM ContractKept == ApiSpec => ImplementsContract
  <1>1. ApiInit => Contract!ContractInit
    <2> SUFFICES ASSUME ApiInit PROVE Contract!ContractInit
      OBVIOUS
    <2>1. \A r \in Requests : (pc[r] \notin {"idle", "closing", "closed"}) = FALSE
      BY DEF ApiInit, Init
    <2>2. open = [r \in Requests |-> FALSE]
      BY <2>1 DEF open
    <2> QED
      BY <2>2 DEF ApiInit, Init, Contract!ContractInit
  <1>2. StreamInv /\ [ApiNext]_apiVars => [Contract!ContractNext]_<<sent, open>>
    <2> SUFFICES ASSUME StreamInv, [ApiNext]_apiVars PROVE ContractStep
      BY DEF ContractStep
    <2>1. CASE Next
      <3>1. PICK r \in Requests : Server(r) \/ Provider(r) \/ Client(r) \/ Cancel(r)
        BY <2>1 DEF Next
      <3> QED
        BY <3>1, ServerMaps, ProviderMaps, ClientMaps
    <2>2. ASSUME NEW h \in Others, Arrive(h) \/ Ask(h) PROVE ContractStep
      BY <2>2 DEF Arrive, Ask, Granted, TimesOut, Commits, Refreshes, Succeeds,
                  Fails, Close, Move, open,
                  ContractStep
    <2>3. CASE UNCHANGED apiVars
      BY <2>3 DEF apiVars, vars, open, ContractStep
    <2> QED
      BY <2>1, <2>2, <2>3 DEF ApiNext
  <1> QED
    BY <1>1, <1>2, StreamInvHolds, PTL
    DEF ApiSpec, ImplementsContract, Contract!ContractSpec

-----------------------------------------------------------------------------
(***************************************************************************)
(* The pool.                                                               *)
(***************************************************************************)

Stations == {"idle", "waiting", "query", "committed", "waiting again", "refresh",
             "ok", "failed"}

PoolInv ==
    /\ IsFiniteSet(held) /\ Pool!PoolOK
    /\ at \in [Others -> Stations]
    /\ PoolAccounted

PoolStep(h) == Pool!Take(h) \/ Pool!Wait(h) \/ Pool!Grant(h) \/ Pool!GiveUp(h)
                   \/ Pool!Return(h) \/ UNCHANGED <<held, waiting>>

\* The pool counts as FiniteSets does.
LEMMA PoolCounts == \A S : Pool!Cardinality(S) = Cardinality(S)
  BY DEF Pool!Cardinality, Cardinality

\* The pool never hands out more than it has, whoever asks.
LEMMA PoolBounded ==
    ASSUME IsFiniteSet(held), Pool!PoolOK, NEW h \in Requests \cup Others, PoolStep(h)
    PROVE  IsFiniteSet(held') /\ Pool!PoolOK'
  <1>1. Cardinality(held) \in Nat /\ PoolSize \in Nat
    BY FS_CardinalityType, CoachingStreamAssumption
  <1>2. /\ IsFiniteSet(held \cup {h}) /\ IsFiniteSet(held \ {h})
        /\ Cardinality(held \cup {h}) =
              IF h \in held THEN Cardinality(held) ELSE Cardinality(held) + 1
        /\ Cardinality(held \ {h}) =
              IF h \in held THEN Cardinality(held) - 1 ELSE Cardinality(held)
    BY FS_AddElement, FS_RemoveElement
  <1>3. CASE held' = held \cup {h} /\ Pool!Free
    <2>1. IsFiniteSet(held') /\ Cardinality(held') <= PoolSize
      BY <1>1, <1>2, <1>3, PoolCounts DEF Pool!Free
    <2>2. held' \cap waiting' = {} /\ held' \cup waiting' \subseteq Requests \cup Others
      BY <1>3 DEF PoolStep, Pool!PoolOK, Pool!Take, Pool!Wait, Pool!Grant, Pool!GiveUp,
                  Pool!Return
    <2> QED
      BY <2>1, <2>2, PoolCounts DEF Pool!PoolOK
  <1>4. CASE held' = held \/ held' = held \ {h}
    <2> DEFINE n == Cardinality(held)
               m == Cardinality(held')
    <2>1. n \in Nat /\ n <= PoolSize /\ PoolSize \in Nat
      BY <1>1, PoolCounts DEF Pool!PoolOK
    <2>2. m = n \/ m = n - 1
      BY <1>2, <1>4
    <2>3. IsFiniteSet(held')
      BY <1>2, <1>4
    <2> HIDE DEF n, m
    <2>4. m <= PoolSize
      BY <2>1, <2>2
    <2>5. IsFiniteSet(held') /\ Cardinality(held') <= PoolSize
      BY <2>3, <2>4 DEF m
    <2>6. held' \cap waiting' = {} /\ held' \cup waiting' \subseteq Requests \cup Others
      BY <1>4 DEF PoolStep, Pool!PoolOK, Pool!Take, Pool!Wait, Pool!Grant, Pool!GiveUp,
                  Pool!Return
    <2> QED
      BY <2>5, <2>6, PoolCounts DEF Pool!PoolOK
  <1> QED
    BY <1>3, <1>4 DEF PoolStep, Pool!Take, Pool!Wait, Pool!Grant, Pool!GiveUp, Pool!Return

\* A step of a stream takes or returns its own connection only.
LEMMA StreamPool ==
    ASSUME Types, PoolInv, NEW r \in Requests, UNCHANGED at,
           Server(r) \/ Provider(r) \/ Client(r) \/ Cancel(r)
    PROVE  PoolInv'
  <1>1. r \notin Others /\ r \in Requests \cup Others
    BY CoachingStreamAssumption
  <1>2. /\ PoolStep(r)
        /\ \A q \in Requests \ {r} : pc'[q] = pc[q]
        /\ r \in held' => pc'[r] \in {"query", "call", "chunks", "closing"}
        /\ r \in waiting' <=> pc'[r] = "waiting"
    <2> USE DEF Types, PoolInv, PoolAccounted, ConnectionsReturned, PoolStep, Goto, Finish, Raise,
                Pool!PoolOK
    <2>1. CASE Server(r)
      <3>1. CASE Dispatch(r) \/ NoCoaching(r) \/ BadUserId(r) \/ ContextFails(r)
                   \/ ContextRead(r)
        BY <3>1 DEF Dispatch, NoCoaching, BadUserId, ContextFails, ContextRead
      <3>2. CASE AskConnection(r)
        BY <3>2 DEF AskConnection, Pool!Take, Pool!Wait
      <3>3. CASE GetConnection(r)
        BY <3>3 DEF GetConnection, Pool!Grant
      <3>4. CASE PoolTimeout(r)
        BY <3>4 DEF PoolTimeout, Pool!GiveUp
      <3>5. CASE CloseSession(r)
        BY <3>5 DEF CloseSession, Pool!Return
      <3> QED
        BY <2>1, <3>1, <3>2, <3>3, <3>4, <3>5 DEF Server
    <2>2. CASE Provider(r)
      BY <2>2 DEF Provider, ProviderReplies, ProviderFails, ReadChunk, SeeDisconnect,
                  ReplyEnds
    <2>3. CASE Client(r)
      BY <2>3 DEF Client, Disconnect, Forget, Receive
    <2>4. CASE Cancel(r)
      BY <2>4 DEF Cancel, Pool!GiveUp
    <2> QED
      BY <2>1, <2>2, <2>3, <2>4
  <1>3. \A q \in (Requests \cup Others) \ {r} :
          (q \in held' <=> q \in held) /\ (q \in waiting' <=> q \in waiting)
    BY <1>2 DEF PoolStep, Pool!Take, Pool!Wait, Pool!Grant, Pool!GiveUp, Pool!Return
  <1>4. IsFiniteSet(held') /\ Pool!PoolOK'
    BY <1>1, <1>2, PoolBounded DEF PoolInv
  <1>5. ConnectionsReturned'
    BY <1>2, <1>3 DEF PoolInv, PoolAccounted, ConnectionsReturned
  <1>6. PoolAccounted'
    BY <1>1, <1>3, <1>5 DEF PoolInv, PoolAccounted
  <1> QED
    BY <1>4, <1>5, <1>6 DEF PoolInv

\* So does a step of another request.
LEMMA OtherPool ==
    ASSUME PoolInv, NEW h \in Others, Arrive(h) \/ Ask(h)
    PROVE  PoolInv'
  <1>1. h \notin Requests /\ h \in Requests \cup Others
    BY CoachingStreamAssumption
  <1>2. /\ PoolStep(h) /\ UNCHANGED pc
        /\ at' \in [Others -> Stations]
        /\ \A q \in Others \ {h} : at'[q] = at[q]
        /\ at'[h] \in {"query", "refresh"} => h \in held'
        /\ h \in held' => at'[h] \in {"query", "refresh", "ok", "failed"}
        /\ h \in waiting' <=> at'[h] \in {"waiting", "waiting again"}
    <2> USE DEF PoolInv, PoolAccounted, PoolStep, Move, Pool!PoolOK, Stations
    <2>1. CASE Arrive(h)
      BY <2>1 DEF Arrive, Pool!Take, Pool!Wait
    <2>2. CASE Granted(h)
      BY <2>2 DEF Granted, Pool!Grant
    <2>3. CASE TimesOut(h)
      BY <2>3 DEF TimesOut, Pool!GiveUp
    <2>4. CASE Succeeds(h) \/ Fails(h)
      BY <2>4 DEF Succeeds, Fails
    <2>5. CASE Commits(h)
      BY <2>5 DEF Commits, Pool!Return
    <2>6. CASE Refreshes(h)
      BY <2>6 DEF Refreshes, Pool!Take, Pool!Wait
    <2>7. CASE Close(h)
      BY <2>7 DEF Close, Pool!Return
    <2> QED
      BY <2>1, <2>2, <2>3, <2>4, <2>5, <2>6, <2>7 DEF Ask
  <1>3. \A q \in (Requests \cup Others) \ {h} :
          (q \in held' <=> q \in held) /\ (q \in waiting' <=> q \in waiting)
    BY <1>2 DEF PoolStep, Pool!Take, Pool!Wait, Pool!Grant, Pool!GiveUp, Pool!Return
  <1>4. IsFiniteSet(held') /\ Pool!PoolOK'
    BY <1>1, <1>2, PoolBounded DEF PoolInv
  <1>5. ConnectionsReturned'
    BY <1>1, <1>2, <1>3 DEF PoolInv, PoolAccounted, ConnectionsReturned
  <1>6. PoolAccounted'
    BY <1>2, <1>3, <1>5 DEF PoolInv, PoolAccounted
  <1> QED
    BY <1>2, <1>4, <1>5, <1>6 DEF PoolInv

LEMMA PoolInvHolds == ApiSpec => []PoolInv
  <1>1. ApiInit => PoolInv
    <2> SUFFICES ASSUME ApiInit PROVE PoolInv
      OBVIOUS
    <2>1. held = {} /\ waiting = {} /\ PoolSize \in Nat
      BY CoachingStreamAssumption DEF ApiInit, Init, Pool!PoolInit
    <2>2. IsFiniteSet(held) /\ Cardinality(held) = 0
      BY <2>1, FS_EmptySet
    <2>3. Pool!PoolOK
      BY <2>1, <2>2, PoolCounts DEF Pool!PoolOK
    <2> QED
      BY <2>1, <2>2, <2>3
      DEF ApiInit, Init, PoolInv, ConnectionsReturned, PoolAccounted, Stations
  <1>2. StreamInv /\ PoolInv /\ [ApiNext]_apiVars => PoolInv'
    <2> SUFFICES ASSUME StreamInv, PoolInv, [ApiNext]_apiVars PROVE PoolInv'
      OBVIOUS
    <2>1. CASE Next /\ UNCHANGED at
      BY <2>1, StreamPool DEF Next, StreamInv
    <2>2. ASSUME NEW h \in Others, Arrive(h) \/ Ask(h) PROVE PoolInv'
      BY <2>2, OtherPool
    <2>3. CASE UNCHANGED apiVars
      BY <2>3 DEF apiVars, vars, PoolInv, ConnectionsReturned, PoolAccounted, Pool!PoolOK
    <2> QED
      BY <2>1, <2>2, <2>3 DEF ApiNext
  <1> QED
    BY <1>1, <1>2, StreamInvHolds, PTL DEF ApiSpec

\* A connection is out only for a stream between its query and its end, or for
\* a request that is asking the database; whoever is over has given it back.
THEOREM PoolIsAccounted == ApiSpec => []PoolAccounted
  BY PoolInvHolds, PTL DEF PoolInv

\* Types, and never more connections out than the pool has.
THEOREM StreamTypes == ApiSpec => []TypeOK
  <1>1. StreamInv /\ PoolInv => TypeOK
    <2> SUFFICES ASSUME StreamInv, PoolInv PROVE TypeOK
      OBVIOUS
    <2>1. \A r \in Requests : \A i \in DOMAIN sent[r] : sent[r][i] \in Event
      BY DEF StreamInv, Types
    <2> QED
      BY <2>1 DEF StreamInv, PoolInv, Types, TypeOK, Positions, Event
  <1> QED
    BY <1>1, StreamInvHolds, PoolInvHolds, PTL
=============================================================================

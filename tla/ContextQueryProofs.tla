------------------------- MODULE ContextQueryProofs -------------------------
(***************************************************************************)
(* Proofs about ContextQuery, for any users, sessions, patterns, tags,     *)
(* creation times and limit.                                               *)
(***************************************************************************)
EXTENDS ContextQuery, FiniteSetTheorems, SequenceTheorems, TLAPS

(***************************************************************************)
(* The loop.                                                               *)
(***************************************************************************)

\* What holds of 0, and of i + 1 when it holds of an i below n, holds of n: or
\* adding one would map the numbers that it holds of into themselves, without 0.
LEMMA Climb ==
    ASSUME NEW n \in Nat, NEW G, 0 \in G,
           \A i \in 0..n : i \in G /\ i # n => i + 1 \in G
    PROVE  n \in G
  <1> SUFFICES ASSUME n \notin G PROVE FALSE
    OBVIOUS
  <1> DEFINE H == {i \in 0..n : i \in G}
             next == [i \in H |-> i + 1]
  <1>1. IsFiniteSet(0..n)
    BY FS_Interval
  <1>2. IsFiniteSet(H)
    BY <1>1, FS_Subset
  <1>3. \A i \in H : i + 1 \in H
    OBVIOUS
  <1>4. next \in [H -> H]
    BY <1>3
  <1>5. next \in Injection(H, H)
    BY <1>4 DEF Injection, IsInjective
  <1>6. next \in Surjection(H, H)
    BY <1>2, <1>5, FS_Injection
  <1>7. 0 \in H
    OBVIOUS
  <1>8. \A j \in H : next[j] # 0
    OBVIOUS
  <1> HIDE DEF H, next
  <1> QED
    BY <1>6, <1>7, <1>8 DEF Surjection

\* f is what the loop has kept after each of the first m rows.
Scans(f, m, seq, sig, ids) ==
    f = [i \in 0..m |-> IF i = 0 THEN <<>> ELSE Turn(f[i-1], sig, ids, seq[i])]

LEMMA ScanGrows ==
    ASSUME NEW m \in Nat, NEW f, NEW seq, NEW sig, NEW ids, Scans(f, m, seq, sig, ids)
    PROVE  \E g : Scans(g, m + 1, seq, sig, ids)
  <1> DEFINE g == [i \in 0..(m + 1) |->
                      IF i <= m THEN f[i] ELSE Turn(f[m], sig, ids, seq[m + 1])]
  <1>1. /\ f[0] = <<>>
        /\ \A i \in 1..m : f[i] = Turn(f[i-1], sig, ids, seq[i])
    BY DEF Scans
  <1>2. \A i \in 0..(m + 1) :
            g[i] = IF i = 0 THEN <<>> ELSE Turn(g[i-1], sig, ids, seq[i])
    <2> TAKE i \in 0..(m + 1)
    <2>1. CASE i = 0
      BY <1>1, <2>1
    <2>2. CASE i \in 1..m
      <3>1. i - 1 \in 0..(m + 1) /\ i - 1 <= m /\ i <= m
        BY <2>2
      <3>2. g[i-1] = f[i-1] /\ g[i] = f[i]
        BY <3>1
      <3> QED
        BY <1>1, <2>2, <3>2
    <2>3. CASE i = m + 1
      <3>1. i - 1 = m /\ m \in 0..(m + 1) /\ i # 0
        BY <2>3
      <3>2. g[i-1] = f[m]
        BY <3>1
      <3>3. g[i] = Turn(f[m], sig, ids, seq[m + 1])
        BY <2>3
      <3> QED
        BY <2>3, <3>1, <3>2, <3>3
    <2> QED
      BY <2>1, <2>2, <2>3
  <1>3. g = [i \in 0..(m + 1) |-> g[i]]
    OBVIOUS
  <1> HIDE DEF g
  <1>4. Scans(g, m + 1, seq, sig, ids)
    BY <1>2, <1>3 DEF Scans
  <1> QED
    BY <1>4

LEMMA ScanExists ==
    ASSUME NEW n \in Nat, NEW seq, NEW sig, NEW ids
    PROVE  \E f : Scans(f, n, seq, sig, ids)
  <1> DEFINE G == {m \in Nat : \E f : Scans(f, m, seq, sig, ids)}
  <1>1. 0 \in G
    <2> DEFINE f == [i \in 0..0 |-> <<>>]
    <2>1. f = [i \in 0..0 |-> IF i = 0 THEN <<>> ELSE Turn(f[i-1], sig, ids, seq[i])]
      OBVIOUS
    <2> QED
      BY <2>1 DEF Scans
  <1>2. \A i \in 0..n : i \in G /\ i # n => i + 1 \in G
    BY ScanGrows
  <1> HIDE DEF G
  <1>3. n \in G
    BY <1>1, <1>2, Climb
  <1> QED
    BY <1>3 DEF G

LEMMA KeptScans ==
    ASSUME NEW seq, Len(seq) \in Nat, NEW sig, NEW ids
    PROVE  \E f : /\ Scans(f, Len(seq), seq, sig, ids)
                  /\ Kept(seq, sig, ids) = f[Len(seq)]
  <1> DEFINE f == CHOOSE f : Scans(f, Len(seq), seq, sig, ids)
  <1>1. Scans(f, Len(seq), seq, sig, ids)
    BY ScanExists
  <1>2. Kept(seq, sig, ids) = f[Len(seq)]
    BY DEF Kept, Scans
  <1> QED
    BY <1>1, <1>2

(***************************************************************************)
(* What the loop has kept after p rows: the first of those that match, in  *)
(* the order of the rows, and all of them while there was room.            *)
(***************************************************************************)
At(at, k, p, seq, sig, ids) ==
    /\ at \in [1..Len(k) -> 1..p]
    /\ \A i, j \in 1..Len(k) : i < j => at[i] < at[j]
    /\ \A i \in 1..Len(k) : k[i] = seq[at[i]] /\ Matches(sig, ids, seq[at[i]])
    /\ \A q \in 1..p : Matches(sig, ids, seq[q]) =>
          \/ \E i \in 1..Len(k) : at[i] = q
          \/ Len(k) = Limit /\ \A i \in 1..Len(k) : at[i] < q

Picked(k, p, seq, sig, ids) ==
    /\ k \in Seq(Sessions) /\ Len(k) <= Limit
    /\ \E at : At(at, k, p, seq, sig, ids)

LEMMA TurnPicks ==
    ASSUME NEW seq \in Seq(Sessions), NEW sig, NEW ids, NEW p \in Nat, p < Len(seq),
           NEW k, Picked(k, p, seq, sig, ids)
    PROVE  Picked(Turn(k, sig, ids, seq[p + 1]), p + 1, seq, sig, ids)
  <1> DEFINE s == seq[p + 1]
  <1>0. Limit \in Nat /\ k \in Seq(Sessions) /\ Len(k) \in Nat /\ Len(k) <= Limit
    BY ContextQueryAssumption DEF Picked
  <1>1. s \in Sessions
    OBVIOUS
  <1>2. PICK at : At(at, k, p, seq, sig, ids)
    BY DEF Picked
  <1>3. CASE Len(k) < Limit /\ Matches(sig, ids, s)
    <2> DEFINE l == Append(k, s)
               n == Len(k)
               to == [i \in 1..(n + 1) |-> IF i <= n THEN at[i] ELSE p + 1]
    <2>1. l \in Seq(Sessions) /\ Len(l) = n + 1 /\ l[n + 1] = s
      BY <1>0, <1>1
    <2>2. \A i \in 1..n : l[i] = k[i]
      BY <1>0, <1>1
    <2>3. n \in Nat /\ n + 1 <= Limit
      BY <1>0, <1>3
    <2>4. /\ to[n + 1] = p + 1 /\ DOMAIN to = 1..(n + 1)
          /\ \A i \in 1..n : to[i] = at[i] /\ to[i] \in 1..p
      BY <1>2, <2>3 DEF At
    <2>5. \A i \in 1..(n + 1) : i \in 1..n \/ i = n + 1
      BY <2>3
    <2>6. to \in [1..Len(l) -> 1..(p + 1)]
      <3>1. \A i \in 1..(n + 1) : to[i] \in 1..(p + 1)
        BY <2>4, <2>5
      <3>2. to = [i \in 1..(n + 1) |-> to[i]]
        OBVIOUS
      <3> HIDE DEF to
      <3> QED
        BY <2>1, <3>1, <3>2
    <2> HIDE DEF to
    <2>7. \A i, j \in 1..(n + 1) : i < j => to[i] < to[j]
      <3> TAKE i, j \in 1..(n + 1)
      <3> HAVE i < j
      <3>1. i \in 1..n
        BY <2>3
      <3>2. CASE j \in 1..n
        BY <1>2, <2>4, <3>1, <3>2 DEF At
      <3>3. CASE j = n + 1
        <4>1. to[i] \in 1..p /\ to[j] = p + 1
          BY <2>4, <3>1, <3>3
        <4> QED
          BY <4>1
      <3> QED
        BY <2>5, <3>2, <3>3
    <2>8. \A i \in 1..(n + 1) : l[i] = seq[to[i]] /\ Matches(sig, ids, seq[to[i]])
      <3> TAKE i \in 1..(n + 1)
      <3>1. CASE i \in 1..n
        BY <1>2, <2>2, <2>4, <3>1 DEF At
      <3>2. CASE i = n + 1
        BY <1>3, <2>1, <2>4, <3>2
      <3> QED
        BY <2>5, <3>1, <3>2
    <2>9. \A q \in 1..(p + 1) : Matches(sig, ids, seq[q]) =>
              \E i \in 1..(n + 1) : to[i] = q
      <3> TAKE q \in 1..(p + 1)
      <3> HAVE Matches(sig, ids, seq[q])
      <3>1. CASE q \in 1..p
        <4>1. PICK i \in 1..n : at[i] = q
          BY <1>2, <1>3, <3>1 DEF At
        <4>2. i \in 1..(n + 1) /\ to[i] = q
          BY <2>3, <2>4, <4>1
        <4> QED
          BY <4>2
      <3>2. CASE q = p + 1
        <4>1. n + 1 \in 1..(n + 1)
          BY <2>3
        <4> QED
          BY <2>4, <3>2, <4>1
      <3>3. q \in 1..p \/ q = p + 1
        OBVIOUS
      <3> QED
        BY <3>1, <3>2, <3>3
    <2>10. Turn(k, sig, ids, s) = l
      BY <1>3 DEF Turn
    <2> HIDE DEF l, n
    <2>11. At(to, l, p + 1, seq, sig, ids)
      BY <2>1, <2>6, <2>7, <2>8, <2>9 DEF At
    <2> QED
      BY <2>1, <2>3, <2>10, <2>11 DEF Picked
  <1>4. CASE ~(Len(k) < Limit /\ Matches(sig, ids, s))
    <2>1. Turn(k, sig, ids, s) = k
      BY <1>4 DEF Turn
    <2>2. at \in [1..Len(k) -> 1..(p + 1)]
      <3>1. 1..p \subseteq 1..(p + 1)
        OBVIOUS
      <3>2. at \in [1..Len(k) -> 1..p]
        BY <1>2 DEF At
      <3> QED
        BY <3>1, <3>2
    <2>3. \A q \in 1..(p + 1) : Matches(sig, ids, seq[q]) =>
              \/ \E i \in 1..Len(k) : at[i] = q
              \/ Len(k) = Limit /\ \A i \in 1..Len(k) : at[i] < q
      <3> TAKE q \in 1..(p + 1)
      <3> HAVE Matches(sig, ids, seq[q])
      <3>1. CASE q \in 1..p
        BY <1>2, <3>1 DEF At
      <3>2. CASE q = p + 1
        <4>1. Len(k) = Limit
          BY <1>0, <1>4, <3>2
        <4>2. \A i \in 1..Len(k) : at[i] \in 1..p
          BY <1>2 DEF At
        <4>3. \A i \in 1..Len(k) : at[i] < q
          BY <3>2, <4>2
        <4> QED
          BY <4>1, <4>3
      <3>3. q \in 1..p \/ q = p + 1
        OBVIOUS
      <3> QED
        BY <3>1, <3>2, <3>3
    <2>4. At(at, k, p + 1, seq, sig, ids)
      BY <1>2, <2>2, <2>3 DEF At
    <2> QED
      BY <1>0, <2>1, <2>4 DEF Picked
  <1> QED
    BY <1>3, <1>4

LEMMA KeptPicks ==
    ASSUME NEW seq \in Seq(Sessions), NEW sig, NEW ids
    PROVE  Picked(Kept(seq, sig, ids), Len(seq), seq, sig, ids)
  <1> DEFINE n == Len(seq)
  <1>1. n \in Nat
    OBVIOUS
  <1>2. PICK f : Scans(f, n, seq, sig, ids) /\ Kept(seq, sig, ids) = f[n]
    BY <1>1, KeptScans
  <1>3. /\ f[0] = <<>>
        /\ \A i \in 1..n : f[i] = Turn(f[i-1], sig, ids, seq[i])
    BY <1>1, <1>2 DEF Scans
  <1> DEFINE G == {p \in 0..n : Picked(f[p], p, seq, sig, ids)}
  <1>4. 0 \in G
    <2>1. <<>> \in Seq(Sessions) /\ Len(<<>>) = 0 /\ 0 <= Limit
      BY ContextQueryAssumption
    <2>2. At(<<>>, <<>>, 0, seq, sig, ids)
      <3>1. 1..0 = {}
        OBVIOUS
      <3>2. <<>> \in [1..0 -> 1..0]
        BY <3>1
      <3> QED
        BY <2>1, <3>1, <3>2 DEF At
    <2>3. Picked(<<>>, 0, seq, sig, ids)
      BY <2>1, <2>2 DEF Picked
    <2> QED
      BY <1>1, <1>3, <2>3
  <1>5. \A i \in 0..n : i \in G /\ i # n => i + 1 \in G
    <2> SUFFICES ASSUME NEW i \in 0..n, i \in G, i # n PROVE i + 1 \in G
      OBVIOUS
    <2>1. i \in Nat /\ i < n /\ i + 1 \in 1..n /\ i + 1 \in 0..n /\ (i + 1) - 1 = i
      BY <1>1
    <2>2. f[i + 1] = Turn(f[i], sig, ids, seq[i + 1])
      BY <1>3, <2>1
    <2>3. Picked(f[i + 1], i + 1, seq, sig, ids)
      BY <2>1, <2>2, TurnPicks
    <2> QED
      BY <2>1, <2>3
  <1> HIDE DEF G
  <1>6. n \in G
    BY <1>1, <1>4, <1>5, Climb
  <1> QED
    BY <1>2, <1>6 DEF G

(***************************************************************************)
(* The invariant: tags are stored clean, and an answer keeps its owner.    *)
(***************************************************************************)
Tables ==
    /\ sessions = [s \in Sessions |-> sessions[s]]
    /\ \A s \in Sessions : Bound(s) =>
          /\ sessions[s] \in Session
          /\ Accepted(sessions[s].sent)
          /\ sessions[s].tags = Normalized(sessions[s].sent)

Answer ==
    /\ asked \in [user : Users, signal : Spelt]
    /\ \A i \in DOMAIN result :
          /\ result[i] \in Sessions /\ Bound(result[i])
          /\ sessions[result[i]].owner = asked.user

CInv == Tables /\ Answer

LEMMA InitCInv == Init => CInv
  <1> SUFFICES ASSUME Init PROVE CInv
    OBVIOUS
  <1>1. \A s \in Sessions : ~Bound(s)
    BY DEF Init, Bound
  <1>2. sessions = [s \in Sessions |-> sessions[s]]
    BY DEF Init
  <1>3. DOMAIN result = {}
    BY DEF Init
  <1> QED
    BY <1>1, <1>2, <1>3 DEF CInv, Tables, Answer, Init

\* A list that is accepted is stored as tags in the clean spelling.
LEMMA NormalizedTags ==
    ASSUME NEW list \in Written
    PROVE  Normalized(list) \subseteq {tag \in Tag : tag.as = "clean"}
  <1>1. \A i \in DOMAIN list : list[i] \in Tag
    BY ContextQueryAssumption
  <1>2. \A tag \in Tag : Clean(tag) \in Tag /\ Clean(tag).as = "clean"
    BY DEF Clean, Tag
  <1> QED
    BY <1>1, <1>2 DEF Normalized

LEMMA StoreKeeps ==
    ASSUME CInv, NEW s \in Sessions, NEW u \in Users, NEW list \in Written,
           Store(s, u, list)
    PROVE  CInv'
  <1> DEFINE row == sessions'[s]
  <1> DEFINE RowWritten ==
          /\ sessions' = [q \in Sessions |-> IF q = s THEN row ELSE sessions[q]]
          /\ row \in Session /\ row.sent = list /\ row.tags = Normalized(list)
          /\ Bound(s) => row.owner = sessions[s].owner
  <1>1. RowWritten
    <2>1. Normalized(list) \in SUBSET Tag
      BY NormalizedTags
    <2>2. sessions = [q \in Sessions |-> sessions[q]]
      BY DEF CInv, Tables
    <2>3. ASSUME ~Bound(s), NEW t \in Stamps,
                 sessions' = [sessions EXCEPT ![s] =
                     [owner |-> u, tags |-> Normalized(list), sent |-> list, created |-> t]]
          PROVE  RowWritten
      BY <2>1, <2>2, <2>3 DEF Session
    <2>4. ASSUME Bound(s),
                 sessions' = [sessions EXCEPT ![s].tags = Normalized(list), ![s].sent = list]
          PROVE  RowWritten
      <3>1. sessions[s] \in Session
        BY <2>4 DEF CInv, Tables
      <3>2. row = [sessions[s] EXCEPT !.tags = Normalized(list), !.sent = list]
        BY <2>2, <2>4
      <3>3. row \in Session /\ row.sent = list /\ row.tags = Normalized(list)
        BY <2>1, <3>1, <3>2 DEF Session
      <3>4. row.owner = sessions[s].owner
        BY <3>1, <3>2 DEF Session
      <3>5. sessions' = [q \in Sessions |-> IF q = s THEN row ELSE sessions[q]]
        BY <2>2, <2>4
      <3> QED
        BY <3>3, <3>4, <3>5
    <2> QED
      BY <2>3, <2>4 DEF Store
  <1> HIDE DEF row
  <1>2. Bound(s)' /\ \A q \in Sessions : q # s => (Bound(q)' <=> Bound(q))
    BY <1>1, ContextQueryAssumption DEF Bound
  <1>3. Accepted(list)
    BY DEF Store
  <1>4. Tables'
    <2>1. ASSUME NEW q \in Sessions, Bound(q)'
          PROVE  /\ sessions'[q] \in Session
                 /\ Accepted(sessions'[q].sent)
                 /\ sessions'[q].tags = Normalized(sessions'[q].sent)
      BY <1>1, <1>2, <1>3, <2>1 DEF CInv, Tables
    <2> QED
      BY <1>1, <2>1 DEF Tables
  <1>5. Answer'
    BY <1>1, <1>2 DEF CInv, Answer, Store
  <1> QED
    BY <1>4, <1>5 DEF CInv

\* The database's answer has each of the rows once, and none after an older one.
LEMMA OrderedRows ==
    ASSUME NEW rows \in SUBSET Sessions, NEW seq \in Ordered(rows)
    PROVE  /\ seq \in Seq(Sessions)
           /\ \A i \in 1..Len(seq) : seq[i] \in rows
           /\ \A s \in rows : \E i \in 1..Len(seq) : seq[i] = s
           /\ \A i, j \in 1..Len(seq) :
                 i < j => seq[i] # seq[j] /\ ~Newer(seq[j], seq[i])
  <1>1. IsFiniteSet(rows)
    BY ContextQueryAssumption, FS_Subset
  <1> DEFINE n == Cardinality(rows)
  <1>2. n \in Nat
    BY <1>1, FS_CardinalityType
  <1>3. /\ seq \in [1..n -> rows]
        /\ \A s \in rows : \E i \in 1..n : seq[i] = s
        /\ \A i, j \in 1..n : seq[i] = seq[j] => i = j
        /\ \A i, j \in 1..n : Newer(seq[j], seq[i]) => j < i
    BY DEF Ordered, Bijection, Injection, Surjection, IsInjective
  <1> HIDE DEF n
  <1>4. seq \in Seq(Sessions) /\ Len(seq) = n
    BY <1>2, <1>3
  <1> QED
    BY <1>2, <1>3, <1>4

\* What the second SELECT and the loop return: the first of the user's sessions
\* that match, in an order in which no session comes after an older one.
LEMMA SessionsRead ==
    ASSUME ReadSessions
    PROVE  \E seq \in Seq(Sessions) :
              /\ \A i \in 1..Len(seq) : seq[i] \in Rows(asked.user)
              /\ \A s \in Rows(asked.user) : \E i \in 1..Len(seq) : seq[i] = s
              /\ \A i, j \in 1..Len(seq) :
                    i < j => seq[i] # seq[j] /\ ~Newer(seq[j], seq[i])
              /\ Picked(result', Len(seq), seq, asked.signal, evidence)
  <1>1. PICK seq \in Ordered(Rows(asked.user)) :
            result' = Kept(seq, asked.signal, evidence)
    BY DEF ReadSessions
  <1>2. Rows(asked.user) \in SUBSET Sessions
    BY DEF Rows
  <1>3. /\ seq \in Seq(Sessions)
        /\ \A i \in 1..Len(seq) : seq[i] \in Rows(asked.user)
        /\ \A s \in Rows(asked.user) : \E i \in 1..Len(seq) : seq[i] = s
        /\ \A i, j \in 1..Len(seq) :
              i < j => seq[i] # seq[j] /\ ~Newer(seq[j], seq[i])
    BY <1>2, OrderedRows
  <1>4. Picked(result', Len(seq), seq, asked.signal, evidence)
    BY <1>1, <1>3, KeptPicks
  <1> QED
    BY <1>3, <1>4

LEMMA ReadKeeps ==
    ASSUME CInv, ReadSessions PROVE CInv'
  <1>1. PICK seq \in Seq(Sessions) :
           /\ \A i \in 1..Len(seq) : seq[i] \in Rows(asked.user)
           /\ Picked(result', Len(seq), seq, asked.signal, evidence)
    BY SessionsRead
  <1>2. \A i \in DOMAIN result' : result'[i] \in Rows(asked.user)
    <2>1. PICK at : At(at, result', Len(seq), seq, asked.signal, evidence)
      BY <1>1 DEF Picked
    <2>2. DOMAIN result' = 1..Len(result')
      BY <1>1 DEF Picked
    <2> QED
      BY <1>1, <2>1, <2>2 DEF At
  <1>3. sessions' = sessions /\ asked' = asked
    BY DEF ReadSessions
  <1> QED
    BY <1>2, <1>3 DEF CInv, Tables, Answer, Rows, Bound

LEMMA NextCInv == CInv /\ [Next]_vars => CInv'
  <1> SUFFICES ASSUME CInv, [Next]_vars PROVE CInv'
    OBVIOUS
  <1>1. ASSUME NEW s \in Sessions, NEW u \in Users, NEW list \in Written, Store(s, u, list)
        PROVE  CInv'
    BY <1>1, StoreKeeps
  <1>2. ASSUME NEW p \in Patterns, NEW row, Analyse(p, row) PROVE CInv'
    BY <1>2 DEF CInv, Tables, Answer, Bound, Analyse
  <1>3. ASSUME NEW u \in Users, NEW sig \in Spelt, ReadPatterns(u, sig) PROVE CInv'
    <2>1. /\ sessions' = sessions /\ DOMAIN result' = {}
          /\ asked' \in [user : Users, signal : Spelt]
      BY <1>3 DEF ReadPatterns
    <2> QED
      BY <2>1 DEF CInv, Tables, Answer, Bound
  <1>4. CASE ReadSessions
    BY <1>4, ReadKeeps
  <1>5. CASE Forget
    <2>1. sessions' = sessions /\ asked' = asked /\ DOMAIN result' = {}
      BY <1>5 DEF Forget
    <2> QED
      BY <2>1 DEF CInv, Tables, Answer, Bound
  <1>6. CASE UNCHANGED vars
    BY <1>6 DEF CInv, Tables, Answer, Bound, vars
  <1> QED
    BY <1>1, <1>2, <1>3, <1>4, <1>5, <1>6 DEF Next

LEMMA CInvHolds == Spec => []CInv
  BY InitCInv, NextCInv, PTL DEF Spec

\* No session of another user reaches an answer, or a coaching prompt, even one
\* that a pattern of the user's cites: for any patterns, and any commits between
\* the two SELECTs and after them.
THEOREM OwnSessions == Spec => []OwnSessionsOnly
  <1>1. CInv => OwnSessionsOnly
    BY DEF CInv, Answer, OwnSessionsOnly
  <1> QED
    BY <1>1, CInvHolds, PTL

\* A tag is found however it was spelt when it was sent, if the query spells it
\* clean; and never otherwise.
LEMMA WantedMatches ==
    ASSUME CInv, NEW s \in Rows(asked.user)
    PROVE  Matches(asked.signal, evidence, s) <=> s \in Wanted
  <1> DEFINE sent == sessions[s].sent
  <1>1. /\ s \in Sessions /\ Bound(s) /\ sessions[s].owner = asked.user
        /\ sent \in Written /\ sessions[s].tags = Normalized(sent)
    BY DEF CInv, Tables, Rows, Session
  <1>2. asked.signal \in Tag
    BY ContextQueryAssumption DEF CInv, Answer
  <1>3. \A i \in DOMAIN sent :
            /\ sent[i] \in Tag
            /\ asked.signal = Clean(sent[i])
                  <=> asked.signal.as = "clean" /\ sent[i].of = asked.signal.of
    <2> TAKE i \in DOMAIN sent
    <2>1. sent[i] \in Tag
      BY <1>1, ContextQueryAssumption
    <2>2. Clean(sent[i]) = [of |-> sent[i].of, as |-> "clean"]
      BY <2>1 DEF Clean, Tag
    <2>3. asked.signal = [of |-> asked.signal.of, as |-> asked.signal.as]
      BY <1>2 DEF Tag
    <2> QED
      BY <2>1, <2>2, <2>3
  <1>4. asked.signal \in sessions[s].tags <=>
            /\ asked.signal.as = "clean"
            /\ \E i \in DOMAIN sent : sent[i].of = asked.signal.of
    BY <1>1, <1>3 DEF Normalized
  <1> QED
    BY <1>1, <1>4 DEF Matches, Wanted

\* When the sessions are read, those kept are the newest of the ones the caller
\* means, newest first, each once, and none is left out while there is room: for
\* any limit, and any number of sessions, some of them of one creation time.
THEOREM NewestRelevant == Spec => LastRelevant
  <1> DEFINE Returned ==
        /\ Range(result') \subseteq Wanted /\ Len(result') <= Limit
        /\ \A i, j \in DOMAIN result' : i < j =>
              /\ result'[i] # result'[j]
              /\ sessions[result'[i]].created >= sessions[result'[j]].created
        /\ \A s \in Wanted \ Range(result') :
              /\ Len(result') = Limit
              /\ \A i \in DOMAIN result' :
                    sessions[result'[i]].created >= sessions[s].created
  <1>1. ASSUME CInv, ReadSessions PROVE Returned
    <2>1. PICK seq \in Seq(Sessions) :
             /\ \A i \in 1..Len(seq) : seq[i] \in Rows(asked.user)
             /\ \A s \in Rows(asked.user) : \E i \in 1..Len(seq) : seq[i] = s
             /\ \A i, j \in 1..Len(seq) :
                   i < j => seq[i] # seq[j] /\ ~Newer(seq[j], seq[i])
             /\ Picked(result', Len(seq), seq, asked.signal, evidence)
      BY <1>1, SessionsRead
    <2> PICK at : At(at, result', Len(seq), seq, asked.signal, evidence)
      BY <2>1 DEF Picked
    <2>2. \A s \in Rows(asked.user) :
              Matches(asked.signal, evidence, s) <=> s \in Wanted
      BY <1>1, WantedMatches
    <2>3. \A s, t \in Rows(asked.user) :
              ~Newer(s, t) => sessions[t].created >= sessions[s].created
      BY <1>1, ContextQueryAssumption DEF CInv, Tables, Rows, Session, Newer
    <2>4. Wanted \subseteq Rows(asked.user)
      BY DEF Wanted, Rows
    <2>5. DOMAIN result' = 1..Len(result') /\ Len(result') <= Limit
      BY <2>1 DEF Picked
    <2>6. \A i \in DOMAIN result' :
              /\ at[i] \in 1..Len(seq) /\ result'[i] = seq[at[i]]
              /\ Matches(asked.signal, evidence, result'[i])
      BY <2>1, <2>5 DEF At
    <2>7. Range(result') \subseteq Wanted
      BY <2>1, <2>2, <2>6 DEF Range
    <2>8. \A p, q \in 1..Len(seq) : p < q =>
              sessions[seq[p]].created >= sessions[seq[q]].created
      BY <2>1, <2>3
    <2>9. \A i, j \in DOMAIN result' : i < j =>
              /\ result'[i] # result'[j]
              /\ sessions[result'[i]].created >= sessions[result'[j]].created
      <3> SUFFICES ASSUME NEW i \in DOMAIN result', NEW j \in DOMAIN result', i < j
                   PROVE  /\ result'[i] # result'[j]
                          /\ sessions[result'[i]].created >= sessions[result'[j]].created
        OBVIOUS
      <3>1. at[i] < at[j] /\ at[i] \in 1..Len(seq) /\ at[j] \in 1..Len(seq)
        BY <2>5, <2>6 DEF At
      <3>2. /\ seq[at[i]] # seq[at[j]]
            /\ sessions[seq[at[i]]].created >= sessions[seq[at[j]]].created
        BY <2>1, <2>8, <3>1
      <3> QED
        BY <2>6, <3>2
    <2>10. ASSUME NEW s \in Wanted \ Range(result')
           PROVE  /\ Len(result') = Limit
                  /\ \A i \in DOMAIN result' :
                        sessions[result'[i]].created >= sessions[s].created
      <3>1. PICK q \in 1..Len(seq) : seq[q] = s
        BY <2>1, <2>4
      <3>2. \A i \in DOMAIN result' : at[i] # q
        BY <2>6, <3>1 DEF Range
      <3>3. Len(result') = Limit /\ \A i \in DOMAIN result' : at[i] < q
        BY <2>1, <2>2, <2>4, <2>5, <3>1, <3>2 DEF At
      <3> QED
        BY <2>6, <2>8, <3>1, <3>3
    <2> QED
      BY <2>5, <2>7, <2>9, <2>10
  <1>2. CInv /\ [Next]_vars => [pc = "patterns" /\ pc' = "done" => Returned]_vars
    <2> SUFFICES ASSUME CInv, [Next]_vars, pc = "patterns", pc' = "done" PROVE Returned
      OBVIOUS
    <2>1. ReadSessions
      BY DEF Next, Store, Analyse, ReadPatterns, Forget, vars
    <2> QED
      BY <1>1, <2>1
  <1> QED
    BY <1>2, CInvHolds, PTL DEF Spec, LastRelevant
=============================================================================

---------------------------- MODULE AuditProofs -----------------------------
(***************************************************************************)
(* Theorems about Audit, for any sessions and any responses, of whatever   *)
(* size.                                                                   *)
(***************************************************************************)
EXTENDS Audit, TLAPS

TypeOK ==
    /\ known \subseteq Sessions /\ atStart \subseteq known
    /\ cited \in [Sessions -> Nat]
    /\ found \in [Sessions -> Nat] /\ notFound \in [Sessions -> Nat]
    /\ found_count \in Nat /\ not_found_count \in Nat
    /\ pc \in {"idle", "checking", "answered"}

\* What the loop knows at every turn.  A reference that was not found is one
\* whose session was not there when the audit began; a session that was found
\* stays, since nothing deletes one.
Lookups ==
    /\ \A s \in Sessions : found[s] > 0 => s \in known
    /\ \A s \in Sessions : notFound[s] > 0 => s \notin atStart
    /\ pc = "answered" => \A s \in Sessions : Left(s) = 0

\* The counters are positive as soon as a verdict is given, and only then.
Counted ==
    /\ found_count = 0 <=> \A s \in Sessions : found[s] = 0
    /\ not_found_count = 0 <=> \A s \in Sessions : notFound[s] = 0

\* The rate is that of the verdicts.
Rated ==
    /\ pc = "idle" => found_count = 0 /\ not_found_count = 0 /\ rate = 0
    /\ pc = "checking" => cited # None
    /\ pc = "answered" =>
          rate = IF found_count + not_found_count = 0 THEN 0
                 ELSE Round(not_found_count, found_count + not_found_count)

AuditInv == TypeOK /\ Lookups /\ Counted /\ Rated

LEMMA InitHolds == Init => AuditInv
  BY DEF Init, AuditInv, TypeOK, Lookups, Counted, Rated, None, Left

LEMMA ReceiveKeeps ==
  ASSUME AuditInv, NEW response \in Responses, Receive(response)
  PROVE  AuditInv'
  <1>1. pc = "idle" /\ found_count = 0 /\ not_found_count = 0 /\ rate = 0
    BY DEF Receive, AuditInv, Rated
  <1>2. \A s \in Sessions : found[s] = 0 /\ notFound[s] = 0
    BY <1>1 DEF AuditInv, Counted
  <1>3. TypeOK'
    BY AuditAssumption DEF Receive, AuditInv, TypeOK
  <1>4. Lookups'
    BY <1>2 DEF Receive, AuditInv, TypeOK, Lookups, Left, None
  <1>5. Counted' /\ Rated'
    BY <1>1, <1>2 DEF Receive, AuditInv, Counted, Rated
  <1> QED
    BY <1>3, <1>4, <1>5 DEF AuditInv

LEMMA CheckKeeps ==
  ASSUME AuditInv, NEW s \in Sessions, Check(s)
  PROVE  AuditInv'
  <1> USE DEF AuditInv, TypeOK
  <1>1. CASE s \in known
    <2>1. /\ found' = [found EXCEPT ![s] = found[s] + 1]
          /\ found_count' = found_count + 1
          /\ UNCHANGED <<notFound, not_found_count, known, pc, cited, rate, atStart>>
          /\ pc = "checking"
      BY <1>1 DEF Check
    <2>2. TypeOK'
      BY <2>1
    <2>3. Lookups'
      BY <1>1, <2>1 DEF Lookups
    <2>4. Counted'
      BY <2>1 DEF Counted
    <2> QED
      BY <2>1, <2>2, <2>3, <2>4 DEF Rated, None
  <1>2. CASE s \notin known
    <2>1. /\ notFound' = [notFound EXCEPT ![s] = notFound[s] + 1]
          /\ not_found_count' = not_found_count + 1
          /\ UNCHANGED <<found, found_count, known, pc, cited, rate, atStart>>
          /\ pc = "checking"
      BY <1>2 DEF Check
    <2>2. TypeOK'
      BY <2>1
    <2>3. Lookups'
      BY <1>2, <2>1 DEF Lookups
    <2>4. Counted'
      BY <2>1 DEF Counted
    <2> QED
      BY <2>1, <2>2, <2>3, <2>4 DEF Rated, None
  <1> QED
    BY <1>1, <1>2

\* The loop has taken a turn at least, so there is a whole to give a share of.
LEMMA AnswerKeeps == AuditInv /\ Answer => AuditInv'
  <1> SUFFICES ASSUME AuditInv, Answer PROVE AuditInv'
    OBVIOUS
  <1> USE DEF AuditInv
  <1>1. \E s \in Sessions : cited[s] # 0
    BY DEF Answer, TypeOK, Rated, None
  <1>2. \E s \in Sessions : found[s] # 0 \/ notFound[s] # 0
    BY <1>1 DEF Answer, Left, TypeOK
  <1>3. found_count + not_found_count # 0
    BY <1>2 DEF Counted, TypeOK
  <1>4. TypeOK' /\ Lookups' /\ Counted'
    BY DEF Answer, TypeOK, Lookups, Counted, Left
  <1>5. Rated'
    BY <1>3 DEF Answer, Rated
  <1> QED
    BY <1>4, <1>5

LEMMA AuditInvHolds == Spec => []AuditInv
  <1>1. AuditInv /\ [Next]_vars => AuditInv'
    <2> SUFFICES ASSUME AuditInv, [Next]_vars PROVE AuditInv'
      OBVIOUS
    <2>1. ASSUME NEW response \in Responses, Receive(response) PROVE AuditInv'
      BY <2>1, ReceiveKeeps
    <2>2. ASSUME NEW s \in Sessions, Store(s) PROVE AuditInv'
      BY <2>2 DEF Store, AuditInv, TypeOK, Lookups, Counted, Rated, Left
    <2>3. ASSUME NEW s \in Sessions, Check(s) PROVE AuditInv'
      BY <2>3, CheckKeeps
    <2>4. CASE Answer
      BY <2>4, AnswerKeeps
    <2>5. CASE Forget
      BY <2>5 DEF Forget, AuditInv, TypeOK, Lookups, Counted, Rated, None, Left
    <2>6. CASE UNCHANGED vars
      BY <2>6 DEF vars, AuditInv, TypeOK, Lookups, Counted, Rated, Left
    <2> QED
      BY <2>1, <2>2, <2>3, <2>4, <2>5, <2>6 DEF Next
  <1> QED
    BY <1>1, InitHolds, PTL DEF Spec

\* The answer of an audit lies between the sessions known when it began and
\* those known when it ends, however many PUTs commit between its lookups.
THEOREM AuditBracketed == Spec => []Bracketed
  <1>1. AuditInv => Bracketed
    BY DEF AuditInv, TypeOK, Lookups, Bracketed, Left
  <1> QED
    BY <1>1, AuditInvHolds, PTL

\* Two decimals show 0 for less than a 200th, and 1 for more than 199 of them:
\* the ties at both ends go inwards.
LEMMA RoundAtTheEnds ==
  ASSUME NEW n \in Nat \ {0}, NEW m \in 0..n
  PROVE  /\ Round(m, n) = 0 <=> 200 * m < n
         /\ Round(m, n) = 100 <=> 200 * (n - m) < n
  <1> DEFINE q == (100 * m) \div n
             rem == (100 * m) % n
  <1>1. q \in Nat /\ rem \in 0..(n - 1) /\ 100 * m = q * n + rem
    OBVIOUS
  <1>2. Round(m, n) = IF 2 * rem > n \/ (2 * rem = n /\ q \in TiesUp) THEN q + 1 ELSE q
    BY DEF Round
  <1>3. 0 \in TiesUp /\ 99 \notin TiesUp
    BY DEF TiesUp
  <1> HIDE DEF q, rem
  <1>4. q = 0 => rem = 100 * m
    BY <1>1
  <1>5. q # 0 => 100 * m >= n
    <2> SUFFICES ASSUME q # 0 PROVE 100 * m >= n
      OBVIOUS
    <2>1. q * n >= n
      BY <1>1
    <2> QED
      BY <1>1, <2>1
  <1>6. q <= 100
    <2> SUFFICES ASSUME q >= 101 PROVE FALSE
      BY <1>1
    <2>1. q * n >= 101 * n
      BY <1>1
    <2> QED
      BY <1>1, <2>1
  <1>7. q = 100 => m = n
    <2> SUFFICES ASSUME q = 100 PROVE m = n
      OBVIOUS
    <2>1. 100 * m = 100 * n + rem
      BY <1>1
    <2> QED
      BY <1>1, <2>1
  <1>8. q = 99 => rem = 100 * m - 99 * n
    BY <1>1
  <1>9. q <= 98 => 100 * m < 99 * n
    <2> SUFFICES ASSUME q <= 98 PROVE 100 * m < 99 * n
      OBVIOUS
    <2>1. q * n <= 98 * n
      BY <1>1
    <2> QED
      BY <1>1, <2>1
  <1>10. Round(m, n) = 0 <=> 200 * m < n
    BY <1>1, <1>2, <1>3, <1>4, <1>5
  <1>11. Round(m, n) = 100 <=> 200 * (n - m) < n
    BY <1>1, <1>2, <1>3, <1>6, <1>7, <1>8, <1>9
  <1> QED
    BY <1>10, <1>11

\* A rate of 0 or 1 hides fewer than one reference in 200, whatever the size of
\* the response and whatever is stored between the lookups.
THEOREM ExtremesHideFew == Spec => []ExtremesNearlyExact
  <1>1. AuditInv => ExtremesNearlyExact
    <2> SUFFICES ASSUME AuditInv, pc = "answered" PROVE ExtremesNearlyExact
      BY DEF ExtremesNearlyExact
    <2> DEFINE f == found_count
               m == not_found_count
    <2>1. /\ f \in Nat /\ m \in Nat
          /\ f = 0 <=> \A s \in Sessions : found[s] = 0
          /\ m = 0 <=> \A s \in Sessions : notFound[s] = 0
          /\ rate = IF f + m = 0 THEN 0 ELSE Round(m, f + m)
      BY DEF AuditInv, TypeOK, Counted, Rated
    <2>2. f + m # 0 => /\ rate = 0 <=> 200 * m < f + m
                       /\ rate = 100 <=> 200 * f < f + m
      <3> SUFFICES ASSUME f + m # 0
                   PROVE  /\ rate = 0 <=> 200 * m < f + m
                          /\ rate = 100 <=> 200 * f < f + m
        OBVIOUS
      <3> DEFINE n == f + m
      <3>1. n \in Nat \ {0} /\ m \in 0..n /\ n - m = f /\ rate = Round(m, n)
        BY <2>1
      <3> HIDE DEF n
      <3>2. /\ rate = 0 <=> 200 * m < n
            /\ rate = 100 <=> 200 * (n - m) < n
        BY <3>1, RoundAtTheEnds
      <3> QED
        BY <3>1, <3>2 DEF n
    <2> QED
      BY <2>1, <2>2 DEF ExtremesNearlyExact
  <1> QED
    BY <1>1, AuditInvHolds, PTL
=============================================================================

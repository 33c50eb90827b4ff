-------------------------- MODULE EvaluationProofs --------------------------
(***************************************************************************)
(* Proofs about Profiler and Evaluation, for any trades, thresholds and    *)
(* labels and histories of any length.                                     *)
(***************************************************************************)
EXTENDS Evaluation, FiniteSetTheorems, SequenceTheorems, TLAPS

-----------------------------------------------------------------------------
(***************************************************************************)
(* The confusion matrix.                                                   *)
(***************************************************************************)

Counters == [{"tp", "fp", "fn"} -> Nat]

TallyType ==
    /\ scored \in Nat
    /\ stats \in [Classes -> Counters]
    /\ confusion \in [Classes \X Columns -> Nat]

\* One trader adds to the matrix no more than to the counters, and to the
\* diagonal exactly the true positives.
LEMMA OneTrader ==
    ASSUME NEW truth, NEW found, NEW c \in Classes
    PROVE  LET n == Count(c, truth, found) IN
           /\ n \in Counters
           /\ n.tp + n.fp + n.fn <= 1
           /\ Bit(Cell(truth, found, c, c)) = n.tp
           /\ Bit(Cell(truth, found, c, "None")) <= n.fn
           /\ \A p \in Columns :
                 /\ Bit(Cell(truth, found, c, p)) \in Nat
                 /\ Bit(Cell(truth, found, c, p)) <= n.tp + n.fn
           /\ \A p \in Classes \ {c} :
                 Bit(Cell(truth, found, c, p))
                    <= Count(p, truth, found).tp + Count(p, truth, found).fp
  <1>1. c # "None" /\ "None" \notin Classes
    BY EvaluationAssumption
  <1>2. \A b \in BOOLEAN : Bit(b) \in {0, 1}
    BY DEF Bit
  <1>3. Count(c, truth, found) \in Counters
    BY DEF Count, Bit, Counters
  <1>4. Count(c, truth, found).tp + Count(c, truth, found).fp
            + Count(c, truth, found).fn <= 1
    BY DEF Count, Bit
  <1>5. /\ Bit(Cell(truth, found, c, c)) = Count(c, truth, found).tp
        /\ Bit(Cell(truth, found, c, "None")) <= Count(c, truth, found).fn
    BY <1>1 DEF Count, Bit, Cell
  <1>6. ASSUME NEW p \in Columns
        PROVE  /\ Bit(Cell(truth, found, c, p)) \in Nat
               /\ Bit(Cell(truth, found, c, p))
                     <= Count(c, truth, found).tp + Count(c, truth, found).fn
    BY DEF Count, Bit, Cell
  <1>7. ASSUME NEW p \in Classes \ {c}
        PROVE  Bit(Cell(truth, found, c, p))
                   <= Count(p, truth, found).tp + Count(p, truth, found).fp
    BY <1>1 DEF Count, Bit, Cell
  <1> QED
    BY <1>3, <1>4, <1>5, <1>6, <1>7

LEMMA InitTally == Init => TallyType /\ MatrixAgrees
  <1> SUFFICES ASSUME Init PROVE TallyType /\ MatrixAgrees
    OBVIOUS
  <1>1. \A c \in Classes : c \in Columns /\ "None" \in Columns
    BY DEF Columns
  <1> QED
    BY <1>1 DEF Init, TallyType, Counters, MatrixAgrees

LEMMA ScoreKeepsTally ==
    ASSUME TallyType, MatrixAgrees, NEW truth, ScoreTrader(truth)
    PROVE  TallyType' /\ MatrixAgrees'
  <1> DEFINE found == Detected(history)
             n == [c \in Classes |-> Count(c, truth, found)]
             m == [x \in Classes \X Columns |-> Bit(Cell(truth, found, x[1], x[2]))]
  <1>1. /\ scored' = scored + 1
        /\ \A c \in Classes : /\ stats'[c].tp = stats[c].tp + n[c].tp
                              /\ stats'[c].fp = stats[c].fp + n[c].fp
                              /\ stats'[c].fn = stats[c].fn + n[c].fn
        /\ \A c \in Classes, p \in Columns :
              confusion'[<<c, p>>] = confusion[<<c, p>>] + m[<<c, p>>]
        /\ DOMAIN stats' = Classes
        /\ \A c \in Classes : DOMAIN stats'[c] = {"tp", "fp", "fn"}
        /\ stats' = [c \in Classes |-> [k \in {"tp", "fp", "fn"} |-> stats'[c][k]]]
        /\ confusion' = [x \in Classes \X Columns |-> confusion[x] + m[x]]
    BY DEF ScoreTrader
  <1>2. \A c \in Classes :
            /\ stats[c].tp \in Nat /\ stats[c].fp \in Nat /\ stats[c].fn \in Nat
            /\ \A p \in Columns : confusion[<<c, p>>] \in Nat
    BY DEF TallyType, Counters
  <1>3. \A c \in Classes :
            /\ n[c].tp \in Nat /\ n[c].fp \in Nat /\ n[c].fn \in Nat
            /\ n[c].tp + n[c].fp + n[c].fn <= 1
            /\ m[<<c, c>>] = n[c].tp
            /\ m[<<c, "None">>] <= n[c].fn
            /\ \A p \in Columns : m[<<c, p>>] \in Nat /\ m[<<c, p>>] <= n[c].tp + n[c].fn
            /\ \A p \in Classes \ {c} : m[<<c, p>>] <= n[p].tp + n[p].fp
    <2>1. \A c \in Classes : c \in Columns /\ "None" \in Columns
      BY DEF Columns
    <2> QED
      BY <2>1, OneTrader DEF Counters
  <1> HIDE DEF n, m, found
  <1>4. TallyType'
    <2>1. scored' \in Nat
      BY <1>1 DEF TallyType
    <2>2. \A c \in Classes, k \in {"tp", "fp", "fn"} : stats'[c][k] \in Nat
      <3> SUFFICES ASSUME NEW c \in Classes
                   PROVE  /\ stats'[c].tp \in Nat
                          /\ stats'[c].fp \in Nat
                          /\ stats'[c].fn \in Nat
        OBVIOUS
      <3> DEFINE a == stats[c]
                 b == n[c]
      <3>1. /\ stats'[c].tp = a.tp + b.tp
            /\ stats'[c].fp = a.fp + b.fp
            /\ stats'[c].fn = a.fn + b.fn
        BY <1>1
      <3>2. /\ a.tp \in Nat /\ a.fp \in Nat /\ a.fn \in Nat
            /\ b.tp \in Nat /\ b.fp \in Nat /\ b.fn \in Nat
        BY <1>2, <1>3
      <3> HIDE DEF a, b
      <3> QED
        BY <3>1, <3>2
    <2>3. stats' \in [Classes -> Counters]
      BY <1>1, <2>2 DEF Counters
    <2>4. \A x \in Classes \X Columns : confusion[x] \in Nat /\ m[x] \in Nat
      <3>1. \A x \in Classes \X Columns : x = <<x[1], x[2]>>
        OBVIOUS
      <3> QED
        BY <1>3, <3>1 DEF TallyType
    <2>5. confusion' \in [Classes \X Columns -> Nat]
      BY <1>1, <2>4
    <2> QED
      BY <2>1, <2>3, <2>5 DEF TallyType
  <1>5. MatrixAgrees'
    <2> SUFFICES ASSUME NEW c \in Classes
                 PROVE  /\ stats'[c].tp + stats'[c].fp + stats'[c].fn <= scored'
                        /\ confusion'[<<c, c>>] = stats'[c].tp
                        /\ confusion'[<<c, "None">>] <= stats'[c].fn
                        /\ \A p \in Columns :
                              confusion'[<<c, p>>] <= stats'[c].tp + stats'[c].fn
                        /\ \A p \in Classes \ {c} :
                              confusion'[<<c, p>>] <= stats'[p].tp + stats'[p].fp
      BY DEF MatrixAgrees
    <2>1. c \in Columns /\ "None" \in Columns /\ Classes \subseteq Columns
      BY DEF Columns
    <2> DEFINE a == stats[c]
               b == n[c]
    <2>2. /\ a.tp \in Nat /\ a.fp \in Nat /\ a.fn \in Nat
          /\ b.tp \in Nat /\ b.fp \in Nat /\ b.fn \in Nat
          /\ b.tp + b.fp + b.fn <= 1
          /\ a.tp + a.fp + a.fn <= scored
          /\ scored \in Nat
      BY <1>2, <1>3 DEF MatrixAgrees, TallyType
    <2>3. /\ stats'[c].tp = a.tp + b.tp
          /\ stats'[c].fp = a.fp + b.fp
          /\ stats'[c].fn = a.fn + b.fn
          /\ scored' = scored + 1
      BY <1>1
    <2>4. stats'[c].tp + stats'[c].fp + stats'[c].fn <= scored'
      <3> HIDE DEF a, b
      <3> QED
        BY <2>2, <2>3
    <2>5. confusion'[<<c, c>>] = stats'[c].tp
      <3>1. /\ confusion'[<<c, c>>] = confusion[<<c, c>>] + m[<<c, c>>]
            /\ confusion[<<c, c>>] = a.tp /\ m[<<c, c>>] = b.tp
        BY <1>1, <1>3, <2>1 DEF MatrixAgrees
      <3> QED
        BY <3>1, <2>3
    <2>6. confusion'[<<c, "None">>] <= stats'[c].fn
      <3> DEFINE x == confusion[<<c, "None">>]
                 y == m[<<c, "None">>]
      <3>1. confusion'[<<c, "None">>] = x + y
        BY <1>1, <2>1
      <3>2. x \in Nat /\ y \in Nat /\ x <= a.fn /\ y <= b.fn
        BY <1>2, <1>3, <2>1 DEF MatrixAgrees
      <3> HIDE DEF x, y, a, b
      <3> QED
        BY <3>1, <3>2, <2>2, <2>3
    <2>7. ASSUME NEW p \in Columns
          PROVE  confusion'[<<c, p>>] <= stats'[c].tp + stats'[c].fn
      <3> DEFINE x == confusion[<<c, p>>]
                 y == m[<<c, p>>]
      <3>1. confusion'[<<c, p>>] = x + y
        BY <1>1
      <3>2. /\ x \in Nat /\ y \in Nat
            /\ x <= a.tp + a.fn /\ y <= b.tp + b.fn
        BY <1>2, <1>3 DEF MatrixAgrees
      <3> HIDE DEF x, y, a, b
      <3> QED
        BY <3>1, <3>2, <2>2, <2>3
    <2>8. ASSUME NEW p \in Classes \ {c}
          PROVE  confusion'[<<c, p>>] <= stats'[p].tp + stats'[p].fp
      <3> DEFINE x == confusion[<<c, p>>]
                 y == m[<<c, p>>]
                 d == stats[p]
                 e == n[p]
      <3>1. /\ confusion'[<<c, p>>] = x + y
            /\ stats'[p].tp = d.tp + e.tp
            /\ stats'[p].fp = d.fp + e.fp
        BY <1>1, <2>1
      <3>2. /\ d.tp \in Nat /\ d.fp \in Nat /\ e.tp \in Nat /\ e.fp \in Nat
            /\ x \in Nat /\ y \in Nat
            /\ x <= d.tp + d.fp /\ y <= e.tp + e.fp
        BY <1>2, <1>3, <2>1 DEF MatrixAgrees
      <3> HIDE DEF x, y, d, e
      <3> QED
        BY <3>1, <3>2
    <2> QED
      BY <2>4, <2>5, <2>6, <2>7, <2>8
  <1> QED
    BY <1>4, <1>5

LEMMA TalliesHold == Spec => [](TallyType /\ MatrixAgrees)
  <1>1. TallyType /\ MatrixAgrees /\ [Next]_vars => TallyType' /\ MatrixAgrees'
    <2> SUFFICES ASSUME TallyType, MatrixAgrees, [Next]_vars
                 PROVE  TallyType' /\ MatrixAgrees'
      OBVIOUS
    <2>1. CASE UNCHANGED <<scored, stats, confusion>>
      BY <2>1 DEF TallyType, MatrixAgrees
    <2>2. ASSUME NEW truth, ScoreTrader(truth)
          PROVE  TallyType' /\ MatrixAgrees'
      BY <2>2, ScoreKeepsTally
    <2> QED
      BY <2>1, <2>2 DEF Next, AddTrade, vars
  <1> QED
    BY <1>1, InitTally, PTL DEF Spec

\* The two tallies agree after any number of traders, whatever their labels
\* and whatever was detected.
THEOREM TalliesAgree == Spec => []MatrixAgrees
  BY TalliesHold, PTL

-----------------------------------------------------------------------------
(***************************************************************************)
(* The averages.  An average is a fold over the labels; what it adds up to *)
(* for k of them is shown by induction on k.                               *)
(***************************************************************************)

\* What holds of 0, and of i + 1 when it holds of an i below n, holds of n: or
\* adding one would map the numbers that it holds of into themselves, without 0.
LEMMA Climb ==
    ASSUME NEW n \in Nat, NEW G, 0 \in G,
           \A i \in 0..n : i \in G /\ i # n => i + 1 \in G
    PROVE  n \in G
  <1> SUFFICES ASSUME n \notin G PROVE FALSE
    OBVIOUS
  <1> DEFINE H == {i \in 0..n : i \in G}
             next == [i \in H |-> i + 1]
  <1>1. IsFiniteSet(0..n)
    BY FS_Interval
  <1>2. IsFiniteSet(H)
    BY <1>1, FS_Subset
  <1>3. \A i \in H : i + 1 \in H
    OBVIOUS
  <1>4. next \in [H -> H]
    BY <1>3
  <1>5. next \in Injection(H, H)
    BY <1>4 DEF Injection, IsInjective
  <1>6. next \in Surjection(H, H)
    BY <1>2, <1>5, FS_Injection
  <1>7. 0 \in H
    OBVIOUS
  <1>8. \A j \in H : next[j] # 0
    OBVIOUS
  <1> HIDE DEF H, next
  <1> QED
    BY <1>6, <1>7, <1>8 DEF Surjection

\* What the fold over the labels adds up to for the labels in s, as a fraction.
Sum(metric, f, s) ==
    IF s = {} THEN <<0, 1>>
    ELSE LET c == CHOOSE c \in s : TRUE
         IN  <<metric[c][1] * f[s \ {c}][2] + f[s \ {c}][1] * metric[c][2],
               metric[c][2] * f[s \ {c}][2]>>

Few(m) == {s \in SUBSET Classes : Cardinality(s) <= m}

Adds(f, metric, m) == f = [s \in Few(m) |-> Sum(metric, f, s)]

\* A set of labels without one of them.
LEMMA WithoutOne ==
    ASSUME IsFiniteSet(Classes), NEW s \in SUBSET Classes, s # {}
    PROVE  LET c == CHOOSE c \in s : TRUE
           IN  /\ c \in s /\ s \ {c} \in SUBSET Classes
               /\ Cardinality(s) \in Nat \ {0}
               /\ Cardinality(s \ {c}) = Cardinality(s) - 1
  <1> DEFINE c == CHOOSE c \in s : TRUE
  <1>1. c \in s
    OBVIOUS
  <1> HIDE DEF c
  <1>2. IsFiniteSet(s)
    BY FS_Subset
  <1>3. Cardinality(s) \in Nat /\ Cardinality(s) # 0
    BY <1>2, FS_CardinalityType, FS_EmptySet
  <1>4. Cardinality(s \ {c}) = Cardinality(s) - 1
    BY <1>1, <1>2, FS_RemoveElement
  <1>5. Cardinality(s) \in Nat \ {0}
    BY <1>3
  <1>6. c \in s /\ s \ {c} \in SUBSET Classes
    BY <1>1
  <1> QED
    BY <1>4, <1>5, <1>6 DEF c

LEMMA SumGrows ==
    ASSUME IsFiniteSet(Classes), NEW metric, NEW m \in Nat, NEW f, Adds(f, metric, m)
    PROVE  \E g : Adds(g, metric, m + 1)
  <1> DEFINE g == [s \in Few(m + 1) |->
                      IF s \in Few(m) THEN f[s] ELSE Sum(metric, f, s)]
  <1>1. \A s \in Few(m + 1) : g[s] = Sum(metric, f, s)
    BY DEF Adds
  <1>2. \A s \in Few(m) : s \in Few(m + 1) /\ g[s] = f[s]
    <2> SUFFICES ASSUME NEW s \in Few(m) PROVE s \in Few(m + 1) /\ g[s] = f[s]
      OBVIOUS
    <2>1. IsFiniteSet(s)
      BY FS_Subset DEF Few
    <2>2. Cardinality(s) \in Nat
      BY <2>1, FS_CardinalityType
    <2>3. s \in Few(m + 1)
      BY <2>2 DEF Few
    <2> QED
      BY <2>3
  <1>3. g = [s \in Few(m + 1) |-> g[s]]
    OBVIOUS
  <1> HIDE DEF g
  <1>4. \A s \in Few(m + 1) : g[s] = Sum(metric, g, s)
    <2> TAKE s \in Few(m + 1)
    <2>1. CASE s = {}
      BY <1>1, <2>1 DEF Sum
    <2>2. CASE s # {}
      <3> DEFINE c == CHOOSE c \in s : TRUE
      <3>1. s \ {c} \in Few(m)
        <4>1. /\ s \ {c} \in SUBSET Classes
              /\ Cardinality(s) \in Nat \ {0}
              /\ Cardinality(s \ {c}) = Cardinality(s) - 1
          BY <2>2, WithoutOne DEF Few
        <4>2. Cardinality(s) <= m + 1
          BY DEF Few
        <4> HIDE DEF c
        <4> QED
          BY <4>1, <4>2 DEF Few
      <3>2. g[s \ {c}] = f[s \ {c}]
        BY <1>2, <3>1
      <3> QED
        BY <1>1, <3>2 DEF Sum
    <2> QED
      BY <2>1, <2>2
  <1>5. g = [s \in Few(m + 1) |-> Sum(metric, g, s)]
    BY <1>3, <1>4
  <1> QED
    BY <1>5 DEF Adds

\* The fold is a function of the labels it has covered: Macro rounds what it
\* says of all of them, divided by their number.
LEMMA MacroSums ==
    ASSUME IsFiniteSet(Classes), NEW metric
    PROVE  \E f : /\ f = [s \in SUBSET Classes |-> Sum(metric, f, s)]
                  /\ Macro(metric) = Round(f[Classes][1], f[Classes][2] * Cardinality(Classes))
  <1> DEFINE n == Cardinality(Classes)
  <1>1. n \in Nat
    BY FS_CardinalityType
  <1> DEFINE G == {m \in Nat : \E f : Adds(f, metric, m)}
  <1>2. 0 \in G
    <2> DEFINE f == [s \in Few(0) |-> <<0, 1>>]
    <2>1. \A s \in Few(0) : s = {}
      <3> SUFFICES ASSUME NEW s \in Few(0), s # {} PROVE FALSE
        OBVIOUS
      <3>1. Cardinality(s) \in Nat \ {0} /\ Cardinality(s) <= 0
        BY WithoutOne DEF Few
      <3> QED
        BY <3>1
    <2>2. \A s \in Few(0) : f[s] = Sum(metric, f, s)
      BY <2>1 DEF Sum
    <2>3. f = [s \in Few(0) |-> Sum(metric, f, s)]
      BY <2>2
    <2> QED
      BY <2>3 DEF Adds
  <1>3. \A i \in 0..n : i \in G /\ i # n => i + 1 \in G
    BY SumGrows
  <1> HIDE DEF G
  <1>4. n \in G
    BY <1>1, <1>2, <1>3, Climb
  <1>5. Few(n) = SUBSET Classes
    BY FS_Subset DEF Few
  <1> DEFINE f == CHOOSE f : f = [s \in SUBSET Classes |-> Sum(metric, f, s)]
  <1>6. f = [s \in SUBSET Classes |-> Sum(metric, f, s)]
    BY <1>4, <1>5 DEF G, Adds
  <1>7. Macro(metric) = Round(f[Classes][1], f[Classes][2] * Cardinality(Classes))
    BY DEF Macro, MapThenFoldSet, Sum
  <1> HIDE DEF f
  <1> QED
    BY <1>6, <1>7

\* Adding a fraction m / q of at most one to a sum num / den of k such: the sum
\* reaches k + 1 only if both are whole, and else misses it by 1 / D at least.
LEMMA AddFraction ==
    ASSUME NEW m \in Nat, NEW q \in Nat, NEW num \in Nat, NEW den \in Nat,
           NEW k \in Nat, NEW D \in Nat,
           1 <= q, q <= D, m <= q, 1 <= den, num <= k * den,
           num = k * den \/ den <= D * (k * den - num)
    PROVE  LET n == m * den + num * q
               d == q * den
           IN  /\ n \in Nat /\ d \in Nat /\ 1 <= d /\ n <= (k + 1) * d
               /\ m = q /\ num = k * den => n = (k + 1) * d
               /\ m # q \/ num # k * den => d <= D * ((k + 1) * d - n)
  <1> DEFINE n == m * den + num * q
             d == q * den
             a == (q - m) * den
             g == k * den - num
             b == q * g
  <1>1. n \in Nat /\ d \in Nat /\ g \in Nat /\ a \in Nat /\ b \in Nat
    <2>1. \A x, y \in Nat : x * y \in Nat
      OBVIOUS
    <2>2. g \in Nat /\ q - m \in Nat
      BY <2>1
    <2> HIDE DEF g
    <2> QED
      BY <2>1, <2>2
  <1>2. (k + 1) * d - n = a + b
    OBVIOUS
  <1>3. 1 <= d
    <2>1. \A x, y \in Nat : 1 <= x /\ 1 <= y => 1 <= x * y
      OBVIOUS
    <2> QED
      BY <2>1
  <1>4. m = q /\ num = k * den => a = 0 /\ b = 0
    OBVIOUS
  <1>5. m # q => d <= D * a
    <2>1. ASSUME m # q PROVE d <= D * a
      <3>1. \A x, y, z \in Nat : x <= y => x * z <= y * z
        OBVIOUS
      <3>2. q - m \in Nat /\ 1 <= q - m
        BY <2>1
      <3>3. den <= a
        <4>1. 1 * den <= (q - m) * den
          BY <3>1, <3>2
        <4> QED
          BY <4>1
      <3>4. q * den <= D * den
        BY <3>1
      <3> HIDE DEF a
      <3>5. den * D <= a * D
        BY <1>1, <3>1, <3>3
      <3> QED
        BY <1>1, <3>4, <3>5
    <2> QED
      BY <2>1
  <1>6. num # k * den => d <= D * b
    <2>1. ASSUME num # k * den PROVE d <= D * b
      <3>1. \A x, y, z \in Nat : x <= y => x * z <= y * z
        OBVIOUS
      <3>2. den <= D * g
        BY <2>1
      <3>3. D * g \in Nat
        BY <1>1
      <3>4. den * q <= (D * g) * q
        BY <3>1, <3>2, <3>3
      <3> HIDE DEF g
      <3> QED
        BY <1>1, <3>4
    <2> QED
      BY <2>1
  <1>7. D * a \in Nat /\ D * b \in Nat /\ D * (a + b) = D * a + D * b
    <2> HIDE DEF a, b
    <2> QED
      BY <1>1
  <1>8. (k + 1) * d \in Nat
    BY <1>1
  <1> HIDE DEF n, d, a, b, g
  <1>9. n <= (k + 1) * d
    BY <1>1, <1>2, <1>8
  <1>10. m = q /\ num = k * den => n = (k + 1) * d
    BY <1>1, <1>2, <1>4, <1>8
  <1>11. m # q \/ num # k * den => d <= D * ((k + 1) * d - n)
    BY <1>1, <1>2, <1>5, <1>6, <1>7
  <1> QED
    BY <1>1, <1>3, <1>9, <1>10, <1>11 DEF n, d

LEMMA Division ==
    ASSUME NEW x \in Nat, NEW y \in Nat, 1 <= y
    PROVE  x \div y \in Nat /\ x % y \in 0..(y - 1) /\ x = (x \div y) * y + (x % y)
  OBVIOUS

\* Two decimals show 1.0 for the whole only, if anything less misses it by more
\* than a 200th.
LEMMA RoundHidesNothing ==
    ASSUME NEW num \in Nat, NEW den \in Nat, NEW n \in Nat, NEW D \in Nat,
           1 <= den, 1 <= n, n * D < 200, num <= n * den,
           num = n * den \/ den <= D * (n * den - num)
    PROVE  Round(num, den * n) = 100 <=> num = n * den
  <1> DEFINE N == den * n
             g == N - num
             q == (100 * num) \div N
             rem == (100 * num) % N
  <1>1. N \in Nat /\ 1 <= N /\ n * den = N
    <2>1. \A x, y \in Nat : 1 <= x /\ 1 <= y => x * y \in Nat /\ 1 <= x * y
      OBVIOUS
    <2> QED
      BY <2>1
  <1>2. q \in Nat /\ rem \in 0..(N - 1) /\ 100 * num = q * N + rem
    <2>1. 100 * num \in Nat
      OBVIOUS
    <2> HIDE DEF N
    <2> QED
      BY <1>1, <2>1, Division
  <1>3. Round(num, N) = IF 2 * rem > N \/ (2 * rem = N /\ q \in TiesUp) THEN q + 1 ELSE q
    BY DEF Round
  <1>4. num # N => N < 200 * g
    <2>1. ASSUME num # N PROVE N < 200 * g
      <3>1. \A x, y, z \in Nat : x <= y => x * z <= y * z
        OBVIOUS
      <3>2. g \in Nat /\ 1 <= g
        BY <1>1, <2>1
      <3>3. den <= D * g
        BY <1>1, <2>1
      <3> HIDE DEF g
      <3>4. D * g \in Nat /\ n * D \in Nat
        BY <3>2
      <3>5. den * n <= (D * g) * n
        BY <3>1, <3>3, <3>4
      <3>6. (D * g) * n = (n * D) * g
        BY <3>2
      <3>7. (n * D) * g < 200 * g
        <4> DEFINE e == n * D
        <4>1. e \in Nat /\ e <= 199
          BY <3>4
        <4> HIDE DEF e
        <4>2. e * g <= 199 * g
          BY <3>1, <3>2, <4>1
        <4>3. 199 * g < 200 * g
          BY <3>2
        <4>4. e * g \in Nat
          BY <3>2, <4>1
        <4>5. e * g < 200 * g
          BY <3>2, <4>2, <4>3, <4>4
        <4> QED
          BY <4>5 DEF e
      <3> QED
        BY <1>1, <3>2, <3>4, <3>5, <3>6, <3>7
    <2> QED
      BY <2>1
  <1> HIDE DEF N, q, rem
  <1>5. CASE num = N
    <2>1. q = 100
      <3>1. 100 * N = q * N + rem
        BY <1>2, <1>5
      <3>2. q <= 100
        BY <1>1, <1>2, <3>1
      <3>3. q >= 100
        BY <1>1, <1>2, <3>1
      <3> QED
        BY <1>2, <3>2, <3>3
    <2>2. rem = 0
      BY <1>1, <1>2, <1>5, <2>1
    <2> QED
      BY <1>1, <1>3, <1>5, <2>1, <2>2 DEF N
  <1>6. CASE num # N
    <2>1. num < N
      BY <1>1, <1>6
    <2>2. N < 200 * (N - num)
      BY <1>4, <1>6
    <2>3. ASSUME q >= 100 PROVE FALSE
      <3>1. q * N >= 100 * N
        BY <1>1, <1>2, <2>3
      <3> QED
        BY <1>1, <1>2, <2>1, <3>1
    <2>4. ASSUME q = 99 PROVE 2 * rem < N
      <3>1. 100 * num = 99 * N + rem
        BY <1>2, <2>4
      <3> QED
        BY <1>1, <1>2, <2>2, <3>1
    <2>5. Round(num, N) # 100
      BY <1>1, <1>2, <1>3, <2>3, <2>4
    <2> QED
      BY <1>1, <1>6, <2>5 DEF N
  <1> QED
    BY <1>5, <1>6

\* What the fold says of k labels.
Near(metric, v, s, k, D) ==
    /\ v[1] \in Nat /\ v[2] \in Nat /\ 1 <= v[2] /\ v[1] <= k * v[2]
    /\ v[1] = k * v[2] <=> \A c \in s : metric[c][1] = metric[c][2]
    /\ v[1] = k * v[2] \/ v[2] <= D * (k * v[2] - v[1])

AllNear(metric, f, k, D) ==
    \A s \in SUBSET Classes : Cardinality(s) = k => Near(metric, f[s], s, k, D)

Shares(metric, D) ==
    \A c \in Classes :
        /\ metric[c][1] \in Nat /\ metric[c][2] \in Nat
        /\ metric[c][1] <= metric[c][2] /\ 1 <= metric[c][2] /\ metric[c][2] <= D

LEMMA SumIsNear ==
    ASSUME IsFiniteSet(Classes), NEW D \in Nat, NEW metric, Shares(metric, D), NEW f,
           f = [s \in SUBSET Classes |-> Sum(metric, f, s)]
    PROVE  Near(metric, f[Classes], Classes, Cardinality(Classes), D)
  <1> DEFINE n == Cardinality(Classes)
             G == {k \in Nat : AllNear(metric, f, k, D)}
  <1>1. n \in Nat
    BY FS_CardinalityType
  <1>2. 0 \in G
    <2> SUFFICES ASSUME NEW s \in SUBSET Classes, Cardinality(s) = 0
                 PROVE  Near(metric, f[s], s, 0, D)
      BY DEF AllNear
    <2>1. s = {}
      BY WithoutOne
    <2>2. f[s] = <<0, 1>>
      BY <2>1 DEF Sum
    <2>3. f[s][1] = 0 /\ f[s][2] = 1
      BY <2>2
    <2> QED
      BY <2>1, <2>3 DEF Near
  <1>3. ASSUME NEW k \in Nat, AllNear(metric, f, k, D)
        PROVE  AllNear(metric, f, k + 1, D)
    <2> SUFFICES ASSUME NEW s \in SUBSET Classes, Cardinality(s) = k + 1
                 PROVE  Near(metric, f[s], s, k + 1, D)
      BY DEF AllNear
    <2> DEFINE c == CHOOSE c \in s : TRUE
    <2>1. s # {}
      <3>1. Cardinality({}) = 0 /\ k + 1 # 0
        BY FS_EmptySet
      <3> QED
        BY <3>1
    <2>2. c \in s /\ s \ {c} \in SUBSET Classes /\ Cardinality(s \ {c}) = k
      BY <2>1, WithoutOne
    <2>3. Near(metric, f[s \ {c}], s \ {c}, k, D)
      BY <1>3, <2>2 DEF AllNear
    <2>4. f[s] = <<metric[c][1] * f[s \ {c}][2] + f[s \ {c}][1] * metric[c][2],
                   metric[c][2] * f[s \ {c}][2]>>
      BY <2>1 DEF Sum
    <2> DEFINE m == metric[c][1]
               q == metric[c][2]
               num == f[s \ {c}][1]
               den == f[s \ {c}][2]
               x == m * den + num * q
               y == q * den
    <2>5. f[s][1] = x /\ f[s][2] = y
      BY <2>4
    <2>6. m \in Nat /\ q \in Nat /\ m <= q /\ 1 <= q /\ q <= D
      BY <2>2 DEF Shares
    <2>7. /\ num \in Nat /\ den \in Nat /\ 1 <= den /\ num <= k * den
          /\ num = k * den <=> \A d \in s \ {c} : metric[d][1] = metric[d][2]
          /\ num = k * den \/ den <= D * (k * den - num)
      BY <2>3 DEF Near
    <2>8. /\ x \in Nat /\ y \in Nat /\ 1 <= y /\ x <= (k + 1) * y
          /\ m = q /\ num = k * den => x = (k + 1) * y
          /\ m # q \/ num # k * den => y <= D * ((k + 1) * y - x)
      <3> HIDE DEF m, q, num, den
      <3> QED
        BY <2>6, <2>7, AddFraction
    <2>9. (\A d \in s : metric[d][1] = metric[d][2])
              <=> m = q /\ num = k * den
      BY <2>2, <2>7
    <2>10. x = (k + 1) * y => ~(y <= D * ((k + 1) * y - x))
      <3> HIDE DEF x, y
      <3>1. x = (k + 1) * y => (k + 1) * y - x = 0
        BY <2>8
      <3>2. D * 0 = 0
        OBVIOUS
      <3> QED
        BY <2>8, <3>1, <3>2
    <2> HIDE DEF m, q, num, den, x, y
    <2> QED
      BY <2>5, <2>8, <2>9, <2>10 DEF Near
  <1>4. \A i \in 0..n : i \in G /\ i # n => i + 1 \in G
    <2> SUFFICES ASSUME NEW i \in 0..n, i \in G PROVE i + 1 \in G
      OBVIOUS
    <2>1. i \in Nat /\ AllNear(metric, f, i, D)
      BY <1>1
    <2>2. AllNear(metric, f, i + 1, D)
      BY <1>3, <2>1
    <2> QED
      BY <2>1, <2>2
  <1> HIDE DEF G
  <1>5. n \in G
    BY <1>1, <1>2, <1>4, Climb
  <1> QED
    BY <1>5 DEF G, AllNear

\* An average of shares shows 1.0 only if each share is whole.
LEMMA MacroOfWhole ==
    ASSUME IsFiniteSet(Classes), NEW D \in Nat, Cardinality(Classes) * D < 200,
           NEW metric, Shares(metric, D)
    PROVE  Macro(metric) = 100 <=> \A c \in Classes : metric[c][1] = metric[c][2]
  <1> DEFINE n == Cardinality(Classes)
  <1>1. PICK f : /\ f = [s \in SUBSET Classes |-> Sum(metric, f, s)]
                 /\ Macro(metric) = Round(f[Classes][1], f[Classes][2] * n)
    BY MacroSums
  <1>2. Near(metric, f[Classes], Classes, n, D)
    BY <1>1, SumIsNear
  <1>3. n \in Nat /\ 1 <= n
    <2>1. Classes \in SUBSET Classes /\ Classes # {}
      BY EvaluationAssumption
    <2>2. n \in Nat \ {0}
      BY <2>1, WithoutOne
    <2> QED
      BY <2>2
  <1> DEFINE num == f[Classes][1]
             den == f[Classes][2]
  <1>4. /\ num \in Nat /\ den \in Nat /\ 1 <= den /\ num <= n * den
        /\ num = n * den <=> \A c \in Classes : metric[c][1] = metric[c][2]
        /\ num = n * den \/ den <= D * (n * den - num)
    BY <1>2 DEF Near
  <1>5. n * D < 200 /\ Macro(metric) = Round(num, den * n)
    BY <1>1
  <1> HIDE DEF n, num, den
  <1>6. Round(num, den * n) = 100 <=> num = n * den
    BY <1>3, <1>4, <1>5, RoundHidesNothing
  <1> QED
    BY <1>4, <1>5, <1>6

\* So few that the least error, one trader in one label, shows in an average.
FewScored == Cardinality(Classes) * (2 * scored + 1) < 200

\* The average of the shares m[c] of n[c], none of them of more than D.
LEMMA MacroOfShares ==
    ASSUME NEW D \in Nat, 1 <= D, Cardinality(Classes) * D < 200,
           NEW m \in [Classes -> Nat], NEW n \in [Classes -> Nat],
           \A c \in Classes : m[c] <= n[c] /\ n[c] <= D
    PROVE  Macro([c \in Classes |-> Share(m[c], n[c])]) = 100
               <=> \A c \in Classes : n[c] # 0 /\ m[c] = n[c]
  <1> DEFINE metric == [c \in Classes |-> Share(m[c], n[c])]
  <1>1. ASSUME NEW c \in Classes
        PROVE  /\ metric[c][1] \in Nat /\ metric[c][2] \in Nat
               /\ metric[c][1] <= metric[c][2] /\ 1 <= metric[c][2] /\ metric[c][2] <= D
               /\ metric[c][1] = metric[c][2] <=> n[c] # 0 /\ m[c] = n[c]
    <2>1. m[c] \in Nat /\ n[c] \in Nat /\ m[c] <= n[c] /\ n[c] <= D
      OBVIOUS
    <2>2. CASE n[c] = 0
      <3>1. metric[c][1] = 0 /\ metric[c][2] = 1
        BY <2>2 DEF Share
      <3> QED
        BY <2>2, <3>1
    <2>3. CASE n[c] # 0
      <3>1. metric[c][1] = m[c] /\ metric[c][2] = n[c]
        BY <2>3 DEF Share
      <3> QED
        BY <2>1, <2>3, <3>1
    <2> QED
      BY <2>2, <2>3
  <1> HIDE DEF metric
  <1>2. Shares(metric, D)
    BY <1>1 DEF Shares
  <1>3. Macro(metric) = 100 <=> \A c \in Classes : metric[c][1] = metric[c][2]
    BY <1>2, MacroOfWhole, EvaluationAssumption
  <1>4. Macro(metric) = 100 <=> \A c \in Classes : n[c] # 0 /\ m[c] = n[c]
    BY <1>1, <1>3
  <1> QED
    BY <1>4 DEF metric

LEMMA FewAreExact ==
    ASSUME TallyType, MatrixAgrees, FewScored
    PROVE  FlawlessOnly
  <1> DEFINE D  == 2 * scored + 1
             tp == [c \in Classes |-> stats[c].tp]
             tt == [c \in Classes |-> 2 * stats[c].tp]
             p  == [c \in Classes |-> stats[c].tp + stats[c].fp]
             r  == [c \in Classes |-> stats[c].tp + stats[c].fn]
             f  == [c \in Classes |-> 2 * stats[c].tp + stats[c].fp + stats[c].fn]
  <1>1. D \in Nat /\ 1 <= D /\ Cardinality(Classes) * D < 200
    BY DEF TallyType, FewScored
  <1>2. \A c \in Classes :
            /\ stats[c].tp \in Nat /\ stats[c].fp \in Nat /\ stats[c].fn \in Nat
            /\ stats[c].tp + stats[c].fp + stats[c].fn <= scored
    BY DEF TallyType, Counters, MatrixAgrees
  <1>3. {tp, tt, p, r, f} \subseteq [Classes -> Nat]
    BY <1>2
  <1>4. \A c \in Classes : /\ tp[c] <= p[c] /\ p[c] <= D
                           /\ tp[c] <= r[c] /\ r[c] <= D
                           /\ tt[c] <= f[c] /\ f[c] <= D
    BY <1>2 DEF TallyType
  <1>5. \A c \in Classes :
            /\ p[c] # 0 /\ tp[c] = p[c] <=> stats[c].tp > 0 /\ stats[c].fp = 0
            /\ r[c] # 0 /\ tp[c] = r[c] <=> stats[c].tp > 0 /\ stats[c].fn = 0
            /\ f[c] # 0 /\ tt[c] = f[c]
                  <=> stats[c].tp > 0 /\ stats[c].fp = 0 /\ stats[c].fn = 0
    <2>1. \A x, y, z \in Nat :
              /\ x + y # 0 /\ x = x + y <=> x > 0 /\ y = 0
              /\ 2 * x + y + z # 0 /\ 2 * x = 2 * x + y + z <=> x > 0 /\ y = 0 /\ z = 0
      OBVIOUS
    <2> TAKE c \in Classes
    <2>2. /\ tp[c] = stats[c].tp /\ tt[c] = 2 * stats[c].tp
          /\ p[c] = stats[c].tp + stats[c].fp /\ r[c] = stats[c].tp + stats[c].fn
          /\ f[c] = 2 * stats[c].tp + stats[c].fp + stats[c].fn
      OBVIOUS
    <2> HIDE DEF tp, tt, p, r, f
    <2> QED
      BY <1>2, <2>1, <2>2
  <1>6. /\ [c \in Classes |-> Precision(stats[c])] = [c \in Classes |-> Share(tp[c], p[c])]
        /\ [c \in Classes |-> Recall(stats[c])] = [c \in Classes |-> Share(tp[c], r[c])]
        /\ [c \in Classes |-> F1(stats[c])] = [c \in Classes |-> Share(tt[c], f[c])]
    BY DEF Precision, Recall, F1
  <1> HIDE DEF tp, tt, p, r, f, D
  <1>7. /\ Macro([c \in Classes |-> Precision(stats[c])]) = 100
              <=> \A c \in Classes : p[c] # 0 /\ tp[c] = p[c]
        /\ Macro([c \in Classes |-> Recall(stats[c])]) = 100
              <=> \A c \in Classes : r[c] # 0 /\ tp[c] = r[c]
        /\ Macro([c \in Classes |-> F1(stats[c])]) = 100
              <=> \A c \in Classes : f[c] # 0 /\ tt[c] = f[c]
    <2>1. Macro([c \in Classes |-> Share(tp[c], p[c])]) = 100
              <=> \A c \in Classes : p[c] # 0 /\ tp[c] = p[c]
      BY <1>1, <1>3, <1>4, MacroOfShares
    <2>2. Macro([c \in Classes |-> Share(tp[c], r[c])]) = 100
              <=> \A c \in Classes : r[c] # 0 /\ tp[c] = r[c]
      BY <1>1, <1>3, <1>4, MacroOfShares
    <2>3. Macro([c \in Classes |-> Share(tt[c], f[c])]) = 100
              <=> \A c \in Classes : f[c] # 0 /\ tt[c] = f[c]
      BY <1>1, <1>3, <1>4, MacroOfShares
    <2> QED
      BY <1>6, <2>1, <2>2, <2>3
  <1>8. FlawlessOnly
    <2> DEFINE P == Macro([c \in Classes |-> Precision(stats[c])])
               R == Macro([c \in Classes |-> Recall(stats[c])])
               F == Macro([c \in Classes |-> F1(stats[c])])
    <2> HIDE DEF P, R, F
    <2>1. /\ P = 100 <=> \A c \in Classes : stats[c].tp > 0 /\ stats[c].fp = 0
          /\ R = 100 <=> \A c \in Classes : stats[c].tp > 0 /\ stats[c].fn = 0
          /\ F = 100 <=> \A c \in Classes :
                 stats[c].tp > 0 /\ stats[c].fp = 0 /\ stats[c].fn = 0
      BY <1>5, <1>7 DEF P, R, F
    <2> QED
      BY <2>1 DEF FlawlessOnly, P, R, F
  <1> QED
    BY <1>8

\* An average shows 1.0 for the flawless only, while few are scored: ten
\* traders with nine labels, as in the data set, are few.  (Among more the two
\* decimals may hide an error: 399 hits and a false alarm are 1.0.)
THEOREM FewAreFlawless == Spec => [](FewScored => FlawlessOnly)
  <1>1. TallyType /\ MatrixAgrees => (FewScored => FlawlessOnly)
    BY FewAreExact
  <1> QED
    BY <1>1, TalliesHold, PTL

-----------------------------------------------------------------------------
(***************************************************************************)
(* The rules of single trades.  The lemmas of SignalProofs about them read *)
(* neither of its variables.                                               *)
(***************************************************************************)

Stream == INSTANCE SignalProofs WITH trade <- history, signal <- history

LEMMA SameRules ==
    ASSUME NEW t
    PROVE  /\ Matching(t) = Stream!Matching(t)
           /\ UtcHour(t.entry) = Stream!UtcHour(t.entry)
           /\ Rank(DetectSignal(t)) = Stream!Rank(Stream!DetectSignal(t))
  <1>1. UtcHour(t.entry) = Stream!UtcHour(t.entry)
    BY DEF UtcHour, Stream!UtcHour, UtcMinute, Stream!UtcMinute
  <1>2. Rules(t) = Stream!Rules(t)
    BY <1>1 DEF Rules, Stream!Rules, Rule, Stream!Rule
  <1>3. Matching(t) = Stream!Matching(t)
    BY <1>2 DEF Matching, Stream!Matching
  <1>4. DetectSignal(t) = Stream!DetectSignal(t)
    BY <1>2, <1>3 DEF DetectSignal, Stream!DetectSignal, Min, Stream!Min
  <1> QED
    BY <1>1, <1>3, <1>4 DEF Rank, Stream!Rank, Priority, Stream!Priority

\* A trade of which a rule holds is coached for that signal or a higher one.
LEMMA RuleCoaches ==
    ASSUME NEW t
    PROVE  /\ t.flag => Rank(DetectSignal(t)) <= 1
           /\ "fomo" \in t.cues => Rank(DetectSignal(t)) <= 3
           /\ "off_plan" \in t.cues => Rank(DetectSignal(t)) <= 4
           /\ "early" \in t.cues => Rank(DetectSignal(t)) <= 5
           /\ "hope" \in t.cues => Rank(DetectSignal(t)) <= 6
           /\ t.emotion \in {"fearful", "anxious"} /\ t.outcome = "loss"
                 => Rank(DetectSignal(t)) <= 7
           /\ t.outcome = "loss" /\ UtcHour(t.entry) >= 13
                 => Rank(DetectSignal(t)) <= 9
  <1> DEFINE M == Stream!Matching(t)
  <1>1. /\ \A i \in M : Stream!First(t) <= i
        /\ Stream!Rank(Stream!DetectSignal(t)) = Stream!First(t)
    BY Stream!Detected, SignalRulesAssumption
  <1>2. \A i \in M : Rank(DetectSignal(t)) <= i
    BY <1>1, SameRules
  <1>3. /\ t.flag => 1 \in M
        /\ "fomo" \in t.cues => 3 \in M
        /\ "off_plan" \in t.cues => 4 \in M
        /\ "early" \in t.cues => 5 \in M
        /\ "hope" \in t.cues => 6 \in M
        /\ t.emotion \in {"fearful", "anxious"} /\ t.outcome = "loss" => 7 \in M
        /\ t.outcome = "loss" /\ Stream!UtcHour(t.entry) >= 13 => 9 \in M
    BY Stream!Holding, SignalRulesAssumption
  <1> HIDE DEF M
  <1> QED
    BY <1>2, <1>3, SameRules

LEMMA RankNames ==
    /\ Rank("revenge_trading") = 1
    /\ Rank("fomo_entries") = 3
    /\ Rank("plan_non_adherence") = 4
    /\ Rank("premature_exit") = 5
    /\ Rank("loss_running") = 6
    /\ Rank("session_tilt") = 7
    /\ Rank("time_of_day_bias") = 9
  <1>1. DOMAIN Priority = 1..10
    BY DEF Priority
  <1>2. \A i, j \in 1..10 : Priority[i] = Priority[j] => i = j
    BY DEF Priority
  <1>3. \A i \in 1..10 : Rank(Priority[i]) = i
    BY <1>1, <1>2 DEF Rank
  <1> QED
    BY <1>3 DEF Priority

\* The evidence of each pathology.
LEMMA EvidenceIs ==
    ASSUME NEW h
    PROVE  LET e == Evidence(h) IN
           /\ DOMAIN e = Lasting \cup {"session_tilt", "time_of_day_bias",
                                       "position_sizing_inconsistency"}
           /\ e.revenge_trading = {i \in DOMAIN h : h[i].trade.flag}
           /\ e.overtrading = Overtraded(h)
           /\ e.fomo_entries = {i \in DOMAIN h : "fomo" \in h[i].trade.verbatim}
           /\ e.plan_non_adherence =
                 {i \in DOMAIN h : "off_plan" \in h[i].trade.verbatim}
           /\ e.premature_exit = {i \in DOMAIN h : "early" \in h[i].trade.verbatim}
           /\ e.loss_running = {i \in DOMAIN h : "hope" \in h[i].trade.verbatim}
           /\ e.session_tilt = Tilt(h)
           /\ e.time_of_day_bias = Bias(h)
           /\ e.position_sizing_inconsistency = Sizing(h)
  BY DEF Evidence, Lasting

-----------------------------------------------------------------------------
(***************************************************************************)
(* Histories.                                                              *)
(***************************************************************************)

Entries == [session : Nat, trade : Trades]

\* The sessions of a history are numbered in its order.
Ordered(h) == \A i, j \in DOMAIN h : i <= j => h[i].session <= h[j].session

\* h with one trade more, of its last session or a later one, is g.
Longer(h, g) ==
    /\ h \in Seq(Entries) /\ g \in Seq(Entries)
    /\ Len(g) = Len(h) + 1
    /\ \A i \in DOMAIN h : g[i] = h[i]
    /\ Ordered(h) /\ Ordered(g)

LEMMA TradingAppends ==
    ASSUME history \in Seq(Entries), NEW t \in Trades, Trading(t)
    PROVE  /\ history' \in Seq(Entries)
           /\ Ordered(history) => Longer(history, history')
           /\ history'[Len(history')].trade = t
  <1> DEFINE last == IF history = <<>> THEN 0 ELSE history[Len(history)].session
             L == Len(history)
  <1>1. PICK n \in {last, last + 1} \ {0} :
            history' = Append(history, [session |-> n, trade |-> t])
    BY DEF Trading
  <1>2. /\ L \in Nat /\ DOMAIN history = 1..L
        /\ \A i \in 1..L : history[i] \in Entries
        /\ history # <<>> => L \in 1..L
    OBVIOUS
  <1>3. last \in Nat
    <2>1. history # <<>> => history[L].session \in Nat
      BY <1>2 DEF Entries
    <2> QED
      BY <2>1
  <1>4. last <= n /\ n \in Nat
    BY <1>3
  <1>5. [session |-> n, trade |-> t] \in Entries
    BY <1>4 DEF Entries
  <1>6. /\ history' \in Seq(Entries)
        /\ Len(history') = L + 1
        /\ DOMAIN history' = 1..(L + 1)
        /\ \A i \in 1..L : history'[i] = history[i]
        /\ history'[L + 1] = [session |-> n, trade |-> t]
    BY <1>1, <1>2, <1>5
  <1>7. ASSUME Ordered(history)
        PROVE  Longer(history, history')
    <2>1. \A i \in 1..L : history[i].session <= last /\ history[i].session \in Nat
      BY <1>2, <1>7 DEF Ordered, Entries
    <2>2. \A i \in 1..L : history[i].session <= n
      BY <2>1, <1>3, <1>4
    <2>3. ASSUME NEW i \in 1..(L + 1), NEW j \in 1..(L + 1), i <= j
          PROVE  history'[i].session <= history'[j].session
      <3>1. CASE j \in 1..L
        BY <3>1, <2>3, <1>2, <1>6, <1>7 DEF Ordered
      <3>2. CASE j = L + 1 /\ i \in 1..L
        BY <3>2, <2>2, <1>6
      <3>3. CASE j = L + 1 /\ i = L + 1
        BY <3>3, <1>4, <1>6
      <3> QED
        BY <3>1, <3>2, <3>3, <2>3, <1>2
    <2>4. Ordered(history')
      BY <2>3, <1>6 DEF Ordered
    <2> QED
      BY <2>4, <1>2, <1>6, <1>7 DEF Longer
  <1> QED
    BY <1>6, <1>7

\* Sessions only get longer, at their end.
LEMMA SessionGrows ==
    ASSUME NEW h, NEW g, Longer(h, g), NEW i \in DOMAIN h
    PROVE  /\ Index(g, i) = Index(h, i) /\ Index(h, i) \in Nat
           /\ Cardinality(Session(h, i)) \in Nat
           /\ Cardinality(Session(g, i)) \in Nat
           /\ Cardinality(Session(h, i)) <= Cardinality(Session(g, i))
           /\ g[Len(g)].session # h[i].session => Session(g, i) = Session(h, i)
           /\ \A j \in Session(h, i) : j < i => Index(h, i) > 0
  <1> DEFINE L == Len(h)
             S == Session(h, i)
             T == Session(g, i)
             before == {j \in S : j < i}
  <1>1. /\ L \in Nat /\ DOMAIN h = 1..L /\ DOMAIN g = 1..(L + 1)
        /\ Len(g) = L + 1
        /\ \A j \in 1..L : g[j] = h[j]
    BY DEF Longer
  <1>2. /\ S \subseteq T /\ T \subseteq 1..(L + 1) /\ S \subseteq 1..L
        /\ \A j \in T : j \in S \/ (j = L + 1 /\ g[L + 1].session = h[i].session)
    BY <1>1 DEF Session
  <1>3. {j \in T : j < i} = before
    BY <1>1, <1>2
  <1>4. IsFiniteSet(T)
    <2>1. IsFiniteSet(1..(L + 1))
      BY <1>1, FS_Interval
    <2> QED
      BY <1>2, <2>1, FS_Subset
  <1>5. /\ IsFiniteSet(S) /\ IsFiniteSet(before)
        /\ Cardinality(S) <= Cardinality(T)
    BY <1>2, <1>4, FS_Subset
  <1>6. /\ Cardinality(S) \in Nat /\ Cardinality(T) \in Nat
        /\ Cardinality(before) \in Nat
    BY <1>4, <1>5, FS_CardinalityType
  <1>7. before # {} => Cardinality(before) > 0
    BY <1>5, <1>6, FS_EmptySet
  <1>8. Index(g, i) = Cardinality(before) /\ Index(h, i) = Cardinality(before)
    BY <1>3 DEF Index
  <1>9. g[Len(g)].session # h[i].session => T = S
    BY <1>1, <1>2
  <1>10. \A j \in S : j < i => Cardinality(before) > 0
    <2>1. \A j \in S : j < i => j \in before
      OBVIOUS
    <2> HIDE DEF before, S
    <2> QED
      BY <2>1, <1>7
  <1> QED
    BY <1>5, <1>6, <1>8, <1>9, <1>10

\* The middle of a session moves away from a trade, never towards it.
LEMMA LateLossKept ==
    ASSUME NEW h, NEW g, Longer(h, g), NEW i \in DOMAIN h
    PROVE  /\ LateLoss(g, i) => LateLoss(h, i)
           /\ g[Len(g)].session # h[i].session => (LateLoss(g, i) <=> LateLoss(h, i))
  <1>1. /\ g[i] = h[i]
        /\ Index(g, i) = Index(h, i) /\ Index(h, i) \in Nat
        /\ Cardinality(Session(h, i)) \in Nat
        /\ Cardinality(Session(g, i)) \in Nat
        /\ Cardinality(Session(h, i)) <= Cardinality(Session(g, i))
        /\ g[Len(g)].session # h[i].session => Session(g, i) = Session(h, i)
    BY SessionGrows DEF Longer
  <1> DEFINE a == Index(h, i)
             b == Cardinality(Session(h, i))
             c == Cardinality(Session(g, i))
  <1>2. 2 * a > c => 2 * a > b
    <2>1. a \in Nat /\ b \in Nat /\ c \in Nat /\ b <= c
      BY <1>1
    <2> HIDE DEF a, b, c
    <2> QED
      BY <2>1
  <1>3. LateLoss(g, i) => LateLoss(h, i)
    BY <1>1, <1>2 DEF LateLoss
  <1>4. ASSUME g[Len(g)].session # h[i].session
        PROVE  LateLoss(g, i) <=> LateLoss(h, i)
    BY <1>1, <1>4 DEF LateLoss
  <1> QED
    BY <1>3, <1>4

\* An afternoon that the text shows is one in UTC, when it is written in UTC and
\* in the extended layout.
LEMMA AfternoonInUtc ==
    ASSUME NEW t \in Trades, Afternoon(t), t.entry.offset = 0, t.layout # "basic"
    PROVE  UtcHour(t.entry) >= 13
  <1> DEFINE l == t.entry.local
  <1>1. l \in 0..1439
    <2>1. t.entry \in Time
      BY ProfilerAssumption DEF Logged
    <2>2. t.entry.local \in LocalTimes
      BY <2>1 DEF Time
    <2>3. \A x \in LocalTimes : x \in 0..1439
      BY SignalRulesAssumption
    <2> QED
      BY <2>2, <2>3
  <1>2. l \div 60 >= 13
    BY DEF Afternoon, HourOfText
  <1>3. UtcHour(t.entry) = ((l - 0) % 1440) \div 60
    BY DEF UtcHour, UtcMinute
  <1> HIDE DEF l
  <1>4. (l - 0) % 1440 = l
    BY <1>1
  <1> QED
    BY <1>2, <1>3, <1>4

LEMMA CitedIsCoached == history \in Seq(Entries) => StreamWouldCoach
  <1> SUFFICES ASSUME history \in Seq(Entries),
                      NEW p \in DOMAIN Evidence(history)
                                  \ {"overtrading", "position_sizing_inconsistency"},
                      NEW i \in Evidence(history)[p]
               PROVE  LET t == history[i].trade IN
                      \/ Rank(DetectSignal(t)) <= Rank(p)
                      \/ p = "session_tilt" /\ t.emotion = "greedy"
                      \/ p = "time_of_day_bias" /\ t.entry.offset # 0
                      \/ p = "time_of_day_bias" /\ t.layout = "basic"
    BY DEF StreamWouldCoach
  <1> DEFINE t == history[i].trade
             e == Evidence(history)
  <1>1. p \in {"revenge_trading", "fomo_entries", "plan_non_adherence",
               "premature_exit", "loss_running", "session_tilt", "time_of_day_bias"}
    BY EvidenceIs DEF Lasting
  <1>2. \A j \in DOMAIN history : history[j].trade \in Trades
    <2>1. \A j \in DOMAIN history : history[j] \in Entries
      OBVIOUS
    <2> QED
      BY <2>1 DEF Entries
  <1>3. \A u \in Trades : u.verbatim \subseteq u.cues
    BY ProfilerAssumption
  <1>4. CASE p = "revenge_trading"
    <2>1. t.flag
      BY <1>4, EvidenceIs
    <2> QED
      BY <2>1, <1>4, RuleCoaches, RankNames
  <1>5. CASE p = "fomo_entries"
    <2>1. "fomo" \in t.cues
      BY <1>2, <1>3, <1>5, EvidenceIs
    <2> QED
      BY <2>1, <1>5, RuleCoaches, RankNames
  <1>6. CASE p = "plan_non_adherence"
    <2>1. "off_plan" \in t.cues
      BY <1>2, <1>3, <1>6, EvidenceIs
    <2> QED
      BY <2>1, <1>6, RuleCoaches, RankNames
  <1>7. CASE p = "premature_exit"
    <2>1. "early" \in t.cues
      BY <1>2, <1>3, <1>7, EvidenceIs
    <2> QED
      BY <2>1, <1>7, RuleCoaches, RankNames
  <1>8. CASE p = "loss_running"
    <2>1. "hope" \in t.cues
      BY <1>2, <1>3, <1>8, EvidenceIs
    <2> QED
      BY <2>1, <1>8, RuleCoaches, RankNames
  <1>9. CASE p = "session_tilt"
    <2>1. LateLoss(history, i)
      BY <1>9, EvidenceIs DEF Tilt
    <2>2. t.outcome = "loss" /\ t.emotion \in {"fearful", "greedy", "anxious"}
      BY <2>1 DEF LateLoss, BadMood
    <2> QED
      BY <2>2, <1>9, RuleCoaches, RankNames
  <1>10. CASE p = "time_of_day_bias"
    <2>1. i \in Bias(history)
      BY <1>10, EvidenceIs
    <2>2. i \in DOMAIN history /\ Afternoon(t) /\ t.outcome = "loss"
      BY <2>1 DEF Bias
    <2>3. t.entry.offset = 0 /\ t.layout # "basic" => UtcHour(t.entry) >= 13
      BY <1>2, <2>2, AfternoonInUtc
    <2> QED
      BY <2>2, <2>3, <1>10, RuleCoaches, RankNames
  <1> QED
    BY <1>1, <1>4, <1>5, <1>6, <1>7, <1>8, <1>9, <1>10

-----------------------------------------------------------------------------
(***************************************************************************)
(* The inductive invariant.  A history is in order, and among its trades   *)
(* of one asset class there is a first largest and a smallest: what the    *)
(* maximum and minimum of the sizing rule need to exist.                   *)
(***************************************************************************)

FirstLargest(h, i) == \A j \in DOMAIN h : h[j].trade.asset = h[i].trade.asset =>
    /\ h[j].trade.size <= h[i].trade.size
    /\ j < i => h[j].trade.size < h[i].trade.size

Smallest(h, i) == \A j \in DOMAIN h : h[j].trade.asset = h[i].trade.asset =>
    h[i].trade.size <= h[j].trade.size

Extremes(h) == \A i \in DOMAIN h :
    /\ \E x \in DOMAIN h : h[x].trade.asset = h[i].trade.asset /\ FirstLargest(h, x)
    /\ \E m \in DOMAIN h : h[m].trade.asset = h[i].trade.asset /\ Smallest(h, m)

HInv ==
    /\ history \in Seq(Entries)
    /\ Ordered(history)
    /\ Extremes(history)

LEMMA TradeTypes ==
    ASSUME NEW h \in Seq(Entries), NEW i \in DOMAIN h
    PROVE  /\ h[i].trade \in Trades /\ h[i].trade.size \in Nat
           /\ h[i].session \in Nat /\ i \in Nat
  <1>1. h[i] \in Entries /\ i \in Nat
    OBVIOUS
  <1>2. h[i].trade \in Trades /\ h[i].session \in Nat
    BY <1>1 DEF Entries
  <1> QED
    BY <1>1, <1>2, ProfilerAssumption DEF Logged

\* One trade more may be a new largest or smallest of its asset class.
LEMMA ExtremesKept ==
    ASSUME NEW h, NEW g, Longer(h, g), Extremes(h)
    PROVE  Extremes(g)
  <1> DEFINE L == Len(h)
             N == L + 1
             A(i) == g[i].trade.asset
             Z(i) == g[i].trade.size
  <1>1. /\ L \in Nat /\ DOMAIN h = 1..L /\ DOMAIN g = 1..N
        /\ \A j \in 1..L : g[j] = h[j] /\ j < N /\ j \in 1..N
        /\ N \in 1..N
        /\ \A j \in 1..N : j \in 1..L \/ j = N
    BY DEF Longer
  <1>2. \A j \in 1..N : Z(j) \in Nat /\ j \in Nat
    BY <1>1, TradeTypes DEF Longer
  <1>3. ASSUME NEW i \in 1..L
        PROVE  /\ \E x \in 1..L : A(x) = A(i) /\ \A j \in 1..L : A(j) = A(x) =>
                     Z(j) <= Z(x) /\ (j < x => Z(j) < Z(x))
               /\ \E m \in 1..L : A(m) = A(i) /\ \A j \in 1..L : A(j) = A(m) =>
                     Z(m) <= Z(j)
    <2>1. PICK x \in 1..L : h[x].trade.asset = h[i].trade.asset /\ FirstLargest(h, x)
      BY <1>1 DEF Extremes
    <2>2. \A j \in 1..L : A(j) = A(x) => Z(j) <= Z(x) /\ (j < x => Z(j) < Z(x))
      BY <1>1, <2>1 DEF FirstLargest
    <2>3. PICK m \in 1..L : h[m].trade.asset = h[i].trade.asset /\ Smallest(h, m)
      BY <1>1 DEF Extremes
    <2>4. \A j \in 1..L : A(j) = A(m) => Z(m) <= Z(j)
      BY <1>1, <2>3 DEF Smallest
    <2>5. A(x) = A(i) /\ A(m) = A(i)
      BY <1>1, <2>1, <2>3
    <2> QED
      BY <2>2, <2>4, <2>5
  <1>4. ASSUME NEW i \in 1..N
        PROVE  \E x \in 1..N : A(x) = A(i) /\ \A j \in 1..N : A(j) = A(x) =>
                  Z(j) <= Z(x) /\ (j < x => Z(j) < Z(x))
    <2>1. CASE \A j \in 1..L : A(j) # A(i)
      <3>1. i = N
        BY <2>1, <1>1
      <3>2. \A j \in 1..N : A(j) = A(N) => j = N
        BY <2>1, <3>1, <1>1
      <3> QED
        BY <3>1, <3>2, <1>1, <1>2
    <2>2. CASE \E k \in 1..L : A(k) = A(i)
      <3>1. PICK x \in 1..L : A(x) = A(i) /\ \A j \in 1..L : A(j) = A(x) =>
                Z(j) <= Z(x) /\ (j < x => Z(j) < Z(x))
        BY <2>2, <1>3
      <3>2. CASE A(N) = A(i) /\ Z(N) > Z(x)
        <4>1. \A j \in 1..N : A(j) = A(N) => Z(j) <= Z(N) /\ (j < N => Z(j) < Z(N))
          BY <3>1, <3>2, <1>1, <1>2
        <4> QED
          BY <3>2, <4>1, <1>1
      <3>3. CASE A(N) # A(i) \/ Z(N) <= Z(x)
        <4>1. \A j \in 1..N : A(j) = A(x) => Z(j) <= Z(x) /\ (j < x => Z(j) < Z(x))
          BY <3>1, <3>3, <1>1, <1>2
        <4> QED
          BY <3>1, <4>1, <1>1
      <3> QED
        BY <3>2, <3>3, <1>1, <1>2
    <2> QED
      BY <2>1, <2>2
  <1>5. ASSUME NEW i \in 1..N
        PROVE  \E m \in 1..N : A(m) = A(i) /\ \A j \in 1..N : A(j) = A(m) => Z(m) <= Z(j)
    <2>1. CASE \A j \in 1..L : A(j) # A(i)
      <3>1. i = N
        BY <2>1, <1>1
      <3>2. \A j \in 1..N : A(j) = A(N) => j = N
        BY <2>1, <3>1, <1>1
      <3> QED
        BY <3>1, <3>2, <1>1, <1>2
    <2>2. CASE \E k \in 1..L : A(k) = A(i)
      <3>1. PICK m \in 1..L : A(m) = A(i) /\ \A j \in 1..L : A(j) = A(m) => Z(m) <= Z(j)
        BY <2>2, <1>3
      <3>2. CASE A(N) = A(i) /\ Z(N) < Z(m)
        <4>1. \A j \in 1..N : A(j) = A(N) => Z(N) <= Z(j)
          BY <3>1, <3>2, <1>1, <1>2
        <4> QED
          BY <3>2, <4>1, <1>1
      <3>3. CASE A(N) # A(i) \/ Z(m) <= Z(N)
        <4>1. \A j \in 1..N : A(j) = A(m) => Z(m) <= Z(j)
          BY <3>1, <3>3, <1>1, <1>2
        <4> QED
          BY <3>1, <4>1, <1>1
      <3> QED
        BY <3>2, <3>3, <1>1, <1>2
    <2> QED
      BY <2>1, <2>2
  <1>6. ASSUME NEW i \in DOMAIN g
        PROVE  /\ \E x \in DOMAIN g : A(x) = A(i) /\ FirstLargest(g, x)
               /\ \E m \in DOMAIN g : A(m) = A(i) /\ Smallest(g, m)
    <2>0. i \in 1..N
      BY <1>1
    <2>1. \E x \in DOMAIN g : A(x) = A(i) /\ FirstLargest(g, x)
      <3>1. PICK x \in 1..N : A(x) = A(i) /\ \A j \in 1..N : A(j) = A(x) =>
                Z(j) <= Z(x) /\ (j < x => Z(j) < Z(x))
        BY <2>0, <1>4
      <3>2. FirstLargest(g, x)
        BY <1>1, <3>1 DEF FirstLargest
      <3> QED
        BY <1>1, <3>1, <3>2
    <2>2. \E m \in DOMAIN g : A(m) = A(i) /\ Smallest(g, m)
      <3>1. PICK m \in 1..N : A(m) = A(i) /\ \A j \in 1..N : A(j) = A(m) =>
                Z(m) <= Z(j)
        BY <2>0, <1>5
      <3>2. Smallest(g, m)
        BY <1>1, <3>1 DEF Smallest
      <3> QED
        BY <1>1, <3>1, <3>2
    <2> QED
      BY <2>1, <2>2
  <1> QED
    BY <1>6 DEF Extremes

LEMMA HistoryInvariant == Spec => []HInv
  <1>1. Init => HInv
    BY DEF Init, HInv, Ordered, Extremes
  <1>2. HInv /\ [Next]_vars => HInv'
    <2> SUFFICES ASSUME HInv, [Next]_vars PROVE HInv'
      OBVIOUS
    <2>1. ASSUME NEW t \in Trades, Trading(t)
          PROVE  HInv'
      BY <2>1, TradingAppends, ExtremesKept DEF HInv, Longer
    <2>2. CASE history' = <<>>
      BY <2>2 DEF HInv, Ordered, Extremes
    <2>3. CASE UNCHANGED history
      BY <2>3 DEF HInv
    <2> QED
      BY <2>1, <2>2, <2>3 DEF Next, AddTrade, ScoreTrader, vars
  <1> QED
    BY <1>1, <1>2, PTL DEF Spec

\* The judgement of the profiler is that of the stream, save for the three gaps:
\* every trade it cites would have been coached on submission.
THEOREM TwoDetectorsAgree == Spec => []StreamWouldCoach
  <1>1. HInv => StreamWouldCoach
    BY CitedIsCoached DEF HInv
  <1> QED
    BY <1>1, HistoryInvariant, PTL

-----------------------------------------------------------------------------
(***************************************************************************)
(* What a longer history keeps.                                            *)
(***************************************************************************)

\* Evidence that grows at its end: nothing is lost, and what is added comes
\* after what was there.
Grown(e, f) == e \subseteq f /\ \A i \in e, j \in f : j < i => j \in e

LEMMA SingleTradesGrow ==
    ASSUME NEW h, NEW g, Longer(h, g),
           NEW e \in SUBSET DOMAIN h, NEW f \in SUBSET DOMAIN g,
           \A i \in DOMAIN h : i \in e <=> i \in f
    PROVE  Grown(e, f)
  <1>1. \A i \in DOMAIN h, j \in DOMAIN g : j < i => j \in DOMAIN h
    BY DEF Longer
  <1> QED
    BY <1>1 DEF Grown

\* The first trade of a session that becomes overtrading is later than those
\* of the sessions before it.
LEMMA OvertradedGrows ==
    ASSUME NEW h, NEW g, Longer(h, g)
    PROVE  Grown(Overtraded(h), Overtraded(g))
  <1> DEFINE N == Len(g)
  <1>1. /\ \A i \in DOMAIN h : i \in DOMAIN g /\ g[i] = h[i] /\ i \in Nat
        /\ \A i \in DOMAIN h, j \in DOMAIN g : j < i => j \in DOMAIN h
        /\ N \in DOMAIN g
        /\ \A i \in DOMAIN h : i <= N
    BY DEF Longer
  <1>2. Many \in Nat
    BY ProfilerAssumption
  <1>3. ASSUME NEW i \in Overtraded(h)
        PROVE  i \in Overtraded(g)
    <2>1. i \in DOMAIN h /\ Index(h, i) = 0 /\ Cardinality(Session(h, i)) >= Many
      BY DEF Overtraded
    <2> DEFINE a == Cardinality(Session(h, i))
               b == Cardinality(Session(g, i))
    <2>2. a \in Nat /\ b \in Nat /\ a <= b /\ Index(g, i) = 0
      BY <2>1, SessionGrows
    <2>3. b >= Many
      <3>1. a >= Many
        BY <2>1
      <3> HIDE DEF a, b
      <3> QED
        BY <1>2, <2>2, <3>1
    <2> QED
      BY <1>1, <2>1, <2>2, <2>3 DEF Overtraded
  <1>4. ASSUME NEW i \in Overtraded(h), NEW j \in Overtraded(g), j < i
        PROVE  j \in Overtraded(h)
    <2>1. /\ i \in DOMAIN h /\ Index(h, i) = 0
          /\ j \in DOMAIN g /\ Index(g, j) = 0
          /\ Cardinality(Session(g, j)) >= Many
      BY DEF Overtraded
    <2>2. j \in DOMAIN h /\ Index(h, j) = 0
      BY <1>1, <1>4, <2>1, SessionGrows
    <2>3. h[j].session # h[i].session
      <3>1. SUFFICES ASSUME h[j].session = h[i].session PROVE FALSE
        OBVIOUS
      <3>2. j \in Session(h, i)
        BY <2>2, <3>1 DEF Session
      <3> QED
        BY <1>4, <2>1, <3>2, SessionGrows
    <2>4. g[N].session # g[j].session
      <3>1. /\ g[j].session \in Nat /\ g[i].session \in Nat /\ g[N].session \in Nat
            /\ i \in DOMAIN g /\ j <= i /\ i <= N
        BY <1>1, <1>4, <2>1, TradeTypes DEF Longer
      <3>2. g[j].session <= g[i].session /\ g[i].session <= g[N].session
        BY <1>1, <2>1, <3>1 DEF Longer, Ordered
      <3>3. g[j].session # g[i].session
        BY <1>1, <2>1, <2>2, <2>3
      <3> QED
        BY <3>1, <3>2, <3>3
    <2>5. Session(g, j) = Session(h, j)
      BY <1>1, <2>2, <2>4, SessionGrows
    <2> QED
      BY <2>1, <2>2, <2>5 DEF Overtraded
  <1> QED
    BY <1>3, <1>4 DEF Grown

LEMMA LastingGrow ==
    ASSUME NEW h, NEW g, Longer(h, g), NEW p \in Lasting
    PROVE  /\ Evidence(g)[p] \subseteq DOMAIN g
           /\ Grown(Evidence(h)[p], Evidence(g)[p])
  <1>1. \A i \in DOMAIN h : i \in DOMAIN g /\ g[i] = h[i]
    BY DEF Longer
  <1>2. CASE p = "overtrading"
    <2>1. /\ Evidence(h)[p] = Overtraded(h)
          /\ Evidence(g)[p] = Overtraded(g)
      BY <1>2, EvidenceIs
    <2>2. Overtraded(g) \subseteq DOMAIN g
      BY DEF Overtraded
    <2> QED
      BY <2>1, <2>2, OvertradedGrows
  <1>3. CASE p = "revenge_trading"
    <2> DEFINE e == {i \in DOMAIN h : h[i].trade.flag}
               f == {i \in DOMAIN g : g[i].trade.flag}
    <2>1. \A i \in DOMAIN h : i \in e <=> i \in f
      BY <1>1
    <2>2. Grown(e, f)
      BY <2>1, SingleTradesGrow
    <2>3. Evidence(h)[p] = e /\ Evidence(g)[p] = f
      BY <1>3, EvidenceIs
    <2> QED
      BY <2>2, <2>3
  <1>4. ASSUME NEW cue,
               Evidence(h)[p] = {i \in DOMAIN h : cue \in h[i].trade.verbatim},
               Evidence(g)[p] = {i \in DOMAIN g : cue \in g[i].trade.verbatim}
        PROVE  /\ Evidence(g)[p] \subseteq DOMAIN g
               /\ Grown(Evidence(h)[p], Evidence(g)[p])
    <2> DEFINE e == {i \in DOMAIN h : cue \in h[i].trade.verbatim}
               f == {i \in DOMAIN g : cue \in g[i].trade.verbatim}
    <2>1. \A i \in DOMAIN h : i \in e <=> i \in f
      BY <1>1
    <2>2. Grown(e, f)
      BY <2>1, SingleTradesGrow
    <2> QED
      BY <1>4, <2>2
  <1>5. CASE p = "fomo_entries"
    <2>1. /\ Evidence(h)[p] = {i \in DOMAIN h : "fomo" \in h[i].trade.verbatim}
          /\ Evidence(g)[p] = {i \in DOMAIN g : "fomo" \in g[i].trade.verbatim}
      BY <1>5, EvidenceIs
    <2> QED
      BY <1>4, <2>1
  <1>6. CASE p = "plan_non_adherence"
    <2>1. /\ Evidence(h)[p] = {i \in DOMAIN h : "off_plan" \in h[i].trade.verbatim}
          /\ Evidence(g)[p] = {i \in DOMAIN g : "off_plan" \in g[i].trade.verbatim}
      BY <1>6, EvidenceIs
    <2> QED
      BY <1>4, <2>1
  <1>7. CASE p = "premature_exit"
    <2>1. /\ Evidence(h)[p] = {i \in DOMAIN h : "early" \in h[i].trade.verbatim}
          /\ Evidence(g)[p] = {i \in DOMAIN g : "early" \in g[i].trade.verbatim}
      BY <1>7, EvidenceIs
    <2> QED
      BY <1>4, <2>1
  <1>8. CASE p = "loss_running"
    <2>1. /\ Evidence(h)[p] = {i \in DOMAIN h : "hope" \in h[i].trade.verbatim}
          /\ Evidence(g)[p] = {i \in DOMAIN g : "hope" \in g[i].trade.verbatim}
      BY <1>8, EvidenceIs
    <2> QED
      BY <1>4, <2>1
  <1> QED
    BY <1>2, <1>3, <1>5, <1>6, <1>7, <1>8 DEF Lasting

\* The tilt of a session depends on that session alone.
LEMMA TiltOfSession ==
    ASSUME NEW h, NEW g, Longer(h, g), NEW i \in DOMAIN h,
           h[i].session # g[Len(g)].session
    PROVE  i \in Tilt(h) <=> i \in Tilt(g)
  <1> DEFINE deep(x) == {j \in DOMAIN x : LateLoss(x, j) /\ x[j].trade.pnl = "deep"}
  <1>1. \A j \in DOMAIN h : j \in DOMAIN g /\ g[j] = h[j]
    BY DEF Longer
  <1>2. Session(g, i) = Session(h, i)
    BY SessionGrows
  <1>3. \A j \in Session(h, i) : j \in DOMAIN h /\ h[j].session = h[i].session
    BY DEF Session
  <1>4. \A j \in Session(h, i) \cup {i} : j \in deep(h) <=> j \in deep(g)
    BY <1>1, <1>3, LateLossKept
  <1>5. /\ i \in Tilt(h) <=>
             i \in deep(h) /\ \A j \in Session(h, i) : j \in deep(h) => j >= i
        /\ i \in Tilt(g) <=>
             i \in deep(g) /\ \A j \in Session(g, i) : j \in deep(g) => j >= i
    BY DEF Tilt
  <1> HIDE DEF deep
  <1> QED
    BY <1>2, <1>4, <1>5

\* Longer evidence is cited from the same beginning, and with more confidence.
LEMMA GrownIsCited ==
    ASSUME NEW n \in Nat, NEW e, NEW f \in SUBSET (1..n), Grown(e, f)
    PROVE  /\ Citations(e) \subseteq Citations(f)
           /\ Confidence(e) <= Confidence(f)
  <1>1. IsFiniteSet(f)
    <2>1. IsFiniteSet(1..n)
      BY FS_Interval
    <2> QED
      BY <2>1, FS_Subset
  <1>2. /\ Cardinality(e) <= Cardinality(f)
        /\ Cardinality(e) \in Nat /\ Cardinality(f) \in Nat
    BY <1>1, FS_Subset, FS_CardinalityType DEF Grown
  <1>3. \A i \in e : {j \in e : j < i} = {j \in f : j < i}
    BY DEF Grown
  <1>4. Citations(e) \subseteq Citations(f)
    BY <1>3 DEF Citations, Grown
  <1>5. \A c \in Nat : Min({50 + 10 * c, 99}) = IF 50 + 10 * c <= 99 THEN 50 + 10 * c ELSE 99
    <2> SUFFICES ASSUME NEW c \in Nat
                 PROVE  Min({50 + 10 * c, 99}) = IF 50 + 10 * c <= 99 THEN 50 + 10 * c ELSE 99
      OBVIOUS
    <2> DEFINE a == 50 + 10 * c
    <2>1. a \in Nat
      OBVIOUS
    <2> HIDE DEF a
    <2>2. Min({a, 99}) = IF a <= 99 THEN a ELSE 99
      BY <2>1 DEF Min
    <2> QED
      BY <2>2 DEF a
  <1>6. Confidence(e) <= Confidence(f)
    <2> DEFINE a == Cardinality(e)
               b == Cardinality(f)
    <2>1. /\ Confidence(e) = IF 50 + 10 * a <= 99 THEN 50 + 10 * a ELSE 99
          /\ Confidence(f) = IF 50 + 10 * b <= 99 THEN 50 + 10 * b ELSE 99
      BY <1>2, <1>5 DEF Confidence
    <2>2. a \in Nat /\ b \in Nat /\ a <= b
      BY <1>2
    <2> HIDE DEF a, b
    <2> QED
      BY <2>1, <2>2
  <1> QED
    BY <1>4, <1>6

\* A history that grows in a step grows by one trade.
LEMMA GrowsByOne ==
    ASSUME HInv, [Next]_vars, Grows
    PROVE  Longer(history, history')
  <1>1. Len(history) \in Nat /\ Len(<<>>) = 0
    BY DEF HInv
  <1>2. ~ UNCHANGED history /\ history' # <<>>
    BY <1>1 DEF Grows
  <1>3. PICK t \in Trades : Trading(t)
    BY <1>2 DEF Next, AddTrade, ScoreTrader, vars
  <1> QED
    BY <1>3, TradingAppends DEF HInv

\* A profile made again cites what it cited before and is no less sure, and
\* the tilt found in a session does not depend on the others.
THEOREM CitationsLast == Spec => CitationsStand
  <1>1. ASSUME HInv, [Next]_vars
        PROVE  Grows /\ ~Raises(history) /\ ~Raises(history') =>
                 LET e == Evidence(history)  f == Evidence(history') IN
                 /\ \A p \in Lasting : /\ Citations(e[p]) \subseteq Citations(f[p])
                                       /\ Confidence(e[p]) <= Confidence(f[p])
                 /\ \A i \in DOMAIN history :
                       history[i].session # Latest.session =>
                           (i \in e.session_tilt <=> i \in f.session_tilt)
    <2> SUFFICES ASSUME Grows
                 PROVE  LET e == Evidence(history)  f == Evidence(history') IN
                        /\ \A p \in Lasting :
                              /\ Citations(e[p]) \subseteq Citations(f[p])
                              /\ Confidence(e[p]) <= Confidence(f[p])
                        /\ \A i \in DOMAIN history :
                              history[i].session # Latest.session =>
                                  (i \in e.session_tilt <=> i \in f.session_tilt)
      OBVIOUS
    <2> DEFINE h == history
               g == history'
    <2>1. Longer(h, g)
      BY <1>1, GrowsByOne
    <2>2. Latest = g[Len(g)]
      BY DEF Latest
    <2>3. Len(g) \in Nat /\ DOMAIN g = 1..Len(g)
      BY <2>1 DEF Longer
    <2> HIDE DEF h, g
    <2>4. ASSUME NEW p \in Lasting
          PROVE  /\ Citations(Evidence(h)[p]) \subseteq Citations(Evidence(g)[p])
                 /\ Confidence(Evidence(h)[p]) <= Confidence(Evidence(g)[p])
      BY <2>1, <2>3, LastingGrow, GrownIsCited
    <2>5. ASSUME NEW i \in DOMAIN h, h[i].session # Latest.session
          PROVE  i \in Evidence(h).session_tilt <=> i \in Evidence(g).session_tilt
      BY <2>1, <2>2, <2>5, TiltOfSession, EvidenceIs
    <2> QED
      BY <2>4, <2>5 DEF h, g
  <1> QED
    BY <1>1, HistoryInvariant, PTL DEF Spec, CitationsStand

-----------------------------------------------------------------------------
(***************************************************************************)
(* What a longer history may lose.                                         *)
(***************************************************************************)

LEMMA MaxMinAre ==
    ASSUME NEW S \in SUBSET Nat, NEW x \in S
    PROVE  /\ (\A y \in S : y <= x) => Max(S) = x
           /\ (\A y \in S : x <= y) => Min(S) = x
  <1>1. ASSUME \A y \in S : y <= x
        PROVE  Max(S) = x
    <2>1. \A y \in S : x >= y
      BY <1>1
    <2>2. \A z \in S : (\A y \in S : z >= y) => z = x
      BY <1>1
    <2> QED
      BY <2>1, <2>2 DEF Max
  <1>2. ASSUME \A y \in S : x <= y
        PROVE  Min(S) = x
    <2>1. \A z \in S : (\A y \in S : z <= y) => z = x
      BY <1>2
    <2> QED
      BY <1>2, <2>1 DEF Min
  <1> QED
    BY <1>1, <1>2

SameAsset(h, i) == {j \in DOMAIN h : h[j].trade.asset = h[i].trade.asset}

\* The sizing rule in terms of a first largest trade x and a smallest one m.
LEMMA SizingIs ==
    ASSUME NEW h \in Seq(Entries), NEW i \in DOMAIN h,
           NEW x \in DOMAIN h, h[x].trade.asset = h[i].trade.asset, FirstLargest(h, x),
           NEW m \in DOMAIN h, h[m].trade.asset = h[i].trade.asset, Smallest(h, m)
    PROVE  i \in Sizing(h) <=>
              /\ Cardinality(SameAsset(h, i)) > 2
              /\ h[x].trade.size > 30 * h[m].trade.size
              /\ h[m].trade.size > 0
              /\ h[i].trade.size = h[x].trade.size
              /\ \A j \in SameAsset(h, i) : j < i => h[j].trade.size < h[x].trade.size
  <1> DEFINE S == SameAsset(h, i)
             Z == {h[j].trade.size : j \in S}
  <1>1. /\ x \in S /\ m \in S
        /\ \A j \in S : /\ h[j].trade.size <= h[x].trade.size
                        /\ h[m].trade.size <= h[j].trade.size
    BY DEF SameAsset, FirstLargest, Smallest
  <1>2. \A j \in S : h[j].trade.size \in Nat
    BY TradeTypes DEF SameAsset
  <1>3. Max(Z) = h[x].trade.size /\ Min(Z) = h[m].trade.size
    <2>1. Z \in SUBSET Nat /\ h[x].trade.size \in Z /\ h[m].trade.size \in Z
      BY <1>1, <1>2
    <2>2. \A y \in Z : y <= h[x].trade.size /\ h[m].trade.size <= y
      BY <1>1
    <2> HIDE DEF Z
    <2> QED
      BY <2>1, <2>2, MaxMinAre
  <1>4. i \in Sizing(h) <=>
            /\ Cardinality(S) > 2
            /\ Max(Z) > 30 * Min(Z) /\ Min(Z) > 0
            /\ h[i].trade.size = Max(Z)
            /\ \A j \in S : j < i => h[j].trade.size < Max(Z)
    BY DEF Sizing, SameAsset
  <1> HIDE DEF S, Z
  <1> QED
    BY <1>3, <1>4 DEF S

\* Sizes go on to spread when a trade of some size is added.
LEMMA SizingGrows ==
    ASSUME NEW h, NEW g, Longer(h, g), Extremes(h), Extremes(g),
           g[Len(g)].trade.size # 0, Sizing(h) # {}
    PROVE  Sizing(g) # {}
  <1>1. /\ \A j \in DOMAIN h : j \in DOMAIN g /\ g[j] = h[j]
        /\ \A j \in DOMAIN g : j \in DOMAIN h \/ j = Len(g)
        /\ h \in Seq(Entries) /\ g \in Seq(Entries)
        /\ Len(g) \in Nat /\ DOMAIN g = 1..Len(g)
    BY DEF Longer
  <1>2. PICK i \in Sizing(h) : i \in DOMAIN h
    BY DEF Sizing
  <1>3. PICK x \in DOMAIN h : h[x].trade.asset = h[i].trade.asset /\ FirstLargest(h, x)
    BY <1>2 DEF Extremes
  <1>4. PICK m \in DOMAIN h : h[m].trade.asset = h[i].trade.asset /\ Smallest(h, m)
    BY <1>2 DEF Extremes
  <1>5. PICK y \in DOMAIN g : g[y].trade.asset = g[i].trade.asset /\ FirstLargest(g, y)
    BY <1>1, <1>2 DEF Extremes
  <1>6. PICK k \in DOMAIN g : g[k].trade.asset = g[i].trade.asset /\ Smallest(g, k)
    BY <1>1, <1>2 DEF Extremes
  <1> DEFINE a == h[x].trade.size
             b == h[m].trade.size
             c == g[y].trade.size
             d == g[k].trade.size
  <1>7. /\ Cardinality(SameAsset(h, i)) > 2 /\ a > 30 * b /\ b > 0
        /\ a \in Nat /\ b \in Nat /\ c \in Nat /\ d \in Nat
    BY <1>1, <1>2, <1>3, <1>4, SizingIs, TradeTypes
  <1>8. a <= c
    BY <1>1, <1>2, <1>3, <1>5 DEF FirstLargest
  <1>9. d <= b
    BY <1>1, <1>2, <1>4, <1>6 DEF Smallest
  <1>10. d > 0
    <2>1. CASE k = Len(g)
      BY <2>1, <1>7
    <2>2. CASE k \in DOMAIN h
      <3>1. b <= d
        BY <2>2, <1>1, <1>2, <1>4, <1>6 DEF Smallest
      <3> HIDE DEF b, d
      <3> QED
        BY <3>1, <1>7
    <2> QED
      BY <2>1, <2>2, <1>1
  <1>11. c > 30 * d
    <2> HIDE DEF a, b, c, d
    <2> QED
      BY <1>7, <1>8, <1>9
  <1>12. Cardinality(SameAsset(g, y)) > 2
    <2>1. SameAsset(h, i) \subseteq SameAsset(g, y)
      BY <1>1, <1>2, <1>5 DEF SameAsset
    <2>2. IsFiniteSet(SameAsset(g, y))
      <3>1. IsFiniteSet(1..Len(g))
        BY <1>1, FS_Interval
      <3> QED
        BY <1>1, <3>1, FS_Subset DEF SameAsset
    <2>3. /\ Cardinality(SameAsset(h, i)) <= Cardinality(SameAsset(g, y))
          /\ IsFiniteSet(SameAsset(h, i))
      BY <2>1, <2>2, FS_Subset
    <2>4. /\ Cardinality(SameAsset(g, y)) \in Nat
          /\ Cardinality(SameAsset(h, i)) \in Nat
      BY <2>2, <2>3, FS_CardinalityType
    <2> QED
      BY <1>7, <2>3, <2>4
  <1>13. \A j \in SameAsset(g, y) : j < y => g[j].trade.size < c
    BY <1>5 DEF SameAsset, FirstLargest
  <1>14. y \in Sizing(g)
    <2>1. g[y].trade.asset = g[y].trade.asset /\ g[k].trade.asset = g[y].trade.asset
      BY <1>5, <1>6
    <2> QED
      BY <1>1, <1>5, <1>6, <1>10, <1>11, <1>12, <1>13, <2>1, SizingIs
  <1> QED
    BY <1>14

\* Losses of the afternoon stay losses, and wins are only added.
LEMMA BiasGrows ==
    ASSUME NEW h, NEW g, Longer(h, g), Bias(h) # {}, Bias(g) = {}
    PROVE  /\ Afternoon(g[Len(g)].trade)
           /\ g[Len(g)].trade.outcome = "win"
  <1> DEFINE late(x, o) ==
                {i \in DOMAIN x : Afternoon(x[i].trade) /\ x[i].trade.outcome = o}
  <1>1. /\ \A j \in DOMAIN h : j \in DOMAIN g /\ g[j] = h[j]
        /\ \A j \in DOMAIN g : j \in DOMAIN h \/ j = Len(g)
        /\ Len(g) \in Nat /\ DOMAIN g = 1..Len(g)
    BY DEF Longer
  <1>2. /\ Cardinality(late(h, "loss")) > Losses /\ late(h, "win") = {}
        /\ ~(Cardinality(late(g, "loss")) > Losses /\ late(g, "win") = {})
           \/ late(g, "loss") = {}
    BY DEF Bias
  <1>3. late(h, "loss") \subseteq late(g, "loss")
    BY <1>1
  <1>4. IsFiniteSet(late(g, "loss"))
    <2>1. IsFiniteSet(1..Len(g))
      BY <1>1, FS_Interval
    <2>2. late(g, "loss") \subseteq 1..Len(g)
      BY <1>1
    <2> HIDE DEF late
    <2> QED
      BY <2>1, <2>2, FS_Subset
  <1>5. Losses \in Nat
    BY ProfilerAssumption
  <1>6. Cardinality(late(g, "loss")) > Losses /\ late(g, "loss") # {}
    <2> DEFINE A == late(h, "loss")
               B == late(g, "loss")
    <2> HIDE DEF late, A, B
    <2>1. A \subseteq B /\ IsFiniteSet(B) /\ Cardinality(A) > Losses
      BY <1>2, <1>3, <1>4 DEF A, B
    <2>2. /\ Cardinality(A) <= Cardinality(B) /\ IsFiniteSet(A)
          /\ Cardinality(A) \in Nat /\ Cardinality(B) \in Nat
      BY <2>1, FS_Subset, FS_CardinalityType
    <2>3. Cardinality(B) > Losses /\ Cardinality(B) # 0
      BY <1>5, <2>1, <2>2
    <2>4. B # {}
      BY <2>3, FS_EmptySet
    <2> QED
      BY <2>3, <2>4 DEF B
  <1>7. PICK i \in late(g, "win") : TRUE
    BY <1>2, <1>6
  <1>8. i = Len(g)
    BY <1>1, <1>2, <1>7
  <1> QED
    BY <1>7, <1>8

\* A tilt is lost only to longer trading in its session.
LEMMA TiltGrows ==
    ASSUME NEW h, NEW g, Longer(h, g), Tilt(h) # {}, Tilt(g) = {}
    PROVE  Index(g, Len(g)) > 0
  <1>1. /\ \A j \in DOMAIN h : j \in DOMAIN g /\ g[j] = h[j] /\ j < Len(g)
        /\ Len(g) \in DOMAIN g
        /\ Len(g) \in Nat /\ DOMAIN g = 1..Len(g)
    BY DEF Longer
  <1>2. PICK i \in Tilt(h) : i \in DOMAIN h
    BY DEF Tilt
  <1>3. h[i].session = g[Len(g)].session
    BY <1>2, TiltOfSession
  <1> DEFINE before == {j \in Session(g, Len(g)) : j < Len(g)}
  <1>4. i \in before /\ before \subseteq 1..Len(g)
    BY <1>1, <1>2, <1>3 DEF Session
  <1>5. Index(g, Len(g)) = Cardinality(before)
    BY DEF Index
  <1> HIDE DEF before
  <1>6. IsFiniteSet(before)
    <2>1. IsFiniteSet(1..Len(g))
      BY <1>1, FS_Interval
    <2> QED
      BY <1>4, <2>1, FS_Subset
  <1>7. Cardinality(before) \in Nat /\ Cardinality(before) # 0
    BY <1>4, <1>6, FS_CardinalityType, FS_EmptySet
  <1> QED
    BY <1>5, <1>7

\* A history ceases to be profiled by its last trade: an earlier loss is not
\* late in it unless it was late before.
LEMMA RaisesByLatest ==
    ASSUME NEW h, NEW g, Longer(h, g), ~Raises(h), Raises(g)
    PROVE  LateLoss(g, Len(g)) /\ g[Len(g)].trade.pnl = "null"
  <1>1. /\ \A j \in DOMAIN h : g[j] = h[j]
        /\ \A j \in DOMAIN g : j \in DOMAIN h \/ j = Len(g)
    BY DEF Longer
  <1>2. PICK i \in DOMAIN g : LateLoss(g, i) /\ g[i].trade.pnl = "null"
    BY DEF Raises
  <1>3. i \notin DOMAIN h
    BY <1>1, <1>2, LateLossKept DEF Raises
  <1> QED
    BY <1>1, <1>2, <1>3

\* A profile is not lost by trading on, save in four ways: an unknown late
\* loss, longer trading in a tilted session, an afternoon win, a size of 0.
THEOREM LossesAreFour == Spec => LostOnlyTo
  <1>1. ASSUME HInv, HInv', [Next]_vars
        PROVE  Grows =>
                 \A p \in Detected(history) \ Detected(history') :
                    \/ LateLoss(history', Len(history')) /\ Latest.trade.pnl = "null"
                    \/ p = "session_tilt" /\ Index(history', Len(history')) > 0
                    \/ p = "time_of_day_bias" /\ Afternoon(Latest.trade)
                          /\ Latest.trade.outcome = "win"
                    \/ p = "position_sizing_inconsistency" /\ Latest.trade.size = 0
    <2> DEFINE h == history
               g == history'
               L == Len(history')
    <2> SUFFICES ASSUME Grows, NEW p \in Detected(h) \ Detected(g),
                        ~(LateLoss(g, L) /\ g[L].trade.pnl = "null")
                 PROVE  \/ p = "session_tilt" /\ Index(g, L) > 0
                        \/ p = "time_of_day_bias" /\ Afternoon(g[L].trade)
                              /\ g[L].trade.outcome = "win"
                        \/ p = "position_sizing_inconsistency" /\ g[L].trade.size = 0
      BY DEF Latest
    <2>1. Longer(h, g) /\ Extremes(h) /\ Extremes(g)
      BY <1>1, GrowsByOne DEF HInv
    <2>2. L = Len(g)
      OBVIOUS
    <2> HIDE DEF h, g, L
    <2>3. ~Raises(h) /\ p \in DOMAIN Evidence(h) /\ Evidence(h)[p] # {}
      BY DEF Detected
    <2>4. ~Raises(g)
      BY <2>1, <2>2, <2>3, RaisesByLatest
    <2>5. DOMAIN Evidence(g) = DOMAIN Evidence(h)
      BY DEF Evidence
    <2>6. Evidence(g)[p] = {}
      BY <2>3, <2>4, <2>5 DEF Detected
    <2>7. p \notin Lasting
      BY <2>1, <2>3, <2>6, LastingGrow DEF Grown
    <2>8. p \in {"session_tilt", "time_of_day_bias", "position_sizing_inconsistency"}
      BY <2>3, <2>7, EvidenceIs
    <2>9. CASE p = "session_tilt"
      <3>1. Tilt(h) # {} /\ Tilt(g) = {}
        BY <2>3, <2>6, <2>9, EvidenceIs
      <3> QED
        BY <2>1, <2>2, <2>9, <3>1, TiltGrows
    <2>10. CASE p = "time_of_day_bias"
      <3>1. Bias(h) # {} /\ Bias(g) = {}
        BY <2>3, <2>6, <2>10, EvidenceIs
      <3> QED
        BY <2>1, <2>2, <2>10, <3>1, BiasGrows
    <2>11. CASE p = "position_sizing_inconsistency"
      <3>1. Sizing(h) # {} /\ Sizing(g) = {}
        BY <2>3, <2>6, <2>11, EvidenceIs
      <3> QED
        BY <2>1, <2>2, <2>11, <3>1, SizingGrows
    <2> QED
      BY <2>8, <2>9, <2>10, <2>11
  <1> QED
    BY <1>1, HistoryInvariant, PTL DEF Spec, LostOnlyTo
=============================================================================

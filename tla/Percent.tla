------------------------------ MODULE Percent -------------------------------
(***************************************************************************)
(* A share of a whole in hundredths, as the audit and the evaluation give  *)
(* it.                                                                     *)
(***************************************************************************)
EXTENDS Integers

\* The k for which the double nearest to (k + 1/2) / 100 is rounded up: it lies
\* above, or is exact and k is odd.
TiesUp == { 0,  2,  3,  5,  6,  8,  9, 11, 13, 16, 19, 22, 25, 26, 27, 31, 32,
           33, 37, 38, 39, 40, 44, 45, 46, 50, 51, 52, 53, 54, 55, 63, 64, 65,
           66, 67, 68, 75, 76, 77, 78, 79, 80, 87, 88, 89, 90, 91, 92, 93}

\* Round, with every tie rounded up, as on paper.
RoundHalfUp(m, n) ==
    LET q == (100 * m) \div n
        d == 2 * ((100 * m) % n)
    IN  IF d >= n THEN q + 1 ELSE q

\* Python's round(m / n, 2) in hundredths, exact for a quotient of integers: to
\* the nearest, and a tie to where floating point leaves it.
Round(m, n) ==
    LET q == (100 * m) \div n
        d == 2 * ((100 * m) % n)
    IN  IF d > n \/ (d = n /\ q \in TiesUp) THEN q + 1 ELSE q
=============================================================================

----------------------------- MODULE Evaluation -----------------------------
(***************************************************************************)
(* build_report (eval.py): the profiler's answers for a data set of        *)
(* traders, against their labels.  The loop over the traders counts hits   *)
(* and errors per label and fills a confusion matrix, in which a trader    *)
(* with several labels and several detected pathologies counts once for    *)
(* every pair.                                                             *)
(***************************************************************************)
EXTENDS Profiler, Percent

CONSTANTS
    Classes,    \* the schema's pathologyLabels
    MaxTrades   \* bound: trades of the data set, a trader counting as one

\* With no label at all the averages divide by zero; "None" is a column of the
\* matrix, for what drew no prediction, and no label.
ASSUME EvaluationAssumption ==
    IsFiniteSet(Classes) /\ Classes # {} /\ "None" \notin Classes /\ MaxTrades \in Nat

VARIABLES
    scored,     \* traders scored
    stats,      \* stats[c]: true positives, false positives, false negatives
    confusion   \* confusion_matrix[true label, predicted label or "None"]

vars == <<history, scored, stats, confusion>>

Columns == Classes \cup {"None"}

Bit(b) == IF b THEN 1 ELSE 0

-----------------------------------------------------------------------------
(***************************************************************************)
(* Mistakes: what the definition each comment names would be if the code   *)
(* had a plausible bug.  Nothing below uses them.                          *)
(***************************************************************************)

\* Cell, with its row and column swapped.
CellSwapped(truth, found, t, p) ==
    t \in found /\ IF p = "None" THEN truth = {} ELSE p \in truth

\* Share, with 1.0 where there is nothing to divide.
ShareOfNothing(m, n) == IF n = 0 THEN <<1, 1>> ELSE <<m, n>>

-----------------------------------------------------------------------------

\* What a trader adds to the counters of a label, and to a cell of the matrix.
Count(c, truth, found) ==
    [tp |-> Bit(c \in truth \cap found), fp |-> Bit(c \in found \ truth),
     fn |-> Bit(c \in truth \ found)]

Cell(truth, found, t, p) ==
    t \in truth /\ IF p = "None" THEN found = {} ELSE p \in found

Init ==
    /\ history = <<>>
    /\ scored = 0
    /\ stats = [c \in Classes |-> [tp |-> 0, fp |-> 0, fn |-> 0]]
    /\ confusion = [x \in Classes \X Columns |-> 0]

\* The next trader of the data set has one trade more.
AddTrade(t) ==
    /\ Len(history) + scored < MaxTrades
    /\ Trading(t)
    /\ UNCHANGED <<scored, stats, confusion>>

\* One turn of the loop.  When the detection raises there is no report.
ScoreTrader(truth) ==
    LET found == Detected(history) IN
    /\ scored < MaxTrades
    /\ ~Raises(history)
    /\ stats' = [c \in Classes |->
           LET n == Count(c, truth, found)
           IN  [k \in {"tp", "fp", "fn"} |-> stats[c][k] + n[k]]]
    /\ confusion' = [x \in Classes \X Columns |->
           confusion[x] + Bit(Cell(truth, found, x[1], x[2]))]
    /\ scored' = scored + 1
    /\ history' = <<>>

Next ==
    \/ \E t \in Trades : AddTrade(t)
    \/ \E truth \in SUBSET Classes : ScoreTrader(truth)

Spec == Init /\ [][Next]_vars

-----------------------------------------------------------------------------

\* The metrics of a label as fractions, and their average in hundredths; the
\* harmonic mean 2 * P * R / (P + R) of the code is this F1, cancelled.
Share(m, n)  == IF n = 0 THEN <<0, 1>> ELSE <<m, n>>
Precision(s) == Share(s.tp, s.tp + s.fp)
Recall(s)    == Share(s.tp, s.tp + s.fn)
F1(s)        == Share(2 * s.tp, 2 * s.tp + s.fp + s.fn)

Macro(metric) ==
    LET Plus(x, y) == <<x[1] * y[2] + y[1] * x[2], x[2] * y[2]>>
        sum == MapThenFoldSet(Plus, <<0, 1>>, LAMBDA c : metric[c],
                              LAMBDA S : CHOOSE c \in S : TRUE, Classes)
    IN  Round(sum[1], sum[2] * Cardinality(Classes))

-----------------------------------------------------------------------------
(***************************************************************************)
(* Properties.                                                             *)
(***************************************************************************)

\* The two tallies agree: the diagonal of the matrix is the true positives,
\* and a trader none of whose labels drew anything is a miss for each of them,
\* as is everyone in "None".  A trader counts at most once for a label.
MatrixAgrees == \A c \in Classes :
    /\ stats[c].tp + stats[c].fp + stats[c].fn <= scored
    /\ confusion[<<c, c>>] = stats[c].tp
    /\ confusion[<<c, "None">>] <= stats[c].fn
    /\ \A p \in Columns : confusion[<<c, p>>] <= stats[c].tp + stats[c].fn
    /\ \A p \in Classes \ {c} : confusion[<<c, p>>] <= stats[p].tp + stats[p].fp

\* An average shows 1.0 for the flawless only: a label that occurs nowhere, or
\* is never predicted, counts as 0, and the rounding hides no error.
FlawlessOnly ==
    LET precise == \A c \in Classes : stats[c].tp > 0 /\ stats[c].fp = 0
        whole   == \A c \in Classes : stats[c].tp > 0 /\ stats[c].fn = 0
    IN  /\ Macro([c \in Classes |-> Precision(stats[c])]) = 100 <=> precise
        /\ Macro([c \in Classes |-> Recall(stats[c])])    = 100 <=> whole
        /\ Macro([c \in Classes |-> F1(stats[c])])        = 100 <=> precise /\ whole
=============================================================================

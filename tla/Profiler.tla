------------------------------ MODULE Profiler ------------------------------
(***************************************************************************)
(* detect_pathologies (profiler.py): which of nine pathologies a trader's  *)
(* history shows, how sure the profiler is and which trades it cites.      *)
(*                                                                         *)
(* A history is the sequence of a trader's trades, each with the number of *)
(* its session; a trade is cited by its place in it.  It grows at its end: *)
(* the properties compare the profiles of a history with those of a longer *)
(* one.                                                                    *)
(***************************************************************************)
EXTENDS SignalRules, Sequences

CONSTANTS
    Trades,     \* the trades a history is made of
    Assets,     \* asset classes
    Many,       \* trades in a session that are overtrading: 15 in the code
    Losses,     \* afternoon losses that are not yet a bias: 5 in the code
    Cited       \* trades a profile cites at most: 3 in the code

\* A trade of the data set: what the rules of SignalRules read, the cues given
\* in the very words the profiler looks for, and what only the profiler reads.
\* A pnl is "deep" below -1000 and "null" while it is not known.  The text of
\* entryAt has separators in its date or ("basic") none at all; or it has no
\* digits where the hour is looked for: a date alone, a null, or separators in
\* the time only.
Layouts == {"extended", "basic", "no_hour"}
Logged == [flag : BOOLEAN, cues : SUBSET Cues, emotion : Emotions, score : Scores,
           outcome : Outcomes, entry : Time, verbatim : SUBSET Cues,
           pnl : {"null", "shallow", "deep"}, size : Nat, asset : Assets,
           layout : Layouts]

ASSUME ProfilerAssumption ==
    /\ \A t \in Trades : t \in Logged /\ t.verbatim \subseteq t.cues
    /\ {Many, Losses, Cited} \subseteq Nat \ {0}

VARIABLE history

-----------------------------------------------------------------------------

\* A session in its order, and the index (from 0) of a trade in it.
Session(h, i) == {j \in DOMAIN h : h[j].session = h[i].session}
Index(h, i)   == Cardinality({j \in Session(h, i) : j < i})

\* Overtrading, of sessions with exactly the limit of trades.
OvertradedExactly(h) ==
    {i \in DOMAIN h : Index(h, i) = 0 /\ Cardinality(Session(h, i)) = Many}

\* Sessions of too many trades, each cited by its first.
Overtraded(h) ==
    {i \in DOMAIN h : Index(h, i) = 0 /\ Cardinality(Session(h, i)) >= Many}

\* What the code asks before it compares a pnl: a loss in a bad mood, past the
\* middle of its session.
BadMood == {"fearful", "greedy", "anxious"}
LateLoss(h, i) ==
    /\ 2 * Index(h, i) > Cardinality(Session(h, i))
    /\ h[i].trade.outcome = "loss" /\ h[i].trade.emotion \in BadMood

\* A pnl of null cannot be compared: TypeError, and no profile of anything.
Raises(h) == \E i \in DOMAIN h : LateLoss(h, i) /\ h[i].trade.pnl = "null"

\* One citation per session, the first.
Tilt(h) ==
    LET deep == {i \in DOMAIN h : LateLoss(h, i) /\ h[i].trade.pnl = "deep"}
    IN  {i \in deep : \A j \in Session(h, i) \cap deep : j >= i}

\* The hour is what the text of entryAt has in the twelfth and thirteenth place,
\* whatever its zone: the minutes, in the basic layout; and where int() raises,
\* the trade is passed by.
Afternoon(t) ==
    \/ t.layout = "extended" /\ HourOfText(t.entry) >= 13
    \/ t.layout = "basic" /\ t.entry.local % 60 >= 13

\* One afternoon win acquits.
Bias(h) ==
    LET late(o) == {i \in DOMAIN h : Afternoon(h[i].trade) /\ h[i].trade.outcome = o}
    IN  IF Cardinality(late("loss")) > Losses /\ late("win") = {} THEN late("loss") ELSE {}

\* The first of the largest trades of each asset class whose sizes spread.
Sizing(h) == {i \in DOMAIN h :
    LET same  == {j \in DOMAIN h : h[j].trade.asset = h[i].trade.asset}
        sizes == {h[j].trade.size : j \in same}
    IN  /\ Cardinality(same) > 2
        /\ Max(sizes) > 30 * Min(sizes) /\ Min(sizes) > 0
        /\ h[i].trade.size = Max(sizes)
        /\ \A j \in same : j < i => h[j].trade.size < Max(sizes)}

\* evidence_map: the trades cited for each pathology.
Evidence(h) ==
    LET Said(cue) == {i \in DOMAIN h : cue \in h[i].trade.verbatim} IN
    [revenge_trading    |-> {i \in DOMAIN h : h[i].trade.flag},
     overtrading        |-> Overtraded(h),
     fomo_entries       |-> Said("fomo"),
     plan_non_adherence |-> Said("off_plan"),
     premature_exit     |-> Said("early"),
     loss_running       |-> Said("hope"),
     session_tilt       |-> Tilt(h),
     time_of_day_bias   |-> Bias(h),
     position_sizing_inconsistency |-> Sizing(h)]

\* The pathologies that get a profile.
Detected(h) ==
    LET e == Evidence(h) IN IF Raises(h) THEN {} ELSE {p \in DOMAIN e : e[p] # {}}

\* Citations, of the newest evidence in place of the oldest.
CitationsNewest(e) == {i \in e : Cardinality({j \in e : j > i}) < Cited}

\* evidence_list[:3], and the confidence in hundredths.
Citations(e)  == {i \in e : Cardinality({j \in e : j < i}) < Cited}
Confidence(e) == Min({50 + 10 * Cardinality(e), 99})

-----------------------------------------------------------------------------

\* The trader trades on, in the last session or in a new one.
Trading(t) ==
    LET last == IF history = <<>> THEN 0 ELSE history[Len(history)].session IN
    \E n \in {last, last + 1} \ {0} :
        history' = Append(history, [session |-> n, trade |-> t])

-----------------------------------------------------------------------------
(***************************************************************************)
(* Properties.                                                             *)
(***************************************************************************)

Grows  == Len(history') > Len(history)
Latest == history'[Len(history')]

\* A profile is not lost by trading on, save in four ways: the tilt of a
\* session by longer trading in it, which moves its middle; the bias by an
\* afternoon win; the spread of sizes by a trade of size 0; and all of them by
\* a late loss whose pnl is not known.
LostOnlyTo == [][Grows =>
    \A p \in Detected(history) \ Detected(history') :
        \/ LateLoss(history', Len(history')) /\ Latest.trade.pnl = "null"
        \/ p = "session_tilt" /\ Index(history', Len(history')) > 0
        \/ p = "time_of_day_bias" /\ Afternoon(Latest.trade) /\ Latest.trade.outcome = "win"
        \/ p = "position_sizing_inconsistency" /\ Latest.trade.size = 0]_history

Lasting == {"revenge_trading", "overtrading", "fomo_entries",
            "plan_non_adherence", "premature_exit", "loss_running"}

\* A profile made again of a longer history cites what it cited before and is
\* no less sure; and the tilt found in a session does not depend on others.
CitationsStand == [][Grows /\ ~Raises(history) /\ ~Raises(history') =>
    LET e == Evidence(history)  f == Evidence(history') IN
    /\ \A p \in Lasting : /\ Citations(e[p]) \subseteq Citations(f[p])
                          /\ Confidence(e[p]) <= Confidence(f[p])
    /\ \A i \in DOMAIN history :
          history[i].session # Latest.session =>
              (i \in e.session_tilt <=> i \in f.session_tilt)]_history

\* Two detectors, one judgement: a trade the profiler cites for a pathology of
\* single trades would have been coached when it was submitted, for that signal
\* or one ranked higher.  Three gaps remain: a greedy tilt, an hour written in
\* another zone than UTC, and minutes read as an hour.
StreamWouldCoach == ~Raises(history) =>
    LET e == Evidence(history) IN
    \A p \in DOMAIN e \ {"overtrading", "position_sizing_inconsistency"} :
        \A i \in e[p] :
            LET t == history[i].trade IN
            \/ Rank(DetectSignal(t)) <= Rank(p)
            \/ p = "session_tilt" /\ t.emotion = "greedy"
            \/ p = "time_of_day_bias" /\ t.entry.offset # 0
            \/ p = "time_of_day_bias" /\ t.layout = "basic"
=============================================================================

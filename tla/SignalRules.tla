---------------------------- MODULE SignalRules ----------------------------
(***************************************************************************)
(* detect_signal_realtime (app/events/router.py): which of nine behaviour  *)
(* signals, if any, a single trade shows.  The rules are tried in a fixed  *)
(* order and the first that holds wins.                                    *)
(*                                                                         *)
(* A trade is what the rules tell apart.  The phrases a rule looks for in  *)
(* the entry rationale are one cue: "recover" stands for "recover fast",   *)
(* "make it back" and so on.                                               *)
(***************************************************************************)
EXTENDS Integers, Sequences, FiniteSetsExt

CONSTANTS
    LocalTimes,     \* wall-clock times of entryAt, in minutes after midnight
    Offsets         \* its UTC offsets in minutes; a naive one counts as UTC

Cues      == {"recover", "scalp", "fomo", "off_plan", "early", "hope", "size_up"}
Emotions  == {"none", "calm", "fearful", "anxious", "greedy"}
Outcomes  == {"none", "win", "loss"}
NoScore   == 0
Scores    == {NoScore, 1, 2}      \* planAdherence: absent, the lowest, above it

ASSUME SignalRulesAssumption ==
    /\ LocalTimes \subseteq 0..1439
    /\ Offsets \subseteq -1439..1439

Time  == [local : LocalTimes, offset : Offsets]
Trade == [flag : BOOLEAN, cues : SUBSET Cues, emotion : Emotions,
          score : Scores, outcome : Outcomes, entry : Time]

\* UtcHour, without the conversion: the hour profiler.py reads in the text.
HourOfText(t) == t.local \div 60

\* The minute of the day, and the hour, after astimezone(timezone.utc).
UtcMinute(t) == (t.local - t.offset) % 1440
UtcHour(t)   == UtcMinute(t) \div 60

Rule(name, holds) == [signal |-> name, holds |-> holds]

\* The rules in the order of the code.
Rules(t) == <<
    Rule("revenge_trading", t.flag \/ "recover" \in t.cues),
    Rule("overtrading", "scalp" \in t.cues),
    Rule("fomo_entries", "fomo" \in t.cues),
    Rule("plan_non_adherence",
         \/ "off_plan" \in t.cues
         \/ t.score = 1 /\ t.emotion \in {"greedy", "anxious"}),
    Rule("premature_exit", "early" \in t.cues),
    Rule("loss_running", "hope" \in t.cues),
    Rule("session_tilt",
         t.emotion \in {"fearful", "anxious"} /\ t.outcome = "loss"),
    Rule("position_sizing_inconsistency", "size_up" \in t.cues),
    Rule("time_of_day_bias", t.outcome = "loss" /\ UtcHour(t.entry) >= 13) >>

Matching(t) == {i \in DOMAIN Rules(t) : Rules(t)[i].holds}

\* DetectSignal, with the last match taken instead of the first.
LastMatch(t) ==
    IF Matching(t) = {} THEN "none" ELSE Rules(t)[Max(Matching(t))].signal

\* DetectSignal, with the rules on cues and flag skipped for a winning trade.
WinnersExcused(t) ==
    IF Matching(t) = {} \/ t.outcome = "win" THEN "none"
    ELSE Rules(t)[Min(Matching(t))].signal

\* detect_signal_realtime.
DetectSignal(t) ==
    IF Matching(t) = {} THEN "none" ELSE Rules(t)[Min(Matching(t))].signal

\* The order the docstring gives, strongest first.
Priority == <<"revenge_trading", "overtrading", "fomo_entries",
    "plan_non_adherence", "premature_exit", "loss_running", "session_tilt",
    "position_sizing_inconsistency", "time_of_day_bias", "none">>

Rank(s) == CHOOSE i \in DOMAIN Priority : Priority[i] = s
=============================================================================

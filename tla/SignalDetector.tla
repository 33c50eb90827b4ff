--------------------------- MODULE SignalDetector ---------------------------
(***************************************************************************)
(* A client that submits a trade to POST /session/events, then the same    *)
(* trade with one thing changed, again and again: the properties compare   *)
(* the signals detected before and after a change.                         *)
(***************************************************************************)
EXTENDS SignalRules

VARIABLES
    trade,      \* the trade last submitted
    signal      \* the answer to it: a signal or "none"

vars == <<trade, signal>>

Init ==
    /\ trade \in {t \in Trade : t.cues = {} /\ ~t.flag /\ t.outcome = "none"
                                /\ t.score = NoScore /\ t.emotion = "none"}
    /\ signal = DetectSignal(trade)

Submit(t) ==
    /\ trade' = t
    /\ signal' = DetectSignal(t)

\* The rationale mentions one thing more.
AddCue == \E c \in Cues \ trade.cues : Submit([trade EXCEPT !.cues = @ \cup {c}])

\* The trader flags the trade.
Flag == ~trade.flag /\ Submit([trade EXCEPT !.flag = TRUE])

\* The trade is closed, or its outcome is corrected.
Close == \E o \in Outcomes \ {trade.outcome, "none"} :
    Submit([trade EXCEPT !.outcome = o])

\* The trader reports another state of mind, or a score.
Feel  == \E e \in Emotions \ {trade.emotion} : Submit([trade EXCEPT !.emotion = e])
Score == \E n \in Scores \ {trade.score} : Submit([trade EXCEPT !.score = n])

\* The entry is written in another zone, or at another time.
Retime == \E e \in Time \ {trade.entry} : Submit([trade EXCEPT !.entry = e])

\* The client submits a trade without cues again.
Withdraw == trade.cues # {} /\ Submit([trade EXCEPT !.cues = {}, !.flag = FALSE])

Next == AddCue \/ Flag \/ Close \/ Feel \/ Score \/ Retime \/ Withdraw

Spec == Init /\ [][Next]_vars
-----------------------------------------------------------------------------
(***************************************************************************)
(* Properties.                                                             *)
(***************************************************************************)

\* "Signal priority (first match wins)": more evidence in a trade never gets
\* it a weaker signal, and what was found is only replaced by something the
\* docstring ranks higher.
EvidenceNeverDemotes ==
    [][trade.cues \subseteq trade'.cues /\ (trade.flag => trade'.flag)
        /\ [trade' EXCEPT !.cues = {}, !.flag = FALSE]
              = [trade EXCEPT !.cues = {}, !.flag = FALSE]
       => Rank(signal') <= Rank(signal)]_vars

\* "hour >= 13 UTC": the same instant written in another zone is the same
\* evidence.
ZoneIrrelevant ==
    [][trade' = [trade EXCEPT !.entry = trade'.entry]
        /\ UtcMinute(trade'.entry) = UtcMinute(trade.entry)
       => signal' = signal]_vars

\* What is learned of the outcome after the fact decides only the two signals
\* about losses: a signal read off the trader's words, flag or score stands
\* whether the trade then wins or loses.
HindsightLimited ==
    [][trade' = [trade EXCEPT !.outcome = trade'.outcome]
        /\ signal # signal'
       => {signal, signal'} \cap {"session_tilt", "time_of_day_bias"} # {}]_vars
=============================================================================

---------------------------- MODULE MCEvaluation ----------------------------
(***************************************************************************)
(* Instances of Evaluation, and with it of Profiler, for TLC.              *)
(***************************************************************************)
EXTENDS Evaluation

CONSTANTS equity

Plain == [flag |-> FALSE, cues |-> {}, verbatim |-> {}, emotion |-> "calm",
          score |-> NoScore, outcome |-> "win", pnl |-> "shallow", size |-> 1,
          asset |-> equity, layout |-> "extended",
          entry |-> [local |-> 630, offset |-> 0]]

Lost(mood, pnl) == [Plain EXCEPT !.outcome = "loss", !.emotion = mood, !.pnl = pnl]

\* A flagged winner that says what the rules look for; a fearful and deep loss;
\* one whose pnl is not known; a greedy loss at 13:30 in a zone where it is
\* morning in UTC; a calm loss at half past ten in the basic layout; an afternoon
\* win of a large size; a win of size 0 whose words only the stream knows and
\* whose hour the profiler cannot read.
MCTrades == {
    [Plain EXCEPT !.flag = TRUE, !.cues = {"early"}, !.verbatim = {"early"}],
    Lost("fearful", "deep"),
    Lost("anxious", "null"),
    [Lost("greedy", "deep") EXCEPT !.entry = [local |-> 810, offset |-> 330]],
    [Lost("calm", "shallow") EXCEPT !.layout = "basic"],
    [Plain EXCEPT !.size = 31, !.entry = [local |-> 810, offset |-> 0]],
    [Plain EXCEPT !.size = 0, !.cues = {"fomo"}, !.layout = "no_hour",
                  !.entry = [local |-> 810, offset |-> 0]]}

MCAssets  == {equity}
MCTimes   == {630, 810}
MCOffsets == {0, 330}
MCClasses == {"session_tilt", "premature_exit"}
=============================================================================

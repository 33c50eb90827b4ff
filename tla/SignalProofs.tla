---------------------------- MODULE SignalProofs ----------------------------
(***************************************************************************)
(* Proofs about SignalDetector, for any times of day and offsets.  All of  *)
(* them rest on one lemma: the rank of the detected signal is the number   *)
(* of the first rule that holds, or ten.  A change of the trade is then a  *)
(* change of the set Matching.                                             *)
(***************************************************************************)
EXTENDS SignalDetector, TLAPS

\* Min, of rules, is the first of them.
LEMMA FirstRule ==
    ASSUME NEW S \in SUBSET (1..9), S # {}
    PROVE  Min(S) \in S /\ \A i \in S : Min(S) <= i
<1>1. \E m \in S : \A i \in S : m <= i
  <2>1. CASE 1 \in S BY <2>1
  <2>2. CASE 1 \notin S /\ 2 \in S BY <2>2
  <2>3. CASE 1 \notin S /\ 2 \notin S /\ 3 \in S BY <2>3
  <2>4. CASE S \cap 1..3 = {} /\ 4 \in S BY <2>4
  <2>5. CASE S \cap 1..4 = {} /\ 5 \in S BY <2>5
  <2>6. CASE S \cap 1..5 = {} /\ 6 \in S BY <2>6
  <2>7. CASE S \cap 1..6 = {} /\ 7 \in S BY <2>7
  <2>8. CASE S \cap 1..7 = {} /\ 8 \in S BY <2>8
  <2>9. CASE S \subseteq {9}
    <3>1. 9 \in S
      BY <2>9
    <3> QED
      BY <2>9, <3>1
  <2> QED
    BY <2>1, <2>2, <2>3, <2>4, <2>5, <2>6, <2>7, <2>8, <2>9
<1> QED
  BY <1>1 DEF Min

\* The rules carry the names of the docstring, in its order.
LEMMA RuleNames ==
    ASSUME NEW t
    PROVE  /\ DOMAIN Rules(t) = 1..9
           /\ \A i \in 1..9 : Rules(t)[i].signal = Priority[i]
  BY DEF Rules, Rule, Priority

\* No name occurs twice in that order.
LEMMA RankOf == \A i \in 1..10 : Rank(Priority[i]) = i
<1>1. DOMAIN Priority = 1..10
  BY DEF Priority
<1>2. \A i, j \in 1..10 : Priority[i] = Priority[j] => i = j
  BY DEF Priority
<1> QED
  BY <1>1, <1>2 DEF Rank

\* The number of the first rule that holds of a trade, ten if none does.
First(t) == IF Matching(t) = {} THEN 10 ELSE Min(Matching(t))

\* The detected signal is the one at that place, and its rank that number.
LEMMA Detected ==
    ASSUME NEW t
    PROVE  /\ First(t) \in 1..10
           /\ Matching(t) \subseteq 1..9
           /\ First(t) = 10 <=> Matching(t) = {}
           /\ First(t) # 10 => First(t) \in Matching(t)
           /\ \A i \in Matching(t) : First(t) <= i
           /\ DetectSignal(t) = Priority[First(t)]
           /\ Rank(DetectSignal(t)) = First(t)
<1>1. Matching(t) \in SUBSET (1..9)
  BY RuleNames DEF Matching
<1>2. Matching(t) # {} =>
        /\ Min(Matching(t)) \in Matching(t)
        /\ \A i \in Matching(t) : Min(Matching(t)) <= i
  BY <1>1, FirstRule
<1>3. First(t) \in 1..10
  BY <1>1, <1>2 DEF First
<1>4. DetectSignal(t) = Priority[First(t)]
  <2>1. CASE Matching(t) = {}
    BY <2>1 DEF DetectSignal, First, Priority
  <2>2. CASE Matching(t) # {}
    BY <1>1, <1>2, <2>2, RuleNames DEF DetectSignal, First
  <2> QED
    BY <2>1, <2>2
<1> QED
  BY <1>1, <1>2, <1>3, <1>4, RankOf DEF First

\* Which rules hold, one by one.
LEMMA Holding ==
    ASSUME NEW t
    PROVE  /\ 1 \in Matching(t) <=> t.flag \/ "recover" \in t.cues
           /\ 2 \in Matching(t) <=> "scalp" \in t.cues
           /\ 3 \in Matching(t) <=> "fomo" \in t.cues
           /\ 4 \in Matching(t) <=>
                \/ "off_plan" \in t.cues
                \/ t.score = 1 /\ t.emotion \in {"greedy", "anxious"}
           /\ 5 \in Matching(t) <=> "early" \in t.cues
           /\ 6 \in Matching(t) <=> "hope" \in t.cues
           /\ 7 \in Matching(t) <=>
                t.emotion \in {"fearful", "anxious"} /\ t.outcome = "loss"
           /\ 8 \in Matching(t) <=> "size_up" \in t.cues
           /\ 9 \in Matching(t) <=> t.outcome = "loss" /\ UtcHour(t.entry) >= 13
<1>1. \A i \in 1..9 : i \in Matching(t) <=> Rules(t)[i].holds
  BY RuleNames DEF Matching
<1>2. /\ Rules(t)[1].holds = (t.flag \/ "recover" \in t.cues)
      /\ Rules(t)[2].holds = ("scalp" \in t.cues)
      /\ Rules(t)[3].holds = ("fomo" \in t.cues)
      /\ Rules(t)[4].holds =
           (\/ "off_plan" \in t.cues
            \/ t.score = 1 /\ t.emotion \in {"greedy", "anxious"})
      /\ Rules(t)[5].holds = ("early" \in t.cues)
      /\ Rules(t)[6].holds = ("hope" \in t.cues)
      /\ Rules(t)[7].holds =
           (t.emotion \in {"fearful", "anxious"} /\ t.outcome = "loss")
      /\ Rules(t)[8].holds = ("size_up" \in t.cues)
      /\ Rules(t)[9].holds = (t.outcome = "loss" /\ UtcHour(t.entry) >= 13)
  BY DEF Rules, Rule
<1>3. \A i \in {1, 2, 3, 4, 5, 6, 7, 8, 9} : i \in 1..9
  OBVIOUS
<1> QED
  BY <1>1, <1>2, <1>3, ZenonT(30)

\* The state of the client: the answer is always to the trade it holds.
Answered == trade \in Trade /\ signal = DetectSignal(trade)

LEMMA AnsweredHolds == Spec => []Answered
<1>1. Init => Answered
  BY DEF Init, Answered
<1>2. Answered /\ [Next]_vars => Answered'
  <2> SUFFICES ASSUME Answered, [Next]_vars PROVE Answered'
    OBVIOUS
  <2> USE DEF Answered, Trade, Submit
  <2>1. CASE AddCue
    BY <2>1 DEF AddCue
  <2>2. CASE Flag
    BY <2>2 DEF Flag
  <2>3. CASE Close
    BY <2>3 DEF Close
  <2>4. CASE Feel
    BY <2>4 DEF Feel
  <2>5. CASE Score
    BY <2>5 DEF Score
  <2>6. CASE Retime
    BY <2>6 DEF Retime
  <2>7. CASE Withdraw
    BY <2>7 DEF Withdraw
  <2>8. CASE UNCHANGED vars
    BY <2>8 DEF vars
  <2> QED
    BY <2>1, <2>2, <2>3, <2>4, <2>5, <2>6, <2>7, <2>8 DEF Next
<1> QED
  BY <1>1, <1>2, PTL DEF Spec

\* More evidence never gets a trade a weaker signal: no rule that held ceases
\* to hold, so the first can only move up.
THEOREM NeverDemotes == Spec => EvidenceNeverDemotes
<1>1. ASSUME Answered, Answered',
             trade.cues \subseteq trade'.cues, trade.flag => trade'.flag,
             [trade' EXCEPT !.cues = {}, !.flag = FALSE]
                = [trade EXCEPT !.cues = {}, !.flag = FALSE]
      PROVE  Rank(signal') <= Rank(signal)
  <2> DEFINE t == trade  u == trade'
  <2>1. /\ u.emotion = t.emotion /\ u.score = t.score
        /\ u.outcome = t.outcome /\ u.entry = t.entry
    <3> DEFINE s == [t EXCEPT !.cues = {}, !.flag = FALSE]
               v == [u EXCEPT !.cues = {}, !.flag = FALSE]
    <3>1. /\ s.emotion = t.emotion /\ s.score = t.score
          /\ s.outcome = t.outcome /\ s.entry = t.entry
      BY <1>1 DEF Answered, Trade
    <3>2. /\ v.emotion = u.emotion /\ v.score = u.score
          /\ v.outcome = u.outcome /\ v.entry = u.entry
      BY <1>1 DEF Answered, Trade
    <3>3. v = s
      BY <1>1
    <3> QED
      BY <3>1, <3>2, <3>3
  <2>2. t.cues \subseteq u.cues /\ (t.flag => u.flag)
    BY <1>1
  <2>3. signal = DetectSignal(t) /\ signal' = DetectSignal(u)
    BY <1>1 DEF Answered
  <2> HIDE DEF t, u
  <2>4. \A i \in 1..9 : i \in Matching(t) => i \in Matching(u)
    BY <2>1, <2>2, Holding
  <2>5. First(u) <= First(t)
    BY <2>4, Detected
  <2> QED
    BY <2>3, <2>5, Detected
<1> QED
  BY <1>1, AnsweredHolds, PTL DEF EvidenceNeverDemotes

\* The zone in which an entry is written decides nothing.
THEOREM ZonesAreIrrelevant == Spec => ZoneIrrelevant
<1>1. ASSUME Answered, Answered',
             trade' = [trade EXCEPT !.entry = trade'.entry],
             UtcMinute(trade'.entry) = UtcMinute(trade.entry)
      PROVE  signal' = signal
  <2> DEFINE t == trade  u == trade'
  <2>1. /\ u.emotion = t.emotion /\ u.score = t.score
        /\ u.outcome = t.outcome /\ u.cues = t.cues /\ u.flag = t.flag
    BY <1>1 DEF Answered, Trade
  <2>2. UtcHour(u.entry) = UtcHour(t.entry)
    BY <1>1 DEF UtcHour
  <2>3. signal = DetectSignal(t) /\ signal' = DetectSignal(u)
    BY <1>1 DEF Answered
  <2> HIDE DEF t, u
  <2>4. \A i \in 1..9 : i \in Matching(t) <=> i \in Matching(u)
    BY <2>1, <2>2, Holding
  <2>5. First(u) = First(t)
    BY <2>4, Detected
  <2> QED
    BY <2>3, <2>5, Detected
<1> QED
  BY <1>1, AnsweredHolds, PTL DEF ZoneIrrelevant

\* The outcome of a trade decides only the two signals about losses: the
\* other seven rules hold after its change as before.
THEOREM HindsightIsLimited == Spec => HindsightLimited
<1>1. ASSUME Answered, Answered',
             trade' = [trade EXCEPT !.outcome = trade'.outcome],
             signal # signal'
      PROVE  {signal, signal'} \cap {"session_tilt", "time_of_day_bias"} # {}
  <2> DEFINE t == trade  u == trade'
  <2>1. /\ u.emotion = t.emotion /\ u.score = t.score
        /\ u.entry = t.entry /\ u.cues = t.cues /\ u.flag = t.flag
    BY <1>1 DEF Answered, Trade
  <2>2. signal = DetectSignal(t) /\ signal' = DetectSignal(u)
    BY <1>1 DEF Answered
  <2> HIDE DEF t, u
  <2>3. \A i \in 1..9 \ {7, 9} : i \in Matching(t) <=> i \in Matching(u)
    BY <2>1, Holding
  <2>4. First(t) # First(u)
    BY <1>1, <2>2, Detected
  <2>5. CASE {First(t), First(u)} \cap {7, 9} = {}
    <3>1. First(t) # 10 => First(u) <= First(t)
      BY <2>3, <2>5, Detected
    <3>2. First(u) # 10 => First(t) <= First(u)
      BY <2>3, <2>5, Detected
    <3> QED
      BY <2>4, <3>1, <3>2, Detected
  <2>6. Priority[7] = "session_tilt" /\ Priority[9] = "time_of_day_bias"
    BY DEF Priority
  <2>7. CASE {First(t), First(u)} \cap {7, 9} # {}
    BY <2>2, <2>6, <2>7, Detected
  <2> QED
    BY <2>5, <2>7
<1> QED
  BY <1>1, AnsweredHolds, PTL DEF HindsightLimited
=============================================================================

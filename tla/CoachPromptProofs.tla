------------------------- MODULE CoachPromptProofs --------------------------
(***************************************************************************)
(* Theorems about CoachPrompt: the bounds on the context and the prompt,   *)
(* for every list of sessions and every trade the API accepts.             *)
(***************************************************************************)
EXTENDS CoachPrompt, TLAPS

\* The sizes the loop reaches.  The first session, shortened, fits whatever
\* its tags; every other is kept only if it fits.
Sizes ==
    /\ sessions \in Seq(Session) /\ trade \in Trade
    /\ pc \in {"loop", "prompt", "done"}
    /\ kept \in Seq(Session \cup {Shortened(s) : s \in Session})
    /\ kept = <<>> => size = 2
    /\ size \in Nat /\ prompt \in Nat
    /\ PlainContextFits /\ PlainInstructionSurvives /\ PromptFits

\* A plain session, shortened, is far below the bound on the context.
LEMMA ShortenedIsShort ==
  ASSUME NEW s \in Session
  PROVE  /\ Encoded(s) \in Nat
         /\ Encoded(Shortened(s)) \in Nat
         /\ Plain(s) => Encoded(Shortened(s)) <= 1938
  <1>1. /\ s.tags \in Nat
        /\ s.width \in {1, 2, 6, 12}
        /\ s.summary \in {NoSummary} \cup 1..2000
    BY DEF Session
  <1>2. /\ s.summary = NoSummary => Shortened(s).summary = 0
        /\ s.summary # NoSummary =>
              Shortened(s).summary \in 1..500
        /\ Shortened(s).width = s.width
        /\ Shortened(s).tags = s.tags
    BY <1>1 DEF Shortened, Session, MaxShortened, NoSummary
  <1>3. /\ s.width \in Nat
        /\ s.summary # NoSummary => s.width * s.summary \in Nat
        /\ s.width * Shortened(s).summary \in Nat
    <2>1. s.width \in Nat
      BY <1>1
    <2>2. \A x \in Nat, y \in Nat : x * y \in Nat
      OBVIOUS
    <2>3. /\ s.summary # NoSummary => s.summary \in Nat
          /\ Shortened(s).summary \in Nat
      <3> DEFINE x == s.summary
                 y == Shortened(s).summary
      <3>1. x \in {NoSummary} \cup 1..2000 /\ y \in {0} \cup 1..500
        <4>1. CASE x = NoSummary
          BY <1>1, <1>2, <4>1
        <4>2. CASE x # NoSummary
          BY <1>1, <1>2, <4>2
        <4> QED
          BY <4>1, <4>2
      <3> HIDE DEF x, y
      <3>2. x # NoSummary => x \in Nat
        <4> SUFFICES ASSUME x \in 1..2000 PROVE x \in Nat
          BY <3>1
        <4> QED
          OBVIOUS
      <3>3. y \in Nat
        BY <3>1
      <3> QED
        BY <3>2, <3>3 DEF x, y
    <2> QED
      BY <2>1, <2>2, <2>3
  <1>4. Encoded(s) \in Nat
    BY <1>1, <1>3 DEF Encoded
  <1>5. Encoded(Shortened(s)) = 78 + s.tags + s.width * Shortened(s).summary
    <2>1. Shortened(s).summary # NoSummary
      BY <1>1, <1>2 DEF NoSummary
    <2>2. Encoded(Shortened(s))
             = 76 + s.tags + (2 + s.width * Shortened(s).summary)
      BY <1>2, <2>1 DEF Encoded
    <2>3. \A x, y \in Nat : 76 + x + (2 + y) = 78 + x + y
      OBVIOUS
    <2> QED
      BY <1>1, <1>3, <2>2, <2>3
  <1>6. Encoded(Shortened(s)) \in Nat
    BY <1>1, <1>3, <1>5
  <1>7. Plain(s) => Encoded(Shortened(s)) <= 1938
    BY <1>1, <1>2, <1>5 DEF Plain
  <1> QED
    BY <1>4, <1>6, <1>7

LEMMA InitSizes == Init => Sizes
  BY CoachPromptAssumption
  DEF Init, Sizes, PlainContextFits, PlainInstructionSurvives, PromptFits,
      MaxContext, MaxPrompt

LEMMA NextSizes == Sizes /\ [Next]_vars => Sizes'
  <1> SUFFICES ASSUME Sizes, [Next]_vars PROVE Sizes'
    OBVIOUS
  <1>1. CASE Keep
    <2> DEFINE s == IF Fits(Candidate) THEN Candidate ELSE Shortened(Candidate)
    <2>1. /\ Candidate \in Session
          /\ AllPlain => Plain(Candidate)
      BY <1>1 DEF Keep, Sizes, Candidate, AllPlain
    <2>2. /\ kept' = Append(kept, s)
          /\ size' = SizeWith(s)
          /\ UNCHANGED <<sessions, trade, pc, prompt, cut>>
          /\ Fits(Candidate) \/ kept = <<>>
      BY <1>1 DEF Keep
    <2>3. size' \in Nat
      BY <2>1, <2>2, ShortenedIsShort DEF SizeWith, Sizes
    <2>4. AllPlain => size' <= MaxContext
      <3>1. CASE Fits(Candidate)
        BY <2>2, <3>1 DEF Fits
      <3>2. CASE ~Fits(Candidate)
        BY <2>1, <2>2, <3>2, ShortenedIsShort DEF Sizes, SizeWith, MaxContext
      <3> QED
        BY <3>1, <3>2
    <2>5. kept' \in Seq(Session \cup {Shortened(x) : x \in Session}) /\ kept' # <<>>
      BY <2>1, <2>2 DEF Sizes
    <2> QED
      BY <2>2, <2>3, <2>4, <2>5
      DEF Sizes, AllPlain, PlainContextFits, PlainInstructionSurvives, PromptFits
  <1>2. CASE Stop
    BY <1>2 DEF Stop, Sizes, AllPlain, PlainContextFits,
       PlainInstructionSurvives, PromptFits
  <1>3. CASE Build
    <2>1. /\ trade.id \in 1..128 /\ trade.signal \in 1..29
          /\ trade.claim \in 1..127 /\ trade.rationale \in 1..1000
      BY DEF Sizes, Trade
    <2>2. size \in Nat
      BY DEF Sizes
    <2>3. Full \in Nat /\ Full <= 1584 + size
      <3> DEFINE a == trade.id
                 b == trade.signal
                 c == trade.claim
                 d == trade.rationale
      <3>1. a \in 1..128 /\ b \in 1..29 /\ c \in 1..127 /\ d \in 1..1000
        BY <2>1
      <3>2. Full = 300 + a + b + c + d + size
        BY DEF Full
      <3> HIDE DEF a, b, c, d
      <3>3. /\ 300 + a + b + c + d + size \in Nat
            /\ 300 + a + b + c + d + size <= 1584 + size
        BY <2>2, <3>1
      <3> QED
        BY <3>2, <3>3
    <2>4. AllPlain => ~cut'
      <3>1. AllPlain => size <= 3000
        BY DEF Sizes, PlainContextFits, MaxContext
      <3>2. AllPlain => ~(Full > MaxPrompt)
        BY <2>2, <2>3, <3>1 DEF MaxPrompt
      <3>3. cut' = (Full > MaxPrompt)
        BY <1>3 DEF Build
      <3> QED
        BY <3>2, <3>3
    <2>5. prompt' \in Nat /\ prompt' <= MaxPrompt
      BY <1>3, <2>3 DEF Build, Cut, MaxPrompt
    <2> QED
      BY <1>3, <2>4, <2>5
      DEF Build, Sizes, AllPlain, PlainContextFits, PlainInstructionSurvives,
          PromptFits
  <1>4. CASE UNCHANGED vars
    BY <1>4 DEF vars, Sizes, AllPlain, PlainContextFits,
       PlainInstructionSurvives, PromptFits
  <1> QED
    BY <1>1, <1>2, <1>3, <1>4 DEF Next

THEOREM SizesHold == Spec => []Sizes
  BY InitSizes, NextSizes, PTL DEF Spec

\* For plain text the context keeps its bound, for any number of sessions.
THEOREM PlainContextBounded == Spec => []PlainContextFits
  <1>1. Sizes => PlainContextFits
    BY DEF Sizes
  <1> QED
    BY <1>1, SizesHold, PTL

\* For plain text the closing instruction is never cut from the prompt.
THEOREM InstructionSurvives == Spec => []PlainInstructionSurvives
  <1>1. Sizes => PlainInstructionSurvives
    BY DEF Sizes
  <1> QED
    BY <1>1, SizesHold, PTL

\* Whatever the text, no prompt is longer than its bound.
THEOREM PromptBounded == Spec => []PromptFits
  <1>1. Sizes => PromptFits
    BY DEF Sizes
  <1> QED
    BY <1>1, SizesHold, PTL

\* The list that is kept is a prefix of the sessions, entry by entry; the
\* empty one is left only when there are no sessions.
Prefix ==
    /\ sessions \in Seq(Session)
    /\ kept \in Seq(Session \cup {Shortened(s) : s \in Session})
    /\ Len(kept) <= Len(sessions)
    /\ NewestKept

\* No session is passed over for an older one, and only the newest may lose
\* text, for any list of sessions.
THEOREM NewestAreKept == Spec => []NewestKept
  <1>1. Init => Prefix
    BY CoachPromptAssumption DEF Init, Prefix, NewestKept
  <1>2. Prefix /\ [Next]_vars => Prefix'
    <2> SUFFICES ASSUME Prefix, [Next]_vars PROVE Prefix'
      OBVIOUS
    <2>1. CASE Keep
      <3> DEFINE s == IF Fits(Candidate) THEN Candidate ELSE Shortened(Candidate)
      <3>1. /\ kept' = Append(kept, s) /\ sessions' = sessions /\ pc' = "loop"
            /\ Len(kept) < Len(sessions)
            /\ s = Candidate \/ (kept = <<>> /\ s = Shortened(Candidate))
        BY <2>1 DEF Keep
      <3>2. Candidate \in Session /\ Candidate = sessions[Len(kept) + 1]
        BY <3>1 DEF Candidate, Prefix
      <3>3. s \in Session \cup {Shortened(x) : x \in Session}
        BY <3>2
      <3> HIDE DEF s
      <3>4. /\ kept' \in Seq(Session \cup {Shortened(x) : x \in Session})
            /\ Len(kept') = Len(kept) + 1
            /\ \A i \in 1..Len(kept) : kept'[i] = kept[i]
            /\ kept'[Len(kept) + 1] = s
        BY <3>1, <3>3 DEF Prefix
      <3>5. \A i \in 1..Len(kept') : \/ kept'[i] = sessions[i]
                                     \/ i = 1 /\ kept'[i] = Shortened(sessions[i])
        <4> TAKE i \in 1..Len(kept')
        <4>1. CASE i \in 1..Len(kept)
          BY <3>4, <4>1 DEF Prefix, NewestKept
        <4>2. CASE i = Len(kept) + 1
          BY <3>1, <3>2, <3>4, <4>2
        <4> QED
          BY <3>4, <4>1, <4>2 DEF Prefix
      <3> QED
        BY <3>1, <3>4, <3>5 DEF Prefix, NewestKept
    <2>2. CASE Stop
      BY <2>2 DEF Stop, Prefix, NewestKept
    <2>3. CASE Build
      BY <2>3 DEF Build, Prefix, NewestKept
    <2>4. CASE UNCHANGED vars
      BY <2>4 DEF vars, Prefix, NewestKept
    <2> QED
      BY <2>1, <2>2, <2>3, <2>4 DEF Next
  <1>3. Prefix => NewestKept
    BY DEF Prefix
  <1> QED
    BY <1>1, <1>2, <1>3, PTL DEF Spec
=============================================================================

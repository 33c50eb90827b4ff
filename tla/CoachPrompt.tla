---------------------------- MODULE CoachPrompt -----------------------------
(***************************************************************************)
(* The size of what is sent to the provider: compact_session_context,      *)
(* which serializes past sessions, and build_coaching_prompt, which puts   *)
(* them in the prompt and cuts it (app/events/router.py).                  *)
(*                                                                         *)
(* Only lengths are modelled, in characters and exactly: what json.dumps   *)
(* makes of a text depends on its characters, since a quote becomes 2, a   *)
(* letter outside ASCII 6 and one outside the basic plane 12.  A session   *)
(* is the length of its summary, the width its characters take, and the    *)
(* length of its tags once serialized.                                     *)
(***************************************************************************)
EXTENDS Integers, Sequences

CONSTANTS
    SessionLists,   \* the relevant sessions, newest first, of a request
    Trades          \* lengths of tradeId, signal, claim and rationale

MaxContext   == 3000    \* MAX_CONTEXT_CHARS
MaxPrompt    == 6000    \* MAX_PROMPT_CHARS
MaxShortened == 500
NoSummary    == -1      \* None, serialized as null

Session == [summary : {NoSummary} \cup 1..2000, width : {1, 2, 6, 12}, tags : Nat]
Trade   == [id : 1..128, signal : 1..29, claim : 1..127, rationale : 1..1000]

\* A session all of whose text json.dumps leaves as it is; its tags are at
\* most 20 of 64 characters each.
Plain(s) == s.width = 1 /\ s.tags <= 1360

ASSUME CoachPromptAssumption ==
    /\ SessionLists \subseteq Seq(Session)
    /\ Trades \subseteq Trade

VARIABLES
    sessions,   \* the argument relevant_sessions
    trade,      \* the trade the prompt is about
    pc,         \* "loop", "prompt" or "done"
    kept,       \* the list compact
    size,       \* len(json.dumps(compact))
    prompt,     \* the length of the prompt that is sent
    cut         \* was it cut, the closing instruction with it?

vars == <<sessions, trade, pc, kept, size, prompt, cut>>

\* The length of {"sessionId": "...", "summary": ..., "tags": [...]}.
Encoded(s) ==
    76 + s.tags + (IF s.summary = NoSummary THEN 4 ELSE 2 + s.width * s.summary)

\* Shortened, not at all.
NotShortened(s) == s

\* str(summary or "")[:500] as the summary.
Shortened(s) == [s EXCEPT !.summary =
    IF s.summary = NoSummary THEN 0
    ELSE IF s.summary < MaxShortened THEN s.summary ELSE MaxShortened]

\* len(json.dumps(compact + [candidate])).
SizeWith(s) == size + Encoded(s) + (IF kept = <<>> THEN 0 ELSE 2)

\* Fits, measuring the list before the candidate is added.
FitsBefore(s) == size <= MaxContext

Fits(s) == SizeWith(s) <= MaxContext

\* The session the loop has come to.
Candidate == sessions[Len(kept) + 1]

-----------------------------------------------------------------------------
(***************************************************************************)
(* Mistakes: what the definition each comment names would be if the code   *)
(* had a plausible bug.  Nothing below uses them.                          *)
(***************************************************************************)

\* Keep, at the front of the list.
KeepInFront ==
    /\ pc = "loop"
    /\ Len(kept) < Len(sessions)
    /\ Fits(Candidate) \/ kept = <<>>
    /\ LET s == IF Fits(Candidate) THEN Candidate ELSE Shortened(Candidate) IN
        /\ kept' = <<s>> \o kept
        /\ size' = SizeWith(s)
    /\ UNCHANGED <<sessions, trade, pc, prompt, cut>>

\* Cut, leaving too little room for the marker.
CutShort(n) == MaxPrompt - 8 + 43

-----------------------------------------------------------------------------

Init ==
    /\ sessions \in SessionLists
    /\ trade \in Trades
    /\ pc = "loop"
    /\ kept = <<>>
    /\ size = 2
    /\ prompt = 0
    /\ cut = FALSE

\* One turn of the loop: the next session is kept, or kept shortened when it
\* is the first and too long.
Keep ==
    /\ pc = "loop"
    /\ Len(kept) < Len(sessions)
    /\ Fits(Candidate) \/ kept = <<>>
    /\ LET s == IF Fits(Candidate) THEN Candidate ELSE Shortened(Candidate) IN
        /\ kept' = Append(kept, s)
        /\ size' = SizeWith(s)
    /\ UNCHANGED <<sessions, trade, pc, prompt, cut>>

\* The first session that does not fit ends the loop (break), as does the
\* end of the list.
Stop ==
    /\ pc = "loop"
    /\ Len(kept) < Len(sessions) => kept # <<>> /\ ~Fits(Candidate)
    /\ pc' = "prompt"
    /\ UNCHANGED <<sessions, trade, kept, size, prompt, cut>>

\* The length of the prompt before it is cut: 300 characters of its own.
Full == 300 + trade.id + trade.signal + trade.claim + trade.rationale + size

\* prompt[: MAX_PROMPT_CHARS - 80] and a marker of 43 characters.
Cut(n) == MaxPrompt - 80 + 43

Build ==
    /\ pc = "prompt"
    /\ cut' = (Full > MaxPrompt)
    /\ prompt' = IF Full > MaxPrompt THEN Cut(Full) ELSE Full
    /\ pc' = "done"
    /\ UNCHANGED <<sessions, trade, kept, size>>

Next == Keep \/ Stop \/ Build

Spec == Init /\ [][Next]_vars
-----------------------------------------------------------------------------
(***************************************************************************)
(* Properties.                                                             *)
(***************************************************************************)

\* The context is the newest sessions without a gap: none is passed over for
\* an older one that is shorter, and only the first may lose text.
NewestKept ==
    /\ \A i \in 1..Len(kept) :
          kept[i] = sessions[i] \/ (i = 1 /\ kept[i] = Shortened(sessions[i]))
    /\ pc # "loop" /\ sessions # <<>> => kept # <<>>

AllPlain == \A i \in 1..Len(sessions) : Plain(sessions[i])

\* For plain text the bound on the context is kept, the shortened first
\* session included, whatever its tags.
PlainContextFits == AllPlain => size <= MaxContext

\* For plain text the prompt is never cut, so the instruction that closes it,
\* and asks for a short and specific message, always reaches the provider.
PlainInstructionSurvives == AllPlain => ~cut

\* No prompt is longer than its bound.
PromptFits == prompt <= MaxPrompt
=============================================================================

---------------------------- MODULE SseContract -----------------------------
(***************************************************************************)
(* What a client of POST /session/events may count on, seen from its end   *)
(* of the wire: tokens numbered 0, 1, 2, ..., then at most one "done" or   *)
(* "error", then nothing.  A stream may also stop without either.          *)
(***************************************************************************)
EXTENDS Integers, Sequences

CONSTANTS
    Requests    \* request slots, each used again once its stream is over

VARIABLES
    sent,       \* sent[r] is what has been written to the client
    open        \* open[r]: may more be written?

Token(n)   == [event |-> "token", index |-> n]
Done       == [event |-> "done"]
Error(why) == [event |-> "error", error |-> why]
Terminal   == {Done} \cup {Error(why) : why \in {"unconfigured", "provider"}}

ContractInit ==
    /\ sent = [r \in Requests |-> <<>>]
    /\ open = [r \in Requests |-> FALSE]

Begin(r) ==
    /\ ~open[r]
    /\ open' = [open EXCEPT ![r] = TRUE]
    /\ sent' = [sent EXCEPT ![r] = <<>>]

EmitToken(r) ==
    /\ open[r]
    /\ sent' = [sent EXCEPT ![r] = Append(@, Token(Len(@)))]
    /\ UNCHANGED open

EmitTerminal(r) ==
    /\ open[r]
    /\ \E e \in Terminal : sent' = [sent EXCEPT ![r] = Append(@, e)]
    /\ open' = [open EXCEPT ![r] = FALSE]

Stop(r) ==
    /\ open[r]
    /\ open' = [open EXCEPT ![r] = FALSE]
    /\ UNCHANGED sent

ContractNext == \E r \in Requests :
    Begin(r) \/ EmitToken(r) \/ EmitTerminal(r) \/ Stop(r)

ContractSpec == ContractInit /\ [][ContractNext]_<<sent, open>>
=============================================================================

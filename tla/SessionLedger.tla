--------------------------- MODULE SessionLedger ---------------------------
(***************************************************************************)
(* What the memory layer promises of the "sessions" table, with no request *)
(* handlers, transactions or locks in sight.                               *)
(*                                                                         *)
(* A session identifier is unbound until somebody writes it.  From then on *)
(* it belongs to that user, keeps its creation time, and is only ever      *)
(* rewritten by its owner.  Two strengths of rewriting are stated:         *)
(*                                                                         *)
(*   ColumnSpec  a write overlays some of the columns of what it was given *)
(*   RecordSpec  a write replaces the whole record, as the service's       *)
(*               docstrings say ("re-PUT replaces the existing record")    *)
(*                                                                         *)
(* SessionStore, the translation of the code, implements ColumnSpec        *)
(* always, and RecordSpec when one user's writes of one session do not     *)
(* overlap.                                                                *)
(***************************************************************************)
EXTENDS Integers

CONSTANTS
    Users,      \* tenants
    Sessions,   \* session identifiers, the primary key of the table
    Columns,    \* the client-supplied columns of a record
    Bodies,     \* the validated request bodies, functions on Columns
    Stamps,     \* readings of the server's clock
    NoRow       \* an unbound session identifier

VARIABLE table  \* table[s] is the committed row of session s, or NoRow

LedgerInit == table = [s \in Sessions |-> NoRow]

\* The columns of `new' in D laid over the columns of `old'.
Overlay(old, new, D) == [c \in Columns |-> IF c \in D THEN new[c] ELSE old[c]]

Create(u, s, b, t) ==
    /\ table[s] = NoRow
    /\ table' = [table EXCEPT ![s] =
                    [owner |-> u, data |-> b, created |-> t, updated |-> t]]

Rewrite(u, s, b, t, D) ==
    /\ table[s] # NoRow
    /\ table[s].owner = u
    /\ table[s].created < t
    /\ table' = [table EXCEPT ![s] =
                    [owner   |-> u,
                     data    |-> Overlay(table[s].data, b, D),
                     created |-> table[s].created,
                     updated |-> t]]

ColumnNext ==
    \E u \in Users, s \in Sessions, b \in Bodies, t \in Stamps :
        \/ Create(u, s, b, t)
        \/ \E D \in SUBSET Columns : Rewrite(u, s, b, t, D)

RecordNext ==
    \E u \in Users, s \in Sessions, b \in Bodies, t \in Stamps :
        \/ Create(u, s, b, t)
        \/ Rewrite(u, s, b, t, Columns)

ColumnSpec == LedgerInit /\ [][ColumnNext]_table
RecordSpec == LedgerInit /\ [][RecordNext]_table
=============================================================================

---------------------------- MODULE AtomicTables ----------------------------
(***************************************************************************)
(* What the writes of db/repositories.py promise the readers of the three  *)
(* tables: the batch of an upsert is there as a whole, once, or not at     *)
(* all, and a rename moves what it moves in one step, to free keys. A call *)
(* that raises before its commit is no step.                               *)
(***************************************************************************)
CONSTANTS
    Cells,      \* primary keys <<table, key, symbol>>
    Seeds,      \* what the tables may hold at first
    Writers,    \* upsert_* calls
    Batches,    \* of each writer: the batches it may write
    Requests,   \* <<old_symbol, new_symbol>>
    NoRow

VARIABLES
    rows,       \* the tables
    loaded      \* the writers whose batch is written

vars == <<rows, loaded>>

Init == rows \in Seeds /\ loaded = {}

\* The last writer of a row wins.
Load(w) ==
    /\ w \notin loaded /\ loaded' = loaded \cup {w}
    /\ \E b \in Batches[w] :
         rows' = [c \in Cells |-> IF \E i \in DOMAIN b : b[i] = c THEN w ELSE rows[c]]

Under(c, s) == <<c[1], c[2], s>>

Move(old, new) ==
    /\ old # new
    /\ \E moved \in SUBSET {c \in Cells : c[3] = old /\ rows[c] # NoRow} :
         /\ \A c \in moved : rows[Under(c, new)] = NoRow
         /\ rows' = [c \in Cells |->
              IF c \in moved THEN NoRow
              ELSE IF c[3] = new /\ Under(c, old) \in moved THEN rows[Under(c, old)]
              ELSE rows[c]]
    /\ UNCHANGED loaded

Next == (\E w \in Writers : Load(w)) \/ \E q \in Requests : Move(q[1], q[2])

Spec == Init /\ [][Next]_vars
=============================================================================

---------------------------- MODULE SymbolTables ----------------------------
(***************************************************************************)
(* db/repositories.py: the three tables a ticker is a key of, rename_symbol *)
(* as one READ COMMITTED transaction of several statements, the upserts     *)
(* that run beside it, and fetch_universe.                                  *)
(*                                                                          *)
(* A cell <<table, key, symbol>> is a primary key, its key standing for     *)
(* the columns besides the symbol. `rows' is what is committed and what a   *)
(* new statement sees; pend[t] is what transaction t has written and not    *)
(* committed. A cell a transaction has written is locked by it. Locks and   *)
(* unique keys are PostgreSQL's and are modelled from how the statements of *)
(* the code use them.                                                       *)
(***************************************************************************)
EXTENDS Integers, Sequences, FiniteSets

CONSTANTS
    Symbols,
    Keys,        \* of each table: the rest of its primary key; dates for the universe
    Seeds,       \* what the tables may hold at first
    Requests,    \* <<old_symbol, new_symbol>> an operator may ask for
    MaxRenames,  \* bound: renames, one after the other
    Writers,     \* upsert_* calls
    Batches,     \* of each writer: the batches it may write
    Readers,     \* GET /universe requests
    Constituents,\* number of securities in the index
    Rename,      \* the transaction of rename_symbol
    NoRow, Untouched, NoCell

\* _SYMBOL_KEYED_TABLES
Tables == <<"ohlcv", "corporate_actions", "universe_membership">>

Cells == UNION {{<<Tables[i], k, s>> : k \in Keys[Tables[i]], s \in Symbols} : i \in DOMAIN Tables}
Transactions == Writers \cup {Rename}
Values == Writers \cup {"seed"}

ASSUME SymbolAssumption ==
    /\ DOMAIN Keys = {Tables[i] : i \in DOMAIN Tables}
    /\ Keys["universe_membership"] \subseteq Nat
    /\ Seeds \subseteq [Cells -> Values \cup {NoRow}]
    /\ Requests \subseteq Symbols \X Symbols /\ Requests # {}
    /\ MaxRenames \in Nat
    /\ IsFiniteSet(Writers) /\ DOMAIN Batches = Writers /\ \A w \in Writers : Batches[w] \subseteq Seq(Cells)
    /\ Rename \notin Writers /\ NoCell \notin Cells
    /\ NoRow \notin Values /\ Untouched \notin Values \cup {NoRow}

\* A snapshot of the index has every constituent once, or has not been loaded.
Whole(S) == S # {} => IsFiniteSet(S) /\ Cardinality(S) = Constituents
Securities(b, d) == {s \in Symbols : \E i \in DOMAIN b : b[i] = <<"universe_membership", d, s>>}
Loads(w, d) == \E b \in Batches[w] : Securities(b, d) # {}

\* Snapshots are loaded whole, and once each: upsert_universe_membership deletes
\* nothing, so one that is loaded again after a rename would list both tickers.
ASSUME SnapshotAssumption ==
    \A d \in Keys["universe_membership"] :
      /\ \A w \in Writers : \A b \in Batches[w] : Whole(Securities(b, d))
      /\ \A v, w \in Writers : Loads(v, d) /\ Loads(w, d) => v = w
      /\ \A seed \in Seeds :
           LET there == {s \in Symbols : seed[<<"universe_membership", d, s>>] # NoRow} IN
           Whole(there) /\ \A w \in Writers : Loads(w, d) => there = {}

VARIABLES
    rows,     \* the committed tables
    pend,     \* uncommitted writes of each transaction, or Untouched
    stage,    \* rename: "idle", "checking" or "moving"
    pair,     \* rename: <<old_symbol, new_symbol>>
    table,    \* rename: index of the next statement's table
    todo,     \* rename: rows the UPDATE has still to move
    cur,      \* rename: the row the UPDATE is at
    outcome,  \* rename: how the last one ended
    renames,  \* number of renames begun
    wstage,   \* of each writer: "idle", "listed", "writing", "done" or "failed"
    listed,   \* of each writer: the symbols list_tracked_symbols gave it
    batch,    \* of each writer: the rows still to execute
    answer,   \* of each reader: its as_of, the date resolved and the members
    late,     \* history: cells committed by others since the rename began
    stray     \* history: an upsert was under way during the last rename, or has named
              \* the ticker it renamed away since

renaming == <<stage, pair, table, todo, cur, outcome, renames>>
writing == <<wstage, listed, batch>>
history == <<late, stray>>
vars == <<rows, pend, renaming, writing, answer, history>>

Clean == [c \in Cells |-> Untouched]

Init ==
    /\ rows \in Seeds
    /\ pend = [t \in Transactions |-> Clean]
    /\ stage = "idle" /\ pair = (CHOOSE q \in Requests : TRUE) /\ table = 1 /\ todo = {} /\ cur = NoCell
    /\ outcome = "none" /\ renames = 0
    /\ wstage = [w \in Writers |-> "idle"]
    /\ listed = [w \in Writers |-> {}]
    /\ batch = [w \in Writers |-> <<>>]
    /\ answer = [r \in Readers |-> [stage |-> "idle", asOf |-> 0, date |-> 0, members |-> {}]]
    /\ late = {} /\ stray = FALSE

-----------------------------------------------------------------------------
\* Transactions.

Old == pair[1]
New == pair[2]
Of(i, s) == {c \in Cells : c[1] = Tables[i] /\ c[3] = s}
As(c, s) == <<c[1], c[2], s>>
Present(c) == rows[c] # NoRow

\* No other transaction holds a lock on the cell.
Free(t, c) == \A u \in Transactions \ {t} : pend[u][c] = Untouched

Write(t, c, v) == pend' = [pend EXCEPT ![t][c] = v]

Commit(t) ==
    /\ rows' = [c \in Cells |-> IF pend[t][c] = Untouched THEN rows[c] ELSE pend[t][c]]
    /\ pend' = [pend EXCEPT ![t] = Clean]

Rollback(t) == pend' = [pend EXCEPT ![t] = Clean] /\ UNCHANGED rows

-----------------------------------------------------------------------------
\* rename_symbol.

\* Identical symbols are refused before a connection is taken.
RefuseIdentical ==
    /\ stage = "idle" /\ renames < MaxRenames
    /\ \E q \in Requests : q[1] = q[2]
    /\ outcome' = "refused" /\ renames' = renames + 1
    /\ UNCHANGED <<rows, pend, stage, pair, table, todo, cur, writing, answer, history>>

Begin ==
    /\ stage = "idle" /\ renames < MaxRenames
    /\ \E q \in Requests : q[1] # q[2] /\ pair' = q
    /\ stage' = "checking" /\ table' = 1 /\ renames' = renames + 1
    /\ outcome' = "none" /\ stray' = FALSE
    /\ UNCHANGED <<rows, pend, todo, cur, writing, answer, late>>

\* count(*) of the old rows whose key exists under the new symbol.
Collisions(i) == {c \in Of(i, Old) : Present(c) /\ Present(As(c, New))}

\* Mutant of GiveUp: the transaction is left open.
GiveUpKeepingLocks(how) ==
    /\ stage' = "idle" /\ todo' = {} /\ cur' = NoCell /\ outcome' = how /\ late' = {}
    /\ UNCHANGED <<rows, pend, pair, table, renames, writing, answer, stray>>

\* The transaction is over and has written nothing.
GiveUp(how) ==
    /\ stage' = "idle" /\ todo' = {} /\ cur' = NoCell /\ outcome' = how /\ late' = {}
    /\ Rollback(Rename)
    /\ UNCHANGED <<pair, table, renames, writing, answer, stray>>

\* Mutant of Check: the loop of the UPDATEs starts at the second table.
CheckOffByOne ==
    /\ stage = "checking" /\ Collisions(table) = {}
    /\ IF table = Len(Tables)
       THEN stage' = "moving" /\ table' = 2
       ELSE table' = table + 1 /\ UNCHANGED stage
    /\ UNCHANGED <<rows, pend, pair, todo, cur, outcome, renames, writing, answer, history>>

\* One SELECT for each table, each with a snapshot of its own.
Check ==
    /\ stage = "checking" /\ Collisions(table) = {}
    /\ IF table = Len(Tables)
       THEN stage' = "moving" /\ table' = 1
       ELSE table' = table + 1 /\ UNCHANGED stage
    /\ UNCHANGED <<rows, pend, pair, todo, cur, outcome, renames, writing, answer, history>>

Refuse == stage = "checking" /\ Collisions(table) # {} /\ GiveUp("refused")

\* An UPDATE begins: its snapshot says which rows it is for.
Scan ==
    /\ stage = "moving" /\ table <= Len(Tables) /\ todo = {} /\ cur = NoCell
    /\ todo' = {c \in Of(table, Old) : Present(c)}
    /\ table' = table + 1
    /\ UNCHANGED <<rows, pend, stage, pair, cur, outcome, renames, writing, answer, history>>

\* The rows come in no particular order.
Pick ==
    /\ stage = "moving" /\ cur = NoCell /\ todo # {}
    /\ \E c \in todo : cur' = c /\ todo' = todo \ {c}
    /\ UNCHANGED <<rows, pend, stage, pair, table, outcome, renames, writing, answer, history>>

\* The row's old version, in whatever state its last writer committed it.
LockOld ==
    /\ stage = "moving" /\ cur # NoCell /\ pend[Rename][cur] = Untouched
    /\ Free(Rename, cur)
    /\ Write(Rename, cur, NoRow)
    /\ UNCHANGED <<rows, renaming, writing, answer, history>>

\* Its new version, unless the key was taken since the check.
PutNew ==
    /\ stage = "moving" /\ cur # NoCell /\ pend[Rename][cur] # Untouched
    /\ Free(Rename, As(cur, New)) /\ ~Present(As(cur, New))
    /\ Write(Rename, As(cur, New), rows[cur])
    /\ cur' = NoCell
    /\ UNCHANGED <<rows, stage, pair, table, todo, outcome, renames, writing, answer, history>>

UniqueViolation ==
    /\ stage = "moving" /\ cur # NoCell /\ pend[Rename][cur] # Untouched
    /\ Free(Rename, As(cur, New)) /\ Present(As(cur, New))
    /\ GiveUp("failed")

\* Mutant of CommitRename: no transaction around the statements.
CommitEachUpdate ==
    /\ stage = "moving" /\ table > 1 /\ todo = {} /\ cur = NoCell
    /\ Commit(Rename)
    /\ IF table > Len(Tables) THEN stage' = "idle" /\ outcome' = "done" /\ late' = {}
       ELSE UNCHANGED <<stage, outcome, late>>
    /\ UNCHANGED <<pair, table, todo, cur, renames, writing, answer, stray>>

\* The reply to the COMMIT may be lost: rename_symbol raises although it moved.
CommitRename ==
    /\ stage = "moving" /\ table > Len(Tables) /\ todo = {} /\ cur = NoCell
    /\ Commit(Rename)
    /\ stage' = "idle" /\ outcome' \in {"done", "failed"} /\ late' = {}
    /\ stray' = (late # {} \/ \E w \in Writers : wstage[w] \in {"listed", "writing"})
    /\ UNCHANGED <<pair, table, todo, cur, renames, writing, answer>>

\* The connection or the process dies, or a statement raises.
RenameFails == stage # "idle" /\ GiveUp("failed")

-----------------------------------------------------------------------------
\* upsert_ohlcv, upsert_corporate_actions, upsert_universe_membership: executemany
\* is one transaction of an INSERT ... ON CONFLICT DO UPDATE per row.

Tracked == {s \in Symbols : \E c \in Of(1, s) : Present(c)}

\* list_tracked_symbols: the daily refresh reads its list, and fetches for a while.
ListTracked(w) ==
    /\ wstage[w] = "idle"
    /\ wstage' = [wstage EXCEPT ![w] = "listed"]
    /\ listed' = [listed EXCEPT ![w] = Tracked]
    /\ UNCHANGED <<rows, pend, renaming, batch, answer, history>>

\* Of a listed symbol; or of one the caller names, as fetch --symbol, daily --symbols,
\* POST /admin/ingest and the backfill do. An empty batch takes no connection.
BeginUpsert(w) ==
    /\ wstage[w] \in {"idle", "listed"}
    /\ \E b \in Batches[w] :
         /\ wstage[w] = "listed" => \A i \in DOMAIN b : b[i][1] = "ohlcv" => b[i][3] \in listed[w]
         /\ stray' = (stray \/ (wstage[w] = "idle" /\ \E i \in DOMAIN b : b[i] \in Of(1, Old)))
         /\ batch' = [batch EXCEPT ![w] = b]
         /\ wstage' = [wstage EXCEPT ![w] = IF b = <<>> THEN "done" ELSE "writing"]
         /\ listed' = [listed EXCEPT ![w] = {}]
    /\ UNCHANGED <<rows, pend, renaming, answer, late>>

\* Mutant of UpsertRow: every row is committed by itself.
UpsertRowAtOnce(w) ==
    /\ wstage[w] = "writing" /\ batch[w] # <<>>
    /\ Free(w, Head(batch[w]))
    /\ rows' = [rows EXCEPT ![Head(batch[w])] = w]
    /\ late' = IF stage = "idle" THEN late ELSE late \cup {Head(batch[w])}
    /\ batch' = [batch EXCEPT ![w] = Tail(@)]
    /\ UNCHANGED <<pend, renaming, wstage, listed, answer, stray>>

\* Inserts or updates: after a wait the conflict is looked for again.
UpsertRow(w) ==
    /\ wstage[w] = "writing" /\ batch[w] # <<>>
    /\ Free(w, Head(batch[w]))
    /\ Write(w, Head(batch[w]), w)
    /\ batch' = [batch EXCEPT ![w] = Tail(@)]
    /\ UNCHANGED <<rows, renaming, wstage, listed, answer, history>>

\* Whether the reply arrives matters to no other transaction.
CommitUpsert(w) ==
    /\ wstage[w] = "writing" /\ batch[w] = <<>>
    /\ Commit(w)
    /\ late' = IF stage = "idle" THEN late ELSE late \cup {c \in Cells : pend[w][c] # Untouched}
    /\ wstage' = [wstage EXCEPT ![w] = "done"]
    /\ UNCHANGED <<renaming, listed, batch, answer, stray>>

\* RepositoryError, or the process dies: none of the batch is written.
UpsertFails(w) ==
    /\ wstage[w] = "writing"
    /\ Rollback(w)
    /\ wstage' = [wstage EXCEPT ![w] = "failed"] /\ batch' = [batch EXCEPT ![w] = <<>>]
    /\ UNCHANGED <<renaming, listed, answer, history>>

-----------------------------------------------------------------------------
\* fetch_universe: two statements of one connection, with no transaction around.

Dates == {c[2] : c \in {d \in Cells : d[1] = "universe_membership" /\ Present(d)}}
Members(date) == {s \in Symbols : Present(<<"universe_membership", date, s>>)}
Latest(dates) == CHOOSE d \in dates : \A e \in dates : e <= d

Resolve(r, asOf) ==
    /\ answer[r].stage = "idle"
    /\ LET dates == {d \in Dates : d <= asOf} IN
       answer' = [answer EXCEPT ![r] =
         IF dates = {}
         THEN [stage |-> "done", asOf |-> asOf, date |-> 0, members |-> {}]
         ELSE [stage |-> "dated", asOf |-> asOf, date |-> Latest(dates), members |-> {}]]
    /\ UNCHANGED <<rows, pend, renaming, writing, history>>

ReadMembers(r) ==
    /\ answer[r].stage = "dated"
    /\ answer' = [answer EXCEPT ![r].stage = "done", ![r].members = Members(answer[r].date)]
    /\ UNCHANGED <<rows, pend, renaming, writing, history>>

-----------------------------------------------------------------------------
\* PostgreSQL's deadlock check.

\* The cell a transaction needs for its next step.
Needs(t) ==
    IF t = Rename
    THEN IF stage # "moving" \/ cur = NoCell THEN {}
         ELSE {IF pend[Rename][cur] = Untouched THEN cur ELSE As(cur, New)}
    ELSE IF wstage[t] # "writing" \/ batch[t] = <<>> THEN {} ELSE {Head(batch[t])}

WaitsFor(t) == {u \in Transactions \ {t} : \E c \in Needs(t) : pend[u][c] # Untouched}

Deadlocked(t) ==
    \E D \in SUBSET Transactions :
      /\ t \in D
      /\ \A u \in D : WaitsFor(u) \cap D # {} /\ \E v \in D : u \in WaitsFor(v)

\* One transaction of a cycle is aborted, and its call raises.
AbortVictim ==
    \/ Deadlocked(Rename) /\ RenameFails
    \/ \E w \in Writers : Deadlocked(w) /\ UpsertFails(w)

-----------------------------------------------------------------------------
RenameStep == Check \/ Refuse \/ Scan \/ Pick \/ LockOld \/ PutNew \/ UniqueViolation \/ CommitRename
UpsertStep(w) == UpsertRow(w) \/ CommitUpsert(w)

Next ==
    \/ RefuseIdentical \/ Begin \/ RenameStep \/ RenameFails
    \/ \E w \in Writers : ListTracked(w) \/ BeginUpsert(w) \/ UpsertStep(w) \/ UpsertFails(w)
    \/ \E r \in Readers :
         ReadMembers(r) \/ \E asOf \in Keys["universe_membership"] : Resolve(r, asOf)

Spec == Init /\ [][Next]_vars

\* As long as some statement does not wait, PostgreSQL executes one of those, and it
\* breaks every cycle.
FairSpec == Spec /\ WF_vars(RenameStep \/ AbortVictim \/ \E w \in Writers : UpsertStep(w))
-----------------------------------------------------------------------------
TypeOK ==
    /\ rows \in [Cells -> Values \cup {NoRow}]
    /\ pend \in [Transactions -> [Cells -> Values \cup {NoRow, Untouched}]]
    /\ stage \in {"idle", "checking", "moving"}
    /\ pair \in Requests
    /\ table \in 1..(Len(Tables) + 1)
    /\ stage = "checking" => table <= Len(Tables)
    /\ todo \subseteq Cells
    /\ cur \in Cells \cup {NoCell}
    /\ outcome \in {"none", "refused", "failed", "done"}
    /\ renames \in 0..MaxRenames
    /\ wstage \in [Writers -> {"idle", "listed", "writing", "done", "failed"}]
    /\ listed \in [Writers -> SUBSET Symbols]
    /\ batch \in [Writers -> Seq(Cells)]
    /\ late \subseteq Cells /\ stray \in BOOLEAN
    /\ stage = "idle" => late = {} /\ pend[Rename] = Clean /\ todo = {} /\ cur = NoCell
    /\ \A w \in Writers : wstage[w] # "writing" => pend[w] = Clean

Vanishes(c) == Present(c) /\ rows'[c] = NoRow

\* "Move every row", "All tables move in one transaction" (rename_symbol): rows leave a
\* ticker only all at once, bars, actions and memberships together, each to a free key
\* of the new ticker with what it held; what stays was committed by an upsert since the
\* rename began, and nobody else's rows are touched.
MovesWhole ==
    [][(\E c \in Cells : Vanishes(c)) =>
         \A c \in Cells : Present(c) =>
           IF c[3] # Old THEN rows'[c] = rows[c]
           ELSE IF Vanishes(c)
           THEN rows[As(c, New)] = NoRow /\ rows'[As(c, New)] = rows[c]
           ELSE c \in late]_vars

\* fetch_universe reads the date and the members at two moments, with a rename or the
\* next snapshot in between: still it lists a whole snapshot, every security once,
\* under one ticker, and looks no further than as_of. Snapshots are loaded once each.
UniverseListsOnce ==
    \A r \in Readers :
      answer[r].stage = "done" /\ answer[r].date # 0 =>
        /\ answer[r].date <= answer[r].asOf
        /\ Cardinality(answer[r].members) = Constituents

\* A rename and an upsert lock rows of a ticker in different orders and may wait for
\* each other: both calls return or raise in the end.
TransactionsEnd ==
    /\ stage # "idle" ~> stage = "idle"
    /\ \A w \in Writers : wstage[w] = "writing" ~> wstage[w] \in {"done", "failed"}

\* The transactions that have begun and not ended.
Open == {t \in Transactions : IF t = Rename THEN stage # "idle" ELSE wstage[t] = "writing"}

\* Whichever way a call ends, its locks end with it, so no call waits for one that is
\* over: of the transactions an open one waits for, directly or through others, itself
\* included, one can go on, or is in a cycle that PostgreSQL breaks.
NoEternalWait ==
    \A D \in SUBSET Transactions :
      D \cap Open # {} /\ (\A t \in D : WaitsFor(t) \subseteq D) =>
        \E t \in D \cap Open : WaitsFor(t) = {} \/ Deadlocked(t)

AT == INSTANCE AtomicTables WITH loaded <- {w \in Writers : wstage[w] = "done"}

\* The statements of renames and upserts interleave row by row, wait and roll back; to
\* who reads the tables every call is one step of AtomicTables, or none.
CallsAreAtomic == AT!Spec

\* db/repositories.py:277-278, a rename "stops the dead symbol being re-requested
\* forever by the store-defined daily refresh": once it is renamed away with success the
\* symbol is off the list of that refresh and no later refresh brings it back. What does
\* is an upsert that was under way during the rename, or one whose caller names the dead
\* ticker himself.
DeadTickerDropsOut == outcome = "done" /\ ~stray => Old \notin Tracked
=============================================================================

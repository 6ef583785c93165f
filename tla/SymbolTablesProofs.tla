------------------------- MODULE SymbolTablesProofs -------------------------
(***************************************************************************)
(* Proofs about SymbolTables, for any symbols, keys, histories, batches    *)
(* and renames, and any number of writers and readers.                     *)
(***************************************************************************)
EXTENDS SymbolTables, FiniteSetTheorems, TLAPS

\* The cells a transaction has written.
Touched(t) == {c \in Cells : pend[t][c] # Untouched}

\* A cell is locked by one transaction, and an upsert deletes nothing.
LockInv ==
    /\ \A t, u \in Transactions : t # u => Touched(t) \cap Touched(u) = {}
    /\ \A w \in Writers : \A c \in Cells : pend[w][c] # NoRow

\* Every row the rename has written is half of a move: the old cell emptied, or the new
\* cell, free before, with what the old one holds.
HalvesInv ==
    \A c \in Touched(Rename) :
      /\ \E i \in DOMAIN Tables : i < table /\ c[1] = Tables[i]
      /\ \/ /\ c[3] = Old /\ pend[Rename][c] = NoRow
            /\ c # cur => As(c, New) \in Touched(Rename)
         \/ /\ c[3] = New /\ rows[c] = NoRow
            /\ As(c, Old) \in Touched(Rename) /\ pend[Rename][c] = rows[As(c, Old)]

\* The rows an UPDATE has still to move are there, and nothing it met is forgotten.
ScanInv ==
    /\ \A c \in todo \cup ({cur} \ {NoCell}) : c[3] = Old /\ Present(c)
    /\ \A c \in todo : c \notin Touched(Rename) /\ c # cur
    /\ \A c \in todo \cup ({cur} \ {NoCell}) : \E i \in DOMAIN Tables : i < table /\ c[1] = Tables[i]
    /\ \A i \in DOMAIN Tables : i < table =>
         \A c \in Of(i, Old) :
           Present(c) => c \in Touched(Rename) \cup todo \cup {cur} \cup late

\* The rename writes nothing before its checks are over, and then only whole moves.
RenameInv ==
    /\ stage # "idle" => Old # New /\ outcome = "none"
    /\ stage = "checking" => Touched(Rename) = {} /\ todo = {} /\ cur = NoCell
    /\ stage = "moving" => HalvesInv /\ ScanInv

\* After a success with no upsert under way and until one names the old ticker, no bar of
\* it is stored, listed to be fetched, or on its way.
DropInv ==
    outcome = "done" /\ ~stray =>
      /\ Old \notin Tracked
      /\ \A w \in Writers :
           /\ wstage[w] = "listed" => Old \notin listed[w]
           /\ wstage[w] = "writing" => /\ \A i \in DOMAIN batch[w] : batch[w][i] \notin Of(1, Old)
                                      /\ Touched(w) \cap Of(1, Old) = {}

\* The inductive invariant.
IInv == TypeOK /\ LockInv /\ RenameInv /\ DropInv

-----------------------------------------------------------------------------
\* Among sets of members of a finite set there is one that contains no other.
LEMMA SmallestSet ==
    ASSUME NEW S, IsFiniteSet(S), NEW F \in SUBSET SUBSET S, F # {}
    PROVE  \E A \in F : \A B \in F : B \subseteq A => B = A
  <1>1. IsWellFoundedOn(StrictSubsetOrdering(S), SUBSET S)
    BY FS_StrictSubsetOrderingWellFounded, FS_FiniteSubsetsOfFinite
  <1>2. PICK A \in F : \A B \in F : ~ (<<B, A>> \in StrictSubsetOrdering(S))
    <2> DEFINE R == StrictSubsetOrdering(S)
    <2> HIDE DEF R
    <2>1. IsWellFoundedOn(R, SUBSET S)
      BY <1>1 DEF R
    <2>2. \E A \in F : \A B \in F : ~ (<<B, A>> \in R)
      BY <2>1, WFMin
    <2> QED BY <2>2 DEF R
  <1> QED BY <1>2 DEF StrictSubsetOrdering

\* A set of numbers with a bound has a greatest one.
LEMMA LatestOf ==
    ASSUME NEW D, D \subseteq Nat, NEW n \in Nat, \A d \in D : d <= n, D # {}
    PROVE  \E d \in D : \A e \in D : e <= d
  <1> DEFINE Later(d) == {e \in D : d < e}
             F == {A \in SUBSET D : \E d \in D : A = Later(d)}
  <1>1. IsFiniteSet(D)
    <2>1. D \subseteq 0..n
      OBVIOUS
    <2>2. IsFiniteSet(0..n)
      BY FS_Interval
    <2> HIDE DEF Later
    <2> QED BY <2>1, <2>2, FS_Subset
  <1>2. \A G \in SUBSET SUBSET D : G # {} => \E A \in G : \A B \in G : B \subseteq A => B = A
    BY ONLY <1>1, SmallestSet
  <1>3. F \in SUBSET SUBSET D /\ F # {}
    <2>1. PICK d : d \in D
      OBVIOUS
    <2>2. Later(d) \in F
      BY <2>1
    <2> QED BY <2>2
  <1>4. PICK A \in F : \A B \in F : B \subseteq A => B = A
    <2> HIDE DEF F
    <2> QED BY <1>2, <1>3
  <1>5. PICK d \in D : A = Later(d)
    BY <1>4
  <1>6. ASSUME NEW e \in D PROVE e <= d
    <2>0. d \in Nat /\ e \in Nat
      OBVIOUS
    <2>1. SUFFICES ASSUME d < e PROVE FALSE
      BY <2>0
    <2>2. \A f \in D : e < f => d < f
      BY <2>0, <2>1
    <2>3. Later(e) \subseteq Later(d) /\ e \in Later(d) /\ e \notin Later(e)
      <3>1. ~(e < e)
        BY <2>0
      <3> QED BY <2>1, <2>2, <3>1, Zenon
    <2>4. Later(e) = A
      <3>1. Later(e) \in F /\ Later(e) \subseteq A
        BY <1>5, <2>3
      <3> HIDE DEF F, Later
      <3> QED BY <1>4, <3>1
    <2> QED BY <1>5, <2>3, <2>4
  <1> QED BY <1>6

\* A cell under another symbol is a cell, and back again is the same.
LEMMA CellType ==
    ASSUME NEW c \in Cells, NEW s \in Symbols
    PROVE  /\ c[3] \in Symbols /\ As(c, s) \in Cells
           /\ As(c, s)[1] = c[1] /\ As(c, s)[3] = s /\ As(As(c, s), c[3]) = c
           /\ c[3] = s => As(c, s) = c
           /\ \E i \in DOMAIN Tables : c[1] = Tables[i]
  <1>0. PICK i \in DOMAIN Tables : c \in {<<Tables[i], k, x>> : k \in Keys[Tables[i]], x \in Symbols}
    BY DEF Cells
  <1>1. PICK k \in Keys[Tables[i]], x \in Symbols : c = <<Tables[i], k, x>>
    BY <1>0
  <1>2. <<Tables[i], k, s>> \in Cells
    BY <1>1 DEF Cells
  <1> QED BY <1>1, <1>2 DEF As

\* The three tables are different.
LEMMA TablesDiffer ==
    /\ Len(Tables) = 3 /\ DOMAIN Tables = 1..3
    /\ \A i, j \in DOMAIN Tables : Tables[i] = Tables[j] => i = j
  BY DEF Tables

\* The tickers of the rename are symbols.
LEMMA PairType ==
    ASSUME TypeOK PROVE Old \in Symbols /\ New \in Symbols
  BY SymbolAssumption DEF TypeOK, Old, New

\* The parts of TypeOK about the cells.
PendType == pend \in [Transactions -> [Cells -> Values \cup {NoRow, Untouched}]]
RowsType == rows \in [Cells -> Values \cup {NoRow}]

\* A write changes one entry and takes its lock.
LEMMA WriteEffect ==
    ASSUME PendType, NEW t \in Transactions, NEW c \in Cells,
           NEW v \in Values \cup {NoRow}, Write(t, c, v)
    PROVE  /\ PendType' /\ pend'[t][c] = v
           /\ \A u \in Transactions, d \in Cells : u # t \/ d # c => pend'[u][d] = pend[u][d]
           /\ Touched(t)' = Touched(t) \cup {c}
           /\ \A u \in Transactions \ {t} : Touched(u)' = Touched(u)
  <1>1. v # Untouched
    BY SymbolAssumption
  <1>2. pend' = [pend EXCEPT ![t] = [pend[t] EXCEPT ![c] = v]]
    BY DEF Write, PendType
  <1>3. /\ PendType' /\ pend'[t][c] = v
        /\ \A u \in Transactions, d \in Cells : u # t \/ d # c => pend'[u][d] = pend[u][d]
    BY <1>2 DEF PendType
  <1> QED BY <1>1, <1>3 DEF Touched

\* A rollback unlocks the cells of its transaction and no other.
LEMMA RollbackEffect ==
    ASSUME PendType, NEW t \in Transactions, pend' = [pend EXCEPT ![t] = Clean]
    PROVE  /\ PendType' /\ pend'[t] = Clean /\ Touched(t)' = {}
           /\ \A u \in Transactions \ {t} : pend'[u] = pend[u] /\ Touched(u)' = Touched(u)
  <1>1. Clean \in [Cells -> Values \cup {NoRow, Untouched}] /\ \A c \in Cells : Clean[c] = Untouched
    BY DEF Clean
  <1> QED BY <1>1 DEF PendType, Touched

\* A commit puts what its transaction has written in the tables, and unlocks it.
LEMMA CommitEffect ==
    ASSUME PendType, RowsType, NEW t \in Transactions, Commit(t)
    PROVE  /\ PendType' /\ RowsType' /\ pend'[t] = Clean /\ Touched(t)' = {}
           /\ \A u \in Transactions \ {t} : pend'[u] = pend[u] /\ Touched(u)' = Touched(u)
           /\ \A c \in Touched(t) : rows'[c] = pend[t][c]
           /\ \A c \in Cells \ Touched(t) : rows'[c] = rows[c]
  <1>1. pend' = [pend EXCEPT ![t] = Clean]
    BY DEF Commit
  <1>2. rows' = [c \in Cells |-> IF pend[t][c] = Untouched THEN rows[c] ELSE pend[t][c]]
    BY DEF Commit
  <1>3. RowsType'
    BY <1>2 DEF PendType, RowsType
  <1>4. /\ \A c \in Touched(t) : rows'[c] = pend[t][c]
        /\ \A c \in Cells \ Touched(t) : rows'[c] = rows[c]
    BY <1>2 DEF Touched
  <1> QED BY <1>1, <1>3, <1>4, RollbackEffect

\* The cell of an upsert's next row.
LEMMA NextRowType ==
    ASSUME TypeOK, NEW w \in Writers, batch[w] # <<>>
    PROVE  Head(batch[w]) \in Cells /\ Tail(batch[w]) \in Seq(Cells)
  BY DEF TypeOK

-----------------------------------------------------------------------------
\* The invariant holds at the beginning.
LEMMA InitInv ==
    ASSUME Init PROVE IInv
  <1>1. \A t \in Transactions : Touched(t) = {}
    BY DEF Init, Clean, Touched
  <1>2. TypeOK
    <2>1. rows \in [Cells -> Values \cup {NoRow}]
      BY SymbolAssumption DEF Init
    <2>2. pend \in [Transactions -> [Cells -> Values \cup {NoRow, Untouched}]]
      BY DEF Init, Clean
    <2>3. pair \in Requests /\ renames \in 0..MaxRenames
      BY SymbolAssumption DEF Init
    <2>4. /\ wstage \in [Writers -> {"idle", "listed", "writing", "done", "failed"}]
          /\ listed \in [Writers -> SUBSET Symbols] /\ batch \in [Writers -> Seq(Cells)]
      BY DEF Init
    <2>5. table \in 1..(Len(Tables) + 1)
      BY TablesDiffer DEF Init
    <2>7. /\ stage = "idle" /\ todo = {} /\ cur = NoCell /\ outcome = "none" /\ late = {}
          /\ stray \in BOOLEAN
      BY DEF Init
    <2>6. pend[Rename] = Clean /\ \A w \in Writers : pend[w] = Clean
      BY DEF Init, Transactions
    <2> QED BY <2>1, <2>2, <2>3, <2>4, <2>5, <2>6, <2>7 DEF TypeOK
  <1>3. LockInv
    <2>1. \A w \in Writers, c \in Cells : pend[w][c] # NoRow
      BY SymbolAssumption DEF Init, Clean, Transactions
    <2> QED BY <1>1, <2>1 DEF LockInv
  <1> QED BY <1>2, <1>3 DEF IInv, RenameInv, DropInv, Init

-----------------------------------------------------------------------------
\* The conjuncts of TypeOK by what changes them.
RenameType ==
    /\ stage \in {"idle", "checking", "moving"}
    /\ pair \in Requests /\ table \in 1..(Len(Tables) + 1)
    /\ stage = "checking" => table <= Len(Tables)
    /\ todo \subseteq Cells /\ cur \in Cells \cup {NoCell}
    /\ outcome \in {"none", "refused", "failed", "done"} /\ renames \in 0..MaxRenames
    /\ late \subseteq Cells
    /\ stage = "idle" => late = {} /\ todo = {} /\ cur = NoCell

\* The part of TypeOK about the upserts.
WriterType ==
    /\ wstage \in [Writers -> {"idle", "listed", "writing", "done", "failed"}]
    /\ listed \in [Writers -> SUBSET Symbols]
    /\ batch \in [Writers -> Seq(Cells)]

\* Who is not in a transaction has written nothing.
CleanType ==
    /\ stage = "idle" => pend[Rename] = Clean
    /\ \A w \in Writers : wstage[w] # "writing" => pend[w] = Clean

\* TypeOK by its parts.
LEMMA TypeParts ==
    TypeOK <=> /\ RowsType /\ PendType /\ RenameType /\ WriterType /\ CleanType
               /\ stray \in BOOLEAN
  BY DEF TypeOK, RowsType, PendType, RenameType, WriterType, CleanType

\* A transaction that is not open has written nothing.
LEMMA CleanTouched ==
    ASSUME NEW t, pend[t] = Clean PROVE Touched(t) = {}
  BY DEF Touched, Clean

\* Every step keeps the types of the rename.
LEMMA RenameTypeStep ==
    ASSUME TypeOK, Next PROVE RenameType'
  <1>0. RenameType
    BY TypeParts
  <1>1. CASE RefuseIdentical
    BY <1>0, <1>1, SymbolAssumption DEF RefuseIdentical, RenameType, history
  <1>2. CASE Begin
    BY <1>0, <1>2, SymbolAssumption, TablesDiffer DEF Begin, RenameType, history
  <1>3. CASE Check
    BY <1>0, <1>3, TablesDiffer DEF Check, RenameType, history
  <1>4. CASE Refuse \/ UniqueViolation \/ RenameFails
    BY <1>0, <1>4 DEF Refuse, UniqueViolation, RenameFails, GiveUp, RenameType, history
  <1>5. CASE Scan
    <2>1. {c \in Of(table, Old) : Present(c)} \subseteq Cells
      BY DEF Of
    <2> QED BY <1>0, <1>5, <2>1, TablesDiffer DEF Scan, RenameType, history
  <1>6. CASE Pick
    BY <1>0, <1>6 DEF Pick, RenameType, history
  <1>7. CASE LockOld \/ PutNew
    BY <1>0, <1>7 DEF LockOld, PutNew, RenameType, renaming, history
  <1>8. CASE CommitRename
    <2>2. stage' = "idle" /\ outcome' \in {"done", "failed"} /\ late' = {} /\ todo = {} /\ cur = NoCell
      BY <1>8 DEF CommitRename
    <2>3. UNCHANGED <<pair, table, todo, cur, renames>>
      BY <1>8 DEF CommitRename
    <2> QED BY <1>0, <2>2, <2>3 DEF RenameType, history
  <1>9. ASSUME NEW w \in Writers, CommitUpsert(w) PROVE RenameType'
    BY <1>0, <1>9 DEF CommitUpsert, RenameType, renaming
  <1>10. CASE UNCHANGED <<renaming, late>>
    BY <1>0, <1>10 DEF RenameType, renaming
  <1> QED
    BY <1>1, <1>2, <1>3, <1>4, <1>5, <1>6, <1>7, <1>8, <1>9, <1>10
    DEF Next, history, RenameStep, ListTracked, BeginUpsert, UpsertStep, UpsertRow, UpsertFails, Resolve,
        ReadMembers

\* Every step keeps the types of the upserts.
LEMMA WriterTypeStep ==
    ASSUME TypeOK, Next PROVE WriterType'
  <1>0. WriterType
    BY TypeParts
  <1>1. ASSUME NEW w \in Writers, ListTracked(w) PROVE WriterType'
    BY <1>0, <1>1 DEF ListTracked, WriterType, Tracked
  <1>2. ASSUME NEW w \in Writers, BeginUpsert(w) PROVE WriterType'
    <2>1. PICK b \in Batches[w] :
            /\ batch' = [batch EXCEPT ![w] = b]
            /\ wstage' = [wstage EXCEPT ![w] = IF b = <<>> THEN "done" ELSE "writing"]
            /\ listed' = [listed EXCEPT ![w] = {}]
      BY <1>2 DEF BeginUpsert
    <2>2. b \in Seq(Cells)
      BY SymbolAssumption
    <2> QED BY <1>0, <2>1, <2>2 DEF WriterType
  <1>3. ASSUME NEW w \in Writers, UpsertRow(w) PROVE WriterType'
    BY <1>0, <1>3, NextRowType DEF UpsertRow, WriterType
  <1>4. ASSUME NEW w \in Writers, CommitUpsert(w) \/ UpsertFails(w) PROVE WriterType'
    <2>1. UNCHANGED listed /\ batch' \in {batch, [batch EXCEPT ![w] = <<>>]}
          /\ \E x \in {"done", "failed"} : wstage' = [wstage EXCEPT ![w] = x]
      BY <1>4 DEF CommitUpsert, UpsertFails
    <2>2. <<>> \in Seq(Cells)
      OBVIOUS
    <2> QED BY <1>0, <2>1, <2>2 DEF WriterType
  <1>5. CASE UNCHANGED writing
    BY <1>0, <1>5 DEF WriterType, writing
  <1> QED
    BY <1>1, <1>2, <1>3, <1>4, <1>5
    DEF Next, UpsertStep, RenameStep, RefuseIdentical, Begin, Check, Refuse, UniqueViolation,
        RenameFails, GiveUp, Scan, Pick, LockOld, PutNew, CommitRename, Resolve, ReadMembers

-----------------------------------------------------------------------------
\* Tables and locks.
TableInv == RowsType /\ PendType /\ CleanType /\ LockInv

\* The rename is one of the transactions, and no writer.
LEMMA TransactionType == Rename \in Transactions /\ Rename \notin Writers /\ Writers \subseteq Transactions
  BY SymbolAssumption DEF Transactions

\* A write to a cell nobody else has locked.
LEMMA WriteLocks ==
    ASSUME PendType, LockInv, NEW t \in Transactions, NEW c \in Cells,
           NEW v \in Values \cup {NoRow}, t = Rename \/ v # NoRow,
           Free(t, c), Write(t, c, v)
    PROVE  LockInv'
  <1>1. \A u \in Transactions \ {t} : c \notin Touched(u)
    BY DEF Free, Touched
  <1>2. \A u, q \in Transactions : u # q => Touched(u)' \cap Touched(q)' = {}
    BY <1>1, WriteEffect DEF LockInv
  <1>3. \A w \in Writers, d \in Cells : pend'[w][d] # NoRow
    BY WriteEffect, TransactionType DEF LockInv
  <1> QED BY <1>2, <1>3 DEF LockInv

\* The end of a transaction, either way, frees its locks.
LEMMA EndLocks ==
    ASSUME PendType, LockInv, NEW t \in Transactions, pend' = [pend EXCEPT ![t] = Clean]
    PROVE  LockInv'
  <1>1. \A u, q \in Transactions : u # q => Touched(u)' \cap Touched(q)' = {}
    BY RollbackEffect DEF LockInv
  <1>2. \A d \in Cells : Clean[d] # NoRow
    BY SymbolAssumption DEF Clean
  <1>3. \A w \in Writers, d \in Cells : pend'[w][d] # NoRow
    BY <1>2, RollbackEffect, TransactionType DEF LockInv
  <1> QED BY <1>1, <1>3 DEF LockInv

\* Every step keeps the types of the cells, and the locks apart.
LEMMA TableStep ==
    ASSUME IInv, Next PROVE TableInv'
  <1>0. TableInv /\ RenameType /\ WriterType
    BY TypeParts DEF IInv, TableInv
  <1>1. ASSUME UNCHANGED <<rows, pend>>, stage' = "idle" => stage = "idle",
               \A w \in Writers : wstage'[w] # "writing" => wstage[w] # "writing"
        PROVE  TableInv'
    <2>1. RowsType' /\ PendType'
      BY <1>0, <1>1 DEF TableInv, RowsType, PendType
    <2>2. CleanType'
      BY <1>0, <1>1 DEF TableInv, CleanType
    <2>3. LockInv'
      BY <1>0, <1>1 DEF TableInv, LockInv, Touched
    <2> QED BY <2>1, <2>2, <2>3 DEF TableInv
  <1>2. ASSUME NEW c \in Cells, NEW v \in Values \cup {NoRow}, Free(Rename, c),
               Write(Rename, c, v), stage = "moving", UNCHANGED <<rows, stage, wstage>>
        PROVE  TableInv'
    <2>1. PendType' /\ \A w \in Writers : \A d \in Cells : pend'[w][d] = pend[w][d]
      BY <1>0, <1>2, WriteEffect, TransactionType DEF TableInv
    <2>2. LockInv'
      BY <1>0, <1>2, WriteLocks, TransactionType DEF TableInv
    <2>3. \A w \in Writers : pend'[w] = pend[w]
      BY <1>0, <2>1, TransactionType DEF TableInv, PendType
    <2>4. CleanType'
      BY <1>0, <1>2, <2>3 DEF TableInv, CleanType
    <2> QED BY <1>0, <1>2, <2>1, <2>2, <2>4 DEF TableInv, RowsType
  <1>3. ASSUME NEW w \in Writers, NEW c \in Cells, Free(w, c), Write(w, c, w),
               wstage[w] = "writing", UNCHANGED <<rows, stage, wstage>>
        PROVE  TableInv'
    <2>1. w \in Values \cup {NoRow} /\ w # NoRow
      BY SymbolAssumption DEF Values
    <2>2. PendType' /\ \A u \in Transactions \ {w} : \A d \in Cells : pend'[u][d] = pend[u][d]
      BY <1>0, <1>3, <2>1, WriteEffect, TransactionType DEF TableInv
    <2>3. LockInv'
      BY <1>0, <1>3, <2>1, WriteLocks, TransactionType DEF TableInv
    <2>4. \A u \in Transactions \ {w} : pend'[u] = pend[u]
      BY <1>0, <2>2, TransactionType DEF TableInv, PendType
    <2>5. CleanType'
      BY <1>0, <1>3, <2>4, TransactionType DEF TableInv, CleanType
    <2> QED BY <1>0, <1>3, <2>2, <2>3, <2>5 DEF TableInv, RowsType
  <1>4. ASSUME NEW t \in Transactions, Commit(t) \/ Rollback(t),
               t = Rename => UNCHANGED wstage,
               t # Rename => /\ UNCHANGED stage
                             /\ \A u \in Writers \ {t} : wstage'[u] = wstage[u]
        PROVE  TableInv'
    <2>1. pend' = [pend EXCEPT ![t] = Clean]
      BY <1>4 DEF Commit, Rollback
    <2>2. /\ PendType' /\ pend'[t] = Clean
          /\ \A u \in Transactions \ {t} : pend'[u] = pend[u]
      BY <1>0, <2>1, RollbackEffect DEF TableInv
    <2>3. RowsType'
      BY <1>0, <1>4, CommitEffect DEF TableInv, Rollback, RowsType
    <2>4. LockInv'
      BY <1>0, <2>1, EndLocks DEF TableInv
    <2>5. CleanType'
      BY <1>0, <1>4, <2>2, TransactionType DEF TableInv, CleanType
    <2> QED BY <2>2, <2>3, <2>4, <2>5 DEF TableInv
  <1>5. CASE RefuseIdentical \/ Begin \/ Check \/ Scan \/ Pick
             \/ \E r \in Readers : ReadMembers(r) \/ \E a \in Keys["universe_membership"] : Resolve(r, a)
    BY <1>0, <1>1, <1>5
    DEF RefuseIdentical, Begin, Check, Scan, Pick, ReadMembers, Resolve, writing, renaming
  <1>6. ASSUME NEW w \in Writers, ListTracked(w) \/ BeginUpsert(w) PROVE TableInv'
    <2>1. /\ wstage[w] # "writing" /\ UNCHANGED <<rows, pend, stage>>
          /\ \E x : wstage' = [wstage EXCEPT ![w] = x]
      BY <1>6 DEF ListTracked, BeginUpsert, renaming
    <2>2. \A u \in Writers : wstage'[u] # "writing" => wstage[u] # "writing"
      BY <1>0, <2>1 DEF WriterType
    <2> QED BY <1>1, <2>1, <2>2
  <1>7. CASE LockOld
    <2>1. cur \in Cells /\ NoRow \in Values \cup {NoRow}
      BY <1>0, <1>7 DEF LockOld, RenameType
    <2> QED BY <1>2, <1>7, <2>1 DEF LockOld, renaming, writing
  <1>8. CASE PutNew
    <2>1. cur \in Cells /\ As(cur, New) \in Cells
      BY <1>0, <1>8, PairType, CellType DEF PutNew, RenameType, IInv
    <2>2. rows[cur] \in Values \cup {NoRow}
      BY <1>0, <2>1 DEF TableInv, RowsType
    <2> QED BY <1>2, <1>8, <2>1, <2>2 DEF PutNew, writing
  <1>9. CASE Refuse \/ UniqueViolation \/ RenameFails
    BY <1>4, <1>9, TransactionType DEF Refuse, UniqueViolation, RenameFails, GiveUp, writing
  <1>10. CASE CommitRename
    BY <1>4, <1>10, TransactionType DEF CommitRename, writing
  <1>11. ASSUME NEW w \in Writers, UpsertRow(w) PROVE TableInv'
    BY <1>3, <1>11, NextRowType DEF UpsertRow, renaming, IInv
  <1>12. ASSUME NEW w \in Writers, CommitUpsert(w) \/ UpsertFails(w) PROVE TableInv'
    <2>1. /\ Commit(w) \/ Rollback(w)
          /\ UNCHANGED stage /\ \E x : wstage' = [wstage EXCEPT ![w] = x]
      BY <1>12 DEF CommitUpsert, UpsertFails, renaming
    <2>2. \A u \in Writers \ {w} : wstage'[u] = wstage[u]
      BY <1>0, <2>1 DEF WriterType
    <2> QED BY <1>4, <2>1, <2>2, TransactionType
  <1> QED
    BY <1>5, <1>6, <1>7, <1>8, <1>9, <1>10, <1>11, <1>12 DEF Next, RenameStep, UpsertStep

\* Every step keeps stray a truth value.
LEMMA StrayStep ==
    ASSUME TypeOK, Next PROVE stray' \in BOOLEAN
  <1>0. stray \in BOOLEAN
    BY TypeParts
  <1>1. CASE Begin \/ CommitRename \/ \E w \in Writers : BeginUpsert(w)
    BY <1>0, <1>1 DEF Begin, CommitRename, BeginUpsert
  <1>2. CASE UNCHANGED stray
    BY <1>0, <1>2
  <1> QED
    BY <1>1, <1>2
    DEF Next, history, RenameStep, UpsertStep, RefuseIdentical, Check, Refuse, UniqueViolation,
        RenameFails, GiveUp, Scan, Pick, LockOld, PutNew, ListTracked, BeginUpsert, UpsertRow,
        CommitUpsert, UpsertFails, Resolve, ReadMembers

\* Every step keeps the types.
LEMMA TypeStep ==
    ASSUME IInv, Next PROVE TypeOK' /\ LockInv'
  <1>1. TypeOK' <=> /\ RowsType' /\ PendType' /\ RenameType' /\ WriterType' /\ CleanType'
                    /\ stray' \in BOOLEAN
    BY DEF TypeOK, RowsType, PendType, RenameType, WriterType, CleanType
  <1> QED BY <1>1, RenameTypeStep, WriterTypeStep, TableStep, StrayStep DEF IInv, TableInv

-----------------------------------------------------------------------------
\* The rename while others write: its cells are locked, so they keep their rows, and
\* what appears beside them is recorded as late.
LEMMA MovingBesideUpserts ==
    ASSUME IInv, stage = "moving", UNCHANGED <<pair, table, todo, cur>>,
           \A c \in Cells : pend'[Rename][c] = pend[Rename][c],
           \A c \in Touched(Rename) : rows'[c] = rows[c],
           \A c \in Cells : rows'[c] = rows[c] \/ (rows'[c] # NoRow /\ c \in late'),
           late \subseteq late'
    PROVE  HalvesInv' /\ ScanInv'
  <1>1. HalvesInv /\ ScanInv /\ todo \subseteq Cells /\ cur \in Cells \cup {NoCell}
    BY DEF IInv, RenameInv, TypeOK
  <1>2. Touched(Rename)' = Touched(Rename) /\ Old' = Old /\ New' = New
    BY DEF Touched, Old, New
  <1>3. HalvesInv'
    <2> SUFFICES ASSUME NEW c \in Touched(Rename)
                 PROVE  /\ \E i \in DOMAIN Tables : i < table /\ c[1] = Tables[i]
                        /\ \/ /\ c[3] = Old /\ pend[Rename][c] = NoRow
                              /\ c # cur => As(c, New) \in Touched(Rename)
                           \/ /\ c[3] = New /\ rows'[c] = NoRow
                              /\ As(c, Old) \in Touched(Rename)
                              /\ pend[Rename][c] = rows'[As(c, Old)]
      BY <1>2 DEF HalvesInv, Touched
    <2> QED BY <1>1 DEF HalvesInv
  <1>4. \A c \in Cells : Present(c) => rows'[c] # NoRow
    BY DEF Present
  <1>5. \A c \in Cells : rows'[c] # NoRow => Present(c) \/ c \in late'
    BY DEF Present
  <1>6. ScanInv'
    <2>1. \A c \in todo \cup ({cur} \ {NoCell}) : /\ c[3] = Old /\ rows'[c] # NoRow
                                                  /\ \E i \in DOMAIN Tables : i < table /\ c[1] = Tables[i]
      BY <1>1, <1>4 DEF ScanInv
    <2>2. \A c \in todo : c \notin Touched(Rename) /\ c # cur
      BY <1>1 DEF ScanInv
    <2>3. ASSUME NEW i \in DOMAIN Tables, i < table, NEW c \in Of(i, Old), rows'[c] # NoRow
          PROVE  c \in Touched(Rename) \cup todo \cup {cur} \cup late'
      <3>1. c \in Cells
        BY DEF Of
      <3> QED BY <1>1, <1>5, <2>3, <3>1 DEF ScanInv
    <2>4. \A i \in DOMAIN Tables : Of(i, Old)' = Of(i, Old)
      BY <1>2 DEF Of
    <2> QED BY <1>2, <2>1, <2>2, <2>3, <2>4 DEF ScanInv, Present
  <1> QED BY <1>3, <1>6

\* The statements of the rename.
LEMMA ScanStep ==
    ASSUME IInv, Scan PROVE HalvesInv' /\ ScanInv'
  <1>1. HalvesInv /\ ScanInv /\ RenameType
    BY TypeParts DEF IInv, RenameInv, Scan
  <1>2. /\ Touched(Rename)' = Touched(Rename) /\ UNCHANGED <<rows, pend, pair, cur, late>>
        /\ table \in DOMAIN Tables /\ table' = table + 1 /\ cur = NoCell /\ todo = {}
        /\ todo' = {c \in Of(table, Old) : Present(c)}
    BY <1>1, TablesDiffer DEF Scan, RenameType, history, Touched
  <1>3. \A i \in DOMAIN Tables : (i < table' <=> i < table \/ i = table)
    BY <1>2, TablesDiffer
  <1>4. Old' = Old /\ New' = New /\ \A i \in DOMAIN Tables : Of(i, Old)' = Of(i, Old)
    BY <1>2 DEF Old, New, Of
  <1>5. HalvesInv'
    <2>1. \A c \in Touched(Rename) :
            /\ \E i \in DOMAIN Tables : i < table' /\ c[1] = Tables[i]
            /\ \/ /\ c[3] = Old /\ pend[Rename][c] = NoRow
                  /\ c # cur => As(c, New) \in Touched(Rename)
               \/ /\ c[3] = New /\ rows[c] = NoRow
                  /\ As(c, Old) \in Touched(Rename) /\ pend[Rename][c] = rows[As(c, Old)]
      BY <1>1, <1>3 DEF HalvesInv
    <2> QED BY <1>2, <1>4, <2>1 DEF HalvesInv
  <1>6. \A c \in Touched(Rename) : c \notin Of(table, Old)
    BY <1>1, <1>2, TablesDiffer DEF HalvesInv, Of
  <1>7. \A c \in todo' : /\ c[3] = Old /\ Present(c) /\ c \notin Touched(Rename) /\ c \in Cells
                         /\ \E i \in DOMAIN Tables : i < table' /\ c[1] = Tables[i]
    BY <1>2, <1>3, <1>6 DEF Of
  <1>8. ASSUME NEW i \in DOMAIN Tables, i < table', NEW c \in Of(i, Old), Present(c)
        PROVE  c \in Touched(Rename) \cup todo' \cup {cur} \cup late
    <2>1. CASE i < table
      BY <1>1, <1>2, <1>8, <2>1 DEF ScanInv
    <2>2. CASE i = table
      BY <1>2, <1>8, <2>2
    <2> QED BY <1>3, <1>8, <2>1, <2>2
  <1>9. \A c \in todo' : c # cur
    BY <1>2, <1>7, SymbolAssumption
  <1>10. ScanInv'
    BY <1>2, <1>4, <1>7, <1>8, <1>9 DEF ScanInv, Present
  <1> QED BY <1>5, <1>10

\* Taking up the next row of an UPDATE keeps the halves of its moves together.
LEMMA PickStep ==
    ASSUME IInv, Pick PROVE HalvesInv' /\ ScanInv'
  <1>1. HalvesInv /\ ScanInv /\ RenameType
    BY TypeParts DEF IInv, RenameInv, Pick
  <1>2. PICK x \in todo : cur' = x /\ todo' = todo \ {x}
    BY DEF Pick
  <1>3. /\ cur = NoCell /\ UNCHANGED <<rows, pend, pair, table, late>>
        /\ Touched(Rename)' = Touched(Rename)
    BY DEF Pick, history, Touched
  <1>4. Old' = Old /\ New' = New /\ \A i \in DOMAIN Tables : Of(i, Old)' = Of(i, Old)
    BY <1>3 DEF Old, New, Of
  <1>5. \A c \in Touched(Rename) : c \in Cells
    BY DEF Touched
  <1>6. NoCell \notin Cells
    BY SymbolAssumption
  <1>7. HalvesInv'
    BY <1>1, <1>3, <1>4, <1>5, <1>6 DEF HalvesInv
  <1>8. todo' \cup ({cur'} \ {NoCell}) \subseteq todo
    BY <1>2
  <1>9. ASSUME NEW i \in DOMAIN Tables, i < table, NEW c \in Of(i, Old), Present(c)
        PROVE  c \in Touched(Rename) \cup todo' \cup {cur'} \cup late
    <2>1. c \in Cells
      BY DEF Of
    <2> QED BY <1>1, <1>2, <1>3, <1>6, <1>9, <2>1 DEF ScanInv
  <1>10. ScanInv'
    BY <1>1, <1>2, <1>3, <1>4, <1>8, <1>9 DEF ScanInv, Present
  <1> QED BY <1>7, <1>10

\* So does writing the old version of that row.
LEMMA LockOldStep ==
    ASSUME IInv, LockOld PROVE HalvesInv' /\ ScanInv'
  <1>1. HalvesInv /\ ScanInv /\ RenameType /\ PendType
    BY TypeParts DEF IInv, RenameInv, LockOld
  <1>2. /\ cur \in Cells /\ cur \notin Touched(Rename) /\ cur # NoCell
        /\ UNCHANGED <<rows, pair, table, todo, cur, late>>
    BY <1>1 DEF LockOld, renaming, history, RenameType, Touched
  <1>3. /\ Touched(Rename)' = Touched(Rename) \cup {cur} /\ pend'[Rename][cur] = NoRow
        /\ \A c \in Touched(Rename) : pend'[Rename][c] = pend[Rename][c]
    <2>1. NoRow \in Values \cup {NoRow} /\ Write(Rename, cur, NoRow)
      BY DEF LockOld
    <2> QED BY <1>1, <1>2, <2>1, WriteEffect, TransactionType DEF Touched
  <1>4. Old' = Old /\ New' = New /\ \A i \in DOMAIN Tables : Of(i, Old)' = Of(i, Old)
    BY <1>2 DEF Old, New, Of
  <1>5. /\ cur[3] = Old
        /\ \E i \in DOMAIN Tables : i < table /\ cur[1] = Tables[i]
    BY <1>1, <1>2 DEF ScanInv
  <1>6. HalvesInv'
    <2>1. \A c \in Touched(Rename) \cup {cur} :
            /\ \E i \in DOMAIN Tables : i < table /\ c[1] = Tables[i]
            /\ \/ /\ c[3] = Old /\ pend'[Rename][c] = NoRow
                  /\ c # cur => As(c, New) \in Touched(Rename) \cup {cur}
               \/ /\ c[3] = New /\ rows[c] = NoRow
                  /\ As(c, Old) \in Touched(Rename) \cup {cur}
                  /\ pend'[Rename][c] = rows[As(c, Old)]
      BY <1>1, <1>3, <1>5 DEF HalvesInv
    <2> QED BY <1>2, <1>3, <1>4, <2>1 DEF HalvesInv
  <1>7. ScanInv'
    <2>1. \A c \in todo : c \notin Touched(Rename) \cup {cur}
      BY <1>1 DEF ScanInv
    <2> QED BY <1>1, <1>2, <1>3, <1>4, <2>1 DEF ScanInv, Present
  <1> QED BY <1>6, <1>7

\* So does writing its new key, which was free and gets what the old one holds.
LEMMA PutNewStep ==
    ASSUME IInv, PutNew PROVE HalvesInv' /\ ScanInv'
  <1>1. HalvesInv /\ ScanInv /\ RenameType /\ PendType /\ RowsType
    BY TypeParts DEF IInv, RenameInv, PutNew
  <1> DEFINE n == As(cur, New)
  <1>2. /\ cur \in Cells /\ cur \in Touched(Rename) /\ cur' = NoCell /\ rows[n] = NoRow
        /\ UNCHANGED <<rows, pair, table, todo, late>>
    BY <1>1 DEF PutNew, history, RenameType, Touched, Present
  <1>3. Old \in Symbols /\ New \in Symbols /\ Old # New
    BY PairType DEF IInv, RenameInv, PutNew
  <1>4. /\ cur[3] = Old /\ cur # NoCell
        /\ \E i \in DOMAIN Tables : i < table /\ cur[1] = Tables[i]
    BY <1>1, <1>2, SymbolAssumption DEF ScanInv
  <1>5. /\ n \in Cells /\ n[1] = cur[1] /\ n[3] = New /\ As(n, Old) = cur
    BY <1>2, <1>3, <1>4, CellType
  <1>6. n # cur
    BY <1>3, <1>4, <1>5
  <1>7. pend[Rename][cur] = NoRow
    BY <1>1, <1>2, <1>3, <1>4 DEF HalvesInv
  <1> HIDE DEF n
  <1>8. /\ Touched(Rename)' = Touched(Rename) \cup {n} /\ pend'[Rename][n] = rows[cur]
        /\ \A c \in Cells : c # n => pend'[Rename][c] = pend[Rename][c]
    <2>1. rows[cur] \in Values \cup {NoRow} /\ Write(Rename, n, rows[cur])
      BY <1>1, <1>2 DEF PutNew, RowsType, n
    <2> QED BY <1>1, <1>5, <2>1, WriteEffect, TransactionType
  <1>9. Old' = Old /\ New' = New /\ \A i \in DOMAIN Tables : Of(i, Old)' = Of(i, Old)
    BY <1>2 DEF Old, New, Of
  <1>10. ASSUME NEW c \in Touched(Rename) \cup {n}
         PROVE  /\ \E i \in DOMAIN Tables : i < table /\ c[1] = Tables[i]
                /\ \/ /\ c[3] = Old /\ pend'[Rename][c] = NoRow
                      /\ As(c, New) \in Touched(Rename) \cup {n}
                   \/ /\ c[3] = New /\ rows[c] = NoRow
                      /\ As(c, Old) \in Touched(Rename) \cup {n}
                      /\ pend'[Rename][c] = rows[As(c, Old)]
    <2>1. CASE c = n
      BY <1>2, <1>4, <1>5, <1>8, <2>1
    <2>2. CASE c = cur
      BY <1>2, <1>4, <1>6, <1>7, <1>8, <2>2 DEF n
    <2>3. CASE c # n /\ c # cur
      <3>1. c \in Touched(Rename) /\ pend'[Rename][c] = pend[Rename][c]
        BY <1>8, <2>3 DEF Touched
      <3> QED BY <1>1, <2>3, <3>1 DEF HalvesInv
    <2> QED BY <2>1, <2>2, <2>3
  <1>11. HalvesInv'
    BY <1>2, <1>8, <1>9, <1>10 DEF HalvesInv
  <1>12. ScanInv'
    <2>1. \A c \in todo : c \notin Touched(Rename) \cup {n} /\ c # cur'
      BY <1>1, <1>2, <1>3, <1>5, SymbolAssumption DEF ScanInv, RenameType
    <2>2. ASSUME NEW i \in DOMAIN Tables, i < table, NEW c \in Of(i, Old), Present(c)
          PROVE  c \in Touched(Rename) \cup todo \cup late
      BY <1>1, <1>2, <2>2 DEF ScanInv
    <2>3. \A c \in todo : /\ c[3] = Old /\ Present(c)
                          /\ \E i \in DOMAIN Tables : i < table /\ c[1] = Tables[i]
      BY <1>1 DEF ScanInv
    <2> QED BY <1>2, <1>8, <1>9, <2>1, <2>2, <2>3 DEF ScanInv, Present
  <1> QED BY <1>11, <1>12

\* The first UPDATE has not begun.
LEMMA MovingBegins ==
    ASSUME Touched(Rename)' = {}, todo' = {}, cur' = NoCell, table' = 1 PROVE HalvesInv' /\ ScanInv'
  BY TablesDiffer DEF HalvesInv, ScanInv

\* An upsert commits to cells that are its own: those of the rename keep their rows.
LEMMA UpsertBeside ==
    ASSUME IInv, NEW w \in Writers, CommitUpsert(w), stage # "idle"
    PROVE  /\ \A c \in Touched(Rename) : rows'[c] = rows[c]
           /\ \A c \in Cells : rows'[c] = rows[c] \/ (rows'[c] # NoRow /\ c \in late')
           /\ late \subseteq late' /\ pend'[Rename] = pend[Rename]
  <1>1. PendType /\ RowsType /\ LockInv
    BY TypeParts DEF IInv
  <1>2. /\ pend'[Rename] = pend[Rename]
        /\ \A c \in Touched(w) : rows'[c] = pend[w][c]
        /\ \A c \in Cells \ Touched(w) : rows'[c] = rows[c]
    BY <1>1, CommitEffect, TransactionType DEF CommitUpsert
  <1>3. late' = late \cup Touched(w)
    BY DEF CommitUpsert, Touched
  <1>4. Touched(Rename) \subseteq Cells \ Touched(w)
    BY <1>1, TransactionType DEF LockInv, Touched
  <1>5. \A c \in Touched(w) : pend[w][c] # NoRow
    BY <1>1 DEF LockInv, Touched
  <1> QED BY <1>2, <1>3, <1>4, <1>5

\* Every step keeps what the rename has written whole.
LEMMA RenameInvStep ==
    ASSUME IInv, Next PROVE RenameInv'
  <1>0. RenameType /\ RenameInv /\ PendType /\ RowsType /\ CleanType
    BY TypeParts DEF IInv
  <1>1. CASE stage' = "idle"
    BY <1>1 DEF RenameInv
  <1>2. CASE Begin
    <2>1. pair'[1] # pair'[2] /\ outcome' = "none" /\ stage' = "checking" /\ stage = "idle"
          /\ UNCHANGED <<pend, todo, cur>>
      BY <1>2 DEF Begin
    <2>2. Touched(Rename)' = {} /\ todo' = {} /\ cur' = NoCell
      BY <1>0, <2>1, CleanTouched DEF CleanType, RenameType, Touched
    <2> QED BY <2>1, <2>2 DEF RenameInv, Old, New
  <1>3. CASE Check
    <2>1. /\ stage = "checking" /\ UNCHANGED <<pend, pair, todo, cur, outcome>>
          /\ stage' = "checking" \/ (stage' = "moving" /\ table' = 1)
      BY <1>3 DEF Check
    <2>2. Touched(Rename)' = {} /\ todo' = {} /\ cur' = NoCell /\ Old' # New' /\ outcome' = "none"
      BY <1>0, <2>1 DEF RenameInv, Touched, Old, New
    <2> QED BY <2>1, <2>2, MovingBegins DEF RenameInv
  <1>4. CASE Scan \/ Pick \/ LockOld \/ PutNew
    <2>1. stage = "moving" /\ UNCHANGED <<stage, pair, outcome>>
      BY <1>4 DEF Scan, Pick, LockOld, PutNew, renaming
    <2>2. Old' # New' /\ outcome' = "none"
      BY <1>0, <2>1 DEF RenameInv, Old, New
    <2>3. HalvesInv' /\ ScanInv'
      BY <1>4, ScanStep, PickStep, LockOldStep, PutNewStep
    <2> QED BY <2>1, <2>2, <2>3 DEF RenameInv
  <1>5. ASSUME UNCHANGED renaming, stage # "idle",
               \A c \in Cells : pend'[Rename][c] = pend[Rename][c],
               \A c \in Touched(Rename) : rows'[c] = rows[c],
               \A c \in Cells : rows'[c] = rows[c] \/ (rows'[c] # NoRow /\ c \in late'),
               late \subseteq late'
        PROVE  RenameInv'
    <2>1. UNCHANGED <<stage, pair, table, todo, cur, outcome>>
      BY <1>5 DEF renaming
    <2>2. Touched(Rename)' = Touched(Rename) /\ Old' = Old /\ New' = New
      BY <1>5, <2>1 DEF Touched, Old, New
    <2>3. CASE stage = "checking"
      BY <1>0, <2>1, <2>2, <2>3 DEF RenameInv
    <2>4. CASE stage = "moving"
      <3>1. HalvesInv' /\ ScanInv'
        BY <1>5, <2>1, <2>4, MovingBesideUpserts
      <3> QED BY <1>0, <2>1, <2>2, <2>4, <3>1 DEF RenameInv
    <2> QED BY <1>0, <1>5, <2>3, <2>4 DEF RenameType
  <1>6. ASSUME NEW w \in Writers, CommitUpsert(w), stage # "idle" PROVE RenameInv'
    BY <1>5, <1>6, UpsertBeside DEF CommitUpsert
  <1>7. ASSUME NEW w \in Writers, UpsertRow(w), stage # "idle" PROVE RenameInv'
    <2>1. /\ Head(batch[w]) \in Cells /\ w \in Values \cup {NoRow} /\ Write(w, Head(batch[w]), w)
          /\ UNCHANGED <<rows, renaming, history>>
      BY <1>7, NextRowType DEF UpsertRow, IInv, Values
    <2>2. \A c \in Cells : pend'[Rename][c] = pend[Rename][c]
      BY <1>0, <2>1, WriteEffect, TransactionType
    <2> QED BY <1>5, <1>7, <2>1, <2>2 DEF history
  <1>8. ASSUME NEW w \in Writers, UpsertFails(w), stage # "idle" PROVE RenameInv'
    <2>1. pend' = [pend EXCEPT ![w] = Clean] /\ UNCHANGED <<rows, renaming, history>>
      BY <1>8 DEF UpsertFails, Rollback
    <2>2. \A c \in Cells : pend'[Rename][c] = pend[Rename][c]
      BY <1>0, <2>1, RollbackEffect, TransactionType
    <2> QED BY <1>5, <1>8, <2>1, <2>2 DEF history
  <1>9. CASE UNCHANGED <<rows, pend, renaming, late>> /\ stage # "idle"
    BY <1>5, <1>9
  <1>10. stage' # "idle" => stage # "idle" \/ Begin
    BY DEF Next, renaming, RenameStep, UpsertStep, RefuseIdentical, Check, Refuse, UniqueViolation,
        RenameFails, GiveUp, Scan, Pick, LockOld, PutNew, CommitRename, ListTracked, BeginUpsert,
        UpsertRow, CommitUpsert, UpsertFails, Resolve, ReadMembers
  <1>11. RefuseIdentical \/ Refuse \/ UniqueViolation \/ RenameFails \/ CommitRename => stage' = "idle"
    BY DEF RefuseIdentical, Refuse, UniqueViolation, RenameFails, GiveUp, CommitRename
  <1>12. ASSUME NEW w \in Writers, ListTracked(w) \/ BeginUpsert(w)
         PROVE  UNCHANGED <<rows, pend, renaming, late>>
    BY <1>12 DEF ListTracked, BeginUpsert, history
  <1>13. ASSUME NEW r \in Readers, NEW a, ReadMembers(r) \/ Resolve(r, a)
         PROVE  UNCHANGED <<rows, pend, renaming, late>>
    BY <1>13 DEF ReadMembers, Resolve, history
  <1> QED
    BY <1>1, <1>2, <1>3, <1>4, <1>6, <1>7, <1>8, <1>9, <1>10, <1>11, <1>12, <1>13
    DEF Next, RenameStep, UpsertStep

-----------------------------------------------------------------------------
\* The commit of a rename moves whole: this is what the invariant is for.
LEMMA CommitMoves ==
    ASSUME IInv, CommitRename, NEW c \in Cells, Present(c)
    PROVE  /\ c[3] # Old => rows'[c] = rows[c]
           /\ c[3] = Old => IF Vanishes(c)
                            THEN rows[As(c, New)] = NoRow /\ rows'[As(c, New)] = rows[c]
                            ELSE c \in late
  <1>1. HalvesInv /\ ScanInv /\ RenameType /\ PendType /\ RowsType /\ Old # New
    BY TypeParts DEF IInv, RenameInv, CommitRename
  <1>2. /\ todo = {} /\ cur = NoCell /\ \A i \in DOMAIN Tables : i < table
    BY <1>1, TablesDiffer DEF CommitRename, RenameType
  <1>3. /\ \A d \in Touched(Rename) : rows'[d] = pend[Rename][d]
        /\ \A d \in Cells \ Touched(Rename) : rows'[d] = rows[d]
    BY <1>1, CommitEffect, TransactionType DEF CommitRename
  <1>4. Old \in Symbols /\ New \in Symbols /\ NoCell \notin Cells
    BY PairType, SymbolAssumption DEF IInv
  <1>5. CASE c[3] # Old
    BY <1>1, <1>3, <1>5 DEF HalvesInv, Present
  <1>6. CASE c[3] = Old /\ c \in Touched(Rename)
    <2> DEFINE n == As(c, New)
    <2>1. n \in Cells /\ n[3] = New /\ As(n, Old) = c
      BY <1>4, <1>6, CellType
    <2>2. n \in Touched(Rename) /\ pend[Rename][c] = NoRow
      BY <1>1, <1>2, <1>4, <1>6 DEF HalvesInv
    <2>3. rows[n] = NoRow /\ pend[Rename][n] = rows[c]
      BY <1>1, <2>1, <2>2 DEF HalvesInv
    <2> QED BY <1>3, <1>6, <2>2, <2>3 DEF Vanishes
  <1>7. CASE c[3] = Old /\ c \notin Touched(Rename)
    <2>1. ~Vanishes(c)
      BY <1>3, <1>7 DEF Vanishes, Present
    <2>2. PICK i \in DOMAIN Tables : c[1] = Tables[i]
      BY <1>4, CellType
    <2>3. c \in Of(i, Old)
      BY <1>7, <2>2 DEF Of
    <2>4. c \in late
      BY <1>1, <1>2, <1>4, <1>7, <2>3 DEF ScanInv
    <2> QED BY <1>7, <2>1, <2>4
  <1> QED BY <1>5, <1>6, <1>7

\* No other step takes a row away.
LEMMA NothingElseVanishes ==
    ASSUME IInv, [Next]_vars, ~CommitRename, NEW c \in Cells PROVE ~Vanishes(c)
  <1>0. PendType /\ RowsType /\ LockInv
    BY TypeParts DEF IInv
  <1>1. ASSUME NEW w \in Writers, CommitUpsert(w) PROVE ~Vanishes(c)
    <2>1. rows'[c] = IF c \in Touched(w) THEN pend[w][c] ELSE rows[c]
      BY <1>0, <1>1, CommitEffect, TransactionType DEF CommitUpsert
    <2> QED BY <1>0, <2>1 DEF Vanishes, Present, LockInv
  <1>2. CASE UNCHANGED rows
    BY <1>2 DEF Vanishes, Present
  <1> QED
    BY <1>1, <1>2
    DEF Next, vars, RenameStep, UpsertStep, RefuseIdentical, Begin, Check, Refuse,
        UniqueViolation, RenameFails, GiveUp, Rollback, Scan, Pick, LockOld, PutNew, ListTracked,
        BeginUpsert, UpsertRow, UpsertFails, Resolve, ReadMembers

-----------------------------------------------------------------------------
\* A success with no upsert under way leaves no bar of the old ticker.
LEMMA CommitDrops ==
    ASSUME IInv, CommitRename PROVE DropInv'
  <1> SUFFICES ASSUME ~stray' PROVE /\ Old \notin Tracked'
                                      /\ \A w \in Writers : wstage'[w] \notin {"listed", "writing"}
    BY DEF CommitRename, DropInv, Old
  <1>1. late = {} /\ UNCHANGED <<pair, wstage>>
        /\ \A w \in Writers : wstage[w] \notin {"listed", "writing"}
    BY DEF CommitRename, writing
  <1>2. \A c \in Of(1, Old) : rows'[c] = NoRow
    <2> TAKE c \in Of(1, Old)
    <2>1. c \in Cells /\ c[3] = Old
      BY DEF Of
    <2>2. CASE Present(c)
      BY <1>1, <2>1, <2>2, CommitMoves DEF Vanishes
    <2>3. CASE ~Present(c)
      <3>1. HalvesInv /\ PendType /\ RowsType /\ Old # New
        BY TypeParts DEF IInv, RenameInv, CommitRename
      <3>2. rows'[c] = IF c \in Touched(Rename) THEN pend[Rename][c] ELSE rows[c]
        BY <2>1, <3>1, CommitEffect, TransactionType DEF CommitRename
      <3> QED BY <2>1, <2>3, <3>1, <3>2 DEF HalvesInv, Present
    <2> QED BY <2>2, <2>3
  <1>3. Old \notin Tracked'
    BY <1>2 DEF Tracked, Of, Present
  <1> QED BY <1>1, <1>3

\* Every step keeps the dead ticker out of what others are about to write.
LEMMA DropStep ==
    ASSUME IInv, Next PROVE DropInv'
  <1>0. PendType /\ RowsType /\ WriterType /\ CleanType
    BY TypeParts DEF IInv
  <1>1. CASE CommitRename
    BY <1>1, CommitDrops
  <1>2. CASE outcome' # "done"
    BY <1>2 DEF DropInv
  <1>3. CASE outcome = "done" /\ ~stray /\ UNCHANGED <<outcome, stray, pair>>
    <2>0. /\ Old' = Old /\ \A i \in DOMAIN Tables : Of(i, Old)' = Of(i, Old)
          /\ Old \notin Tracked /\ Of(1, Old)' = Of(1, Old)
          /\ \A w \in Writers :
               /\ wstage[w] = "listed" => Old \notin listed[w]
               /\ wstage[w] = "writing" => /\ \A i \in DOMAIN batch[w] : batch[w][i] \notin Of(1, Old)
                                           /\ Touched(w) \cap Of(1, Old) = {}
      BY <1>3 DEF IInv, DropInv, Old, Of
    <2> DEFINE Mine(w) == /\ wstage'[w] = "listed" => Old \notin listed'[w]
                          /\ wstage'[w] = "writing" =>
                               /\ \A i \in DOMAIN batch'[w] : batch'[w][i] \notin Of(1, Old)
                               /\ Touched(w)' \cap Of(1, Old) = {}
    <2>1. ASSUME NEW w \in Writers, ListTracked(w) PROVE DropInv'
      <3>1. UNCHANGED <<rows, pend, batch>> /\ wstage' = [wstage EXCEPT ![w] = "listed"]
            /\ listed' = [listed EXCEPT ![w] = Tracked]
        BY <2>1 DEF ListTracked
      <3>2. Tracked' = Tracked /\ \A u \in Writers : Touched(u)' = Touched(u)
        BY <3>1 DEF Tracked, Of, Present, Touched
      <3>3. \A u \in Writers : Mine(u)
        BY <1>0, <2>0, <3>1, <3>2 DEF WriterType
      <3> QED BY <2>0, <3>2, <3>3 DEF DropInv
    <2>2. ASSUME NEW w \in Writers, BeginUpsert(w) PROVE DropInv'
      <3>1. PICK b \in Batches[w] :
              /\ wstage[w] = "listed" => \A i \in DOMAIN b : b[i][1] = "ohlcv" => b[i][3] \in listed[w]
              /\ stray' = (stray \/ (wstage[w] = "idle" /\ \E i \in DOMAIN b : b[i] \in Of(1, Old)))
              /\ batch' = [batch EXCEPT ![w] = b]
              /\ wstage' = [wstage EXCEPT ![w] = IF b = <<>> THEN "done" ELSE "writing"]
              /\ listed' = [listed EXCEPT ![w] = {}]
        BY <2>2 DEF BeginUpsert
      <3>2. wstage[w] \in {"idle", "listed"} /\ UNCHANGED <<rows, pend>>
        BY <2>2 DEF BeginUpsert
      <3>3. Tracked' = Tracked /\ \A u \in Writers : Touched(u)' = Touched(u)
        BY <3>2 DEF Tracked, Of, Present, Touched
      <3>4. \A i \in DOMAIN b : b[i] \notin Of(1, Old)
        <4>1. CASE wstage[w] = "listed"
          BY <2>0, <3>1, <4>1 DEF Of, Tables
        <4>2. CASE wstage[w] = "idle"
          <5> SUFFICES ASSUME NEW i \in DOMAIN b, b[i] \in Of(1, Old) PROVE FALSE
            OBVIOUS
          <5>1. stray'
            BY <3>1, <4>2, Zenon
          <5> QED BY <1>3, <5>1
        <4> QED BY <3>2, <4>1, <4>2
      <3>5. Touched(w) = {}
        BY <1>0, <3>2, CleanTouched DEF CleanType
      <3>6. \A u \in Writers : Mine(u)
        BY <1>0, <2>0, <3>1, <3>3, <3>4, <3>5 DEF WriterType
      <3> QED BY <2>0, <3>3, <3>6 DEF DropInv
    <2>3. ASSUME NEW w \in Writers, UpsertRow(w) PROVE DropInv'
      <3>1. /\ wstage[w] = "writing" /\ batch[w] # <<>> /\ UNCHANGED <<rows, wstage, listed>>
            /\ batch' = [batch EXCEPT ![w] = Tail(@)]
            /\ Write(w, Head(batch[w]), w)
        BY <2>3 DEF UpsertRow
      <3>2. Head(batch[w]) \in Cells /\ w \in Values \cup {NoRow} /\ batch[w] \in Seq(Cells)
        BY <1>0, <3>1, NextRowType DEF IInv, Values, WriterType
      <3>3. /\ Touched(w)' = Touched(w) \cup {Head(batch[w])}
            /\ \A u \in Writers \ {w} : Touched(u)' = Touched(u)
        BY <1>0, <3>1, <3>2, WriteEffect, TransactionType
      <3>4. Head(batch[w]) \notin Of(1, Old)
        BY <2>0, <3>1, <3>2
      <3>5. \A i \in DOMAIN Tail(batch[w]) : Tail(batch[w])[i] \notin Of(1, Old)
        <4>1. \A i \in DOMAIN Tail(batch[w]) : i + 1 \in DOMAIN batch[w] /\ Tail(batch[w])[i] = batch[w][i + 1]
          BY <3>1, <3>2
        <4> QED BY <2>0, <3>1, <4>1
      <3>6. Tracked' = Tracked
        BY <3>1 DEF Tracked, Of, Present
      <3>7. \A u \in Writers : Mine(u)
        BY <1>0, <2>0, <3>1, <3>3, <3>4, <3>5 DEF WriterType
      <3> QED BY <2>0, <3>6, <3>7 DEF DropInv
    <2>4. ASSUME NEW w \in Writers, CommitUpsert(w) PROVE DropInv'
      <3>1. /\ wstage[w] = "writing" /\ UNCHANGED <<listed, batch>> /\ Commit(w)
            /\ wstage' = [wstage EXCEPT ![w] = "done"]
        BY <2>4 DEF CommitUpsert
      <3>2. /\ \A u \in Writers \ {w} : Touched(u)' = Touched(u)
            /\ \A c \in Cells \ Touched(w) : rows'[c] = rows[c]
        BY <1>0, <3>1, CommitEffect, TransactionType
      <3>3. \A c \in Of(1, Old) : rows'[c] = rows[c]
        BY <2>0, <3>1, <3>2 DEF Of
      <3>4. Old \notin Tracked'
        BY <2>0, <3>3 DEF Tracked, Of, Present
      <3>5. \A u \in Writers : Mine(u)
        BY <1>0, <2>0, <3>1, <3>2 DEF WriterType
      <3> QED BY <2>0, <3>4, <3>5 DEF DropInv
    <2>5. ASSUME NEW w \in Writers, UpsertFails(w) PROVE DropInv'
      <3>1. /\ UNCHANGED <<rows, listed>> /\ pend' = [pend EXCEPT ![w] = Clean]
            /\ wstage' = [wstage EXCEPT ![w] = "failed"] /\ batch' = [batch EXCEPT ![w] = <<>>]
        BY <2>5 DEF UpsertFails, Rollback
      <3>2. /\ \A u \in Writers \ {w} : Touched(u)' = Touched(u)
            /\ Tracked' = Tracked
        BY <1>0, <3>1, RollbackEffect, TransactionType DEF Tracked, Of, Present
      <3>3. \A u \in Writers : Mine(u)
        BY <1>0, <2>0, <3>1, <3>2 DEF WriterType
      <3> QED BY <2>0, <3>2, <3>3 DEF DropInv
    <2>6. CASE UNCHANGED <<rows, pend, writing>>
      <3>1. UNCHANGED <<rows, pend, wstage, listed, batch>>
        BY <2>6 DEF writing
      <3>2. Tracked' = Tracked /\ \A u \in Writers : Touched(u)' = Touched(u)
        BY <3>1 DEF Tracked, Of, Present, Touched
      <3>3. \A u \in Writers : Mine(u)
        BY <2>0, <3>1, <3>2
      <3> QED BY <2>0, <3>2, <3>3 DEF DropInv
    <2>7. stage = "idle"
      BY <1>3 DEF IInv, RenameInv
    <2> QED
      BY <1>3, <2>1, <2>2, <2>3, <2>4, <2>5, <2>6, <2>7
      DEF Next, RenameStep, UpsertStep, RefuseIdentical, Begin, Check, Refuse, UniqueViolation,
          RenameFails, Scan, Pick, LockOld, PutNew, CommitRename, Resolve, ReadMembers
  <1>4. CASE UNCHANGED <<outcome, stray>> /\ (outcome # "done" \/ stray)
    BY <1>4 DEF DropInv
  <1>5. \/ CommitRename \/ (UNCHANGED <<outcome, pair>> /\ (stray' \/ UNCHANGED stray))
        \/ outcome' \in {"none", "refused", "failed"}
    <2>1. ASSUME NEW w \in Writers, BeginUpsert(w)
          PROVE  UNCHANGED <<outcome, pair>> /\ (stray' \/ UNCHANGED stray)
      <3>1. UNCHANGED <<outcome, pair>>
        BY <2>1 DEF BeginUpsert, renaming
      <3>2. stray \in BOOLEAN /\ stray' \in BOOLEAN
        BY StrayStep, TypeParts DEF IInv
      <3>3. stray => stray'
        BY <2>1, Zenon DEF BeginUpsert
      <3> QED BY <3>1, <3>2, <3>3
    <2> QED
      BY <2>1
      DEF Next, renaming, history, RenameStep, UpsertStep, RefuseIdentical, Begin, Check, Refuse,
          UniqueViolation, RenameFails, GiveUp, Scan, Pick, LockOld, PutNew, ListTracked,
          UpsertRow, CommitUpsert, UpsertFails, Resolve, ReadMembers
  <1>6. CASE stray'
    BY <1>6 DEF DropInv
  <1>7. stray \in BOOLEAN /\ stray' \in BOOLEAN
    BY StrayStep, TypeParts DEF IInv
  <1> QED BY <1>1, <1>2, <1>3, <1>4, <1>5, <1>6, <1>7

\* A stutter keeps the invariant.
LEMMA StutterInv ==
    ASSUME IInv, UNCHANGED vars PROVE IInv'
  BY DEF IInv, vars, renaming, writing, history, TypeOK, LockInv, RenameInv, HalvesInv, ScanInv,
         DropInv, Touched, Old, New, Of, Tracked, Present

\* Every step keeps the invariant.
LEMMA StepInv ==
    ASSUME IInv, [Next]_vars PROVE IInv'
  <1>1. CASE Next
    BY <1>1, TypeStep, RenameInvStep, DropStep DEF IInv
  <1> QED BY <1>1, StutterInv

\* The invariant holds throughout.
THEOREM Inductive == Spec => []IInv
  BY InitInv, StepInv, PTL DEF Spec

\* Every variable of the tables and their writers keeps its type, and who is in no
\* transaction holds no lock.
THEOREM TypeCorrect == Spec => []TypeOK
  <1>1. IInv => TypeOK
    BY DEF IInv
  <1> QED BY <1>1, Inductive, PTL

\* Rows leave a ticker all at once, whatever upserts commit between the statements.
THEOREM RenameMovesWhole == Spec => MovesWhole
  <1>1. ASSUME IInv, [Next]_vars, NEW d \in Cells, Vanishes(d)
        PROVE  \A c \in Cells : Present(c) =>
                 IF c[3] # Old THEN rows'[c] = rows[c]
                 ELSE IF Vanishes(c)
                 THEN rows[As(c, New)] = NoRow /\ rows'[As(c, New)] = rows[c]
                 ELSE c \in late
    BY <1>1, NothingElseVanishes, CommitMoves
  <1>2. IInv /\ [Next]_vars =>
          ((\E c \in Cells : Vanishes(c)) =>
             \A c \in Cells : Present(c) =>
               IF c[3] # Old THEN rows'[c] = rows[c]
               ELSE IF Vanishes(c)
               THEN rows[As(c, New)] = NoRow /\ rows'[As(c, New)] = rows[c]
               ELSE c \in late)
    BY <1>1
  <1> QED BY <1>2, Inductive, PTL DEF Spec, MovesWhole

\* A ticker renamed away is off the list of the refresh and stays off it.
THEOREM DeadTickerStaysOut == Spec => []DeadTickerDropsOut
  <1>1. IInv => DeadTickerDropsOut
    BY DEF IInv, DropInv, DeadTickerDropsOut
  <1> QED BY <1>1, Inductive, PTL

-----------------------------------------------------------------------------
\* The universe.

\* The dates of the universe, and the cell of a member.
SnapshotDates == Keys["universe_membership"]
Membership(d, s) == <<"universe_membership", d, s>>

\* What the transaction of a writer will have loaded of a snapshot.
Loading(w, d) == Securities(batch[w], d) \cup {s \in Symbols : Membership(d, s) \in Touched(w)}

\* Snapshots are whole, those to come are empty until their one load commits, and a
\* reader that has its date finds members.
UniverseInv ==
    /\ \A d \in SnapshotDates : Whole(Members(d))
    /\ \A w \in Writers, d \in SnapshotDates :
         /\ Loads(w, d) /\ wstage[w] # "done" => Members(d) = {}
         /\ wstage[w] = "writing" =>
              Whole(Loading(w, d)) /\ (Loading(w, d) # {} => Loads(w, d))

\* What a reader has resolved or read is a whole snapshot.
ReadersInv ==
    \A r \in Readers :
      /\ answer[r].stage = "dated" =>
           /\ answer[r].date \in SnapshotDates /\ answer[r].date <= answer[r].asOf
           /\ Members(answer[r].date) # {}
      /\ answer[r].stage = "done" /\ answer[r].date # 0 =>
           /\ answer[r].date <= answer[r].asOf
           /\ Cardinality(answer[r].members) = Constituents

\* The part of TypeOK about the readers.
AnswerType ==
    answer \in [Readers -> [stage : {"idle", "dated", "done"}, asOf : SnapshotDates \cup {0},
                           date : SnapshotDates \cup {0}, members : SUBSET Symbols]]

\* The cell of a member is a cell, of its ticker.
LEMMA MembershipCell ==
    ASSUME NEW d \in SnapshotDates, NEW s \in Symbols
    PROVE  /\ Membership(d, s) \in Cells /\ Membership(d, s)[3] = s
           /\ \A q \in Symbols : As(Membership(d, s), q) = Membership(d, q)
  <1>1. Tables[3] = "universe_membership" /\ 3 \in DOMAIN Tables
    BY DEF Tables
  <1>2. Membership(d, s) \in {<<Tables[3], k, x>> : k \in Keys[Tables[3]], x \in Symbols}
    BY <1>1 DEF Membership, SnapshotDates
  <1> QED BY <1>1, <1>2 DEF Cells, Membership, As

\* A rename puts one ticker in the place of the other, or leaves a snapshot alone.
LEMMA RenameMembers ==
    ASSUME IInv, CommitRename, NEW d \in SnapshotDates
    PROVE  \/ Members(d)' = Members(d)
           \/ /\ Old \in Members(d) /\ New \notin Members(d)
              /\ Members(d)' = (Members(d) \ {Old}) \cup {New}
  <1>1. HalvesInv /\ PendType /\ RowsType /\ Old # New
    BY TypeParts DEF IInv, RenameInv, CommitRename
  <1>2. Old \in Symbols /\ New \in Symbols /\ NoCell \notin Cells /\ cur = NoCell
    BY PairType, SymbolAssumption DEF IInv, CommitRename
  <1>3. \A s \in Symbols : rows'[Membership(d, s)] =
          IF Membership(d, s) \in Touched(Rename) THEN pend[Rename][Membership(d, s)]
          ELSE rows[Membership(d, s)]
    BY <1>1, CommitEffect, TransactionType, MembershipCell DEF CommitRename
  <1>4. \A s \in Symbols \ {Old, New} : Membership(d, s) \notin Touched(Rename)
    BY <1>1, MembershipCell DEF HalvesInv
  <1>5. /\ Members(d) = {s \in Symbols : rows[Membership(d, s)] # NoRow}
        /\ Members(d)' = {s \in Symbols : rows'[Membership(d, s)] # NoRow}
    BY DEF Members, Present, Membership
  <1>6. CASE Membership(d, Old) \notin Touched(Rename) /\ Membership(d, New) \notin Touched(Rename)
    BY <1>3, <1>4, <1>5, <1>6
  <1>7. CASE Membership(d, Old) \in Touched(Rename) \/ Membership(d, New) \in Touched(Rename)
    <2> DEFINE o == Membership(d, Old)
               n == Membership(d, New)
    <2>1. o \in Cells /\ n \in Cells /\ o[3] = Old /\ n[3] = New /\ As(o, New) = n /\ As(n, Old) = o
      BY <1>2, MembershipCell
    <2> HIDE DEF o, n
    <2>2. o \in Touched(Rename) /\ n \in Touched(Rename)
      BY <1>1, <1>2, <1>7, <2>1 DEF HalvesInv, o, n
    <2>3. pend[Rename][o] = NoRow /\ rows[n] = NoRow /\ pend[Rename][n] = rows[o]
      BY <1>1, <2>1, <2>2 DEF HalvesInv
    <2>4. rows'[o] = NoRow /\ rows'[n] = rows[o] /\ rows[n] = NoRow
      BY <1>2, <1>3, <2>2, <2>3 DEF o, n
    <2>5. \A s \in Symbols \ {Old, New} : rows'[Membership(d, s)] = rows[Membership(d, s)]
      BY <1>3, <1>4
    <2> QED BY <1>1, <1>2, <1>5, <2>4, <2>5 DEF o, n
  <1> QED BY <1>6, <1>7

\* A commit of the rename takes one ticker out of a snapshot and puts one in.
LEMMA RenameKeepsWhole ==
    ASSUME IInv, CommitRename, NEW d \in SnapshotDates, Whole(Members(d))
    PROVE  Whole(Members(d)') /\ (Members(d) = {} <=> Members(d)' = {})
  <1>1. CASE Members(d)' = Members(d)
    BY <1>1
  <1>2. CASE /\ Old \in Members(d) /\ New \notin Members(d)
             /\ Members(d)' = (Members(d) \ {Old}) \cup {New}
    <2>1. IsFiniteSet(Members(d)) /\ Cardinality(Members(d)) = Constituents
      BY <1>2 DEF Whole
    <2>2. /\ IsFiniteSet(Members(d) \ {Old})
          /\ Cardinality(Members(d) \ {Old}) = Constituents - 1
      BY <1>2, <2>1, FS_RemoveElement
    <2>3. /\ IsFiniteSet((Members(d) \ {Old}) \cup {New})
          /\ Cardinality((Members(d) \ {Old}) \cup {New}) = Constituents - 1 + 1
      BY <1>2, <2>2, FS_AddElement
    <2>4. Constituents \in Nat
      BY <2>1, FS_CardinalityType
    <2> QED BY <1>2, <2>3, <2>4 DEF Whole
  <1> QED BY <1>1, <1>2, RenameMembers

\* A load adds its snapshot to none.
LEMMA LoadMembers ==
    ASSUME IInv, UniverseInv, NEW w \in Writers, CommitUpsert(w), NEW d \in SnapshotDates
    PROVE  /\ Whole(Members(d)')
           /\ Members(d) # {} => Members(d)' # {}
           /\ ~Loads(w, d) => Members(d)' = Members(d)
  <1>1. PendType /\ RowsType /\ LockInv /\ wstage[w] = "writing" /\ batch[w] = <<>>
    BY TypeParts DEF IInv, CommitUpsert
  <1> DEFINE L == {s \in Symbols : Membership(d, s) \in Touched(w)}
  <1>2. Loading(w, d) = L
    BY <1>1 DEF Loading, Securities
  <1>3. \A s \in Symbols : rows'[Membership(d, s)] # NoRow <=>
          (rows[Membership(d, s)] # NoRow \/ s \in L)
    <2>1. \A s \in Symbols : rows'[Membership(d, s)] =
            IF Membership(d, s) \in Touched(w) THEN pend[w][Membership(d, s)]
            ELSE rows[Membership(d, s)]
      BY <1>1, CommitEffect, TransactionType, MembershipCell DEF CommitUpsert
    <2>2. \A s \in Symbols : pend[w][Membership(d, s)] # NoRow
      BY <1>1, MembershipCell DEF LockInv
    <2> QED BY <2>1, <2>2
  <1>4. Members(d)' = Members(d) \cup L
    BY <1>3 DEF Members, Present, Membership
  <1> HIDE DEF L
  <1>5. CASE L = {}
    BY <1>4, <1>5 DEF UniverseInv
  <1>6. CASE L # {}
    <2>1. Whole(L) /\ Loads(w, d)
      BY <1>1, <1>2, <1>6 DEF UniverseInv
    <2>2. Members(d) = {}
      BY <1>1, <2>1 DEF UniverseInv
    <2>3. Members(d)' = L
      BY <1>4, <2>2
    <2> QED BY <2>1, <2>2, <2>3
  <1> QED BY <1>5, <1>6

\* The row a writer inserts next was in its batch and is now locked.
LEMMA LoadingRow ==
    ASSUME IInv, NEW w \in Writers, UpsertRow(w), NEW d \in SnapshotDates
    PROVE  Loading(w, d)' = Loading(w, d)
  <1>1. /\ batch[w] # <<>> /\ batch[w] \in Seq(Cells) /\ batch'[w] = Tail(batch[w])
        /\ Write(w, Head(batch[w]), w) /\ PendType
    BY TypeParts DEF UpsertRow, IInv, TypeOK, PendType
  <1>2. Touched(w)' = Touched(w) \cup {Head(batch[w])}
    BY <1>1, NextRowType, WriteEffect, TransactionType DEF IInv, Values
  <1>3. \A c : (\E i \in DOMAIN batch[w] : batch[w][i] = c) <=>
              (c = Head(batch[w]) \/ \E i \in DOMAIN Tail(batch[w]) : Tail(batch[w])[i] = c)
    <2> TAKE c
    <2>1. /\ 1 \in DOMAIN batch[w] /\ batch[w][1] = Head(batch[w])
          /\ \A i \in DOMAIN Tail(batch[w]) : i + 1 \in DOMAIN batch[w] /\ Tail(batch[w])[i] = batch[w][i + 1]
      BY <1>1
    <2>2. \A i \in DOMAIN batch[w] : i # 1 =>
            i - 1 \in DOMAIN Tail(batch[w]) /\ Tail(batch[w])[i - 1] = batch[w][i]
      BY <1>1
    <2> QED BY <2>1, <2>2
  <1> QED BY <1>1, <1>2, <1>3 DEF Loading, Securities, Membership

\* A step that commits nothing keeps the universe, when a writer that is writing was so
\* before or has just taken one of its batches.
LEMMA UniverseKept ==
    ASSUME UniverseInv, UNCHANGED rows,
           \A w \in Writers : wstage[w] = "done" => wstage'[w] = "done",
           \A w \in Writers : wstage'[w] = "writing" =>
             \/ wstage[w] = "writing" /\ \A d \in SnapshotDates : Loading(w, d)' = Loading(w, d)
             \/ \E b \in Batches[w] : \A d \in SnapshotDates : Loading(w, d)' = Securities(b, d)
    PROVE  UniverseInv' /\ \A d \in SnapshotDates : Members(d)' = Members(d)
  <1>1. \A d \in SnapshotDates : Members(d)' = Members(d)
    BY DEF Members, Present
  <1>2. ASSUME NEW w \in Writers, NEW d \in SnapshotDates
        PROVE  /\ Loads(w, d) /\ wstage'[w] # "done" => Members(d)' = {}
               /\ wstage'[w] = "writing" =>
                    Whole(Loading(w, d)') /\ (Loading(w, d)' # {} => Loads(w, d))
    <2>1. Loads(w, d) /\ wstage'[w] # "done" => Members(d)' = {}
      BY <1>1, <1>2 DEF UniverseInv
    <2>2. CASE wstage[w] = "writing" /\ Loading(w, d)' = Loading(w, d)
      BY <2>1, <2>2 DEF UniverseInv
    <2>3. ASSUME NEW b \in Batches[w], Loading(w, d)' = Securities(b, d)
          PROVE  Whole(Loading(w, d)') /\ (Loading(w, d)' # {} => Loads(w, d))
      BY <2>3, SnapshotAssumption DEF Loads, SnapshotDates
    <2> QED BY <2>1, <2>2, <2>3
  <1>3. \A d \in SnapshotDates : Whole(Members(d)')
    BY <1>1 DEF UniverseInv
  <1> QED BY <1>1, <1>2, <1>3 DEF UniverseInv

\* Every step keeps the snapshots whole.
LEMMA UniverseStep ==
    ASSUME IInv, UniverseInv, [Next]_vars
    PROVE  UniverseInv' /\ \A d \in SnapshotDates : Members(d) # {} => Members(d)' # {}
  <1>0. RowsType /\ PendType /\ WriterType /\ CleanType
    BY TypeParts DEF IInv
  <1> DEFINE Goal == UniverseInv' /\ \A d \in SnapshotDates : Members(d) # {} => Members(d)' # {}
  <1>1. CASE CommitRename
    <2>1. UNCHANGED <<wstage, batch>> /\ \A w \in Writers : Touched(w)' = Touched(w)
      BY <1>0, <1>1, CommitEffect, TransactionType DEF CommitRename, writing
    <2>2. \A w \in Writers, d \in SnapshotDates : Loading(w, d)' = Loading(w, d)
      BY <2>1 DEF Loading, Securities
    <2>3. \A d \in SnapshotDates : Whole(Members(d)') /\ (Members(d) = {} <=> Members(d)' = {})
      BY <1>1, RenameKeepsWhole DEF UniverseInv
    <2> QED BY <2>1, <2>2, <2>3 DEF UniverseInv
  <1>2. ASSUME NEW w \in Writers, CommitUpsert(w) PROVE Goal
    <2>1. UNCHANGED batch /\ wstage' = [wstage EXCEPT ![w] = "done"]
          /\ \A u \in Writers \ {w} : Touched(u)' = Touched(u)
      BY <1>0, <1>2, CommitEffect, TransactionType DEF CommitUpsert
    <2>2. \A u \in Writers \ {w}, d \in SnapshotDates : Loading(u, d)' = Loading(u, d)
      BY <2>1 DEF Loading, Securities
    <2>3. \A d \in SnapshotDates :
            /\ Whole(Members(d)') /\ (Members(d) # {} => Members(d)' # {})
            /\ ~Loads(w, d) => Members(d)' = Members(d)
      BY <1>2, LoadMembers
    <2>4. ASSUME NEW u \in Writers, NEW d \in SnapshotDates, Loads(u, d), wstage'[u] # "done"
          PROVE  Members(d)' = {}
      <3>1. u # w /\ wstage[u] # "done"
        BY <1>0, <2>1, <2>4 DEF WriterType
      <3>2. ~Loads(w, d)
        BY <2>4, <3>1, <1>2, SnapshotAssumption DEF SnapshotDates
      <3> QED BY <2>3, <2>4, <3>1, <3>2 DEF UniverseInv
    <2>5. ASSUME NEW u \in Writers, NEW d \in SnapshotDates, wstage'[u] = "writing"
          PROVE  Whole(Loading(u, d)') /\ (Loading(u, d)' # {} => Loads(u, d))
      <3>1. u # w /\ wstage[u] = "writing"
        BY <1>0, <2>1, <2>5 DEF WriterType
      <3>2. Loading(u, d)' = Loading(u, d)
        BY <2>2, <3>1
      <3>3. Whole(Loading(u, d)) /\ (Loading(u, d) # {} => Loads(u, d))
        BY <3>1 DEF UniverseInv
      <3> QED BY <3>2, <3>3
    <2> QED BY <2>3, <2>4, <2>5 DEF UniverseInv
  <1>3. ASSUME NEW w \in Writers, BeginUpsert(w) PROVE Goal
    <2>1. PICK b \in Batches[w] :
            /\ batch' = [batch EXCEPT ![w] = b]
            /\ wstage' = [wstage EXCEPT ![w] = IF b = <<>> THEN "done" ELSE "writing"]
      BY <1>3 DEF BeginUpsert
    <2>2. wstage[w] \in {"idle", "listed"} /\ UNCHANGED <<rows, pend>>
      BY <1>3 DEF BeginUpsert
    <2>3. \A u \in Writers : Touched(u)' = Touched(u)
      BY <2>2 DEF Touched
    <2>4. Touched(w) = {}
      BY <1>0, <2>2, CleanTouched DEF CleanType
    <2>5. \A d \in SnapshotDates : Loading(w, d)' = Securities(b, d)
      BY <1>0, <2>1, <2>3, <2>4 DEF Loading, Securities, WriterType
    <2>6. \A u \in Writers \ {w}, d \in SnapshotDates : Loading(u, d)' = Loading(u, d)
      BY <1>0, <2>1, <2>3 DEF Loading, Securities, WriterType
    <2>7. \A u \in Writers : wstage[u] = "done" => wstage'[u] = "done"
      BY <1>0, <2>1, <2>2 DEF WriterType
    <2>8. \A u \in Writers \ {w} : wstage'[u] = wstage[u]
      BY <1>0, <2>1 DEF WriterType
    <2> QED BY <2>2, <2>5, <2>6, <2>7, <2>8, UniverseKept
  <1>4. ASSUME NEW w \in Writers, UpsertRow(w) PROVE Goal
    <2>1. UNCHANGED <<rows, wstage>> /\ wstage[w] = "writing" /\ batch' = [batch EXCEPT ![w] = Tail(@)]
          /\ batch[w] # <<>> /\ Write(w, Head(batch[w]), w)
      BY <1>4 DEF UpsertRow
    <2>2. \A u \in Writers \ {w} : Touched(u)' = Touched(u) /\ batch'[u] = batch[u]
      BY <1>0, <2>1, WriteEffect, NextRowType, TransactionType DEF IInv, Values, WriterType
    <2>3. \A u \in Writers \ {w}, d \in SnapshotDates : Loading(u, d)' = Loading(u, d)
      BY <2>2 DEF Loading, Securities
    <2>4. \A d \in SnapshotDates : Loading(w, d)' = Loading(w, d)
      BY <1>4, LoadingRow
    <2> QED BY <2>1, <2>3, <2>4, UniverseKept
  <1>5. ASSUME NEW w \in Writers, UpsertFails(w) PROVE Goal
    <2>1. UNCHANGED rows /\ pend' = [pend EXCEPT ![w] = Clean] /\ wstage[w] = "writing"
          /\ wstage' = [wstage EXCEPT ![w] = "failed"] /\ batch' = [batch EXCEPT ![w] = <<>>]
      BY <1>5 DEF UpsertFails, Rollback
    <2>2. \A u \in Writers \ {w} :
            Touched(u)' = Touched(u) /\ batch'[u] = batch[u] /\ wstage'[u] = wstage[u]
      BY <1>0, <2>1, RollbackEffect, TransactionType DEF WriterType
    <2>3. \A u \in Writers \ {w}, d \in SnapshotDates : Loading(u, d)' = Loading(u, d)
      BY <2>2 DEF Loading, Securities
    <2>4. wstage'[w] = "failed"
      BY <1>0, <2>1 DEF WriterType
    <2> QED BY <2>1, <2>2, <2>3, <2>4, UniverseKept
  <1>6. ASSUME UNCHANGED <<rows, batch>>, \A w \in Writers : Touched(w)' = Touched(w),
               \A w \in Writers : wstage[w] = "done" => wstage'[w] = "done",
               \A w \in Writers : wstage'[w] = "writing" => wstage[w] = "writing"
        PROVE  Goal
    <2>1. \A w \in Writers, d \in SnapshotDates : Loading(w, d)' = Loading(w, d)
      BY <1>6 DEF Loading, Securities
    <2> QED BY <1>6, <2>1, UniverseKept
  <1>7. CASE LockOld \/ PutNew
    <2>1. UNCHANGED <<rows, writing>> /\ cur \in Cells
          /\ \E c \in Cells, v \in Values \cup {NoRow} : Write(Rename, c, v)
      <3>1. cur \in Cells /\ As(cur, New) \in Cells /\ rows[cur] \in Values \cup {NoRow}
        BY <1>0, <1>7, CellType, PairType DEF LockOld, PutNew, IInv, TypeOK, RowsType
      <3> QED BY <1>7, <3>1 DEF LockOld, PutNew
    <2>2. \A w \in Writers : Touched(w)' = Touched(w)
      BY <1>0, <2>1, WriteEffect, TransactionType
    <2> QED BY <1>6, <2>1, <2>2 DEF writing
  <1>8. CASE Refuse \/ UniqueViolation \/ RenameFails
    <2>1. UNCHANGED <<rows, writing>> /\ pend' = [pend EXCEPT ![Rename] = Clean]
      BY <1>8 DEF Refuse, UniqueViolation, RenameFails, GiveUp, Rollback
    <2>2. \A w \in Writers : Touched(w)' = Touched(w)
      BY <1>0, <2>1, RollbackEffect, TransactionType
    <2> QED BY <1>6, <2>1, <2>2 DEF writing
  <1>9. ASSUME NEW w \in Writers, ListTracked(w) PROVE Goal
    <2>1. UNCHANGED <<rows, pend, batch>> /\ wstage[w] = "idle"
          /\ wstage' = [wstage EXCEPT ![w] = "listed"]
      BY <1>9 DEF ListTracked
    <2>2. \A u \in Writers : /\ wstage[u] = "done" => wstage'[u] = "done"
                            /\ wstage'[u] = "writing" => wstage[u] = "writing"
      BY <1>0, <2>1 DEF WriterType
    <2> QED BY <1>6, <2>1, <2>2 DEF Touched
  <1>10. CASE UNCHANGED <<rows, pend, writing>>
    BY <1>6, <1>10 DEF writing, Touched
  <1> QED
    BY <1>1, <1>2, <1>3, <1>4, <1>5, <1>7, <1>8, <1>9, <1>10
    DEF Next, vars, RenameStep, UpsertStep, RefuseIdentical, Begin, Check, Scan, Pick, Resolve,
        ReadMembers

\* What a reader is told: its date has members when it is resolved, none of them is
\* deleted, and what it lists in the end was whole when it read it.
LEMMA ReadersStep ==
    ASSUME IInv, UniverseInv, AnswerType, ReadersInv, [Next]_vars
    PROVE  AnswerType' /\ ReadersInv'
  <1>0. \A d \in SnapshotDates : Members(d) # {} => Members(d)' # {}
    BY UniverseStep
  <1>1. ASSUME NEW r \in Readers, NEW asOf \in SnapshotDates, Resolve(r, asOf)
        PROVE  AnswerType' /\ ReadersInv'
    <2> DEFINE dates == {d \in Dates : d <= asOf}
               empty == [stage |-> "done", asOf |-> asOf, date |-> 0, members |-> {}]
               dated == [stage |-> "dated", asOf |-> asOf, date |-> Latest(dates), members |-> {}]
    <2>1. answer' = [answer EXCEPT ![r] = IF dates = {} THEN empty ELSE dated]
      BY <1>1 DEF Resolve
    <2>2. ASSUME NEW d \in Dates PROVE d \in SnapshotDates /\ Members(d) # {}
      <3>1. PICK c \in Cells : c[1] = "universe_membership" /\ Present(c) /\ d = c[2]
        BY <2>2 DEF Dates
      <3>2. PICK i \in DOMAIN Tables : c \in {<<Tables[i], k, x>> : k \in Keys[Tables[i]], x \in Symbols}
        BY <3>1 DEF Cells
      <3>4. PICK k \in Keys[Tables[i]], s \in Symbols : c = <<Tables[i], k, s>>
        BY <3>2
      <3>3. d \in SnapshotDates /\ s \in Symbols /\ c = <<"universe_membership", d, s>>
        BY <3>1, <3>4 DEF SnapshotDates
      <3> QED BY <3>1, <3>3 DEF Members
    <2>3. dates # {} => Latest(dates) \in dates
      <3>1. dates \subseteq Nat /\ asOf \in Nat
        BY <2>2, SymbolAssumption DEF SnapshotDates
      <3>2. dates # {} => \E d \in dates : \A e \in dates : e <= d
        BY <3>1, LatestOf
      <3> QED BY <3>2 DEF Latest
    <2>9. PICK date : date = Latest(dates)
      OBVIOUS
    <2>4. dates # {} => date \in SnapshotDates /\ date <= asOf /\ Members(date)' # {}
      BY <1>0, <2>2, <2>3, <2>9
    <2> HIDE DEF dates
    <2>5. AnswerType'
      BY <2>1, <2>4, <2>9 DEF AnswerType
    <2>6. \A q \in Readers \ {r} : answer'[q] = answer[q]
      BY <2>1 DEF AnswerType
    <2>7. answer'[r] = IF dates = {} THEN empty ELSE dated
      BY <2>1 DEF AnswerType
    <2> DEFINE Mine(q) == /\ answer[q].stage = "dated" =>
                               /\ answer[q].date \in SnapshotDates /\ answer[q].date <= answer[q].asOf
                               /\ Members(answer[q].date) # {}
                          /\ answer[q].stage = "done" /\ answer[q].date # 0 =>
                               /\ answer[q].date <= answer[q].asOf
                               /\ Cardinality(answer[q].members) = Constituents
    <2>8. ASSUME NEW q \in Readers PROVE Mine(q)'
      <3>1. CASE q # r
        BY <1>0, <2>6, <3>1 DEF ReadersInv
      <3>2. CASE q = r /\ dates = {}
        BY <2>7, <3>2
      <3>3. CASE q = r /\ dates # {}
        BY <2>4, <2>7, <2>9, <3>3
      <3> QED BY <3>1, <3>2, <3>3
    <2> QED BY <2>5, <2>8 DEF ReadersInv
  <1>2. ASSUME NEW r \in Readers, ReadMembers(r) PROVE AnswerType' /\ ReadersInv'
    <2> DEFINE d == answer[r].date
    <2>1. answer[r].stage = "dated" /\ d \in SnapshotDates /\ d <= answer[r].asOf /\ Members(d) # {}
      BY <1>2 DEF ReadMembers, ReadersInv
    <2>2. Cardinality(Members(d)) = Constituents
      BY <2>1 DEF UniverseInv, Whole
    <2>3. answer' = [answer EXCEPT ![r] = [answer[r] EXCEPT !.stage = "done", !.members = Members(d)]]
      BY <1>2 DEF ReadMembers, AnswerType
    <2>4. Members(d) \subseteq Symbols
      BY DEF Members
    <2>5. /\ AnswerType'
          /\ \A q \in Readers \ {r} : answer'[q] = answer[q]
          /\ answer'[r].stage = "done" /\ answer'[r].date = answer[r].date
          /\ answer'[r].asOf = answer[r].asOf /\ answer'[r].members = Members(d)
      BY <2>3, <2>4 DEF AnswerType
    <2> QED BY <1>0, <2>1, <2>2, <2>5 DEF ReadersInv
  <1>3. CASE UNCHANGED answer
    BY <1>0, <1>3 DEF AnswerType, ReadersInv
  <1> QED
    BY <1>1, <1>2, <1>3
    DEF Next, vars, SnapshotDates, RenameStep, UpsertStep, RefuseIdentical, Begin, Check, Refuse,
        UniqueViolation, RenameFails, GiveUp, Scan, Pick, LockOld, PutNew, CommitRename,
        ListTracked, BeginUpsert, UpsertRow, CommitUpsert, UpsertFails

\* The snapshots are whole at the beginning.
LEMMA UniverseInit ==
    ASSUME Init PROVE UniverseInv /\ AnswerType /\ ReadersInv
  <1>1. \A d \in SnapshotDates :
          Members(d) = {s \in Symbols : rows[<<"universe_membership", d, s>>] # NoRow}
    BY DEF Members, Present
  <1>2. \A d \in SnapshotDates :
          Whole(Members(d)) /\ \A w \in Writers : Loads(w, d) => Members(d) = {}
    BY <1>1, SnapshotAssumption DEF Init, SnapshotDates
  <1>3. UniverseInv
    BY <1>2 DEF Init, UniverseInv
  <1>4. AnswerType /\ ReadersInv
    BY DEF Init, AnswerType, ReadersInv
  <1> QED BY <1>3, <1>4

\* Whenever its two statements run, fetch_universe lists a whole snapshot, every security
\* under one ticker, and none after as_of: a rename commits as a whole, a load too, and no
\* member is deleted between the statements.
THEOREM UniverseIsWhole == Spec => []UniverseListsOnce
  <1>1. Init => IInv /\ UniverseInv /\ AnswerType /\ ReadersInv
    BY InitInv, UniverseInit
  <1>2. IInv /\ UniverseInv /\ AnswerType /\ ReadersInv /\ [Next]_vars =>
          (IInv /\ UniverseInv /\ AnswerType /\ ReadersInv)'
    BY StepInv, UniverseStep, ReadersStep
  <1>3. ReadersInv => UniverseListsOnce
    BY DEF ReadersInv, UniverseListsOnce
  <1> QED BY <1>1, <1>2, <1>3, PTL DEF Spec

-----------------------------------------------------------------------------
\* A finite set in which everybody waits for a member holds a cycle.
LEMMA CycleIn ==
    ASSUME NEW D \in SUBSET Transactions, D # {}, \A t \in D : WaitsFor(t) \cap D # {}
    PROVE  \E t \in D : Deadlocked(t)
  <1> DEFINE F == {E \in SUBSET D : E # {} /\ \A t \in E : WaitsFor(t) \cap E # {}}
  <1>1. IsFiniteSet(Transactions) /\ F \in SUBSET SUBSET Transactions /\ F # {}
    BY SymbolAssumption, FS_AddElement, FS_Union, FS_Singleton DEF Transactions
  <1>2. PICK E \in F : \A B \in F : B \subseteq E => B = E
    <2> HIDE DEF F
    <2> QED BY <1>1, SmallestSet
  <1>3. ASSUME NEW u \in E PROVE \E v \in E : u \in WaitsFor(v)
    <2>1. SUFFICES ASSUME \A v \in E : u \notin WaitsFor(v) PROVE FALSE
      OBVIOUS
    <2>2. \A t \in E \ {u} : WaitsFor(t) \cap (E \ {u}) # {}
      BY <2>1
    <2>3. E \ {u} # {}
      BY DEF WaitsFor
    <2>4. E \ {u} \in F
      BY <2>2, <2>3
    <2> QED BY <1>2, <2>4
  <1>4. \A t \in E : Deadlocked(t)
    BY <1>3 DEF Deadlocked
  <1> QED BY <1>4

\* Locks end with the call that took them, however it ends: a transaction that waits,
\* waits for one that can go on or for a cycle.
THEOREM NobodyWaitsForEver == Spec => []NoEternalWait
  <1>1. IInv => NoEternalWait
    <2> SUFFICES ASSUME IInv, NEW D \in SUBSET Transactions, D \cap Open # {},
                        \A t \in D : WaitsFor(t) \subseteq D,
                        \A t \in D \cap Open : WaitsFor(t) # {} /\ ~Deadlocked(t)
                 PROVE  FALSE
      BY DEF NoEternalWait
    <2>1. \A t \in Transactions : WaitsFor(t) \subseteq Open
      <3>1. \A t \in Transactions \ Open : pend[t] = Clean
        BY TypeParts, TransactionType DEF IInv, CleanType, Open, Transactions
      <3>2. \A t \in Transactions \ Open : \A c \in Cells : pend[t][c] = Untouched
        BY <3>1 DEF Clean
      <3>3. \A t \in Transactions : Needs(t) \subseteq Cells
        BY NextRowType, CellType, PairType DEF IInv, TypeOK, Needs, Transactions
      <3> QED BY <3>2, <3>3 DEF WaitsFor
    <2>2. \A t \in D \cap Open : WaitsFor(t) \cap (D \cap Open) # {}
      BY <2>1
    <2> QED BY <2>2, CycleIn
  <1> QED BY <1>1, InitInv, StepInv, PTL DEF Spec

-----------------------------------------------------------------------------
\* The calls are atomic.

\* What a writer has inserted and what it has still to insert is one of its batches.
BatchInv ==
    \A w \in Writers :
      wstage[w] = "writing" =>
        /\ \A c \in Touched(w) : pend[w][c] = w
        /\ \E b \in Batches[w] : \A c \in Cells :
             (\E i \in DOMAIN b : b[i] = c) <=>
               c \in Touched(w) \/ \E i \in DOMAIN batch[w] : batch[w][i] = c

\* Taking the head off a sequence.
LEMMA HeadAndTail ==
    ASSUME NEW S, NEW s \in Seq(S), s # <<>>, NEW c
    PROVE  (\E i \in DOMAIN s : s[i] = c) <=>
             (c = Head(s) \/ \E i \in DOMAIN Tail(s) : Tail(s)[i] = c)
  <1>1. /\ 1 \in DOMAIN s /\ s[1] = Head(s)
        /\ \A i \in DOMAIN Tail(s) : i + 1 \in DOMAIN s /\ Tail(s)[i] = s[i + 1]
    OBVIOUS
  <1>2. \A i \in DOMAIN s : i # 1 => i - 1 \in DOMAIN Tail(s) /\ Tail(s)[i - 1] = s[i]
    OBVIOUS
  <1> QED BY <1>1, <1>2

\* Every step keeps what a writer has written and has to write together its batch.
LEMMA BatchStep ==
    ASSUME IInv, BatchInv, [Next]_vars PROVE BatchInv'
  <1>0. PendType /\ WriterType /\ CleanType
    BY TypeParts DEF IInv
  <1> DEFINE Mine(w) == wstage[w] = "writing" =>
               /\ \A c \in Touched(w) : pend[w][c] = w
               /\ \E b \in Batches[w] : \A c \in Cells :
                    (\E i \in DOMAIN b : b[i] = c) <=>
                      c \in Touched(w) \/ \E i \in DOMAIN batch[w] : batch[w][i] = c
  <1>1. ASSUME NEW w \in Writers, wstage'[w] = wstage[w], batch'[w] = batch[w], pend'[w] = pend[w]
        PROVE  Mine(w)'
    <2>1. Touched(w)' = Touched(w)
      BY <1>1 DEF Touched
    <2>2. SUFFICES ASSUME wstage[w] = "writing"
                   PROVE  /\ \A c \in Touched(w) : pend[w][c] = w
                          /\ \E b \in Batches[w] : \A c \in Cells :
                               (\E i \in DOMAIN b : b[i] = c) <=>
                                 c \in Touched(w) \/ \E i \in DOMAIN batch[w] : batch[w][i] = c
      BY <1>1, <2>1
    <2> QED BY <2>2 DEF BatchInv
  <1>2. ASSUME NEW w \in Writers, BeginUpsert(w) PROVE BatchInv'
    <2>1. PICK b \in Batches[w] :
            /\ batch' = [batch EXCEPT ![w] = b]
            /\ wstage' = [wstage EXCEPT ![w] = IF b = <<>> THEN "done" ELSE "writing"]
      BY <1>2 DEF BeginUpsert
    <2>2. wstage[w] \in {"idle", "listed"} /\ UNCHANGED pend
      BY <1>2 DEF BeginUpsert
    <2>3. Touched(w)' = {}
      BY <1>0, <2>2, CleanTouched DEF CleanType, Touched
    <2>4. batch'[w] = b
      BY <1>0, <2>1 DEF WriterType
    <2>5. Mine(w)'
      BY <2>3, <2>4
    <2>6. \A u \in Writers \ {w} : wstage'[u] = wstage[u] /\ batch'[u] = batch[u] /\ pend'[u] = pend[u]
      BY <1>0, <2>1, <2>2 DEF WriterType
    <2>7. \A u \in Writers : Mine(u)'
      BY <1>1, <2>5, <2>6
    <2> QED BY <2>7 DEF BatchInv
  <1>3. ASSUME NEW w \in Writers, UpsertRow(w) PROVE BatchInv'
    <2> DEFINE c == Head(batch[w])
    <2>1. /\ wstage[w] = "writing" /\ batch[w] # <<>> /\ batch[w] \in Seq(Cells) /\ Write(w, c, w)
          /\ batch' = [batch EXCEPT ![w] = Tail(batch[w])] /\ UNCHANGED wstage
      BY <1>0, <1>3 DEF UpsertRow, WriterType
    <2>2. c \in Cells /\ w \in Values \cup {NoRow} /\ w \in Transactions
      BY <2>1, NextRowType, TransactionType DEF IInv, Values
    <2>3. /\ pend'[w][c] = w /\ Touched(w)' = Touched(w) \cup {c}
          /\ \A u \in Transactions, d \in Cells : u # w \/ d # c => pend'[u][d] = pend[u][d]
          /\ PendType'
      BY <1>0, <2>1, <2>2, WriteEffect
    <2>4. batch'[w] = Tail(batch[w])
      BY <1>0, <2>1 DEF WriterType
    <2>5. \A d : (\E i \in DOMAIN batch[w] : batch[w][i] = d) <=>
                   (d = c \/ \E i \in DOMAIN Tail(batch[w]) : Tail(batch[w])[i] = d)
      BY <2>1, HeadAndTail
    <2> HIDE DEF c
    <2>6. \A d \in Touched(w)' : pend'[w][d] = w
      BY <2>1, <2>2, <2>3 DEF BatchInv, Touched
    <2>7. PICK b \in Batches[w] : \A d \in Cells :
            (\E i \in DOMAIN b : b[i] = d) <=>
              d \in Touched(w) \/ \E i \in DOMAIN batch[w] : batch[w][i] = d
      BY <2>1 DEF BatchInv
    <2>8. \A d \in Cells : (\E i \in DOMAIN b : b[i] = d) <=>
              d \in Touched(w)' \/ \E i \in DOMAIN batch'[w] : batch'[w][i] = d
      BY <2>3, <2>4, <2>5, <2>7
    <2>9. Mine(w)'
      BY <2>6, <2>8
    <2>10. \A u \in Writers \ {w} : wstage'[u] = wstage[u] /\ batch'[u] = batch[u] /\ pend'[u] = pend[u]
      BY <1>0, <2>1, <2>3, TransactionType DEF WriterType, PendType
    <2>11. \A u \in Writers : Mine(u)'
      BY <1>1, <2>9, <2>10
    <2> QED BY <2>11 DEF BatchInv
  <1>4. ASSUME NEW w \in Writers, CommitUpsert(w) \/ UpsertFails(w) PROVE BatchInv'
    <2>1. /\ pend' = [pend EXCEPT ![w] = Clean]
          /\ \A u \in Writers \ {w} : wstage'[u] = wstage[u] /\ batch'[u] = batch[u]
          /\ wstage'[w] # "writing"
      BY <1>0, <1>4 DEF CommitUpsert, UpsertFails, Commit, Rollback, WriterType
    <2>2. \A u \in Writers \ {w} : pend'[u] = pend[u]
      BY <1>0, <2>1, RollbackEffect, TransactionType
    <2>3. \A u \in Writers : Mine(u)'
      BY <1>1, <2>1, <2>2
    <2> QED BY <2>3 DEF BatchInv
  <1>5. ASSUME NEW w \in Writers, ListTracked(w) PROVE BatchInv'
    <2>1. /\ UNCHANGED <<pend, batch>> /\ wstage'[w] = "listed"
          /\ \A u \in Writers \ {w} : wstage'[u] = wstage[u]
      BY <1>0, <1>5 DEF ListTracked, WriterType
    <2>2. \A u \in Writers : Mine(u)'
      BY <1>1, <2>1
    <2> QED BY <2>2 DEF BatchInv
  <1>6. ASSUME UNCHANGED <<wstage, batch>>, \A w \in Writers : pend'[w] = pend[w] PROVE BatchInv'
    <2>1. \A w \in Writers : Mine(w)'
      BY <1>1, <1>6
    <2> QED BY <2>1 DEF BatchInv
  <1>7. CASE LockOld \/ PutNew
    <2>1. UNCHANGED writing /\ \E c, v : Write(Rename, c, v)
      BY <1>7 DEF LockOld, PutNew
    <2>2. \A w \in Writers : pend'[w] = pend[w]
      BY <1>0, <2>1, TransactionType DEF Write, PendType
    <2> QED BY <1>6, <2>1, <2>2 DEF writing
  <1>8. CASE Refuse \/ UniqueViolation \/ RenameFails \/ CommitRename
    <2>1. UNCHANGED writing /\ pend' = [pend EXCEPT ![Rename] = Clean]
      BY <1>8 DEF Refuse, UniqueViolation, RenameFails, GiveUp, Rollback, CommitRename, Commit
    <2>2. \A w \in Writers : pend'[w] = pend[w]
      BY <1>0, <2>1, TransactionType DEF PendType
    <2> QED BY <1>6, <2>1, <2>2 DEF writing
  <1>9. CASE UNCHANGED <<pend, writing>>
    BY <1>6, <1>9 DEF writing
  <1> QED
    BY <1>2, <1>3, <1>4, <1>5, <1>7, <1>8, <1>9
    DEF Next, vars, RenameStep, UpsertStep, RefuseIdentical, Begin, Check, Scan, Pick, Resolve,
        ReadMembers

\* The writers that have committed.
Loaded == {w \in Writers : wstage[w] = "done"}

\* The commit of an upsert is its Load.
LEMMA CommitIsLoad ==
    ASSUME IInv, BatchInv, NEW w \in Writers, CommitUpsert(w)
    PROVE  AT!Load(w)
  <1>0. PendType /\ RowsType /\ WriterType /\ wstage[w] = "writing" /\ batch[w] = <<>>
    BY TypeParts DEF IInv, CommitUpsert
  <1>1. w \notin Loaded /\ Loaded' = Loaded \cup {w}
    BY <1>0 DEF CommitUpsert, WriterType, Loaded
  <1>2. PICK b \in Batches[w] : \A c \in Cells : (\E i \in DOMAIN b : b[i] = c) <=> c \in Touched(w)
    BY <1>0 DEF BatchInv
  <1>3. rows' = [c \in Cells |-> IF pend[w][c] = Untouched THEN rows[c] ELSE pend[w][c]]
    BY DEF CommitUpsert, Commit
  <1>4. \A c \in Cells : (IF pend[w][c] = Untouched THEN rows[c] ELSE pend[w][c])
                       = IF \E i \in DOMAIN b : b[i] = c THEN w ELSE rows[c]
    BY <1>0, <1>2 DEF BatchInv, Touched
  <1>5. rows' = [c \in Cells |-> IF \E i \in DOMAIN b : b[i] = c THEN w ELSE rows[c]]
    BY <1>3, <1>4
  <1> QED BY <1>1, <1>5 DEF AT!Load, Loaded

\* The commit of a rename is its Move.
LEMMA CommitIsMove ==
    ASSUME IInv, CommitRename
    PROVE  AT!Move(Old, New)
  <1>1. HalvesInv /\ PendType /\ RowsType /\ Old # New /\ cur = NoCell
    BY TypeParts DEF IInv, RenameInv, CommitRename
  <1>2. Old \in Symbols /\ New \in Symbols /\ NoCell \notin Cells
    BY PairType, SymbolAssumption DEF IInv
  <1> DEFINE moved == {c \in Touched(Rename) : c[3] = Old /\ Present(c)}
             After(c) == IF c \in moved THEN NoRow
                         ELSE IF c[3] = New /\ As(c, Old) \in moved THEN rows[As(c, Old)]
                         ELSE rows[c]
  <1>3. \A c \in Cells : rows'[c] = IF c \in Touched(Rename) THEN pend[Rename][c] ELSE rows[c]
    BY <1>1, CommitEffect, TransactionType DEF CommitRename
  <1>4. \A c \in Touched(Rename) : c \in Cells
    BY DEF Touched
  \* The two halves of a move.
  <1>5. ASSUME NEW c \in Touched(Rename), c[3] = Old
        PROVE  /\ pend[Rename][c] = NoRow /\ As(c, New) \in Touched(Rename)
               /\ rows[As(c, New)] = NoRow
    <2>1. pend[Rename][c] = NoRow /\ As(c, New) \in Touched(Rename)
      BY <1>1, <1>2, <1>4, <1>5 DEF HalvesInv
    <2>2. As(c, New)[3] = New
      BY <1>2, <1>4, CellType
    <2> QED BY <1>1, <2>1, <2>2 DEF HalvesInv
  <1>6. ASSUME NEW c \in Cells PROVE rows'[c] = After(c)
    <2>1. CASE c \notin Touched(Rename)
      <3>1. SUFFICES ASSUME c[3] = New, As(c, Old) \in moved PROVE FALSE
        BY <1>3, <2>1
      <3>2. As(c, Old)[3] = Old /\ As(As(c, Old), New) = c
        BY <1>2, <3>1, CellType
      <3> QED BY <1>5, <2>1, <3>1, <3>2
    <2>2. CASE c \in Touched(Rename) /\ c[3] = Old
      BY <1>1, <1>3, <1>5, <2>2 DEF Present
    <2>3. CASE c \in Touched(Rename) /\ c[3] # Old
      <3>1. /\ c[3] = New /\ rows[c] = NoRow
            /\ As(c, Old) \in Touched(Rename) /\ pend[Rename][c] = rows[As(c, Old)]
        BY <1>1, <2>3 DEF HalvesInv
      <3>2. As(c, Old)[3] = Old
        BY <1>2, <1>6, CellType
      <3> QED BY <1>3, <2>3, <3>1, <3>2 DEF Present
    <2> QED BY <2>1, <2>2, <2>3
  <1>7. rows' = [c \in Cells |-> After(c)]
    <2> HIDE DEF After
    <2>1. RowsType'
      BY <1>1, CommitEffect, TransactionType DEF CommitRename
    <2> QED BY <1>6, <2>1 DEF RowsType
  <1>8. /\ moved \in SUBSET {c \in Cells : c[3] = Old /\ rows[c] # NoRow}
        /\ \A c \in moved : rows[As(c, New)] = NoRow
    BY <1>4, <1>5 DEF Present
  <1>9. UNCHANGED Loaded
    BY DEF CommitRename, writing, Loaded
  <1> QED BY <1>1, <1>7, <1>8, <1>9 DEF AT!Move, AT!Under, As, Loaded

\* What else happens is nothing to who reads the tables, but for an empty batch.
LEMMA AtomicStep ==
    ASSUME IInv, BatchInv, [Next]_vars PROVE AT!Next \/ UNCHANGED <<rows, Loaded>>
  <1>0. RowsType /\ WriterType
    BY TypeParts DEF IInv
  <1>1. ASSUME NEW w \in Writers, CommitUpsert(w) PROVE AT!Next \/ UNCHANGED <<rows, Loaded>>
    BY <1>1, CommitIsLoad DEF AT!Next
  <1>2. CASE CommitRename
    <2>1. pair \in Requests /\ Old = pair[1] /\ New = pair[2]
      BY TypeParts DEF IInv, RenameType, Old, New
    <2> QED BY <1>2, <2>1, CommitIsMove DEF AT!Next
  <1>3. ASSUME NEW w \in Writers, BeginUpsert(w) PROVE AT!Next \/ UNCHANGED <<rows, Loaded>>
    <2>1. PICK b \in Batches[w] :
            wstage' = [wstage EXCEPT ![w] = IF b = <<>> THEN "done" ELSE "writing"]
      BY <1>3 DEF BeginUpsert
    <2>2. wstage[w] \in {"idle", "listed"} /\ UNCHANGED rows
      BY <1>3 DEF BeginUpsert
    <2>3. CASE b = <<>>
      <3>1. w \notin Loaded /\ Loaded' = Loaded \cup {w}
        BY <1>0, <2>1, <2>2, <2>3 DEF WriterType, Loaded
      <3>2. rows' = [c \in Cells |-> IF \E i \in DOMAIN b : b[i] = c THEN w ELSE rows[c]]
        BY <1>0, <2>2, <2>3 DEF RowsType
      <3> QED BY <3>1, <3>2 DEF AT!Next, AT!Load, Loaded
    <2>4. CASE b # <<>>
      BY <1>0, <2>1, <2>2, <2>4 DEF WriterType, Loaded
    <2> QED BY <2>3, <2>4
  <1>4. ASSUME NEW w \in Writers, ListTracked(w) \/ UpsertFails(w) PROVE AT!Next \/ UNCHANGED <<rows, Loaded>>
    <2>1. UNCHANGED rows /\ wstage[w] # "done"
          /\ \E l \in {"listed", "failed"} : wstage' = [wstage EXCEPT ![w] = l]
      BY <1>4 DEF ListTracked, UpsertFails, Rollback
    <2> QED BY <1>0, <2>1 DEF WriterType, Loaded
  <1>5. CASE UNCHANGED <<rows, wstage>>
    <2>1. UNCHANGED <<rows, Loaded>>
      BY <1>5 DEF Loaded
    <2> QED BY <2>1
  <1> QED
    BY <1>1, <1>2, <1>3, <1>4, <1>5
    DEF Next, vars, writing, RenameStep, UpsertStep, RefuseIdentical, Begin, Check, Refuse,
        UniqueViolation, RenameFails, GiveUp, Rollback, Scan, Pick, LockOld, PutNew, UpsertRow,
        Resolve, ReadMembers

\* Statements, locks, waits and rollbacks are below what AtomicTables speaks of: renames
\* and upserts of any size, in any number and order, implement it.
THEOREM CallsImplementAtomicTables == Spec => CallsAreAtomic
  <1>1. Init => BatchInv
    BY DEF Init, BatchInv
  <1>2. IInv /\ BatchInv /\ [Next]_vars => BatchInv'
    BY BatchStep
  <1>3. Init => AT!Init
    BY DEF Init, AT!Init
  <1>4. IInv /\ BatchInv /\ [Next]_vars => [AT!Next]_(AT!vars)
    BY AtomicStep DEF AT!vars, Loaded
  <1> QED BY <1>1, <1>2, <1>3, <1>4, Inductive, PTL DEF Spec, CallsAreAtomic, AT!Spec
=============================================================================

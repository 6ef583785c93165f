--------------------------- MODULE BarStoreProofs ---------------------------
(***************************************************************************)
(* Proofs about BarStore, for any sessions, stamps, hours, ranges, jobs,   *)
(* prices and directory.                                                   *)
(***************************************************************************)
EXTENDS BarStore, FiniteSetTheorems, TLAPS

\* Where a bar of the vendor stands.
TvkitRow(k, r) ==
    /\ r.source = "tvkit" /\ r.session \in Sessions
    /\ \/ k = <<"1d", 24 * r.session>>
       \/ \E h \in IntradayHours : k = <<"1h", Instant(r.session, h)>>

\* A seeded bar of a symbol is one of its file in the directory, in a timeframe.
SeedRow(s, k, r) ==
    \E i \in Files, tf \in Timeframes :
      /\ Dir[i].symbol = s /\ k \in DOMAIN Parsed(Dir[i], tf)
      /\ r = Parsed(Dir[i], tf)[k]

\* A table each of whose rows stands where its source puts it.
Good(s, f) ==
    /\ IsTable(f)
    /\ \A k \in DOMAIN f : TvkitRow(k, f[k]) \/ SeedRow(s, k, f[k])

\* Everything stored or in the hands of an ingest stands where it should.
TablesInv ==
    \A s \in Symbols :
      /\ Good(s, rows[s])
      /\ \A tf \in Timeframes, j \in Jobs : Good(s, fetched[<<s, tf, j>>])

\* The valid rows of the files the run is past.
Counted == UNION {{i} \X Valid(Dir[i]) : i \in Done}

\* The run has counted and stored the files it is past.
AccountInv ==
    /\ run.skipped \subseteq 1..(run.file - 1)
    /\ run.stage = "idle" => run.file = 1
    /\ Dir # NoDir =>
         /\ \A i \in Done : i \in Files /\ Stored(i)
         /\ IsFiniteSet(Counted) /\ run.total = Cardinality(Counted)

\* It has no exit code before its loop is over.
ExitInv ==
    /\ run.stage \in {"idle", "reading", "writing"} => run.exit = "none"
    /\ Dir # NoDir => (run.exit = "0" => run.file > Len(Dir))

\* The inductive invariant.
IInv == TypeOK /\ TablesInv /\ AccountInv /\ ExitInv

-----------------------------------------------------------------------------
\* Midnight UTC of the session, whatever hour of its Bangkok day a bar is stamped with.
LEMMA CanonicalDay ==
    ASSUME NEW d \in Int, NEW h \in 0..23
    PROVE  canonical_ts(Instant(d, h), "1d") = 24 * d
  BY DEF canonical_ts, SessionDate, Instant, Offset

\* From seven in the morning on, the UTC date of an instant is its session.
LEMMA InstantDate ==
    ASSUME NEW d \in Int, NEW h \in Offset..23
    PROVE  UtcDate(Instant(d, h)) = d /\ Instant(d, h) \in Int
  BY DEF UtcDate, Instant, Offset

\* A daily bar is dated by its session.
LEMMA MidnightDate ==
    ASSUME NEW d \in Int
    PROVE  UtcDate(24 * d) = d
  BY DEF UtcDate

\* A stamp of a file is no midnight.
LEMMA SeedApart ==
    ASSUME NEW d \in Int, NEW e \in Int, NEW h \in (Offset + 1)..23
    PROVE  Instant(d, h) # 24 * e
  BY DEF Instant, Offset

\* What every element of a sequence over S is.
LEMMA SeqElement ==
    ASSUME NEW S, NEW q \in Seq(S), NEW i \in DOMAIN q
    PROVE  q[i] \in S /\ i \in 1..Len(q)
  OBVIOUS

\* The files that can be read are files of the directory, each of its own symbol.
LEMMA FileType ==
    ASSUME NEW i \in Files
    PROVE  /\ Dir # NoDir /\ i \in 1..Len(Dir) /\ Dir[i].symbol \in Symbols
           /\ Dir[i].bars \subseteq FileBars /\ IsFiniteSet(Dir[i].bars)
           /\ \A j \in Files : Dir[i].symbol = Dir[j].symbol => i = j
  <1>1. Dir # NoDir /\ i \in DOMAIN Dir /\ Dir[i].bars # Unreadable
    BY DEF Files
  <1>2. Dir \in Seq([symbol : Symbols, bars : {Unreadable} \cup SUBSET FileBars])
    BY <1>1, BarAssumption
  <1>3. Dir[i] \in [symbol : Symbols, bars : {Unreadable} \cup SUBSET FileBars] /\ i \in 1..Len(Dir)
    BY <1>1, <1>2, SeqElement
  <1>4. ASSUME NEW j \in Files, Dir[i].symbol = Dir[j].symbol PROVE i = j
    BY <1>1, <1>4, BarAssumption DEF Files
  <1>5. IsFiniteSet(Dir[i].bars)
    BY <1>1, BarAssumption
  <1> QED BY <1>1, <1>3, <1>4, <1>5

\* The valid rows of a file can be counted.
LEMMA ValidFinite ==
    ASSUME NEW i \in Files
    PROVE  IsFiniteSet(Valid(Dir[i])) /\ Cardinality(Valid(Dir[i])) \in Nat
  <1>1. Valid(Dir[i]) \subseteq Dir[i].bars
    BY DEF Valid
  <1> QED BY <1>1, FileType, FS_Subset, FS_CardinalityType

\* What the backfill reads of a file: bars at a stamp of their session.
LEMMA ParsedRow ==
    ASSUME NEW i \in Files, NEW tf \in Timeframes, NEW k \in DOMAIN Parsed(Dir[i], tf)
    PROVE  LET r == Parsed(Dir[i], tf)[k]
           IN /\ r \in Rows /\ r.source = "csm-backfill-div" /\ r.session \in Sessions
              /\ \E h \in (Offset + 1)..23 : k = <<tf, Instant(r.session, h)>>
  <1> DEFINE V == Valid(Dir[i])
             last == CHOOSE b \in V : SeedKey(b, tf) = k
  <1>1. /\ k \in {SeedKey(b, tf) : b \in V}
        /\ Parsed(Dir[i], tf)[k] = Row(last.price, "csm-backfill-div", last.session)
    BY DEF Parsed
  <1>2. last \in V /\ SeedKey(last, tf) = k
    BY <1>1
  <1>3. last.session \in Sessions /\ last.price \in Prices /\ last.hour \in (Offset + 1)..23
    BY <1>2, FileType DEF Valid, FileBars
  <1> HIDE DEF last
  <1> QED BY <1>1, <1>2, <1>3 DEF Row, Rows, SeedKey

\* What a file parses to is a good table of its symbol.
LEMMA ParsedTable ==
    ASSUME NEW i \in Files, NEW tf \in Timeframes
    PROVE  Good(Dir[i].symbol, Parsed(Dir[i], tf))
  <1> DEFINE f == Parsed(Dir[i], tf)
  <1>1. f = [k \in DOMAIN f |-> f[k]]
    BY DEF Parsed
  <1>2. \A k \in DOMAIN f :
          /\ f[k] \in Rows /\ f[k].session \in Sessions
          /\ \E h \in (Offset + 1)..23 : k = <<tf, Instant(f[k].session, h)>>
    BY ParsedRow
  <1>3. \A d \in Sessions, h \in (Offset + 1)..23 : Instant(d, h) \in Int
    BY DEF Instant, Offset, Sessions
  <1>4. \A k \in DOMAIN f : SeedRow(Dir[i].symbol, k, f[k])
    BY DEF SeedRow
  <1> HIDE DEF f
  <1>5. DOMAIN f \subseteq Timeframes \X Int
    BY <1>2, <1>3
  <1> QED BY <1>1, <1>2, <1>4, <1>5 DEF Good, IsTable, f

\* What the venue shows.
LEMMA ShownBar ==
    ASSUME TypeOK, NEW range, NEW tf \in Timeframes, NEW b \in Shown(range, tf)
    PROVE  /\ b.session \in Sessions /\ b.session \in Int /\ b.price = price[b.session]
           /\ b.hour \in 0..23 /\ (tf = "1h" => b.hour \in IntradayHours)
  <1>1. b \in Traded(tf)
    BY DEF Shown
  <1>2. PICK d \in 1..today, h \in IF tf = "1d" THEN {stamp} ELSE IntradayHours :
          b = [session |-> d, hour |-> h, price |-> price[d]]
    BY <1>1 DEF Traded
  <1> QED BY <1>2, BarAssumption DEF TypeOK, Timeframes, Sessions, Offset

\* The key of a bar: midnight of its session, or its own instant.
LEMMA KeyOf ==
    ASSUME TypeOK, NEW range, NEW tf \in Timeframes, NEW b \in Shown(range, tf)
    PROVE  /\ tf = "1d" => Key(b, tf) = <<"1d", 24 * b.session>>
           /\ tf = "1h" => Key(b, tf) = <<"1h", Instant(b.session, b.hour)>>
           /\ Key(b, tf) \in Timeframes \X Int /\ Key(b, tf)[1] = tf
  <1>1. b.session \in Int /\ b.hour \in 0..23
    BY ShownBar
  <1>2. CASE tf = "1d"
    BY <1>1, <1>2, CanonicalDay DEF Key
  <1>3. CASE tf = "1h"
    BY <1>1, <1>3 DEF Key, canonical_ts, Instant, Offset
  <1> QED BY <1>2, <1>3 DEF Timeframes

\* What an ingest makes of the bars it is shown, in prices the models accept.
LEMMA MappedRow ==
    ASSUME TypeOK, NEW range, NEW tf \in Timeframes, NEW k \in DOMAIN Mapped(Shown(range, tf), tf)
    PROVE  LET r == Mapped(Shown(range, tf), tf)[k]
           IN \E b \in Shown(range, tf) :
                k = Key(b, tf) /\ r = Row(b.price, "tvkit", b.session) /\ TvkitRow(k, r)
  <1> DEFINE B == Shown(range, tf)
             last == CHOOSE b \in B : Key(b, tf) = k
  <1>1. k \in {Key(b, tf) : b \in B} /\ Mapped(B, tf)[k] = Row(last.price, "tvkit", last.session)
    BY DEF Mapped
  <1>2. last \in B /\ Key(last, tf) = k
    BY <1>1
  <1> HIDE DEF last
  <1>3. last.session \in Sessions /\ (tf = "1h" => last.hour \in IntradayHours)
    BY <1>2, ShownBar
  <1>4. TvkitRow(k, Row(last.price, "tvkit", last.session))
    BY <1>2, <1>3, KeyOf DEF TvkitRow, Row, Timeframes
  <1> QED BY <1>1, <1>2, <1>4

\* What an ingest fetches is a good table of any symbol.
LEMMA MappedTable ==
    ASSUME TypeOK, NEW s, NEW range, NEW tf \in Timeframes,
           \A b \in Shown(range, tf) : b.price \in Prices
    PROVE  Good(s, Mapped(Shown(range, tf), tf))
  <1> DEFINE f == Mapped(Shown(range, tf), tf)
  <1>1. f = [k \in DOMAIN f |-> f[k]]
    BY DEF Mapped
  <1>2. ASSUME NEW k \in DOMAIN f
        PROVE  k \in Timeframes \X Int /\ f[k] \in Rows /\ TvkitRow(k, f[k])
    <2>1. PICK b \in Shown(range, tf) :
            k = Key(b, tf) /\ f[k] = Row(b.price, "tvkit", b.session) /\ TvkitRow(k, f[k])
      BY MappedRow
    <2> HIDE DEF f
    <2>2. b.session \in Sessions /\ b.price \in Prices
      BY ShownBar
    <2> QED BY <2>1, <2>2, KeyOf DEF Row, Rows
  <1> HIDE DEF f
  <1> QED BY <1>1, <1>2 DEF Good, IsTable, f

\* No bars are a good table.
LEMMA NoBarsTable ==
    ASSUME NEW s PROVE Good(s, NoBars)
  BY DEF Good, IsTable, NoBars

-----------------------------------------------------------------------------
\* What a row says of where it is from.
LEMMA RowApart ==
    ASSUME NEW s, NEW k, NEW r
    PROVE  /\ TvkitRow(k, r) => r.source = "tvkit" /\ r.session \in Int
           /\ SeedRow(s, k, r) =>
                /\ r.source = "csm-backfill-div" /\ r.session \in Int
                /\ \E h \in (Offset + 1)..23 : k = <<k[1], Instant(r.session, h)>>
  <1>1. TvkitRow(k, r) => r.source = "tvkit" /\ r.session \in Int
    BY DEF TvkitRow, Sessions
  <1>2. ASSUME SeedRow(s, k, r)
        PROVE  /\ r.source = "csm-backfill-div" /\ r.session \in Int
               /\ \E h \in (Offset + 1)..23 : k = <<k[1], Instant(r.session, h)>>
    <2>1. PICK i \in Files, tf \in Timeframes :
            k \in DOMAIN Parsed(Dir[i], tf) /\ r = Parsed(Dir[i], tf)[k]
      BY <1>2 DEF SeedRow
    <2>2. /\ r.source = "csm-backfill-div" /\ r.session \in Sessions
          /\ \E h \in (Offset + 1)..23 : k = <<tf, Instant(r.session, h)>>
      BY <2>1, ParsedRow
    <2> QED BY <2>2 DEF Sessions
  <1> QED BY <1>1, <1>2

\* Of daily bars the key tells the source.
LEMMA DailyApart ==
    ASSUME NEW s, NEW k, k[1] = "1d", NEW q, NEW r, TvkitRow(k, q), SeedRow(s, k, r)
    PROVE  FALSE
  <1>1. q.session \in Int /\ r.session \in Int
    BY RowApart
  <1>2. k = <<"1d", 24 * q.session>>
    BY DEF TvkitRow
  <1>3. PICK h \in (Offset + 1)..23 : k = <<k[1], Instant(r.session, h)>>
    BY RowApart
  <1> QED BY <1>1, <1>2, <1>3, SeedApart

\* A symbol has one file, so a seeded bar is what that file says.
LEMMA SeedUnique ==
    ASSUME NEW i \in Files, NEW tf \in Timeframes, NEW k \in DOMAIN Parsed(Dir[i], tf),
           NEW r, SeedRow(Dir[i].symbol, k, r)
    PROVE  r = Parsed(Dir[i], tf)[k]
  <1>1. PICK j \in Files, tf2 \in Timeframes :
          /\ Dir[j].symbol = Dir[i].symbol /\ k \in DOMAIN Parsed(Dir[j], tf2)
          /\ r = Parsed(Dir[j], tf2)[k]
    BY DEF SeedRow
  <1>2. i = j
    BY <1>1, FileType
  <1>3. k[1] = tf /\ k[1] = tf2
    BY <1>1, ParsedRow
  <1> QED BY <1>1, <1>2, <1>3

\* Under the key of a daily row of a symbol there is no row from elsewhere.
LEMMA SameSource ==
    ASSUME NEW s, NEW k, k[1] = "1d", NEW q, NEW r,
           TvkitRow(k, q) \/ SeedRow(s, k, q), TvkitRow(k, r) \/ SeedRow(s, k, r)
    PROVE  q.source = r.source /\ (q.source = "csm-backfill-div" => q = r)
  <1>1. CASE TvkitRow(k, q)
    BY <1>1, DailyApart, RowApart
  <1>2. CASE SeedRow(s, k, q)
    <2>1. SeedRow(s, k, r)
      BY <1>2, DailyApart
    <2>2. PICK i \in Files, tf \in Timeframes :
            /\ Dir[i].symbol = s /\ k \in DOMAIN Parsed(Dir[i], tf) /\ q = Parsed(Dir[i], tf)[k]
      BY <1>2 DEF SeedRow
    <2> QED BY <2>1, <2>2, SeedUnique
  <1> QED BY <1>1, <1>2

\* An upsert keeps a table good, and of the old rows what the properties ask for.
LEMMA MergedTable ==
    ASSUME NEW s, NEW f, NEW g, Good(s, f), Good(s, g)
    PROVE  /\ Good(s, Merged(f, g))
           /\ \A k \in DOMAIN f :
                /\ k \in DOMAIN Merged(f, g)
                /\ k[1] = "1d" =>
                     /\ Merged(f, g)[k].source = f[k].source
                     /\ f[k].source = "csm-backfill-div" => Merged(f, g)[k] = f[k]
           /\ \A k \in DOMAIN g : k \in DOMAIN Merged(f, g) /\ Merged(f, g)[k] = g[k]
  <1> DEFINE m == Merged(f, g)
  <1>1. /\ m = [k \in DOMAIN m |-> m[k]] /\ DOMAIN m = DOMAIN f \cup DOMAIN g
        /\ \A k \in DOMAIN m : m[k] = IF k \in DOMAIN g THEN g[k] ELSE f[k]
    BY DEF Merged
  <1> HIDE DEF m
  <1>2. IsTable(m)
    BY <1>1 DEF Good, IsTable
  <1>3. \A k \in DOMAIN m : TvkitRow(k, m[k]) \/ SeedRow(s, k, m[k])
    BY <1>1 DEF Good
  <1>4. ASSUME NEW k \in DOMAIN f
        PROVE  /\ k \in DOMAIN m
               /\ k[1] = "1d" => /\ m[k].source = f[k].source
                                 /\ f[k].source = "csm-backfill-div" => m[k] = f[k]
    <2>1. k \in DOMAIN m /\ (TvkitRow(k, f[k]) \/ SeedRow(s, k, f[k]))
      BY <1>1 DEF Good
    <2>2. TvkitRow(k, m[k]) \/ SeedRow(s, k, m[k])
      BY <1>1, <1>3
    <2> QED BY <2>1, <2>2, SameSource
  <1> QED BY <1>1, <1>2, <1>3, <1>4 DEF Good, m

-----------------------------------------------------------------------------
\* What the backfill may have read.
Reads == {NoBars} \cup {Parsed(Dir[i], tf) : i \in Files, tf \in Timeframes}

\* The part of TypeOK about the backfill.
RunType ==
    /\ run \in [number : 1..MaxRuns, timeframe : Timeframes,
               stage : {"idle", "reading", "writing", "closing", "exited"}, file : Nat \ {0},
               read : Reads, skipped : SUBSET Nat, total : Nat,
               exit : {"none", "0", "1", "killed"}]
    /\ run.stage \in {"reading", "writing"} => Dir # NoDir
    /\ run.stage = "writing" =>
         run.file \in Files /\ run.read = Parsed(Dir[run.file], run.timeframe)

\* The invariant holds at the beginning.
LEMMA InitInv ==
    ASSUME Init PROVE IInv
  <1>1. \A s \in Symbols : Good(s, NoBars)
    BY NoBarsTable
  <1>2. IsTable(NoBars)
    BY NoBarsTable DEF Good
  <1>3. (CHOOSE p \in Prices : TRUE) \in Prices
    BY BarAssumption
  <1>4. TypeOK
    <2>1. /\ live \in Schedules /\ today \in Sessions /\ clock \in {0} \cup IntradayHours
          /\ stamp \in Stamps /\ changes \in 0..MaxChanges /\ events \in 0..MaxEvents
          /\ price \in [Sessions -> Prices \cup {Unusable}]
      BY <1>3, BarAssumption DEF Init, Sessions
    <2>2. /\ rows = [s \in Symbols |-> rows[s]] /\ \A s \in Symbols : IsTable(rows[s])
          /\ fetched = [p \in Symbols \X Timeframes \X Jobs |-> fetched[p]]
          /\ \A p \in Symbols \X Timeframes \X Jobs : IsTable(fetched[p])
      BY <1>2 DEF Init
    <2>3. NoBars \in Reads /\ 1 \in 1..MaxRuns /\ run = NewRun(1)
      BY BarAssumption DEF Reads, Init
    <2>4. RunType
      BY <2>3 DEF NewRun, RunType, Timeframes
    <2> QED BY <2>1, <2>2, <2>4 DEF TypeOK, RunType, Reads
  <1>5. TablesInv
    BY <1>1 DEF Init, TablesInv
  <1>6. AccountInv /\ ExitInv
    <2>1. Done = {}
      BY DEF Init, NewRun, Done
    <2>2. Counted = {}
      BY <2>1 DEF Counted
    <2> QED BY <2>1, <2>2, FS_EmptySet DEF Init, NewRun, AccountInv, ExitInv
  <1> QED BY <1>4, <1>5, <1>6 DEF IInv

\* The rows of every symbol stay good, none goes, and each daily row stays what it was
\* for SourcesApart.
RowsKept ==
    /\ rows' = [s \in Symbols |-> rows'[s]]
    /\ \A s \in Symbols :
         /\ Good(s, rows'[s])
         /\ \A k \in DOMAIN rows[s] :
              /\ k \in DOMAIN rows'[s]
              /\ k[1] = "1d" =>
                   /\ rows'[s][k].source = rows[s][k].source
                   /\ rows[s][k].source = "csm-backfill-div" => rows'[s][k] = rows[s][k]

\* An upsert of good rows keeps them.
LEMMA UpsertKeeps ==
    ASSUME TypeOK, TablesInv, NEW s \in Symbols, NEW g, Good(s, g), Upsert(s, g)
    PROVE  RowsKept /\ \A k \in DOMAIN g : k \in DOMAIN rows'[s] /\ rows'[s][k] = g[k]
  <1>1. rows' = [s2 \in Symbols |-> rows'[s2]] /\ rows'[s] = Merged(rows[s], g)
        /\ \A t \in Symbols \ {s} : rows'[t] = rows[t]
    BY DEF TypeOK, Upsert
  <1>2. ASSUME NEW t \in Symbols
        PROVE  /\ Good(t, rows'[t])
               /\ \A k \in DOMAIN rows[t] :
                    /\ k \in DOMAIN rows'[t]
                    /\ k[1] = "1d" =>
                         /\ rows'[t][k].source = rows[t][k].source
                         /\ rows[t][k].source = "csm-backfill-div" => rows'[t][k] = rows[t][k]
    <2>1. Good(t, rows[t])
      BY DEF TablesInv
    <2>2. CASE t = s
      BY <1>1, <2>1, <2>2, MergedTable
    <2>3. CASE t # s
      BY <1>1, <2>1, <2>3
    <2> QED BY <2>2, <2>3
  <1>3. \A k \in DOMAIN g : k \in DOMAIN rows'[s] /\ rows'[s][k] = g[k]
    <2>2. \A k \in DOMAIN g : k \in DOMAIN Merged(rows[s], g) /\ Merged(rows[s], g)[k] = g[k]
      BY DEF Merged
    <2> QED BY <1>1, <2>2
  <1> QED BY <1>1, <1>2, <1>3 DEF RowsKept

\* A step that writes no rows keeps them.
LEMMA UnchangedKeeps ==
    ASSUME TypeOK, TablesInv, UNCHANGED rows PROVE RowsKept
  BY DEF TypeOK, TablesInv, RowsKept

\* The only steps that write are those that upsert, and what they upsert is good.
LEMMA StepKeepsRows ==
    ASSUME IInv, [Next]_vars PROVE RowsKept
  <1> USE DEF IInv
  <1>1. ASSUME NEW s \in Symbols, NEW tf \in Timeframes, NEW j \in Jobs,
               Store(s, tf, j) \/ StoreFails(s, tf, j)
        PROVE  RowsKept
    <2>1. Upsert(s, fetched[<<s, tf, j>>]) \/ UNCHANGED rows
      BY <1>1 DEF Store, StoreFails
    <2> QED BY <2>1, UpsertKeeps, UnchangedKeeps DEF TablesInv
  <1>2. ASSUME StoreFile \/ StoreFileFails PROVE RowsKept
    <2>1. run.stage = "writing" /\ (Upsert(Dir[run.file].symbol, run.read) \/ UNCHANGED rows)
      BY <1>2 DEF StoreFile, StoreFileFails
    <2>2. /\ run.file \in Files /\ run.read = Parsed(Dir[run.file], run.timeframe)
          /\ run.timeframe \in Timeframes
      BY <2>1 DEF TypeOK
    <2> QED BY <2>1, <2>2, FileType, ParsedTable, UpsertKeeps, UnchangedKeeps
  <1>3. CASE UNCHANGED rows
    BY <1>3, UnchangedKeeps
  <1> QED
    BY <1>1, <1>2, <1>3
    DEF Next, vars, rest, NextHour, NextSession, MoveStamp, Correct, Fetch, Answer, Start,
        ReadFile, EndLoop, Close, Kill, Rerun

-----------------------------------------------------------------------------
\* A step of an ingest changes what it has in its hands, and nothing else does.
LEMMA HandsOnly ==
    ASSUME [Next]_vars
    PROVE  \/ UNCHANGED fetched
           \/ \E s \in Symbols, tf \in Timeframes, j \in Jobs :
                Fetch(s, tf, j) \/ Store(s, tf, j) \/ StoreFails(s, tf, j)
  BY DEF Next, vars, rest, NextHour, NextSession, MoveStamp, Correct, Start, ReadFile,
         StoreFile, StoreFileFails, EndLoop, Close, Kill, Rerun

\* What an ingest has in its hands stays good.
LEMMA FetchedStep ==
    ASSUME IInv, [Next]_vars
    PROVE  /\ fetched' = [p \in Symbols \X Timeframes \X Jobs |-> fetched'[p]]
           /\ \A s \in Symbols, tf \in Timeframes, j \in Jobs : Good(s, fetched'[<<s, tf, j>>])
  <1> DEFINE Hands == Symbols \X Timeframes \X Jobs
  <1>0. TypeOK /\ TablesInv /\ fetched = [p \in Hands |-> fetched[p]]
    BY DEF IInv, TypeOK
  <1>1. ASSUME NEW s \in Symbols, NEW tf \in Timeframes, NEW j \in Jobs, NEW g, Good(s, g),
               fetched' = [fetched EXCEPT ![<<s, tf, j>>] = g]
        PROVE  /\ fetched' = [p \in Hands |-> fetched'[p]]
               /\ \A s2 \in Symbols, tf2 \in Timeframes, j2 \in Jobs :
                    Good(s2, fetched'[<<s2, tf2, j2>>])
    <2>1. \A s2 \in Symbols, tf2 \in Timeframes, j2 \in Jobs :
            /\ <<s2, tf2, j2>> \in Hands
            /\ Good(s2, fetched[<<s2, tf2, j2>>])
      BY <1>0 DEF TablesInv
    <2> HIDE DEF Hands
    <2>2. fetched' = [p \in Hands |-> IF p = <<s, tf, j>> THEN g ELSE fetched[p]]
      BY <1>0, <1>1
    <2> QED BY <1>1, <2>1, <2>2
  <1>2. ASSUME NEW s \in Symbols, NEW tf \in Timeframes, NEW j \in Jobs, Fetch(s, tf, j)
        PROVE  \E g : Good(s, g) /\ fetched' = [fetched EXCEPT ![<<s, tf, j>>] = g]
    BY <1>0, <1>2, MappedTable DEF Fetch, Answer
  <1>3. ASSUME NEW s \in Symbols, NEW tf \in Timeframes, NEW j \in Jobs,
               Store(s, tf, j) \/ StoreFails(s, tf, j)
        PROVE  \E g : Good(s, g) /\ fetched' = [fetched EXCEPT ![<<s, tf, j>>] = g]
    BY <1>3, NoBarsTable DEF Store, StoreFails
  <1>4. CASE UNCHANGED fetched
    BY <1>0, <1>4 DEF TablesInv
  <1>5. CASE \E s \in Symbols, tf \in Timeframes, j \in Jobs :
               Fetch(s, tf, j) \/ Store(s, tf, j) \/ StoreFails(s, tf, j)
    <2>1. PICK s \in Symbols, tf \in Timeframes, j \in Jobs :
            Fetch(s, tf, j) \/ Store(s, tf, j) \/ StoreFails(s, tf, j)
      BY <1>5
    <2>2. PICK g : Good(s, g) /\ fetched' = [fetched EXCEPT ![<<s, tf, j>>] = g]
      BY <1>2, <1>3, <2>1
    <2> QED BY <1>1, <2>2
  <1> QED BY <1>4, <1>5, HandsOnly

\* Every step keeps what is stored and in hand where it should stand.
LEMMA TablesStep ==
    ASSUME IInv, [Next]_vars PROVE TablesInv'
  BY StepKeepsRows, FetchedStep DEF RowsKept, TablesInv

\* The venue and the counters of the model.
LEMMA VenueStep ==
    ASSUME TypeOK, [Next]_vars
    PROVE  /\ live' \in Schedules /\ today' \in Sessions /\ clock' \in {0} \cup IntradayHours
           /\ stamp' \in Stamps /\ price' \in [Sessions -> Prices \cup {Unusable}]
           /\ changes' \in 0..MaxChanges /\ events' \in 0..MaxEvents
  <1> USE BarAssumption DEF TypeOK, Sessions
  <1>1. CASE NextHour \/ NextSession
    BY <1>1 DEF NextHour, NextSession
  <1>2. CASE MoveStamp
    BY <1>2 DEF MoveStamp
  <1>3. CASE Correct
    BY <1>3 DEF Correct
  <1>4. CASE UNCHANGED <<venue, events>>
    BY <1>4 DEF venue
  <1>5. CASE UNCHANGED venue /\ Event
    BY <1>5 DEF Event, venue
  <1>6. ASSUME NEW s \in Symbols, NEW tf \in Timeframes, NEW j \in Jobs,
               Fetch(s, tf, j) \/ Store(s, tf, j) \/ StoreFails(s, tf, j)
        PROVE  UNCHANGED venue /\ (UNCHANGED events \/ Event)
    BY <1>6 DEF Fetch, Answer, Store, StoreFails
  <1>7. CASE Start \/ ReadFile \/ StoreFile \/ StoreFileFails \/ EndLoop \/ Close \/ Kill \/ Rerun
    BY <1>4, <1>5, <1>7 DEF Start, ReadFile, StoreFile, StoreFileFails, EndLoop, Close, Kill, Rerun, rest
  <1>8. CASE UNCHANGED vars
    BY <1>4, <1>8 DEF vars
  <1> QED BY <1>1, <1>2, <1>3, <1>4, <1>5, <1>6, <1>7, <1>8 DEF Next

\* The backfill keeps its type; what it is about to write is its file.
LEMMA RunTypeStep ==
    ASSUME TypeOK, [Next]_vars PROVE RunType'
  <1>0. RunType
    BY DEF TypeOK, RunType, Reads
  <1>9. NoBars \in Reads
    BY DEF Reads
  <1>1. CASE Start
    BY <1>0, <1>1, BarAssumption DEF Start, RunType
  <1>2. CASE ReadFile
    <2>1. run.stage = "reading" /\ run.file \in Nat \ {0} /\ run.file <= Len(Dir) /\ Dir # NoDir
      BY <1>0, <1>2 DEF ReadFile, RunType
    <2>2. Dir[run.file].bars # Unreadable => run.file \in Files
      BY <2>1, BarAssumption DEF Files
    <2>3. CASE Skip
      <3> DEFINE skipped == run.skipped \cup {run.file}
      <3>1. skipped \in SUBSET Nat
        BY <1>0, <2>1 DEF RunType
      <3>2. run' = [run EXCEPT !.file = @ + 1, !.skipped = skipped]
        BY <1>0, <2>3 DEF Skip, RunType
      <3> HIDE DEF skipped
      <3>3. run' = [number |-> run.number, timeframe |-> run.timeframe, stage |-> run.stage,
                    file |-> run.file + 1, read |-> run.read, skipped |-> skipped,
                    total |-> run.total, exit |-> run.exit]
        BY <1>0, <3>2 DEF RunType
      <3> QED BY <1>0, <2>1, <3>1, <3>3 DEF RunType
    <2>4. CASE Dir[run.file].bars # Unreadable /\ run' = [run EXCEPT !.file = @ + 1]
      BY <1>0, <2>1, <2>4 DEF RunType
    <2>5. CASE /\ Dir[run.file].bars # Unreadable
               /\ run' = [run EXCEPT !.stage = "writing",
                                    !.read = Parsed(Dir[run.file], run.timeframe)]
      <3> DEFINE read == Parsed(Dir[run.file], run.timeframe)
      <3>1. read \in Reads /\ run.file \in Files
        BY <1>0, <2>2, <2>5 DEF Reads, RunType
      <3>2. /\ run'.file = run.file /\ run'.stage = "writing" /\ run'.read = read
            /\ run'.timeframe = run.timeframe
        BY <1>0, <2>5 DEF RunType
      <3> HIDE DEF read
      <3>3. run' = [run EXCEPT !.stage = "writing", !.read = read]
        BY <2>5 DEF read
      <3>4. run' \in [number : 1..MaxRuns, timeframe : Timeframes,
               stage : {"idle", "reading", "writing", "closing", "exited"}, file : Nat \ {0},
               read : Reads, skipped : SUBSET Nat, total : Nat,
               exit : {"none", "0", "1", "killed"}]
        BY <1>0, <3>1, <3>3 DEF RunType
      <3> QED BY <2>1, <3>1, <3>2, <3>4 DEF RunType, read
    <2> QED BY <1>2, <2>3, <2>4, <2>5 DEF ReadFile
  <1>3. CASE StoreFile
    <2> DEFINE read == Cardinality(Valid(Dir[run.file]))
    <2>1. /\ run' = [run EXCEPT !.stage = "reading", !.file = @ + 1, !.read = NoBars, !.total = @ + read]
          /\ run.stage = "writing" /\ read \in Nat
      BY <1>0, <1>3, ValidFinite DEF StoreFile, RunType
    <2> HIDE DEF read
    <2>4. run' = [number |-> run.number, timeframe |-> run.timeframe, stage |-> "reading",
                  file |-> run.file + 1, read |-> NoBars, skipped |-> run.skipped,
                  total |-> run.total + read, exit |-> run.exit]
      BY <1>0, <2>1 DEF RunType
    <2> QED BY <1>0, <1>9, <2>1, <2>4 DEF RunType
  <1>4. CASE StoreFileFails \/ EndLoop \/ Close \/ Kill
    <2>1. \/ run' = [run EXCEPT !.stage = "closing", !.exit = "1"]
          \/ run' = [run EXCEPT !.stage = "closing", !.exit = "0"]
          \/ run' = [run EXCEPT !.stage = "exited"]
          \/ run' = [run EXCEPT !.stage = "exited", !.exit = "1"]
          \/ run' = [run EXCEPT !.stage = "exited", !.exit = "killed"]
      BY <1>4 DEF StoreFileFails, EndLoop, Close, Kill
    <2> QED BY <1>0, <2>1 DEF RunType
  <1>5. CASE Rerun
    BY <1>0, <1>9, <1>5, BarAssumption DEF Rerun, NewRun, RunType, Timeframes
  <1>6. CASE UNCHANGED run
    BY <1>0, <1>6 DEF RunType
  <1> QED
    BY <1>1, <1>2, <1>3, <1>4, <1>5, <1>6
    DEF Next, vars, NextHour, NextSession, MoveStamp, Correct, Fetch, Answer, Store, StoreFails

\* Every step keeps the types.
LEMMA TypeStep ==
    ASSUME IInv, [Next]_vars PROVE TypeOK'
  <1>1. rows' = [s \in Symbols |-> rows'[s]] /\ \A s \in Symbols : IsTable(rows'[s])
    BY StepKeepsRows DEF RowsKept, Good
  <1>2. /\ fetched' = [p \in Symbols \X Timeframes \X Jobs |-> fetched'[p]]
        /\ \A p \in Symbols \X Timeframes \X Jobs : IsTable(fetched'[p])
    BY FetchedStep DEF Good
  <1> QED BY <1>1, <1>2, VenueStep, RunTypeStep DEF IInv, TypeOK, RunType, Reads

-----------------------------------------------------------------------------
\* The file is in the store after the step.
StoredNext(i) ==
    \A k \in DOMAIN Parsed(Dir[i], run'.timeframe) :
      /\ k \in DOMAIN rows'[Dir[i].symbol]
      /\ \/ rows'[Dir[i].symbol][k] = Parsed(Dir[i], run'.timeframe)[k]
         \/ k[1] # "1d" /\ rows'[Dir[i].symbol][k].source = "tvkit"

\* A row under a key of a file is the file's, or an intraday bar of the vendor.
LEMMA KeyOfFile ==
    ASSUME NEW i \in Files, NEW tf \in Timeframes, NEW f, Good(Dir[i].symbol, f),
           NEW k \in DOMAIN Parsed(Dir[i], tf), k \in DOMAIN f
    PROVE  f[k] = Parsed(Dir[i], tf)[k] \/ (k[1] # "1d" /\ f[k].source = "tvkit")
  <1>1. CASE SeedRow(Dir[i].symbol, k, f[k])
    BY <1>1, SeedUnique
  <1>2. CASE TvkitRow(k, f[k])
    <2>1. SeedRow(Dir[i].symbol, k, Parsed(Dir[i], tf)[k])
      BY DEF SeedRow
    <2> QED BY <1>2, <2>1, DailyApart, RowApart
  <1> QED BY <1>1, <1>2 DEF Good

\* A file that is in the store stays there: no row goes, and what may come to its keys is
\* its own or the vendor's.
LEMMA StoredKept ==
    ASSUME RowsKept, NEW i \in Files, Stored(i), run'.timeframe = run.timeframe,
           run.timeframe \in Timeframes
    PROVE  StoredNext(i)
  <1>1. Dir[i].symbol \in Symbols
    BY FileType
  <1>2. ASSUME NEW k \in DOMAIN Parsed(Dir[i], run.timeframe)
        PROVE  /\ k \in DOMAIN rows'[Dir[i].symbol]
               /\ \/ rows'[Dir[i].symbol][k] = Parsed(Dir[i], run.timeframe)[k]
                  \/ k[1] # "1d" /\ rows'[Dir[i].symbol][k].source = "tvkit"
    <2>1. k \in DOMAIN rows'[Dir[i].symbol] /\ Good(Dir[i].symbol, rows'[Dir[i].symbol])
      BY <1>1 DEF Stored, RowsKept
    <2> QED BY <2>1, KeyOfFile
  <1> QED BY <1>2 DEF StoredNext

\* A file with no rows to store, or one just stored, is added to the account.
LEMMA AccountExtended ==
    ASSUME IInv, RowsKept, run.file \in Files, StoredNext(run.file),
           run'.stage # "idle", run'.timeframe = run.timeframe,
           run'.file = run.file + 1, run'.skipped = run.skipped,
           run'.total = run.total + Cardinality(Valid(Dir[run.file]))
    PROVE  AccountInv'
  <1> DEFINE D == {run.file} \X Valid(Dir[run.file])
  <1>0. /\ run.file \in Nat \ {0} /\ run.skipped \subseteq 1..(run.file - 1) /\ Dir # NoDir
        /\ \A i \in Done : i \in Files /\ Stored(i)
        /\ IsFiniteSet(Counted) /\ run.total = Cardinality(Counted)
        /\ run.timeframe \in Timeframes
    BY FileType DEF IInv, TypeOK, AccountInv
  <1>1. Done' = Done \cup {run.file} /\ run.file \notin Done
    BY <1>0 DEF Done
  <1>2. Counted' = Counted \cup D /\ Counted \cap D = {}
    BY <1>1 DEF Counted
  <1>3. IsFiniteSet(D) /\ Cardinality(D) = Cardinality(Valid(Dir[run.file]))
    <2>1. /\ IsFiniteSet({run.file}) /\ Cardinality({run.file}) = 1
          /\ IsFiniteSet(Valid(Dir[run.file])) /\ Cardinality(Valid(Dir[run.file])) \in Nat
      BY FS_Singleton, ValidFinite
    <2>2. /\ IsFiniteSet(D)
          /\ Cardinality(D) = Cardinality({run.file}) * Cardinality(Valid(Dir[run.file]))
      BY <2>1, FS_Product
    <2> QED BY <2>1, <2>2
  <1> HIDE DEF D
  <1>4. /\ IsFiniteSet(Counted')
        /\ Cardinality(Counted') = Cardinality(Counted) + Cardinality(D) - Cardinality(Counted \cap D)
        /\ Cardinality(Counted \cap D) = 0 /\ Cardinality(Counted) \in Nat /\ Cardinality(D) \in Nat
    BY <1>0, <1>2, <1>3, FS_Union, FS_EmptySet, FS_CardinalityType
  <1>5. \A i \in Done' : i \in Files /\ StoredNext(i)
    BY <1>0, <1>1, StoredKept
  <1>6. run'.skipped \subseteq 1..(run'.file - 1)
    BY <1>0
  <1>7. run'.total = Cardinality(Counted')
    BY <1>0, <1>3, <1>4
  <1> QED BY <1>4, <1>5, <1>6, <1>7 DEF AccountInv, Stored, StoredNext

\* A step that neither counts nor leaves a file.
LEMMA AccountKept ==
    ASSUME IInv, RowsKept, run'.stage = "idle" => run.stage = "idle",
           run'.timeframe = run.timeframe,
           run'.file = run.file, run'.skipped = run.skipped, run'.total = run.total
    PROVE  AccountInv'
  <1>1. Done' = Done /\ Counted' = Counted
    BY DEF Done, Counted
  <1>2. run.timeframe \in Timeframes
    BY DEF IInv, TypeOK
  <1> QED BY <1>1, <1>2, StoredKept DEF IInv, AccountInv, Stored, StoredNext

\* A skipped file is left out of it.
LEMMA AccountSkips ==
    ASSUME IInv, RowsKept, run.stage = "reading", Skip PROVE AccountInv'
  <1>0. /\ run.file \in Nat \ {0} /\ run.skipped \subseteq 1..(run.file - 1)
        /\ run.timeframe \in Timeframes
    BY DEF IInv, TypeOK, AccountInv
  <1>1. /\ run'.file = run.file + 1 /\ run'.total = run.total /\ run'.stage = "reading"
        /\ run'.skipped = run.skipped \cup {run.file} /\ run'.timeframe = run.timeframe
    BY DEF IInv, TypeOK, Skip
  <1>2. Done' = Done
    BY <1>0, <1>1 DEF Done
  <1>3. Counted' = Counted
    BY <1>2 DEF Counted
  <1>4. run'.skipped \subseteq 1..(run'.file - 1)
    BY <1>0, <1>1
  <1> QED BY <1>0, <1>1, <1>2, <1>3, <1>4, StoredKept DEF IInv, AccountInv, Stored, StoredNext

\* A run that begins has done and counted nothing.
LEMMA AccountStarts ==
    ASSUME run'.file = 1, run'.skipped = {}, run'.total = 0 PROVE AccountInv'
  <1>2. Done' = {}
    BY DEF Done
  <1>3. Counted' = {}
    BY <1>2 DEF Counted
  <1> QED BY <1>2, <1>3, FS_EmptySet DEF AccountInv

\* Every step keeps the account of the run.
LEMMA AccountStep ==
    ASSUME IInv, [Next]_vars, RowsKept PROVE AccountInv'
  <1> DEFINE Same == /\ run'.file = run.file /\ run'.skipped = run.skipped
                     /\ run'.total = run.total /\ run'.timeframe = run.timeframe
                     /\ run'.stage # "idle"
  <1>0. RunType
    BY DEF IInv, TypeOK, RunType, Reads
  <1>1. CASE ReadFile
    <2>1. run.stage = "reading" /\ run.file \in Nat \ {0} /\ run.file <= Len(Dir) /\ Dir # NoDir
      BY <1>0, <1>1 DEF ReadFile, RunType
    <2>2. CASE Skip
      BY <2>1, <2>2, AccountSkips
    <2>3. CASE /\ Dir[run.file].bars # Unreadable /\ Valid(Dir[run.file]) = {}
               /\ run' = [run EXCEPT !.file = @ + 1]
      <3>1. run.file \in Files
        BY <2>1, <2>3, BarAssumption DEF Files
      <3>2. DOMAIN Parsed(Dir[run.file], run'.timeframe) = {}
        BY <2>3 DEF Parsed
      <3>3. StoredNext(run.file)
        BY <3>2 DEF StoredNext
      <3>4. /\ run'.file = run.file + 1 /\ run'.skipped = run.skipped /\ run'.total = run.total
            /\ run.total \in Nat /\ run'.stage = "reading" /\ run'.timeframe = run.timeframe
        BY <1>0, <2>1, <2>3 DEF RunType
      <3>5. Cardinality(Valid(Dir[run.file])) = 0
        BY <2>3, FS_EmptySet
      <3>6. run'.total = run.total + Cardinality(Valid(Dir[run.file]))
        BY <3>4, <3>5
      <3> QED BY <3>1, <3>3, <3>4, <3>6, AccountExtended
    <2>4. CASE run' = [run EXCEPT !.stage = "writing",
                                 !.read = Parsed(Dir[run.file], run.timeframe)]
      <3>1. Same
        BY <1>0, <2>4 DEF RunType
      <3> QED BY <3>1, AccountKept
    <2> QED BY <1>1, <2>2, <2>3, <2>4 DEF ReadFile
  <1>2. CASE StoreFile
    <2>1. /\ run.file \in Files /\ run.read = Parsed(Dir[run.file], run.timeframe)
          /\ run.stage = "writing" /\ run.timeframe \in Timeframes
      BY <1>0, <1>2 DEF StoreFile, RunType
    <2>2. /\ run'.file = run.file + 1 /\ run'.skipped = run.skipped /\ run'.stage = "reading"
          /\ run'.total = run.total + Cardinality(Valid(Dir[run.file]))
          /\ run'.timeframe = run.timeframe
      BY <1>0, <1>2, <2>1 DEF StoreFile, RunType
    <2>3. StoredNext(run.file)
      <3>1. Good(Dir[run.file].symbol, run.read) /\ Dir[run.file].symbol \in Symbols
        BY <2>1, ParsedTable, FileType
      <3>2. Upsert(Dir[run.file].symbol, run.read)
        BY <1>2 DEF StoreFile
      <3> QED BY <2>1, <2>2, <3>1, <3>2, UpsertKeeps DEF StoredNext, IInv
    <2> QED BY <2>1, <2>2, <2>3, AccountExtended
  <1>3. CASE Start
    <2>1. /\ run.file = 1 /\ run.skipped \subseteq 1..0 /\ (Dir # NoDir => run.total = 0)
      <3>1. run.file = 1 /\ run.skipped \subseteq 1..(1 - 1)
        BY <1>3 DEF IInv, AccountInv, Start
      <3>2. Done = {}
        BY <3>1 DEF Done
      <3>3. Counted = {}
        BY <3>2 DEF Counted
      <3> QED BY <3>1, <3>3, FS_EmptySet DEF IInv, AccountInv
    <2>2. /\ run'.file = run.file /\ run'.skipped = run.skipped /\ run'.total = run.total
      BY <1>0, <1>3 DEF Start, RunType
    <2>3. run'.skipped = {}
      BY <2>1, <2>2
    <2>4. CASE Dir = NoDir
      BY <2>1, <2>2, <2>3, <2>4 DEF AccountInv
    <2>5. CASE Dir # NoDir
      BY <2>1, <2>2, <2>3, <2>5, AccountStarts
    <2> QED BY <2>4, <2>5
  <1>4. CASE Rerun
    BY <1>4, AccountStarts DEF Rerun, NewRun
  <1>5. CASE StoreFileFails \/ EndLoop \/ Close \/ Kill
    <2>1. Same
      BY <1>0, <1>5 DEF StoreFileFails, EndLoop, Close, Kill, RunType
    <2> QED BY <2>1, AccountKept
  <1>6. CASE UNCHANGED run
    BY <1>6, AccountKept
  <1> QED
    BY <1>1, <1>2, <1>3, <1>4, <1>5, <1>6
    DEF Next, vars, NextHour, NextSession, MoveStamp, Correct, Fetch, Answer, Store, StoreFails

\* The exit code is 0 at the end of the loop only, or when there is no directory.
LEMMA ExitStep ==
    ASSUME IInv, [Next]_vars PROVE ExitInv'
  <1>0. RunType /\ ExitInv
    BY DEF IInv, TypeOK, RunType, Reads
  <1>1. CASE Start \/ ReadFile \/ StoreFile
    BY <1>0, <1>1 DEF Start, ReadFile, Skip, StoreFile, RunType, ExitInv
  <1>2. CASE StoreFileFails \/ EndLoop \/ Close \/ Kill
    BY <1>0, <1>2 DEF StoreFileFails, EndLoop, Close, Kill, RunType, ExitInv
  <1>3. CASE Rerun
    BY <1>3 DEF Rerun, NewRun, ExitInv
  <1>4. CASE UNCHANGED run
    BY <1>0, <1>4 DEF ExitInv
  <1> QED
    BY <1>1, <1>2, <1>3, <1>4
    DEF Next, vars, NextHour, NextSession, MoveStamp, Correct, Fetch, Answer, Store, StoreFails

\* Every step keeps the invariant.
LEMMA StepInv ==
    ASSUME IInv, [Next]_vars PROVE IInv'
  <1>1. AccountInv' /\ ExitInv'
    BY StepKeepsRows, AccountStep, ExitStep
  <1> QED BY <1>1, TypeStep, TablesStep DEF IInv

\* The invariant holds throughout.
THEOREM Inductive == Spec => []IInv
  BY InitInv, StepInv, PTL DEF Spec

\* No bar the models refuse is in the store.
THEOREM TypeCorrect == Spec => []TypeOK
  <1>1. IInv => TypeOK
    BY DEF IInv
  <1> QED BY <1>1, Inductive, PTL

\* However the vendor moves its stamp, a session has one daily bar from it.
THEOREM OneBar == Spec => []OneBarPerSession
  <1>1. ASSUME IInv, NEW s \in Symbols, NEW k \in DOMAIN rows[s],
               k[1] = "1d", rows[s][k].source = "tvkit"
        PROVE  k = <<"1d", 24 * rows[s][k].session>>
    <2>1. TvkitRow(k, rows[s][k]) \/ SeedRow(s, k, rows[s][k])
      BY <1>1 DEF IInv, TablesInv, Good
    <2> QED BY <1>1, <2>1, RowApart DEF TvkitRow
  <1>2. IInv => OneBarPerSession
    BY <1>1 DEF OneBarPerSession
  <1> QED BY <1>2, Inductive, PTL

\* Every bar, from the vendor or a file, is stored under the UTC date of its session.
THEOREM DatesAreSessions == Spec => []DatedBySession
  <1>1. ASSUME IInv, NEW s \in Symbols, NEW k \in DOMAIN rows[s]
        PROVE  UtcDate(k[2]) = rows[s][k].session
    <2> DEFINE r == rows[s][k]
    <2>1. TvkitRow(k, r) \/ SeedRow(s, k, r)
      BY <1>1 DEF IInv, TablesInv, Good
    <2> HIDE DEF r
    <2>2. r.session \in Int
      BY <2>1, RowApart
    <2>3. ASSUME k = <<"1d", 24 * r.session>> PROVE UtcDate(k[2]) = r.session
      BY <2>2, <2>3, MidnightDate
    <2>4. ASSUME NEW h \in Offset..23, k = <<k[1], Instant(r.session, h)>>
          PROVE  UtcDate(k[2]) = r.session
      BY <2>2, <2>4, InstantDate
    <2>5. IntradayHours \subseteq Offset..23 /\ (Offset + 1)..23 \subseteq Offset..23
      BY BarAssumption DEF Offset
    <2>6. UtcDate(k[2]) = r.session
      BY <2>1, <2>3, <2>4, <2>5, RowApart DEF TvkitRow
    <2> QED BY <2>6 DEF r
  <1>2. IInv => DatedBySession
    BY <1>1 DEF DatedBySession
  <1> QED BY <1>2, Inductive, PTL

\* Of daily bars, neither path writes over the other's, and a backfill that is run again
\* changes none of its own; no bar goes.
THEOREM SourcesStayApart == Spec => SourcesApart
  <1>1. IInv /\ [Next]_vars => RowsKept
    BY StepKeepsRows
  <1>2. RowsKept =>
          \A s \in Symbols : \A k \in DOMAIN rows[s] :
            /\ k \in DOMAIN rows'[s]
            /\ k[1] = "1d" =>
                 /\ rows'[s][k].source = rows[s][k].source
                 /\ rows[s][k].source = "csm-backfill-div" => rows'[s][k] = rows[s][k]
    BY DEF RowsKept
  <1> QED BY <1>1, <1>2, Inductive, PTL DEF Spec, SourcesApart

\* A backfill has stored and counted the files it is past, however it ends.
THEOREM BackfillIsAccounted == Spec => []BackfillAccounts
  <1>1. IInv => BackfillAccounts
    BY DEF IInv, AccountInv, ExitInv, BackfillAccounts, Counted
  <1> QED BY <1>1, Inductive, PTL

-----------------------------------------------------------------------------
\* What HolesHeal rests on: a refresh that begins once the venue rests heals the window.

\* Bars as the venue shows them.
AsShown(f) == \A k \in DOMAIN f : f[k].price = price[f[k].session]

\* Nobody who ingests the series has older bars in its hands.
Current(s, tf) == \A j \in Jobs : AsShown(fetched[<<s, tf, j>>])

\* The refresh has all the bars of its window in its hands.
Covers(s, tf) ==
    \A b \in Shown(Window, tf) : Key(b, tf) \in DOMAIN fetched[<<s, tf, Refresh>>]

\* The backfill writes under intraday stamps.
SeedsIntraday(tf) == tf # "1d" /\ (StoreFile \/ StoreFileFails)

\* What an ingest has in its hands is of its timeframe and from the vendor.
OfIngest(f, tf) == \A k \in DOMAIN f : k[1] = tf /\ f[k].source = "tvkit"
HandInv ==
    \A s \in Symbols, tf \in Timeframes, j \in Jobs : OfIngest(fetched[<<s, tf, j>>], tf)

\* A key of the vendor belongs to one session.
LEMMA OneSession ==
    ASSUME NEW k, NEW q, NEW r, TvkitRow(k, q), TvkitRow(k, r)
    PROVE  q.session = r.session
  <1>1. q.session \in Int /\ r.session \in Int
    BY DEF TvkitRow, Sessions
  <1>2. CASE k = <<"1d", 24 * q.session>>
    BY <1>1, <1>2 DEF TvkitRow
  <1>3. ASSUME NEW g \in IntradayHours, k = <<"1h", Instant(q.session, g)>>
        PROVE  q.session = r.session
    <2>1. PICK h \in IntradayHours : k = <<"1h", Instant(r.session, h)>>
      BY <1>3 DEF TvkitRow
    <2>2. g \in Offset..23 /\ h \in Offset..23
      BY BarAssumption
    <2>3. UtcDate(Instant(q.session, g)) = q.session /\ UtcDate(Instant(r.session, h)) = r.session
      BY <1>1, <2>2, InstantDate
    <2> QED BY <1>3, <2>1, <2>3
  <1> QED BY <1>2, <1>3 DEF TvkitRow

\* What a fetch maps is what the venue shows of the range.
LEMMA MappedIsCurrent ==
    ASSUME TypeOK, NEW range, NEW tf \in Timeframes
    PROVE  LET f == Mapped(Shown(range, tf), tf)
           IN /\ OfIngest(f, tf) /\ AsShown(f)
              /\ \A b \in Shown(range, tf) : Key(b, tf) \in DOMAIN f
  <1> DEFINE f == Mapped(Shown(range, tf), tf)
  <1>1. ASSUME NEW k \in DOMAIN f
        PROVE  k[1] = tf /\ f[k].source = "tvkit" /\ f[k].price = price[f[k].session]
    <2>1. PICK b \in Shown(range, tf) : k = Key(b, tf) /\ f[k] = Row(b.price, "tvkit", b.session)
      BY MappedRow
    <2> HIDE DEF f
    <2>2. b.price = price[b.session] /\ Key(b, tf)[1] = tf
      BY ShownBar, KeyOf
    <2> QED BY <2>1, <2>2 DEF Row
  <1>2. \A b \in Shown(range, tf) : Key(b, tf) \in DOMAIN f
    BY DEF Mapped
  <1> QED BY <1>1, <1>2 DEF OfIngest, AsShown

\* A bar the vendor shows, held or stored with its price, is the row HolesHeal asks for.
LEMMA CurrentRow ==
    ASSUME TypeOK, NEW s, NEW tf \in Timeframes, NEW f, Good(s, f), OfIngest(f, tf), AsShown(f),
           NEW range, NEW b \in Shown(range, tf), Key(b, tf) \in DOMAIN f
    PROVE  f[Key(b, tf)] = Row(b.price, "tvkit", b.session)
  <1> DEFINE k == Key(b, tf)
             q == Row(b.price, "tvkit", b.session)
             r == f[k]
  <1>1. /\ b.session \in Sessions /\ b.price = price[b.session]
        /\ tf = "1h" => b.hour \in IntradayHours
    BY ShownBar
  <1>2. TvkitRow(k, q) /\ q.session = b.session
    BY <1>1, KeyOf DEF TvkitRow, Row, Timeframes
  <1>3. r.source = "tvkit" /\ r.price = price[r.session] /\ r \in Rows
    BY DEF OfIngest, AsShown, Good, IsTable
  <1>4. TvkitRow(k, r)
    BY <1>3, RowApart DEF Good
  <1> HIDE DEF k, q, r
  <1>5. r.session = b.session
    BY <1>2, <1>4, OneSession
  <1>6. r = [price |-> r.price, source |-> r.source, session |-> r.session]
    BY <1>3 DEF Rows
  <1> QED BY <1>1, <1>3, <1>5, <1>6 DEF Row, k, r

-----------------------------------------------------------------------------
\* What an ingest holds after a step: what it held, nothing, or what the venue shows.
LEMMA HandStep ==
    ASSUME IInv, [Next]_vars, NEW s \in Symbols, NEW tf \in Timeframes, NEW j \in Jobs
    PROVE  LET f == fetched'[<<s, tf, j>>] IN
           \/ f = fetched[<<s, tf, j>>]
           \/ f = NoBars /\ (Store(s, tf, j) \/ StoreFails(s, tf, j))
           \/ \E range \in RangesOf(j) : Fetch(s, tf, j) /\ f = Mapped(Shown(range, tf), tf)
  <1>0. <<s, tf, j>> \in DOMAIN fetched
    BY DEF IInv, TypeOK
  <1>1. CASE Store(s, tf, j) \/ StoreFails(s, tf, j)
    BY <1>0, <1>1 DEF Store, StoreFails
  <1>2. CASE Fetch(s, tf, j)
    BY <1>0, <1>2 DEF Fetch, Answer
  <1>3. ASSUME NEW t \in Symbols, NEW tf2 \in Timeframes, NEW i \in Jobs,
               <<t, tf2, i>> # <<s, tf, j>>,
               Fetch(t, tf2, i) \/ Store(t, tf2, i) \/ StoreFails(t, tf2, i)
        PROVE  fetched'[<<s, tf, j>>] = fetched[<<s, tf, j>>]
    <2>1. \E g : fetched' = [fetched EXCEPT ![<<t, tf2, i>>] = g]
      BY <1>3 DEF Fetch, Answer, Store, StoreFails
    <2> QED BY <1>0, <1>3, <2>1
  <1> QED BY <1>1, <1>2, <1>3, HandsOnly

\* Who writes in a series of the vendor: an ingest of it, or a backfill in its timeframe.
LEMMA SeriesWrites ==
    ASSUME IInv, HandInv, [Next]_vars, NEW s \in Symbols, NEW tf \in Timeframes
    PROVE  \/ SeedsIntraday(tf)
           \/ \A k \in DOMAIN rows[s] : k[1] = tf /\ rows[s][k].source = "tvkit" =>
                k \in DOMAIN rows'[s] /\ rows'[s][k] = rows[s][k]
           \/ \E j \in Jobs : (Store(s, tf, j) \/ StoreFails(s, tf, j))
                              /\ Upsert(s, fetched[<<s, tf, j>>])
  <1> DEFINE Apart == \A k \in DOMAIN rows[s] : k[1] = tf /\ rows[s][k].source = "tvkit" =>
                        k \in DOMAIN rows'[s] /\ rows'[s][k] = rows[s][k]
  <1>0. UNCHANGED rows => Apart
    OBVIOUS
  <1>1. ASSUME NEW t \in Symbols, NEW g, Upsert(t, g),
               s # t \/ \A k \in DOMAIN g : k[1] # tf
        PROVE  Apart
    <2>1. /\ rows'[t] = Merged(rows[t], g) /\ (s # t => rows'[s] = rows[s])
      BY <1>1 DEF IInv, TypeOK, Upsert
    <2> QED BY <1>1, <2>1 DEF Merged
  <1>2. ASSUME NEW t \in Symbols, NEW tf2 \in Timeframes, NEW j \in Jobs,
               Store(t, tf2, j) \/ StoreFails(t, tf2, j)
        PROVE  \/ Apart
               \/ (Store(s, tf, j) \/ StoreFails(s, tf, j)) /\ Upsert(s, fetched[<<s, tf, j>>])
    <2>1. UNCHANGED rows \/ Upsert(t, fetched[<<t, tf2, j>>])
      BY <1>2 DEF Store, StoreFails
    <2>2. CASE (s # t \/ tf # tf2) /\ Upsert(t, fetched[<<t, tf2, j>>])
      <3>1. \A k \in DOMAIN fetched[<<t, tf2, j>>] : k[1] = tf2
        BY DEF HandInv, OfIngest
      <3> QED BY <1>1, <2>2, <3>1
    <2> QED BY <1>0, <1>2, <2>1, <2>2
  <1>3. ASSUME StoreFile \/ StoreFileFails PROVE Apart \/ tf # "1d"
    <2>1. run.stage = "writing" /\ (Upsert(Dir[run.file].symbol, run.read) \/ UNCHANGED rows)
      BY <1>3 DEF StoreFile, StoreFileFails
    <2>2. /\ run.file \in Files /\ run.read = Parsed(Dir[run.file], run.timeframe)
          /\ run.timeframe \in Timeframes /\ TypeOK /\ TablesInv
      BY <2>1 DEF IInv, TypeOK
    <2>3. /\ Dir[run.file].symbol \in Symbols /\ Good(Dir[run.file].symbol, run.read)
          /\ \A k \in DOMAIN run.read : run.read[k].source # "tvkit"
      BY <2>2, FileType, ParsedTable, ParsedRow
    <2>4. CASE Upsert(Dir[run.file].symbol, run.read) /\ tf = "1d"
      <3>1. RowsKept /\ rows'[Dir[run.file].symbol] = Merged(rows[Dir[run.file].symbol], run.read)
        BY <2>2, <2>3, <2>4, UpsertKeeps DEF TypeOK, Upsert
      <3>2. s # Dir[run.file].symbol => rows'[s] = rows[s]
        BY <2>2, <2>4 DEF TypeOK, Upsert
      <3>3. ASSUME NEW k \in DOMAIN rows[s], k[1] = tf, rows[s][k].source = "tvkit",
                   s = Dir[run.file].symbol
            PROVE  k \in DOMAIN rows'[s] /\ rows'[s][k] = rows[s][k]
        <4>1. k \in DOMAIN rows'[s] /\ rows'[s][k].source = "tvkit"
          BY <2>4, <3>1, <3>3 DEF RowsKept
        <4> QED BY <2>3, <3>1, <3>3, <4>1 DEF Merged
      <3> QED BY <3>2, <3>3
    <2> QED BY <1>0, <2>1, <2>4
  <1> QED
    BY <1>0, <1>2, <1>3
    DEF Next, vars, rest, NextHour, NextSession, MoveStamp, Correct, Fetch, Answer, Start,
        ReadFile, EndLoop, Close, Kill, Rerun, SeedsIntraday

\* What the venue shows is the same after a step that is none of the venue's.
LEMMA SameShown ==
    ASSUME UNCHANGED venue, NEW range, NEW tf
    PROVE  /\ Shown(range, tf)' = Shown(range, tf)
           /\ \A f : AsShown(f)' <=> AsShown(f)
  BY DEF Shown, Traded, AsShown, venue

\* docs/operations/scheduled-ingest.md:53-55, the step a refresh takes. While the venue
\* shows the same: whoever fetches has what it shows; the refresh fetches all of its
\* window and keeps it until it stores it; the store of that, once no older fetch of the
\* series is in flight, heals the window; and then only a backfill of intraday bars can
\* undo it.
THEOREM RefreshHeals ==
    Spec => [][\A s \in Symbols, tf \in Timeframes :
                 UNCHANGED venue =>
                   /\ Current(s, tf) => Current(s, tf)'
                   /\ Fetch(s, tf, Refresh) => Covers(s, tf)'
                   /\ \/ ~Covers(s, tf) \/ Covers(s, tf)'
                      \/ Store(s, tf, Refresh) \/ StoreFails(s, tf, Refresh)
                   /\ Current(s, tf) /\ Covers(s, tf) /\ Store(s, tf, Refresh) => Healed(s, tf)'
                   /\ Current(s, tf) /\ Healed(s, tf) => Healed(s, tf)' \/ SeedsIntraday(tf)]_vars
  <1> DEFINE Holds(s, tf) ==
               UNCHANGED venue =>
                 /\ Current(s, tf) => Current(s, tf)'
                 /\ Fetch(s, tf, Refresh) => Covers(s, tf)'
                 /\ \/ ~Covers(s, tf) \/ Covers(s, tf)'
                    \/ Store(s, tf, Refresh) \/ StoreFails(s, tf, Refresh)
                 /\ Current(s, tf) /\ Covers(s, tf) /\ Store(s, tf, Refresh) => Healed(s, tf)'
                 /\ Current(s, tf) /\ Healed(s, tf) => Healed(s, tf)' \/ SeedsIntraday(tf)
  <1>1. Init => HandInv
    BY DEF Init, HandInv, OfIngest, NoBars
  <1>2. IInv /\ HandInv /\ [Next]_vars => HandInv'
    <2> SUFFICES ASSUME IInv, HandInv, [Next]_vars,
                        NEW s \in Symbols, NEW tf \in Timeframes, NEW j \in Jobs
                 PROVE  OfIngest(fetched'[<<s, tf, j>>], tf)
      BY DEF HandInv, OfIngest
    <2>1. OfIngest(NoBars, tf) /\ OfIngest(fetched[<<s, tf, j>>], tf)
      BY DEF OfIngest, NoBars, HandInv
    <2>2. \A range : OfIngest(Mapped(Shown(range, tf), tf), tf)
      BY MappedIsCurrent DEF IInv
    <2> QED BY <2>1, <2>2, HandStep
  <1>3. ASSUME IInv, HandInv, [Next]_vars, NEW s \in Symbols, NEW tf \in Timeframes,
               UNCHANGED venue
        PROVE  Holds(s, tf)
    <2>0. TypeOK /\ Refresh \in Jobs /\ Good(s, rows[s])
          /\ \A j \in Jobs : Good(s, fetched[<<s, tf, j>>]) /\ OfIngest(fetched[<<s, tf, j>>], tf)
      BY <1>3, BarAssumption DEF IInv, TablesInv, HandInv
    <2>1. Current(s, tf) => Current(s, tf)'
      <3> SUFFICES ASSUME Current(s, tf), NEW j \in Jobs
                   PROVE  AsShown(fetched'[<<s, tf, j>>])
        BY <1>3 DEF Current, AsShown, venue
      <3>1. AsShown(NoBars) /\ AsShown(fetched[<<s, tf, j>>])
        BY DEF AsShown, NoBars, Current
      <3>2. \A range : AsShown(Mapped(Shown(range, tf), tf))
        BY <2>0, MappedIsCurrent
      <3> QED BY <1>3, <3>1, <3>2, HandStep
    <2>2. Fetch(s, tf, Refresh) => Covers(s, tf)'
      <3> SUFFICES ASSUME Fetch(s, tf, Refresh) PROVE Covers(s, tf)'
        OBVIOUS
      <3>1. <<s, tf, Refresh>> \in DOMAIN fetched
        BY <2>0 DEF TypeOK
      <3>2. fetched'[<<s, tf, Refresh>>] = Mapped(Shown(Window, tf), tf)
        BY <3>1 DEF Fetch, Answer, RangesOf
      <3>3. \A b \in Shown(Window, tf) : Key(b, tf) \in DOMAIN fetched'[<<s, tf, Refresh>>]
        BY <2>0, <3>2, MappedIsCurrent
      <3> QED BY <1>3, <3>3, SameShown DEF Covers
    <2>3. \/ ~Covers(s, tf) \/ Covers(s, tf)'
          \/ Store(s, tf, Refresh) \/ StoreFails(s, tf, Refresh)
      <3>1. CASE fetched'[<<s, tf, Refresh>>] = fetched[<<s, tf, Refresh>>]
        BY <1>3, <3>1, SameShown DEF Covers
      <3> QED BY <1>3, <2>0, <2>2, <3>1, HandStep
    <2>4. Healed(s, tf)' <=>
            \/ \E b \in Shown(Window, tf) : b.price = Unusable
            \/ \A b \in Shown(Window, tf) :
                 /\ Key(b, tf) \in DOMAIN rows'[s]
                 /\ rows'[s][Key(b, tf)] = Row(b.price, "tvkit", b.session)
      BY <1>3, SameShown DEF Healed
    <2>5. ASSUME NEW j \in Jobs, Current(s, tf), Upsert(s, fetched[<<s, tf, j>>]),
                 NEW b \in Shown(Window, tf), Key(b, tf) \in DOMAIN fetched[<<s, tf, j>>]
          PROVE  /\ Key(b, tf) \in DOMAIN rows'[s]
                 /\ rows'[s][Key(b, tf)] = Row(b.price, "tvkit", b.session)
      <3>1. AsShown(fetched[<<s, tf, j>>])
        BY <2>5 DEF Current
      <3>2. fetched[<<s, tf, j>>][Key(b, tf)] = Row(b.price, "tvkit", b.session)
        BY <2>0, <2>5, <3>1, CurrentRow
      <3> QED BY <1>3, <2>0, <2>5, <3>2, UpsertKeeps DEF IInv
    <2>6. Current(s, tf) /\ Covers(s, tf) /\ Store(s, tf, Refresh) => Healed(s, tf)'
      BY <2>0, <2>4, <2>5 DEF Covers, Store
    <2>7. ASSUME Current(s, tf), Healed(s, tf), ~SeedsIntraday(tf) PROVE Healed(s, tf)'
      <3> SUFFICES ASSUME NEW b \in Shown(Window, tf),
                          /\ Key(b, tf) \in DOMAIN rows[s]
                          /\ rows[s][Key(b, tf)] = Row(b.price, "tvkit", b.session)
                   PROVE  /\ Key(b, tf) \in DOMAIN rows'[s]
                          /\ rows'[s][Key(b, tf)] = Row(b.price, "tvkit", b.session)
        BY <2>4, <2>7 DEF Healed
      <3>1. Key(b, tf)[1] = tf /\ rows[s][Key(b, tf)].source = "tvkit"
        BY <2>0, KeyOf DEF Row
      <3>2. ASSUME NEW j \in Jobs, Upsert(s, fetched[<<s, tf, j>>]),
                   Key(b, tf) \notin DOMAIN fetched[<<s, tf, j>>]
            PROVE  /\ Key(b, tf) \in DOMAIN rows'[s]
                   /\ rows'[s][Key(b, tf)] = rows[s][Key(b, tf)]
        <4>1. rows'[s] = Merged(rows[s], fetched[<<s, tf, j>>])
          BY <2>0, <3>2 DEF TypeOK, Upsert
        <4> QED BY <3>2, <4>1 DEF Merged
      <3> QED BY <1>3, <2>5, <2>7, <3>1, <3>2, SeriesWrites
    <2> QED BY <2>1, <2>2, <2>3, <2>6, <2>7
  <1>4. IInv /\ HandInv /\ [Next]_vars => \A s \in Symbols, tf \in Timeframes : Holds(s, tf)
    BY <1>3
  <1> QED BY <1>1, <1>2, <1>4, Inductive, PTL DEF Spec
=============================================================================

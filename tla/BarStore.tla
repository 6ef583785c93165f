------------------------------ MODULE BarStore ------------------------------
(***************************************************************************)
(* The rows of market_data.ohlcv and the two paths that write them:        *)
(*   - the ingest of a recent window from TradingView, its daily bars      *)
(*     stored at canonical_ts (ingest/tvkit_client.py, session_ts.py);     *)
(*   - the parquet backfill, run from the command line, its bars stored at *)
(*     the stamp of the file (ingest/backfill.py, cli.py).                 *)
(* Both upsert by (symbol, timeframe, ts), here <<timeframe, ts>> in the   *)
(* rows of a symbol (db/repositories.py). Time is in hours UTC; day d is   *)
(* 24 * d, and Bangkok is seven hours ahead. A row carries, besides its    *)
(* price and source, the session the exchange traded it in: the code does  *)
(* not store it, the properties speak of it.                               *)
(***************************************************************************)
EXTENDS Integers, Sequences, FiniteSets

CONSTANTS
    Symbols,
    Schedules,      \* the sets of series <<symbol, timeframe>> that may be ingested
    LastSession,    \* bound: sessions are days 1..LastSession
    Stamps,         \* hours of the Bangkok day the venue may stamp daily bars with
    FirstStamp,     \* the one it begins with
    IntradayHours,  \* hours of the Bangkok day of the 1h bars
    Prices,
    Unusable,       \* a price no OHLCVBarRow accepts
    Jobs,           \* those who ingest a series at a time
    Refresh,        \* the job that comes round on schedule
    Window,         \* the range the scheduled job asks for
    Ranges,         \* the ranges the others ask for
    Dir,            \* the backfill directory: a sequence of files, or NoDir
    Unreadable,     \* the content of a file that cannot be read
    NoDir,
    SeedTimeframes, \* the --timeframe of the backfill
    MaxChanges,     \* bound: moves of the stamp and corrections of bars
    MaxEvents,      \* bound: unscheduled fetches, failures and kills
    MaxRuns         \* bound: runs of the backfill

Offset == 7    \* SESSION_TZ
Timeframes == {"1d", "1h"}
Sessions == 1..LastSession

\* The last bars, of sessions between two dates.
AllRanges == [bars : Nat \ {0}, from : Int, to : Int]

FileBars == [session : Sessions, hour : (Offset + 1)..23, price : Prices \cup {Unusable}]

ASSUME BarAssumption ==
    /\ Schedules \subseteq SUBSET (Symbols \X Timeframes)
    /\ {LastSession, MaxRuns} \subseteq Nat \ {0} /\ {MaxChanges, MaxEvents} \subseteq Nat
    /\ Stamps \subseteq 0..23 /\ FirstStamp \in Stamps
    /\ IntradayHours \subseteq Offset..23
    /\ Prices # {} /\ Unusable \notin Prices
    /\ Refresh \in Jobs /\ {Window} \cup Ranges \subseteq AllRanges
    /\ SeedTimeframes \subseteq Timeframes
    /\ Dir # NoDir =>
         /\ Dir \in Seq([symbol : Symbols, bars : {Unreadable} \cup SUBSET FileBars])
         /\ \A i \in DOMAIN Dir : Dir[i].bars # Unreadable => IsFiniteSet(Dir[i].bars)
         /\ \A i, j \in DOMAIN Dir : i # j => Dir[i].symbol # Dir[j].symbol

VARIABLES
    live,     \* the series that are ingested, in this behaviour
    today,    \* venue: the latest session
    clock,    \* venue: the hour of it that has begun
    stamp,    \* venue: the hour it stamps daily bars with
    price,    \* venue: of the bars of each session, as shown now
    changes,  \* those that MaxChanges bounds, so far
    rows,     \* of each symbol: <<timeframe, ts>> -> row
    fetched,  \* of each symbol, timeframe and job: bars fetched and not upserted yet
    run,      \* the backfill: run number, timeframe, stage, file, rows read, files skipped,
              \* total, exit
    events    \* those that MaxEvents bounds, so far

venue == <<live, today, clock, stamp, price, changes>>
vars == <<venue, rows, fetched, run, events>>

Event == events < MaxEvents /\ events' = events + 1

-----------------------------------------------------------------------------
\* Timestamps.

\* A Bangkok wall-clock hour of a session, as an instant.
Instant(session, hour) == 24 * session + hour - Offset

UtcDate(ts) == ts \div 24
SessionDate(ts) == (ts + Offset) \div 24

\* Mutant of canonical_ts: the vendor's stamp is kept.
VendorStamp(ts, timeframe) == ts

\* Mutant of canonical_ts: the date is taken in UTC.
FlooredInUtc(ts, timeframe) == IF timeframe = "1d" THEN 24 * UtcDate(ts) ELSE ts

\* Midnight UTC of the Bangkok session date, for daily bars only.
canonical_ts(ts, timeframe) == IF timeframe = "1d" THEN 24 * SessionDate(ts) ELSE ts

-----------------------------------------------------------------------------
\* Rows and their keys.

Row(p, source, session) == [price |-> p, source |-> source, session |-> session]

\* Mutant of Merged: ON CONFLICT DO NOTHING.
KeptOnConflict(old, new) ==
    [k \in DOMAIN new \cup DOMAIN old |-> IF k \in DOMAIN old THEN old[k] ELSE new[k]]

\* ON CONFLICT DO UPDATE.
Merged(old, new) ==
    [k \in DOMAIN new \cup DOMAIN old |-> IF k \in DOMAIN new THEN new[k] ELSE old[k]]

\* upsert_ohlcv: a batch is one transaction.
Upsert(s, new) == rows' = [rows EXCEPT ![s] = Merged(@, new)]

NoBars == [k \in {} |-> Row(Unusable, "tvkit", 0)]

\* The bars the venue has: of the session under way only those that have begun.
Traded(timeframe) ==
    {b \in {[session |-> d, hour |-> h, price |-> price[d]] :
              d \in 1..today, h \in IF timeframe = "1d" THEN {stamp} ELSE IntradayHours} :
       timeframe = "1d" \/ b.session < today \/ b.hour <= clock}

\* Those it shows of a range, whose first session may be cut anywhere.
Shown(range, timeframe) ==
    LET traded == Traded(timeframe) IN
    {b \in traded :
       /\ b.session \in range.from..range.to
       /\ Cardinality({c \in traded : Instant(c.session, c.hour) > Instant(b.session, b.hour)})
            < range.bars}

\* _bar_from_tvkit: the key of a bar.
Key(bar, timeframe) == <<timeframe, canonical_ts(Instant(bar.session, bar.hour), timeframe)>>

\* fetch_ohlcv of tvkit_client: of bars with one key the last would win.
Mapped(bars, timeframe) ==
    [k \in {Key(b, timeframe) : b \in bars} |->
       LET last == CHOOSE b \in bars : Key(b, timeframe) = k
       IN Row(last.price, "tvkit", last.session)]

-----------------------------------------------------------------------------
\* The backfill's files: [symbol, bars], a bar being [session, hour, price].

Valid(file) == {b \in file.bars : b.price \in Prices}

\* Mutant of SeedKey: the backfill normalises its stamps too.
NormalisedSeedKey(b, timeframe) ==
    <<timeframe, canonical_ts(Instant(b.session, b.hour), timeframe)>>

\* The stamp of the file, in any timeframe.
SeedKey(b, timeframe) == <<timeframe, Instant(b.session, b.hour)>>

\* _rows_from_parquet: a row that is not valid is skipped, not the file.
Parsed(file, timeframe) ==
    [k \in {SeedKey(b, timeframe) : b \in Valid(file)} |->
       LET last == CHOOSE b \in Valid(file) : SeedKey(b, timeframe) = k
       IN Row(last.price, "csm-backfill-div", last.session)]

NewRun(n) == [number |-> n, timeframe |-> "1d", stage |-> "idle", file |-> 1, read |-> NoBars,
              skipped |-> {}, total |-> 0, exit |-> "none"]

Init ==
    /\ live \in Schedules
    /\ today = 1 /\ clock = 0 /\ stamp = FirstStamp
    /\ price = [d \in Sessions |-> CHOOSE p \in Prices : TRUE]
    /\ rows = [s \in Symbols |-> NoBars]
    /\ fetched = [p \in Symbols \X Timeframes \X Jobs |-> NoBars]
    /\ run = NewRun(1)
    /\ changes = 0 /\ events = 0

-----------------------------------------------------------------------------
\* The venue.

NextHour ==
    /\ \E h \in IntradayHours : h > clock /\ clock' = h
    /\ UNCHANGED <<live, today, stamp, price, changes, rows, fetched, run, events>>

NextSession ==
    /\ \A h \in IntradayHours : h <= clock
    /\ today < LastSession /\ today' = today + 1 /\ clock' = 0
    /\ UNCHANGED <<live, stamp, price, changes, rows, fetched, run, events>>

MoveStamp ==
    /\ changes < MaxChanges /\ changes' = changes + 1
    /\ stamp' \in Stamps \ {stamp}
    /\ UNCHANGED <<live, today, clock, price, rows, fetched, run, events>>

\* Bars are corrected, or shown for a while with values no row accepts.
Correct ==
    /\ changes < MaxChanges /\ changes' = changes + 1
    /\ \E d \in 1..today, p \in Prices \cup {Unusable} :
         p # price[d] /\ price' = [price EXCEPT ![d] = p]
    /\ UNCHANGED <<live, today, clock, stamp, rows, fetched, run, events>>

-----------------------------------------------------------------------------
\* The ingest of a range. A lock is of one range and expires (IngestRead), so that
\* several may be at work on a series.

RangesOf(job) == IF job = Refresh THEN {Window} ELSE Ranges

\* A fetch has answered: nothing changes when it fails.
Answer(s, timeframe, job, bars) ==
    /\ <<s, timeframe>> \in live /\ fetched[<<s, timeframe, job>>] = NoBars
    /\ fetched' = [fetched EXCEPT ![<<s, timeframe, job>>] = Mapped(bars, timeframe)]
    /\ IF job = Refresh THEN UNCHANGED events ELSE Event
    /\ UNCHANGED <<venue, rows, run>>

\* Mutant of Fetch: bars are not validated.
FetchUnchecked(s, timeframe, job) ==
    \E range \in RangesOf(job) : Answer(s, timeframe, job, Shown(range, timeframe))

\* One bar that is no valid row fails the fetch of all of them.
Fetch(s, timeframe, job) ==
    \E range \in RangesOf(job) :
      /\ \A b \in Shown(range, timeframe) : b.price \in Prices
      /\ Answer(s, timeframe, job, Shown(range, timeframe))

Store(s, timeframe, job) ==
    /\ fetched[<<s, timeframe, job>>] # NoBars
    /\ Upsert(s, fetched[<<s, timeframe, job>>])
    /\ fetched' = [fetched EXCEPT ![<<s, timeframe, job>>] = NoBars]
    /\ UNCHANGED <<venue, run, events>>

\* RepositoryError, its reply perhaps lost after the commit, or the process dies with
\* the bars in its hands.
StoreFails(s, timeframe, job) ==
    /\ fetched[<<s, timeframe, job>>] # NoBars
    /\ Event
    /\ Upsert(s, fetched[<<s, timeframe, job>>]) \/ UNCHANGED rows
    /\ fetched' = [fetched EXCEPT ![<<s, timeframe, job>>] = NoBars]
    /\ UNCHANGED <<venue, run>>

-----------------------------------------------------------------------------
\* ingest backfill, from the command line (cli.py main and _run).

rest == <<venue, fetched>>

\* The pool is opened before the try: when that fails nothing is closed.
Start ==
    /\ run.stage = "idle"
    /\ \/ /\ \E timeframe \in SeedTimeframes :
               run' = [run EXCEPT !.timeframe = timeframe,
                                 !.stage = IF Dir = NoDir THEN "closing" ELSE "reading",
                                 !.exit = IF Dir = NoDir THEN "0" ELSE "none"]
          /\ UNCHANGED events
       \/ Event /\ run' = [run EXCEPT !.stage = "exited", !.exit = "1"]
    /\ UNCHANGED <<rest, rows>>

Skip == run' = [run EXCEPT !.file = @ + 1, !.skipped = @ \cup {run.file}]

\* A file that cannot be read is skipped, one without a valid row writes nothing.
ReadFile ==
    /\ run.stage = "reading" /\ run.file <= Len(Dir)
    /\ \/ Dir[run.file].bars = Unreadable /\ Skip /\ UNCHANGED events
       \/ Dir[run.file].bars # Unreadable /\ Event /\ Skip
       \/ /\ Dir[run.file].bars # Unreadable
          /\ run' = IF Valid(Dir[run.file]) = {} THEN [run EXCEPT !.file = @ + 1]
                    ELSE [run EXCEPT !.stage = "writing", !.read = Parsed(Dir[run.file], run.timeframe)]
          /\ UNCHANGED events
    /\ UNCHANGED <<rest, rows>>

StoreFile ==
    /\ run.stage = "writing"
    /\ Upsert(Dir[run.file].symbol, run.read)
    /\ run' = [run EXCEPT !.stage = "reading", !.file = @ + 1, !.read = NoBars,
                         !.total = @ + Cardinality(Valid(Dir[run.file]))]
    /\ UNCHANGED <<rest, events>>

\* Mutant of StoreFileFails: the error is logged, and the loop goes on.
StoreErrorSwallowed ==
    /\ run.stage = "writing" /\ Event
    /\ run' = [run EXCEPT !.stage = "reading", !.file = @ + 1, !.read = NoBars]
    /\ UNCHANGED <<rest, rows>>

\* RepositoryError leaves the loop, with the file's rows rolled back or, when only the
\* reply was lost, committed.
StoreFileFails ==
    /\ run.stage = "writing" /\ Event
    /\ Upsert(Dir[run.file].symbol, run.read) \/ UNCHANGED rows
    /\ run' = [run EXCEPT !.stage = "closing", !.exit = "1"]
    /\ UNCHANGED rest

EndLoop ==
    /\ run.stage = "reading" /\ run.file > Len(Dir)
    /\ run' = [run EXCEPT !.stage = "closing", !.exit = "0"]
    /\ UNCHANGED <<rest, rows, events>>

\* The finally: an exception of close_redis or close_pool replaces the result.
Close ==
    /\ run.stage = "closing"
    /\ \/ run' = [run EXCEPT !.stage = "exited"] /\ UNCHANGED events
       \/ Event /\ run' = [run EXCEPT !.stage = "exited", !.exit = "1"]
    /\ UNCHANGED <<rest, rows>>

Kill ==
    /\ run.stage \in {"reading", "writing", "closing"} /\ Event
    /\ run' = [run EXCEPT !.stage = "exited", !.exit = "killed"]
    /\ UNCHANGED <<rest, rows>>

\* The operator starts it again.
Rerun ==
    /\ run.stage = "exited" /\ run.number < MaxRuns
    /\ run' = NewRun(run.number + 1)
    /\ UNCHANGED <<rest, rows, events>>

-----------------------------------------------------------------------------
Next ==
    \/ NextHour \/ NextSession \/ MoveStamp \/ Correct
    \/ \E s \in Symbols, timeframe \in Timeframes, job \in Jobs :
         Fetch(s, timeframe, job) \/ Store(s, timeframe, job) \/ StoreFails(s, timeframe, job)
    \/ Start \/ ReadFile \/ StoreFile \/ StoreFileFails \/ EndLoop \/ Close \/ Kill \/ Rerun

Spec == Init /\ [][Next]_vars

\* The scheduled refresh comes round again, and its fetches and upserts answer.
FairSpec ==
    /\ Spec
    /\ \A series \in UNION Schedules :
         WF_vars(Fetch(series[1], series[2], Refresh) \/ Store(series[1], series[2], Refresh))

-----------------------------------------------------------------------------
Rows == [price : Prices, source : {"tvkit", "csm-backfill-div"}, session : Sessions]

\* A table of rows by <<timeframe, ts>>.
IsTable(f) == f = [k \in DOMAIN f |-> f[k]] /\ DOMAIN f \subseteq Timeframes \X Int
              /\ \A k \in DOMAIN f : f[k] \in Rows

\* The files of the directory that can be read.
Files == {i \in IF Dir = NoDir THEN {} ELSE DOMAIN Dir : Dir[i].bars # Unreadable}

\* The values of the variables; what the code adds is that no bar the models refuse is
\* in the store, and that the rows in the hands of the backfill are those of its file.
TypeOK ==
    /\ live \in Schedules /\ today \in Sessions /\ clock \in {0} \cup IntradayHours /\ stamp \in Stamps
    /\ price \in [Sessions -> Prices \cup {Unusable}]
    /\ changes \in 0..MaxChanges /\ events \in 0..MaxEvents
    /\ rows = [s \in Symbols |-> rows[s]] /\ \A s \in Symbols : IsTable(rows[s])
    /\ fetched = [p \in Symbols \X Timeframes \X Jobs |-> fetched[p]]
    /\ \A p \in Symbols \X Timeframes \X Jobs : IsTable(fetched[p])
    /\ run \in [number : 1..MaxRuns, timeframe : Timeframes,
               stage : {"idle", "reading", "writing", "closing", "exited"}, file : Nat \ {0},
               read : {NoBars} \cup {Parsed(Dir[i], tf) : i \in Files, tf \in Timeframes},
               skipped : SUBSET Nat, total : Nat, exit : {"none", "0", "1", "killed"}]
    /\ run.stage \in {"reading", "writing"} => Dir # NoDir
    /\ run.stage = "writing" =>
         run.file \in Files /\ run.read = Parsed(Dir[run.file], run.timeframe)

\* ingest/session_ts.py: however the vendor moves its stamp, and whatever was fetched
\* before and stored after a move, a session has one daily bar from it.
OneBarPerSession ==
    \A s \in Symbols : \A k, l \in DOMAIN rows[s] :
      /\ k[1] = "1d" /\ l[1] = "1d"
      /\ rows[s][k].source = "tvkit" /\ rows[s][l].source = "tvkit"
      /\ rows[s][k].session = rows[s][l].session
      => k = l

\* The UTC date of a stored bar is the session the exchange traded it in: the view's
\* ex_date > (ts AT TIME ZONE 'UTC')::date adjusts the sessions before the ex-date and
\* no other, and a window of UTC dates holds exactly its sessions.
DatedBySession ==
    \A s \in Symbols : \A k \in DOMAIN rows[s] : UtcDate(k[2]) = rows[s][k].session

\* Seeded bars are dividend-adjusted, the vendor's are not: of daily bars, neither path
\* ever writes over one of the other, and running the backfill again changes none. No
\* bar of any timeframe goes.
SourcesApart ==
    [][\A s \in Symbols : \A k \in DOMAIN rows[s] :
         /\ k \in DOMAIN rows'[s]
         /\ k[1] = "1d" =>
              /\ rows'[s][k].source = rows[s][k].source
              /\ rows[s][k].source = "csm-backfill-div" => rows'[s][k] = rows[s][k]]_vars

\* The file is in the store, whole, but for intraday bars the vendor's have replaced.
Stored(i) ==
    \A k \in DOMAIN Parsed(Dir[i], run.timeframe) :
      /\ k \in DOMAIN rows[Dir[i].symbol]
      /\ \/ rows[Dir[i].symbol][k] = Parsed(Dir[i], run.timeframe)[k]
         \/ k[1] # "1d" /\ rows[Dir[i].symbol][k].source = "tvkit"

\* Files the run is past, without those it skipped.
Done == (1..(run.file - 1)) \ run.skipped

\* A backfill that fails or is killed in the middle of the directory, or that skips a
\* file, has stored whole files in order and counted their rows, beside ingests of the
\* same symbols; and it exits 0 only when it came to the end of the directory.
BackfillAccounts ==
    Dir # NoDir =>
      /\ \A i \in Done : Stored(i)
      /\ run.total = Cardinality(UNION {{i} \X Valid(Dir[i]) : i \in Done})
      /\ run.exit = "0" => run.file > Len(Dir)

\* The window of the scheduled refresh is stored as the venue shows it now, or an
\* unusable bar in it keeps all of it from being fetched.
Healed(s, timeframe) ==
    \/ \E b \in Shown(Window, timeframe) : b.price = Unusable
    \/ \A b \in Shown(Window, timeframe) :
         /\ Key(b, timeframe) \in DOMAIN rows[s]
         /\ rows[s][Key(b, timeframe)] = Row(b.price, "tvkit", b.session)

\* docs/operations/scheduled-ingest.md:53-55, "a missed run, a late-corrected bar, or a
\* public-holiday gap self-heals on the next run instead of leaving a permanent hole":
\* once the venue rests, its window is stored as it shows it, in both timeframes,
\* whatever older fetch and whichever backfill came in between.
HolesHeal == []<>(\A series \in live : Healed(series[1], series[2]))
=============================================================================

----------------------------- MODULE IngestRead -----------------------------
(***************************************************************************)
(* The write path and the read path of the engine around its three shared  *)
(* stores: TradingView (venue), PostgreSQL (db, actions) and the Redis     *)
(* sidecar (cache, lock).                                                  *)
(*                                                                         *)
(*   ingest  ingest/service.py ingest_ohlcv: lock, fetch, upsert, release, *)
(*           then a SCAN + DEL sweep of the cached reads of the series     *)
(*   read    api/routes.py _read: cached entry, or query and write-through *)
(*                                                                         *)
(* Every await of the code is a separate action, so that all interleavings *)
(* of ingests, reads and the other writers of the database are explored.   *)
(* A series is a (symbol, timeframe); its stored bars are abstracted to    *)
(* the version of the venue data they were fetched from, because every     *)
(* ingest range and read window may share a bar. An entry of Ingests or    *)
(* Reads is one invocation.                                                *)
(***************************************************************************)
EXTENDS Naturals

CONSTANTS
    Series,      \* (symbol, timeframe) pairs
    Ranges,      \* _range_key(bars_count, start, end) of an ingest
    Windows,     \* (start, end, limit) of a read
    Ingests,     \* invocations of ingest_ohlcv
    MayIngest,   \* those in owner mode with a usable cookie
    Reads,       \* invocations of _read
    MaxVersion,  \* bound: changes of the venue data
    MaxSilent,   \* bound: database writes that invalidate nothing
    MaxFaults,   \* bound: failed Redis, database and venue calls, crashes
    CacheTTL,    \* cache_ttl_seconds: 0 stores entries without expiry
    NoToken,     \* an absent lock key
    Nothing      \* an absent cache entry, or no rows yet

ASSUME IngestReadAssumption ==
    /\ MayIngest \subseteq Ingests
    /\ NoToken \notin Ingests
    /\ CacheTTL \in Nat
    /\ MaxFaults \in Nat /\ MaxSilent \in Nat /\ MaxVersion \in Nat

Variants == {"raw", "adj"}
Requests == [variant : Variants, series : Series, window : Windows]
CacheKeys == Variants \X Series \X Windows
LockKeys == Series \X Ranges
Causes == {"race", "fault", "silent"}
\* The rows of a query: what was asked and the versions the answer was computed from.
Answers == [query : Requests, bars : Nat, factor : Nat]

ASSUME NothingAssumption == Nothing \notin Answers

VARIABLES
    venue,    \* TradingView: version of each series' bars
    db,       \* market_data.ohlcv: version of each series' bars
    actions,  \* market_data.corporate_actions: version per series
    cache,    \* Redis: mde:ohlcv:* entries
    lock,     \* Redis: mde:lock:* entries
    ireq,     \* arguments of each ingest, a lock key
    ipc,      \* where each ingest is
    iacq,     \* acquired, as yielded by single_flight
    ibars,    \* bars the ingest fetched
    iout,     \* how the ingest ends
    todo,     \* keys there since the SCAN of the ingest began: it is sure to return them
    rreq,     \* arguments of each read
    rpc,      \* where each read is
    rows,     \* rows of each read
    silent,   \* how many silent writes happened
    faults,   \* how many faults happened
    leased,   \* history: ingests whose own SET took the lock and still has it
    cause     \* history: why a cache entry may be stale with no sweep to come

external == <<venue, silent>>
stored == <<db, actions>>
ingestVars == <<ireq, ipc, iacq, ibars, iout, todo, leased>>
readVars == <<rreq, rpc, rows>>
vars == <<external, stored, cache, lock, ingestVars, readVars, faults, cause>>

INSTANCE RedisLock

Init ==
    /\ venue = [s \in Series |-> 1]
    /\ db = [s \in Series |-> 0]
    /\ actions = [s \in Series |-> 0]
    /\ cache = [k \in CacheKeys |-> Nothing]
    /\ lock = [k \in LockKeys |-> NoToken]
    /\ ireq \in [Ingests -> LockKeys]
    /\ ipc = [i \in Ingests |-> "new"]
    /\ iacq = [i \in Ingests |-> FALSE]
    /\ ibars = [i \in Ingests |-> 0]
    /\ iout = [i \in Ingests |-> "none"]
    /\ todo = [i \in Ingests |-> {}]
    /\ rreq \in [Reads -> Requests]
    /\ rpc = [r \in Reads |-> "new"]
    /\ rows = [r \in Reads |-> Nothing]
    /\ silent = 0
    /\ faults = 0
    /\ leased = {}
    /\ cause = [k \in CacheKeys |-> {}]

Fault == faults < MaxFaults /\ faults' = faults + 1

-----------------------------------------------------------------------------
\* Mutant of MakeKey: raw and adjusted reads share an entry.
KeyWithoutVariant(q) == <<"raw", q.series, q.window>>

\* ohlcv_cache.make_key: variant, symbol and timeframe, then start, end, limit.
MakeKey(q) == <<q.variant, q.series, q.window>>

\* Mutant of Matches: the pattern names the raw variant only.
MatchesRawOnly(k, s) == k[1] = "raw" /\ k[2] = s

\* The SCAN pattern of invalidate: any variant, this series, anything after.
Matches(k, s) == k[2] = s

\* fetch_ohlcv and fetch_ohlcv_adjusted: one statement each, so one snapshot;
\* only the adjusted view joins the corporate actions.
Fetch(q) == [query |-> q, bars |-> db[q.series],
             factor |-> IF q.variant = "adj" THEN actions[q.series] ELSE 0]

SeriesOf(i) == ireq[i][1]

\* What SCAN finds for a series.
EntriesOf(s) == {k \in CacheKeys : Matches(k, s) /\ cache[k] # Nothing}

\* The cached reads of a series, whatever the pattern says.
Present(s) == {k \in CacheKeys : k[2] = s /\ cache[k] # Nothing}

\* A cached answer that the database would no longer give.
Stale(k) == cache[k] # Nothing /\ cache[k] # Fetch(cache[k].query)

\* A sweep that is still to come is certain to delete the entry.
OwedBy(i, k) ==
    /\ k[2] = SeriesOf(i)
    /\ \/ ipc[i] \in {"release", "scan"} /\ iout[i] = "written"
       \/ ipc[i] = "sweep" /\ k \in todo[i]

Owed(k) == \E i \in Ingests : OwedBy(i, k)

\* History: entries of keys lose their last sweep, or never get one.
Excuse(keys, why) ==
    cause' = [k \in CacheKeys |-> IF k \in keys THEN cause[k] \cup {why} ELSE cause[k]]

-----------------------------------------------------------------------------
\* The steps of an ingest.

Goto(i, label) == ipc' = [ipc EXCEPT ![i] = label]

\* IngestDisabledError or CookieConfigError, before anything is touched.
Refuse(i) ==
    /\ ipc[i] = "new" /\ i \notin MayIngest
    /\ Goto(i, "done")
    /\ iout' = [iout EXCEPT ![i] = "refused"]
    /\ UNCHANGED <<external, stored, cache, lock, ireq, iacq, ibars, todo, leased,
                   readVars, faults, cause>>

TakeLock(i) ==
    /\ ipc[i] = "new" /\ i \in MayIngest
    /\ lock' = SetNx(lock, ireq[i], i)
    /\ LET free == lock[ireq[i]] = NoToken IN
         /\ Goto(i, IF free THEN "fetch" ELSE "skip")
         /\ iacq' = [iacq EXCEPT ![i] = free]
         /\ leased' = IF free THEN leased \cup {i} ELSE leased
    /\ UNCHANGED <<external, stored, cache, ireq, ibars, iout, todo, readVars,
                   faults, cause>>

\* SET raises, or there is no client: single_flight proceeds without the lease.
TakeLockOnError(i) ==
    /\ ipc[i] = "new" /\ i \in MayIngest
    /\ Fault
    /\ lock' \in {lock, SetNx(lock, ireq[i], i)}
    /\ Goto(i, "fetch")
    /\ iacq' = [iacq EXCEPT ![i] = TRUE]
    /\ UNCHANGED <<external, stored, cache, ireq, ibars, iout, todo, leased,
                   readVars, cause>>

\* "ingest skipped (in-flight)": return 0, with nothing released or invalidated.
Skip(i) ==
    /\ ipc[i] = "skip"
    /\ Goto(i, "done")
    /\ iout' = [iout EXCEPT ![i] = "skipped"]
    /\ UNCHANGED <<external, stored, cache, lock, ireq, iacq, ibars, todo, leased,
                   readVars, faults, cause>>

\* TradingView answers with its bars, or with none for this range (0).
FetchBars(i) ==
    /\ ipc[i] = "fetch"
    /\ \E v \in {0, venue[SeriesOf(i)]} : ibars' = [ibars EXCEPT ![i] = v]
    /\ Goto(i, "upsert")
    /\ UNCHANGED <<external, stored, cache, lock, ireq, iacq, iout, todo, leased,
                   readVars, faults, cause>>

\* TvkitFetchError leaves the with block: release, no sweep.
FetchFails(i) ==
    /\ ipc[i] = "fetch"
    /\ Fault
    /\ Goto(i, "release")
    /\ iout' = [iout EXCEPT ![i] = "error"]
    /\ UNCHANGED <<external, stored, cache, lock, ireq, iacq, ibars, todo, leased,
                   readVars, cause>>

\* executemany runs in one transaction, and the last write of a bar wins. An
\* empty batch writes nothing, and the sweep still follows.
Upsert(i) ==
    /\ ipc[i] = "upsert"
    /\ db' = IF ibars[i] = 0 THEN db ELSE [db EXCEPT ![SeriesOf(i)] = ibars[i]]
    /\ Goto(i, "release")
    /\ iout' = [iout EXCEPT ![i] = "written"]
    /\ UNCHANGED <<external, actions, cache, lock, ireq, iacq, ibars, todo, leased,
                   readVars, faults, cause>>

\* RepositoryError: the transaction was rolled back, or it was committed and the
\* reply was lost. Either way the exception skips the sweep.
UpsertFails(i) ==
    /\ ipc[i] = "upsert" /\ ibars[i] # 0
    /\ Fault
    /\ \/ UNCHANGED <<db, cause>>
       \/ /\ db' = [db EXCEPT ![SeriesOf(i)] = ibars[i]]
          /\ Excuse(Present(SeriesOf(i)), "fault")
    /\ Goto(i, "release")
    /\ iout' = [iout EXCEPT ![i] = "error"]
    /\ UNCHANGED <<external, actions, cache, lock, ireq, iacq, ibars, todo, leased, readVars>>

\* Mutant of AfterRelease: the return happens inside the with block.
ReturnAtOnce(i) == "done"

\* Only a normal exit of the with block reaches the sweep.
AfterRelease(i) == IF iout[i] = "written" THEN "scan" ELSE "done"

\* Mutant of ReleaseLock: the lock is deleted by its key, whoever holds it.
ReleaseByKey(i) ==
    /\ ipc[i] = "release"
    /\ lock' = [lock EXCEPT ![ireq[i]] = NoToken]
    /\ leased' = leased \ {i}
    /\ Goto(i, AfterRelease(i))
    /\ UNCHANGED <<external, stored, cache, ireq, iacq, ibars, iout, todo, readVars,
                   faults, cause>>

ReleaseLock(i) ==
    /\ ipc[i] = "release"
    /\ lock' = CompareAndDelete(lock, ireq[i], i)
    /\ leased' = leased \ {i}
    /\ Goto(i, AfterRelease(i))
    /\ UNCHANGED <<external, stored, cache, ireq, iacq, ibars, iout, todo, readVars,
                   faults, cause>>

ReleaseLockOnError(i) ==
    /\ ipc[i] = "release"
    /\ Fault
    /\ lock' \in {lock, CompareAndDelete(lock, ireq[i], i)}
    /\ leased' = leased \ {i}
    /\ Goto(i, AfterRelease(i))
    /\ UNCHANGED <<external, stored, cache, ireq, iacq, ibars, iout, todo, readVars, cause>>

\* An entry is deleted or expires: no SCAN under way is certain of its key any more.
Vanish(k) ==
    /\ cache' = [cache EXCEPT ![k] = Nothing]
    /\ cause' = [cause EXCEPT ![k] = {}]
    /\ todo' = [i \in Ingests |-> todo[i] \ {k}]

\* SCAN returns every key that is there from its first to its last call, and no
\* other key for certain: one that goes meanwhile is no more owed, come back or not.
BeginSweep(i) ==
    /\ ipc[i] = "scan"
    /\ todo' = [todo EXCEPT ![i] = EntriesOf(SeriesOf(i))]
    /\ Goto(i, "sweep")
    /\ UNCHANGED <<external, stored, cache, lock, ireq, iacq, ibars, iout, leased,
                   readVars, faults, cause>>

\* DEL of a key SCAN returned; it may also return one added after its first call.
SweepEntry(i) ==
    /\ ipc[i] = "sweep"
    /\ \E k \in EntriesOf(SeriesOf(i)) : Vanish(k)
    /\ UNCHANGED <<external, stored, lock, ireq, ipc, iacq, ibars, iout, leased,
                   readVars, faults>>

EndSweep(i) ==
    /\ ipc[i] = "sweep" /\ todo[i] = {}
    /\ Goto(i, "done")
    /\ UNCHANGED <<external, stored, cache, lock, ireq, iacq, ibars, iout, todo, leased,
                   readVars, faults, cause>>

\* invalidate swallows the error, wherever it stopped; rows are still returned.
SweepFails(i) ==
    /\ ipc[i] \in {"scan", "sweep"}
    /\ Fault
    /\ Excuse(Present(SeriesOf(i)), "fault")
    /\ Goto(i, "done")
    /\ UNCHANGED <<external, stored, cache, lock, ireq, iacq, ibars, iout, todo, leased, readVars>>

\* The process dies or the task is cancelled between two awaits or inside one.
CrashIngest(i) ==
    /\ ipc[i] # "done" /\ i \in MayIngest
    /\ Fault
    /\ lock' \in IF ipc[i] = "new" THEN {lock, SetNx(lock, ireq[i], i)} ELSE {lock}
    /\ leased' = leased \ {i}
    /\ Goto(i, "done")
    /\ IF iout[i] = "written" THEN Excuse(Present(SeriesOf(i)), "fault")
                              ELSE UNCHANGED cause
    /\ UNCHANGED <<external, stored, cache, ireq, iacq, ibars, iout, todo, readVars>>

IngestStep(i) ==
    \/ Refuse(i) \/ TakeLock(i) \/ TakeLockOnError(i) \/ Skip(i)
    \/ FetchBars(i) \/ FetchFails(i) \/ Upsert(i) \/ UpsertFails(i)
    \/ ReleaseLock(i) \/ ReleaseLockOnError(i)
    \/ BeginSweep(i) \/ SweepEntry(i) \/ EndSweep(i) \/ SweepFails(i)
    \/ CrashIngest(i)

-----------------------------------------------------------------------------
\* The steps of a read.

ReadHit(r) ==
    /\ rpc[r] = "new"
    /\ cache[MakeKey(rreq[r])] # Nothing
    /\ rows' = [rows EXCEPT ![r] = cache[MakeKey(rreq[r])]]
    /\ rpc' = [rpc EXCEPT ![r] = "done"]
    /\ UNCHANGED <<external, stored, cache, lock, ingestVars, rreq, faults, cause>>

\* get_cached_bars returns None because there is no entry.
ReadMiss(r) ==
    /\ rpc[r] = "new"
    /\ cache[MakeKey(rreq[r])] = Nothing
    /\ rpc' = [rpc EXCEPT ![r] = "query"]
    /\ UNCHANGED <<external, stored, cache, lock, ingestVars, rreq, rows, faults, cause>>

\* It also returns None when GET raises or the payload cannot be decoded.
ReadMissOnError(r) ==
    /\ rpc[r] = "new"
    /\ Fault
    /\ rpc' = [rpc EXCEPT ![r] = "query"]
    /\ UNCHANGED <<external, stored, cache, lock, ingestVars, rreq, rows, cause>>

Query(r) ==
    /\ rpc[r] = "query"
    /\ rows' = [rows EXCEPT ![r] = Fetch(rreq[r])]
    /\ rpc' = [rpc EXCEPT ![r] = "fill"]
    /\ UNCHANGED <<external, stored, cache, lock, ingestVars, rreq, faults, cause>>

\* Mutant of QueryFails: the error is logged and the read goes on to the cache.
QueryErrorSwallowed(r) ==
    /\ rpc[r] = "query"
    /\ Fault
    /\ rpc' = [rpc EXCEPT ![r] = "fill"]
    /\ UNCHANGED <<external, stored, cache, lock, ingestVars, rreq, rows, cause>>

\* RepositoryError is caught by nobody: the request fails, nothing is cached.
QueryFails(r) ==
    /\ rpc[r] = "query"
    /\ Fault
    /\ rpc' = [rpc EXCEPT ![r] = "done"]
    /\ UNCHANGED <<external, stored, cache, lock, ingestVars, rreq, rows, cause>>

\* set_cached_bars stores what the query returned, however long ago that was.
StoreRows(r) ==
    LET k == MakeKey(rreq[r]) IN
    /\ cache' = [cache EXCEPT ![k] = rows[r]]
    /\ cause' = [cause EXCEPT ![k] =
         IF rows[r] = Fetch(rows[r].query) \/ Owed(k) THEN {} ELSE {"race"}]

Fill(r) ==
    /\ rpc[r] = "fill"
    /\ StoreRows(r)
    /\ rpc' = [rpc EXCEPT ![r] = "done"]
    /\ UNCHANGED <<external, stored, lock, ingestVars, rreq, rows, faults>>

\* The SET raises, before or after the server ran it; rows are served anyway.
FillOnError(r) ==
    /\ rpc[r] = "fill"
    /\ Fault
    /\ StoreRows(r) \/ UNCHANGED <<cache, cause>>
    /\ rpc' = [rpc EXCEPT ![r] = "done"]
    /\ UNCHANGED <<external, stored, lock, ingestVars, rreq, rows>>

ReadStep(r) ==
    \/ ReadHit(r) \/ ReadMiss(r) \/ ReadMissOnError(r)
    \/ Query(r) \/ QueryFails(r)
    \/ Fill(r) \/ FillOnError(r)

-----------------------------------------------------------------------------
\* The rest of the world.

VenueUpdate(s) ==
    /\ venue[s] < MaxVersion
    /\ venue' = [venue EXCEPT ![s] = @ + 1]
    /\ UNCHANGED <<silent, stored, cache, lock, ingestVars, readVars, faults, cause>>

\* upsert_corporate_actions: the adjusted view changes, no cache entry is touched.
RecordCorporateAction(s) ==
    /\ silent < MaxSilent
    /\ silent' = silent + 1
    /\ actions' = [actions EXCEPT ![s] = @ + 1]
    /\ Excuse(Present(s), "silent")
    /\ UNCHANGED <<venue, db, cache, lock, ingestVars, readVars, faults>>

\* backfill_from_dir and rename_symbol: the bars change, no cache entry is touched.
RewriteBars(s) ==
    /\ silent < MaxSilent
    /\ silent' = silent + 1
    /\ \E v \in 0..MaxVersion : v # db[s] /\ db' = [db EXCEPT ![s] = v]
    /\ Excuse(Present(s), "silent")
    /\ UNCHANGED <<venue, actions, cache, lock, ingestVars, readVars, faults>>

\* EX of the lock: at any moment, since nothing bounds the fetch that holds it.
ExpireLock(k) ==
    /\ lock[k] # NoToken
    /\ lock' = [lock EXCEPT ![k] = NoToken]
    /\ leased' = leased \ {lock[k]}
    /\ UNCHANGED <<external, stored, cache, ireq, ipc, iacq, ibars, iout, todo,
                   readVars, faults, cause>>

\* EX of the entry, given when the ttl is positive.
ExpireEntry(k) ==
    /\ CacheTTL > 0
    /\ cache[k] # Nothing
    /\ Vanish(k)
    /\ UNCHANGED <<external, stored, lock, ireq, ipc, iacq, ibars, iout, leased,
                   readVars, faults>>

Environment ==
    \/ \E s \in Series : VenueUpdate(s) \/ RecordCorporateAction(s) \/ RewriteBars(s)
    \/ \E k \in LockKeys : ExpireLock(k)
    \/ \E k \in CacheKeys : ExpireEntry(k)

Next ==
    \/ \E i \in Ingests : IngestStep(i)
    \/ \E r \in Reads : ReadStep(r)
    \/ Environment

Spec == Init /\ [][Next]_vars

\* Calls to Redis answer or raise, so an ingest that has written finishes its
\* sweep; nothing of the kind is assumed of the venue or of the database.
SweepFairness == \A i \in Ingests :
    WF_vars(ReleaseLock(i) \/ BeginSweep(i) \/ (SweepEntry(i) /\ todo'[i] # todo[i]) \/ EndSweep(i))

SweepingSpec == Spec /\ SweepFairness

-----------------------------------------------------------------------------
\* The values of the variables; what the code adds is that a lock is only ever
\* held by an ingest, that an entry decodes to an answer, and that a read which
\* goes on to the cache has an answer to put there.
TypeOK ==
    /\ venue \in [Series -> Nat] /\ db \in [Series -> Nat] /\ actions \in [Series -> Nat]
    /\ cache \in [CacheKeys -> Answers \cup {Nothing}]
    /\ lock \in [LockKeys -> Ingests \cup {NoToken}]
    /\ ireq \in [Ingests -> LockKeys]
    /\ ipc \in [Ingests -> {"new", "skip", "fetch", "upsert", "release", "scan", "sweep", "done"}]
    /\ iacq \in [Ingests -> BOOLEAN]
    /\ ibars \in [Ingests -> Nat]
    /\ iout \in [Ingests -> {"none", "refused", "skipped", "error", "written"}]
    /\ todo \in [Ingests -> SUBSET CacheKeys]
    /\ rreq \in [Reads -> Requests]
    /\ rpc \in [Reads -> {"new", "query", "fill", "done"}]
    /\ rows \in [Reads -> Answers \cup {Nothing}]
    /\ \A r \in Reads : rpc[r] = "fill" => rows[r] # Nothing
    /\ silent \in Nat /\ faults \in Nat
    /\ leased \subseteq Ingests
    /\ cause \in [CacheKeys -> SUBSET Causes]

\* Whatever path a read took (hit, miss, failed Redis call), and whichever reads
\* and ingests ran beside it, it serves rows of the query it was asked: never
\* raw bars for an adjusted request, another series or another window.
ServedMatchesRequest ==
    \A r \in Reads : rows[r] # Nothing => rows[r].query = rreq[r]

\* The coherence the code does deliver: a cached answer that the database would
\* no longer give is about to be deleted by the sweep of an ingest that has
\* written, unless (race) the read that filled it had queried before the last
\* write and filled after the sweep, or during it where the SCAN need not look again
\* because the key had gone in the meantime, (fault) that sweep was lost to a failed call
\* or a crash, or (silent) the writer is one that sweeps nothing. In particular an
\* ingest that returns its row count leaves no entry stale except by these.
StaleIsExplained ==
    \A k \in CacheKeys : Stale(k) => Owed(k) \/ cause[k] # {}

\* An entry made stale by an ingest is deleted even if entries never expire:
\* once its Redis calls answer, the sweep gets to it.
StaleIsSwept ==
    \A k \in CacheKeys :
        (Stale(k) /\ cause[k] = {}) ~> (~Stale(k) \/ cause[k] # {})

\* Where an ingest is with respect to its with block.
BlockOf(i) ==
    CASE ipc[i] = "new" \/ iout[i] = "refused" -> "new"
      [] ipc[i] \in {"skip", "fetch", "upsert", "release"} -> "body"
      [] OTHER -> "done"

SF == INSTANCE SingleFlight WITH
    Keys <- LockKeys, Calls <- Ingests, Connected <- MayIngest,
    key <- ireq, acquired <- iacq, pc <- [i \in Ingests |-> BlockOf(i)]

\* An ingest uses its lock as single_flight prescribes: on every path it enters
\* and leaves once, and takes or deletes no lock but its own, so all that is
\* proved of SingleFlight holds of the ingest locks.
UsesSingleFlight == SF!Spec

-----------------------------------------------------------------------------
\* Statements of the documentation that the code does not keep.

\* cache/ohlcv_cache.py:97, "Called after an ingest so the next read reflects
\* freshly upserted bars", and docs/operations/scheduled-ingest.md:101, "Cache
\* coherent": with no fault and no other writer, when no ingest is running, what
\* is cached is what the database holds.
CoherentAfterIngest ==
    (faults = 0 /\ silent = 0 /\ \A i \in Ingests : ipc[i] \in {"new", "done"})
        => \A k \in CacheKeys : ~Stale(k)
=============================================================================

---------------------------- MODULE DailyIngest ----------------------------
(***************************************************************************)
(* ingest/daily.py: the scheduled refresh of every tracked symbol, with    *)
(* the exit paths of its caller (ingest/cli.py).                           *)
(*                                                                         *)
(* Positions of the resolved list are asyncio tasks under one gather: they *)
(* take a permit of a semaphore, then up to Retries + 1 times wait for the *)
(* pacer and call ingest_ohlcv. Of ingest_ohlcv (modelled in IngestRead)   *)
(* this module keeps the lock, the moment the fetch starts and how it      *)
(* ends. Time is in ticks, and a sleep may last longer than it asked for.  *)
(***************************************************************************)
EXTENDS Integers, Sequences, FiniteSets

CONSTANTS
    Symbols,
    Lists,        \* resolved lists: tracked, or an override that may repeat a symbol
    Concurrency,  \* permits: max(1, concurrency)
    Retries,
    MinInterval,  \* min_interval, in ticks; 0 disables pacing
    Backoff,      \* RETRY_BACKOFF_SECONDS, in ticks
    MaxRuns,      \* bound: runs, each but the first after a crash
    Rival,        \* the token of an ingest outside this run
    Rivals,       \* TRUE: there are such ingests
    EmptyFetches, \* TRUE: a range the vendor has no bars for is fetched without an error
    NoToken

ASSUME DailyAssumption ==
    /\ Lists \subseteq Seq(Symbols)
    /\ Concurrency \in Nat \ {0} /\ MaxRuns \in Nat \ {0}
    /\ Retries \in Nat /\ MinInterval \in Nat /\ Backoff \in Nat
    /\ Rivals \in BOOLEAN /\ EmptyFetches \in BOOLEAN

VARIABLES
    phase,       \* "new", "running", "done", "raised" or "crashed"
    run,         \* number of the run
    resolved,    \* symbols of the run
    pc,          \* where each task is
    attempt,     \* the loop variable of each task
    sleep,       \* ticks left of the back-off of each task
    pacerQueue,  \* the holder of the pacer's lock and, behind it, its waiters
    nextIn,      \* ticks until _next_at
    lock,        \* Redis: the ingest lock of each symbol
    report,      \* DailyIngestResult
    sinceGrant,  \* history: ticks since the pacer let a task go, capped
    failures,    \* history: failed tries of each task
    fresh        \* history: symbols whose bars a run has written

taskVars == <<pc, attempt, sleep, failures>>
pacing == <<pacerQueue, nextIn, sinceGrant>>
vars == <<phase, run, resolved, taskVars, pacing, lock, report, fresh>>

INSTANCE RedisLock

NoReport == [attempted |-> 0, failures |-> {}]

Init ==
    /\ phase = "new" /\ run = 1
    /\ resolved = <<>> /\ pc = <<>> /\ attempt = <<>> /\ sleep = <<>> /\ failures = <<>>
    /\ pacerQueue = <<>> /\ nextIn = 0
    /\ lock = [s \in Symbols |-> NoToken]
    /\ report = NoReport
    /\ sinceGrant = MinInterval
    /\ fresh = {}

-----------------------------------------------------------------------------
\* run_daily_ingest up to the gather.

\* Public mode, no usable cookie, or the symbol list cannot be read.
Raise ==
    /\ phase = "new" /\ phase' = "raised"
    /\ UNCHANGED <<run, resolved, taskVars, pacing, lock, report, fresh>>

\* No symbols: an empty result, which the CLI turns into exit 1.
Resolve ==
    /\ phase = "new"
    /\ \E list \in Lists :
         /\ resolved' = list
         /\ pc' = [t \in DOMAIN list |-> "queued"]
         /\ attempt' = [t \in DOMAIN list |-> 0]
         /\ sleep' = [t \in DOMAIN list |-> 0]
         /\ failures' = [t \in DOMAIN list |-> 0]
         /\ phase' = IF list = <<>> THEN "done" ELSE "running"
    /\ UNCHANGED <<run, pacing, lock, report, fresh>>

-----------------------------------------------------------------------------
\* _ingest_one, one task.

SymbolOf(t) == resolved[t]
Token(t) == <<run, t, attempt[t]>>
Goto(t, label) == pc' = [pc EXCEPT ![t] = label]

\* The permit is kept until the task returns, through pacing and back-off.
Working == {t \in DOMAIN pc : pc[t] \notin {"queued", "ok", "failed"}}

\* Mutant of Acquire: no semaphore.
AcquireFreely(t) ==
    /\ pc[t] = "queued"
    /\ Goto(t, "pacing")
    /\ pacerQueue' = Append(pacerQueue, t)
    /\ UNCHANGED <<phase, run, resolved, attempt, sleep, failures, nextIn, lock, report,
                   sinceGrant, fresh>>

\* Permits are given in the order of the list.
Acquire(t) ==
    /\ pc[t] = "queued" /\ \A u \in 1..(t - 1) : pc[u] # "queued"
    /\ Cardinality(Working) < Concurrency
    /\ Goto(t, "pacing")
    /\ pacerQueue' = Append(pacerQueue, t)
    /\ UNCHANGED <<phase, run, resolved, attempt, sleep, failures, nextIn, lock, report,
                   sinceGrant, fresh>>

\* Mutant of Pass: the next start is set to now, not to an interval from now.
PassWithoutInterval(t) ==
    /\ pc[t] = "pacing" /\ pacerQueue # <<>> /\ Head(pacerQueue) = t /\ nextIn = 0
    /\ sinceGrant' = 0
    /\ pacerQueue' = Tail(pacerQueue)
    /\ Goto(t, "locking")
    /\ UNCHANGED <<phase, run, resolved, attempt, sleep, failures, nextIn, lock, report, fresh>>

\* Mutant of Pass: the pacer's lock is not released.
PassKeepingLock(t) ==
    /\ pc[t] = "pacing" /\ pacerQueue # <<>> /\ Head(pacerQueue) = t /\ nextIn = 0
    /\ nextIn' = MinInterval /\ sinceGrant' = 0
    /\ Goto(t, "locking")
    /\ UNCHANGED <<phase, run, resolved, attempt, sleep, failures, pacerQueue, lock, report, fresh>>

\* _Pacer.wait returns: the holder of its lock has slept until _next_at.
Pass(t) ==
    /\ pc[t] = "pacing" /\ pacerQueue # <<>> /\ Head(pacerQueue) = t /\ nextIn = 0
    /\ nextIn' = MinInterval /\ sinceGrant' = 0
    /\ pacerQueue' = Tail(pacerQueue)
    /\ Goto(t, "locking")
    /\ UNCHANGED <<phase, run, resolved, attempt, sleep, failures, lock, report, fresh>>

\* The SET of single_flight took the free key, or it raised, before or after the
\* server ran it: the fetch starts.
StartFetch(t) ==
    /\ pc[t] = "locking"
    /\ lock' \in {lock, SetNx(lock, SymbolOf(t), Token(t))}
    /\ Goto(t, "fetching")
    /\ UNCHANGED <<phase, run, resolved, attempt, sleep, failures, pacing, report, fresh>>

\* Another token is there: ingest_ohlcv returns 0 rows, and that is a success.
Skip(t) ==
    /\ pc[t] = "locking" /\ lock[SymbolOf(t)] # NoToken
    /\ Goto(t, "ok")
    /\ UNCHANGED <<phase, run, resolved, attempt, sleep, failures, pacing, lock, report, fresh>>

\* The release deletes the task's own token; its failure is swallowed.
Release(t) == lock' \in {lock, CompareAndDelete(lock, SymbolOf(t), Token(t))}

\* Fetched and upserted; the cache sweep is still to come. A fetch that found no bar
\* ends the same way, with nothing written.
Written(t) ==
    /\ pc[t] = "fetching"
    /\ Release(t)
    /\ \/ fresh' = fresh \cup {SymbolOf(t)}
       \/ EmptyFetches /\ UNCHANGED fresh
    /\ Goto(t, "sweeping")
    /\ UNCHANGED <<phase, run, resolved, attempt, sleep, failures, pacing, report>>

Swept(t) ==
    /\ pc[t] = "sweeping"
    /\ Goto(t, "ok")
    /\ UNCHANGED <<phase, run, resolved, attempt, sleep, failures, pacing, lock, report, fresh>>

\* Mutant of AttemptFails: the loop is left on the last but one attempt.
GiveUpEarly(t) ==
    /\ pc[t] = "fetching"
    /\ Release(t)
    /\ failures' = [failures EXCEPT ![t] = @ + 1]
    /\ Goto(t, IF attempt[t] + 1 >= Retries THEN "failed" ELSE "backoff")
    /\ sleep' = [sleep EXCEPT ![t] = Backoff * (attempt[t] + 1)]
    /\ UNCHANGED <<phase, run, resolved, attempt, pacing, report, fresh>>

\* TvkitFetchError or RepositoryError, the only exceptions of a configured ingest.
AttemptFails(t) ==
    /\ pc[t] = "fetching"
    /\ Release(t)
    /\ failures' = [failures EXCEPT ![t] = @ + 1]
    /\ IF attempt[t] = Retries
       THEN Goto(t, "failed") /\ UNCHANGED sleep
       ELSE Goto(t, "backoff") /\ sleep' = [sleep EXCEPT ![t] = Backoff * (attempt[t] + 1)]
    /\ UNCHANGED <<phase, run, resolved, attempt, pacing, report, fresh>>

\* Mutant of Retry: the attempt is not counted.
RetryUncounted(t) ==
    /\ pc[t] = "backoff" /\ sleep[t] = 0
    /\ Goto(t, "pacing")
    /\ pacerQueue' = Append(pacerQueue, t)
    /\ UNCHANGED <<phase, run, resolved, attempt, sleep, failures, nextIn, lock, report,
                   sinceGrant, fresh>>

Retry(t) ==
    /\ pc[t] = "backoff" /\ sleep[t] = 0
    /\ attempt' = [attempt EXCEPT ![t] = @ + 1]
    /\ Goto(t, "pacing")
    /\ pacerQueue' = Append(pacerQueue, t)
    /\ UNCHANGED <<phase, run, resolved, sleep, failures, nextIn, lock, report,
                   sinceGrant, fresh>>

\* What the task waits for besides the upstream.
Proceed(t) == Acquire(t) \/ Pass(t) \/ StartFetch(t) \/ Skip(t) \/ Swept(t) \/ Retry(t)

\* The fetch and the upsert come to an end.
Upstream(t) == Written(t) \/ AttemptFails(t)

-----------------------------------------------------------------------------
\* The gather returned: the summary.
Summarise ==
    /\ phase = "running" /\ \A t \in DOMAIN pc : pc[t] \in {"ok", "failed"}
    /\ report' = [attempted |-> Len(resolved),
                  failures |-> {t \in DOMAIN pc : pc[t] = "failed"}]
    /\ phase' = "done"
    /\ UNCHANGED <<run, resolved, taskVars, pacing, lock, fresh>>

\* The one-off container dies with its locks left in Redis.
Crash ==
    /\ phase = "running" /\ phase' = "crashed"
    /\ UNCHANGED <<run, resolved, taskVars, pacing, lock, report, fresh>>

\* The run is started again: a new process, with a pacer of its own.
Rerun ==
    /\ phase \in {"crashed", "raised"} /\ run < MaxRuns
    /\ phase' = "new" /\ run' = run + 1
    /\ resolved' = <<>> /\ pc' = <<>> /\ attempt' = <<>> /\ sleep' = <<>> /\ failures' = <<>>
    /\ pacerQueue' = <<>> /\ nextIn' = 0 /\ sinceGrant' = MinInterval
    /\ UNCHANGED <<lock, report, fresh>>

-----------------------------------------------------------------------------
\* The rest of the world.

Less(n) == IF n = 0 THEN 0 ELSE n - 1
More(n) == IF n = MinInterval THEN n ELSE n + 1

Tick ==
    /\ nextIn' = Less(nextIn)
    /\ sleep' = [t \in DOMAIN sleep |-> Less(sleep[t])]
    /\ sinceGrant' = More(sinceGrant)
    /\ UNCHANGED <<phase, run, resolved, pc, attempt, failures, pacerQueue, lock, report, fresh>>

\* POST /admin/ingest, the fetch CLI or another run asks for the same range.
RivalTakes(s) ==
    /\ Rivals /\ lock[s] = NoToken
    /\ lock' = [lock EXCEPT ![s] = Rival]
    /\ UNCHANGED <<phase, run, resolved, taskVars, pacing, report, fresh>>

\* EX of the lock; it also stands for the rival's release.
ExpireLock(s) ==
    /\ lock[s] # NoToken
    /\ lock' = [lock EXCEPT ![s] = NoToken]
    /\ UNCHANGED <<phase, run, resolved, taskVars, pacing, report, fresh>>

TaskStep(t) == phase = "running" /\ (Proceed(t) \/ Upstream(t))

Next ==
    \/ Raise \/ Resolve \/ Summarise \/ Crash \/ Rerun \/ Tick
    \/ \E t \in DOMAIN pc : TaskStep(t)
    \/ \E s \in Symbols : RivalTakes(s) \/ ExpireLock(s)

Spec == Init /\ [][Next]_vars

\* Time passes, tasks are scheduled, and each fetch, upsert and sweep ends. The last
\* is an assumption about tvkit and asyncpg: no timeout of the engine bounds them.
FairSpec ==
    /\ Spec
    /\ WF_vars(Tick) /\ WF_vars(Summarise)
    /\ \A t \in UNION {DOMAIN list : list \in Lists} : WF_vars(t \in DOMAIN pc /\ TaskStep(t))

-----------------------------------------------------------------------------
\* The values of the variables; what the code adds is that no attempt is beyond
\* the last and that a back-off is never longer than that of the last retry.
TypeOK ==
    /\ phase \in {"new", "running", "done", "raised", "crashed"}
    /\ run \in 1..MaxRuns
    /\ resolved \in Lists \cup {<<>>}
    /\ pc \in [DOMAIN resolved ->
         {"queued", "pacing", "locking", "fetching", "sweeping", "backoff", "ok", "failed"}]
    /\ attempt \in [DOMAIN resolved -> 0..Retries]
    /\ sleep \in [DOMAIN resolved -> 0..(Backoff * Retries)]
    /\ failures \in [DOMAIN resolved -> 0..(Retries + 1)]
    /\ pacerQueue \in Seq(DOMAIN resolved)
    /\ nextIn \in 0..MinInterval
    /\ sinceGrant \in 0..MinInterval
    /\ DOMAIN lock = Symbols /\ fresh \subseteq Symbols
    /\ report.failures \subseteq DOMAIN resolved
    /\ phase # "done" => report = NoReport
    /\ phase = "new" => resolved = <<>>

\* "Max simultaneous tvkit fetches" (docs/operations/scheduled-ingest.md:41): retries
\* and back-offs included, no more fetches run at a time than there are permits.
FetchesBounded ==
    Cardinality({t \in DOMAIN pc : pc[t] = "fetching"}) <= Concurrency

\* The pacer lets tasks go at least an interval apart, whichever tasks wait for it,
\* first attempts and retries together, and however late they wake.
GrantsSpaced ==
    [][(phase' = "running" /\ \E t \in DOMAIN pc : pc[t] = "pacing" /\ pc'[t] = "locking")
         => sinceGrant = MinInterval]_vars

\* The task waits for no other one.
CanGo(t) ==
    \/ /\ pc[t] = "queued" /\ Cardinality(Working) < Concurrency
       /\ \A u \in 1..(t - 1) : pc[u] # "queued"
    \/ pc[t] = "pacing" /\ pacerQueue # <<>> /\ Head(pacerQueue) = t
    \/ pc[t] \in {"locking", "fetching", "sweeping", "backoff"}

\* A permit is kept while its task waits for the pacer, whose lock is kept through a
\* sleep, and a retry queues for the pacer again with the permit in hand: still the
\* tasks of a run never all wait for one another.
NeverStuck ==
    phase = "running" =>
      (\A t \in DOMAIN pc : pc[t] \in {"ok", "failed"}) \/ \E t \in DOMAIN pc : CanGo(t)

\* Permits kept through back-offs, the pacer's lock kept through a sleep, and the
\* retries never starve or block each other: a run that began comes to its report.
RunEnds == phase = "running" ~> phase \in {"done", "crashed"}

\* The run, as BulkRefresh sees it.
Stage ==
    CASE phase = "new" -> "idle"
      [] phase = "running" -> "running"
      [] OTHER -> "over"

Outcome == [t \in DOMAIN pc |-> IF pc[t] \in {"ok", "failed"} THEN pc[t] ELSE "pending"]

BR == INSTANCE BulkRefresh WITH
    list <- resolved, tries <- failures, stage <- Stage, outcome <- Outcome

\* The run keeps the promises of BulkRefresh: a symbol is given up only after
\* Retries + 1 failed tries, a failing symbol ends no other, and the report names
\* the failed ones and no other, once.
KeepsPromises == BR!Spec

-----------------------------------------------------------------------------
\* A statement of the comments that the code does not keep.

\* ingest/cli.py:142-144, a run that lost every symbol surfaces as a failure
\* "instead of a silent success": with no other ingest about, a run that reports a
\* success has written something.
SuccessMeansWritten ==
    phase = "done" /\ Cardinality(report.failures) < report.attempted => fresh # {}
=============================================================================

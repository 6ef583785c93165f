--------------------------- MODULE PoolLifecycle ---------------------------
(***************************************************************************)
(* db/postgres.py: the module-level asyncpg pool of the API process, with  *)
(* the users of it that decide when it is opened and closed: the lifespan  *)
(* (api/main.py), get_pool_dep (api/deps.py) and the health probe          *)
(* (api/routes.py _probe_db).                                              *)
(*                                                                         *)
(* Reads and Probes are slots that handle one request after another.       *)
(* Time is kept as the age of the last attempt, in ticks, capped at the    *)
(* cooldown: all the code ever asks is whether the cooldown is over.       *)
(***************************************************************************)
EXTENDS Naturals

CONSTANTS
    Reads,      \* slots of requests that go through get_pool_dep
    Probes,     \* slots of GET /health
    Cooldown    \* RETRY_COOLDOWN_SECONDS, in ticks

ASSUME PoolAssumption ==
    Cooldown \in Nat \ {0} /\ Reads \cap Probes = {}

\* _last_attempt is None: older than anything the cooldown looks at.
Never == Cooldown + 1

Slots == Reads \cup Probes
NoPool == 0

VARIABLES
    phase,      \* of the process: "starting", "serving", "closing", "stopped"
    dbUp,       \* PostgreSQL accepts the engine's connections
    pool,       \* _pool, by the number of its creation, or NoPool
    created,    \* pools created so far
    open,       \* pools that hold connections
    age,        \* now - _last_attempt, or Never for None
    pc,         \* of each slot: "idle", "connecting" or "holding" a pool
    lastDbOk,   \* _last_db_ok: what the last probe reported
    gap,        \* history: ticks since an on-demand attempt began, capped
    overrun     \* history: a connect has outlived the cooldown it armed

vars == <<phase, dbUp, pool, created, open, age, pc, lastDbOk, gap, overrun>>
slotVars == <<pc, lastDbOk>>

Init ==
    /\ phase = "starting"
    /\ dbUp \in BOOLEAN
    /\ pool = NoPool /\ created = 0 /\ open = {}
    /\ age = Never /\ gap = Cooldown /\ overrun = FALSE
    /\ pc = [r \in Slots |-> "idle"]
    /\ lastDbOk = "unknown"

\* asyncpg.create_pool returned: the module variable is assigned, whatever it held.
PoolCreated ==
    /\ dbUp
    /\ created' = created + 1
    /\ pool' = created + 1
    /\ open' = open \cup {created + 1}

-----------------------------------------------------------------------------
\* The lifespan. create_pool at startup does not arm the cooldown, and its
\* failure is logged and swallowed.
StartupOpensPool ==
    /\ phase = "starting" /\ PoolCreated
    /\ phase' = "serving"
    /\ UNCHANGED <<dbUp, age, slotVars, gap, overrun>>

StartupFails ==
    /\ phase = "starting" /\ ~dbUp
    /\ phase' = "serving"
    /\ UNCHANGED <<dbUp, pool, created, open, age, slotVars, gap, overrun>>

\* The server runs the end of the lifespan once the requests are answered.
\* close_pool first forgets the last attempt.
BeginClose ==
    /\ phase = "serving" /\ \A r \in Slots : pc[r] = "idle"
    /\ phase' = IF pool = NoPool THEN "stopped" ELSE "closing"
    /\ age' = Never
    /\ UNCHANGED <<dbUp, pool, created, open, slotVars, gap, overrun>>

\* Mutant of EndClose: the closed pool stays in the module variable.
CloseWithoutForgetting ==
    /\ phase = "closing"
    /\ open' = open \ {pool}
    /\ phase' = "stopped"
    /\ UNCHANGED <<dbUp, pool, created, age, slotVars, gap, overrun>>

\* The await of close, then _pool = None.
EndClose ==
    /\ phase = "closing"
    /\ open' = open \ {pool}
    /\ pool' = NoPool
    /\ phase' = "stopped"
    /\ UNCHANGED <<dbUp, created, age, slotVars, gap, overrun>>

-----------------------------------------------------------------------------
\* A request asks ensure_pool for the pool.

InCooldown == age < Cooldown

\* Mutant of Answer: the probe tests a connection of its own, not the pool.
AnswerFromThrowaway(r, served) ==
    lastDbOk' = IF r \in Probes THEN (IF dbUp THEN "ok" ELSE "down") ELSE lastDbOk

\* A request ends, served by the pool or not: a read gets its rows, 503 or 500 and
\* leaves nothing behind, a probe reports whether the serving pool answered.
Answer(r, served) ==
    lastDbOk' = IF r \in Probes THEN (IF served THEN "ok" ELSE "down") ELSE lastDbOk

Arrive(r) == phase = "serving" /\ pc[r] = "idle"

GetOpenPool(r) ==
    /\ Arrive(r) /\ pool # NoPool
    /\ pc' = [pc EXCEPT ![r] = "holding"]
    /\ UNCHANGED <<phase, dbUp, pool, created, open, age, lastDbOk, gap, overrun>>

\* PoolNotInitializedError: 503 for a read, db: false for a probe.
RefuseInCooldown(r) ==
    /\ Arrive(r) /\ pool = NoPool /\ InCooldown
    /\ Answer(r, FALSE)
    /\ UNCHANGED <<phase, dbUp, pool, created, open, age, pc, gap, overrun>>

\* Mutant of BeginConnect: get_pool instead of ensure_pool, as before 2026-09-11.
NeverConnect(r) == FALSE /\ UNCHANGED vars

\* Mutant of BeginConnect: the attempt is recorded once it has failed, not before.
ConnectUnrecorded(r) ==
    /\ Arrive(r) /\ pool = NoPool /\ ~InCooldown
    /\ gap' = 0
    /\ pc' = [pc EXCEPT ![r] = "connecting"]
    /\ UNCHANGED <<phase, dbUp, pool, created, open, age, lastDbOk, overrun>>

\* The attempt is recorded before the await; create_pool tests _pool once more
\* with no await in between.
BeginConnect(r) ==
    /\ Arrive(r) /\ pool = NoPool /\ ~InCooldown
    /\ age' = 0 /\ gap' = 0
    /\ pc' = [pc EXCEPT ![r] = "connecting"]
    /\ UNCHANGED <<phase, dbUp, pool, created, open, lastDbOk, overrun>>

ConnectSucceeds(r) ==
    /\ pc[r] = "connecting" /\ PoolCreated
    /\ age' = Never
    /\ pc' = [pc EXCEPT ![r] = "holding"]
    /\ UNCHANGED <<phase, dbUp, lastDbOk, gap, overrun>>

ConnectFails(r) ==
    /\ pc[r] = "connecting" /\ ~dbUp
    /\ Answer(r, FALSE)
    /\ pc' = [pc EXCEPT ![r] = "idle"]
    /\ UNCHANGED <<phase, dbUp, pool, created, open, age, gap, overrun>>

\* With a pool in hand: the query or SELECT 1 round-trips, or it raises, and no
\* handler maps the RepositoryError of a read to a status of its own.
QueryAnswers(r) ==
    /\ pc[r] = "holding" /\ dbUp
    /\ Answer(r, TRUE)
    /\ pc' = [pc EXCEPT ![r] = "idle"]
    /\ UNCHANGED <<phase, dbUp, pool, created, open, age, gap, overrun>>

QueryRaises(r) ==
    /\ pc[r] = "holding" /\ ~dbUp
    /\ Answer(r, FALSE)
    /\ pc' = [pc EXCEPT ![r] = "idle"]
    /\ UNCHANGED <<phase, dbUp, pool, created, open, age, gap, overrun>>

\* A read that finds its rows in Redis asks for the pool and does not use it.
ServeFromCache(r) ==
    /\ r \in Reads /\ pc[r] = "holding"
    /\ Answer(r, TRUE)
    /\ pc' = [pc EXCEPT ![r] = "idle"]
    /\ UNCHANGED <<phase, dbUp, pool, created, open, age, gap, overrun>>

EnsurePool(r) == GetOpenPool(r) \/ RefuseInCooldown(r) \/ BeginConnect(r)
Connected(r) == ConnectSucceeds(r) \/ ConnectFails(r)
UsePool(r) == QueryAnswers(r) \/ QueryRaises(r) \/ ServeFromCache(r)

-----------------------------------------------------------------------------
Older(a) == IF a < Cooldown THEN a + 1 ELSE a

\* Time passes, also over a connect that is in flight: its length is asyncpg's
\* timeout, which is longer than the cooldown.
Tick ==
    /\ age' = Older(age)
    /\ gap' = Older(gap)
    /\ overrun' = (overrun \/ (age + 1 >= Cooldown /\ \E r \in Slots : pc[r] = "connecting"))
    /\ UNCHANGED <<phase, dbUp, pool, created, open, slotVars>>

DatabaseGoesUpOrDown ==
    /\ dbUp' = ~dbUp
    /\ UNCHANGED <<phase, pool, created, open, age, slotVars, gap, overrun>>

Next ==
    \/ StartupOpensPool \/ StartupFails \/ BeginClose \/ EndClose
    \/ \E r \in Slots : EnsurePool(r) \/ Connected(r) \/ UsePool(r)
    \/ Tick \/ DatabaseGoesUpOrDown

Spec == Init /\ [][Next]_vars

\* The lifespan runs, the container's health check keeps asking, connects and
\* queries end (asyncpg's own timeouts), and time passes.
FairSpec ==
    /\ Spec
    /\ WF_vars(StartupOpensPool \/ StartupFails)
    /\ WF_vars(Tick)
    /\ \A r \in Probes : WF_vars(EnsurePool(r))
    /\ \A r \in Slots : WF_vars(Connected(r)) /\ WF_vars(UsePool(r))

-----------------------------------------------------------------------------
\* The values of the variables; what the code adds is that _pool, when set, is
\* a pool that was created and is not closed.
TypeOK ==
    /\ phase \in {"starting", "serving", "closing", "stopped"}
    /\ dbUp \in BOOLEAN
    /\ created \in Nat
    /\ open \subseteq 1..created
    /\ pool \in open \cup {NoPool}
    /\ age \in 0..Never /\ gap \in 0..Cooldown
    /\ pc \in [Slots -> {"idle", "connecting", "holding"}]
    /\ lastDbOk \in {"unknown", "ok", "down"}
    /\ overrun \in BOOLEAN

\* "A tight loop against a down database would otherwise add a connect attempt
\* per inbound request" (postgres.py:32-33): however many requests arrive, and
\* however long a connect hangs, on-demand attempts begin a cooldown apart.
AttemptsSpaced ==
    [][(\E r \in Slots : pc[r] = "idle" /\ pc'[r] = "connecting") => gap = Cooldown]_vars

\* db/postgres.py:3-4: "A single module-level pool is created eagerly in the FastAPI
\* lifespan": no pool is open that close_pool cannot reach. The code does not keep it.
NoPoolLost == open \subseteq {pool}

\* As long as no connect outlives the cooldown it armed, there is one pool at a time,
\* however many requests find it missing at once, and shutdown leaves none open.
SinglePool == ~overrun => NoPoolLost

\* "Opening a throwaway connection here would report ok while every /ohlcv request
\* still returned 503" (routes.py:95-98): after a probe that reported the database
\* reachable, no read is refused for want of a pool until the process stops.
HealthyMeansPool ==
    phase = "serving" /\ lastDbOk = "ok" => pool # NoPool

\* "A failed startup heals on the next request instead of persisting forever"
\* (postgres.py:17-18): if the database stays up, the pool is opened and stays so.
PoolHeals ==
    <>[](dbUp /\ phase = "serving") => <>[](pool # NoPool)

------------------------------------------------------------------------
=============================================================================

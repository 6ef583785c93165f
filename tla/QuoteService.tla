---------------------------- MODULE QuoteService ----------------------------
(***************************************************************************)
(* settlement/service.py and underlying_price/service.py: a quote is read  *)
(* from Redis, or fetched from TFEX under single_flight and written back.  *)
(* The two services have the same control; they differ in their fields,    *)
(* key prefixes and ttl, so one module models either.                      *)
(*                                                                         *)
(* A call is one get(symbol). A quote is the symbol it is for and the      *)
(* version of the venue data it shows.                                     *)
(***************************************************************************)
EXTENDS Naturals

CONSTANTS
    Symbols,     \* TFEX series
    Calls,       \* invocations of get
    MaxVersion,  \* bound: changes of the venue data
    MaxFaults,   \* bound: failed Redis and TFEX calls, crashes
    MaxExpiries, \* bound: Redis keys that reach the end of their ttl
    TTL,         \* cache ttl in seconds, 0 for entries without expiry
    NoToken,     \* an absent lock key
    Nothing      \* an absent entry, or no quote yet

Quotes == [symbol : Symbols, version : Nat]

ASSUME QuoteAssumption ==
    /\ NoToken \notin Calls /\ Nothing \notin Quotes
    /\ TTL \in Nat /\ MaxVersion \in Nat /\ MaxFaults \in Nat /\ MaxExpiries \in Nat

VARIABLES
    venue,     \* TFEX: version of each symbol's quote
    cache,     \* Redis: mde:settlement:* or mde:underlying-price:*
    lock,      \* Redis: the :lock:* keys
    req,       \* symbol of each call
    pc,        \* where each call is; "returned" before the block, "left" after it
    acquired,  \* what SET NX answered; the code drops the yielded value
    quote,     \* the local quote or cached of each call
    faults,    \* how many faults happened
    expiries,  \* how many keys expired
    leased,    \* history: calls whose own SET took the lock and still has it
    fetched,   \* history: calls that asked TFEX
    underLease \* history: symbols whose entry was stored by a call with a live lease

vars == <<venue, cache, lock, req, pc, acquired, quote, faults, expiries, leased, fetched,
          underLease>>

recorded == <<fetched, underLease>>

INSTANCE RedisLock

Init ==
    /\ venue = [s \in Symbols |-> 1]
    /\ cache = [s \in Symbols |-> Nothing]
    /\ lock = [s \in Symbols |-> NoToken]
    /\ req \in [Calls -> Symbols]
    /\ pc = [c \in Calls |-> "new"]
    /\ acquired = [c \in Calls |-> FALSE]
    /\ quote = [c \in Calls |-> Nothing]
    /\ faults = 0 /\ expiries = 0
    /\ leased = {} /\ fetched = {} /\ underLease = {}

Fault == faults < MaxFaults /\ faults' = faults + 1
Goto(c, label) == pc' = [pc EXCEPT ![c] = label]

-----------------------------------------------------------------------------
\* _get_cached, before the lock ("new") and inside the with block ("recheck").
\* A hit returns: at once, or through the release.
CacheHit(c) ==
    /\ pc[c] \in {"new", "recheck"}
    /\ cache[req[c]] # Nothing
    /\ quote' = [quote EXCEPT ![c] = cache[req[c]]]
    /\ Goto(c, IF pc[c] = "new" THEN "returned" ELSE "leave")
    /\ UNCHANGED <<venue, cache, lock, req, acquired, faults, expiries, leased, recorded>>

CacheMiss(c) ==
    /\ pc[c] \in {"new", "recheck"}
    /\ cache[req[c]] = Nothing
    /\ Goto(c, IF pc[c] = "new" THEN "enter" ELSE "fetch")
    /\ UNCHANGED <<venue, cache, lock, req, acquired, quote, faults, expiries, leased, recorded>>

\* GET raises or the payload cannot be decoded: treated as a miss.
CacheMissOnError(c) ==
    /\ pc[c] \in {"new", "recheck"}
    /\ Fault
    /\ Goto(c, IF pc[c] = "new" THEN "enter" ELSE "fetch")
    /\ UNCHANGED <<venue, cache, lock, req, acquired, quote, expiries, leased, recorded>>

\* Mutant of EnterBlock: the cache is not looked at again under the lock.
EnterWithoutRecheck(c) ==
    /\ pc[c] = "enter"
    /\ lock' = SetNx(lock, req[c], c)
    /\ acquired' = [acquired EXCEPT ![c] = (lock[req[c]] = NoToken)]
    /\ leased' = IF lock[req[c]] = NoToken THEN leased \cup {c} ELSE leased
    /\ Goto(c, "fetch")
    /\ UNCHANGED <<venue, cache, req, quote, faults, expiries, recorded>>

\* single_flight yields True or False; either way the block goes on to the re-check.
EnterBlock(c) ==
    /\ pc[c] = "enter"
    /\ lock' = SetNx(lock, req[c], c)
    /\ acquired' = [acquired EXCEPT ![c] = (lock[req[c]] = NoToken)]
    /\ leased' = IF lock[req[c]] = NoToken THEN leased \cup {c} ELSE leased
    /\ Goto(c, "recheck")
    /\ UNCHANGED <<venue, cache, req, quote, faults, expiries, recorded>>

EnterBlockOnError(c) ==
    /\ pc[c] = "enter"
    /\ Fault
    /\ lock' \in {lock, SetNx(lock, req[c], c)}
    /\ acquired' = [acquired EXCEPT ![c] = TRUE]
    /\ Goto(c, "recheck")
    /\ UNCHANGED <<venue, cache, req, quote, expiries, leased, recorded>>

\* get_trading_statistics or get_underlying_price answers.
FetchQuote(c) ==
    /\ pc[c] = "fetch"
    /\ quote' = [quote EXCEPT ![c] = [symbol |-> req[c], version |-> venue[req[c]]]]
    /\ fetched' = fetched \cup {c}
    /\ Goto(c, "store")
    /\ UNCHANGED <<venue, cache, lock, req, acquired, faults, expiries, leased, underLease>>

\* Mutant of FetchFails: the error is logged and the block goes on.
FetchErrorSwallowed(c) ==
    /\ pc[c] = "fetch"
    /\ Fault
    /\ fetched' = fetched \cup {c}
    /\ Goto(c, "store")
    /\ UNCHANGED <<venue, cache, lock, req, acquired, quote, expiries, leased, underLease>>

\* SettlementFetchError or UnderlyingPriceFetchError leaves the block.
FetchFails(c) ==
    /\ pc[c] = "fetch"
    /\ Fault
    /\ fetched' = fetched \cup {c}
    /\ Goto(c, "leave")
    /\ UNCHANGED <<venue, cache, lock, req, acquired, quote, expiries, leased, underLease>>

Put(c) ==
    /\ cache' = [cache EXCEPT ![quote[c].symbol] = quote[c]]
    /\ underLease' = IF c \in leased THEN underLease \cup {quote[c].symbol}
                     ELSE underLease \ {quote[c].symbol}

StoreQuote(c) ==
    /\ pc[c] = "store"
    /\ Put(c)
    /\ Goto(c, "leave")
    /\ UNCHANGED <<venue, lock, req, acquired, quote, faults, expiries, leased, fetched>>

\* SET raises, before or after the server ran it: the quote is served uncached.
StoreOnError(c) ==
    /\ pc[c] = "store"
    /\ Fault
    /\ Put(c) \/ UNCHANGED <<cache, underLease>>
    /\ Goto(c, "leave")
    /\ UNCHANGED <<venue, lock, req, acquired, quote, expiries, leased, fetched>>

\* Mutant of LeaveBlock: the lock is deleted by its key, whoever holds it.
LeaveDeletingKey(c) ==
    /\ pc[c] = "leave"
    /\ lock' = IF acquired[c] THEN [lock EXCEPT ![req[c]] = NoToken] ELSE lock
    /\ leased' = leased \ {c}
    /\ Goto(c, "left")
    /\ UNCHANGED <<venue, cache, req, acquired, quote, faults, expiries, recorded>>

\* End of the with block, by return or by exception.
LeaveBlock(c) ==
    /\ pc[c] = "leave"
    /\ lock' = IF acquired[c] THEN CompareAndDelete(lock, req[c], c) ELSE lock
    /\ leased' = leased \ {c}
    /\ Goto(c, "left")
    /\ UNCHANGED <<venue, cache, req, acquired, quote, faults, expiries, recorded>>

LeaveBlockOnError(c) ==
    /\ pc[c] = "leave" /\ acquired[c]
    /\ Fault
    /\ lock' \in {lock, CompareAndDelete(lock, req[c], c)}
    /\ leased' = leased \ {c}
    /\ Goto(c, "left")
    /\ UNCHANGED <<venue, cache, req, acquired, quote, expiries, recorded>>

\* The process dies or the request is cancelled, possibly while SET is in flight.
Crash(c) ==
    /\ pc[c] \notin {"returned", "left"}
    /\ Fault
    /\ lock' \in IF pc[c] = "enter" THEN {lock, SetNx(lock, req[c], c)} ELSE {lock}
    /\ leased' = leased \ {c}
    /\ Goto(c, IF pc[c] = "new" THEN "returned" ELSE "left")
    /\ UNCHANGED <<venue, cache, req, acquired, quote, expiries, recorded>>

CallStep(c) ==
    \/ CacheHit(c) \/ CacheMiss(c) \/ CacheMissOnError(c)
    \/ EnterBlock(c) \/ EnterBlockOnError(c)
    \/ FetchQuote(c) \/ FetchFails(c) \/ StoreQuote(c) \/ StoreOnError(c)
    \/ LeaveBlock(c) \/ LeaveBlockOnError(c) \/ Crash(c)

-----------------------------------------------------------------------------
VenueUpdate(s) ==
    /\ venue[s] < MaxVersion
    /\ venue' = [venue EXCEPT ![s] = @ + 1]
    /\ UNCHANGED <<cache, lock, req, pc, acquired, quote, faults, expiries, leased, recorded>>

Expiry == expiries < MaxExpiries /\ expiries' = expiries + 1

\* EX 30 of the lock; nothing bounds the fetch that runs under it.
ExpireLock(s) ==
    /\ lock[s] # NoToken
    /\ Expiry
    /\ lock' = [lock EXCEPT ![s] = NoToken]
    /\ leased' = leased \ {lock[s]}
    /\ UNCHANGED <<venue, cache, req, pc, acquired, quote, faults, recorded>>

\* EX of the entry, given when the ttl is positive.
ExpireQuote(s) ==
    /\ TTL > 0
    /\ cache[s] # Nothing
    /\ Expiry
    /\ cache' = [cache EXCEPT ![s] = Nothing]
    /\ UNCHANGED <<venue, lock, req, pc, acquired, quote, faults, leased, recorded>>

Next ==
    \/ \E c \in Calls : CallStep(c)
    \/ \E s \in Symbols : VenueUpdate(s) \/ ExpireLock(s) \/ ExpireQuote(s)

Spec == Init /\ [][Next]_vars

-----------------------------------------------------------------------------
\* The values of the variables; what the code adds is that a block is left with
\* a quote to store and that every entry decodes to a quote.
TypeOK ==
    /\ venue \in [Symbols -> Nat]
    /\ cache \in [Symbols -> Quotes \cup {Nothing}]
    /\ lock \in [Symbols -> Calls \cup {NoToken}]
    /\ req \in [Calls -> Symbols]
    /\ pc \in [Calls -> {"new", "enter", "recheck", "fetch", "store", "leave", "left", "returned"}]
    /\ acquired \in [Calls -> BOOLEAN]
    /\ quote \in [Calls -> Quotes \cup {Nothing}]
    /\ \A c \in Calls : pc[c] = "store" => quote[c] # Nothing
    /\ faults \in Nat /\ expiries \in Nat
    /\ leased \subseteq Calls /\ fetched \subseteq Calls /\ underLease \subseteq Symbols

\* What the lock and the re-check deliver together: as long as no call fails and
\* no key expires, of the calls for a symbol that got the lock only one asks
\* TFEX, and the later ones find its quote. It takes the store before the
\* release, the re-check after the acquire, and a release that is not refused.
LeasedFetchOnce ==
    (faults = 0 /\ expiries = 0) =>
        \A c, d \in fetched : acquired[c] /\ acquired[d] /\ req[c] = req[d] => c = d

\* Between quotes stored by calls whose leases had not run out, a newer one is never
\* replaced by an older: such a call looks at TFEX after the other has stored, however
\* slow either fetch is and whatever fails or expires meanwhile. A call without the
\* lock, or one that lost it, may put an older quote back.
NewerStays ==
    [][\A s \in Symbols \cap underLease \cap underLease' :
         cache[s] # Nothing /\ cache'[s] # Nothing => cache[s].version <= cache'[s].version]_vars

\* The with block of a call, as SingleFlight sees it.
BlockOf(c) ==
    CASE pc[c] \in {"new", "enter", "returned"} -> "new"
      [] pc[c] \in {"recheck", "fetch", "store", "leave"} -> "body"
      [] OTHER -> "done"

SF == INSTANCE SingleFlight WITH
    Keys <- Symbols, Connected <- Calls, key <- req, pc <- [c \in Calls |-> BlockOf(c)]

\* get uses its lock as single_flight prescribes, whatever the block makes of the
\* yielded value: on every path it enters and leaves once, and takes or deletes
\* no lock but its own, so all that is proved of SingleFlight holds of its lock.
UsesSingleFlight == SF!Spec

-----------------------------------------------------------------------------
\* docs/api/settlements.md:74-75, "Concurrent cold requests for the same symbol are
\* deduped by the engine's single-flight lock so TFEX is hit once": with no failure
\* and no expiry, no two calls for a symbol ask TFEX.
OneFetchPerSymbol ==
    (faults = 0 /\ expiries = 0) => \A c, d \in fetched : req[c] = req[d] => c = d
=============================================================================

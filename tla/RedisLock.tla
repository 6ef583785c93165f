----------------------------- MODULE RedisLock -----------------------------
(***************************************************************************)
(* The two Redis commands cache/single_flight.py issues on its lock keys,  *)
(* as operators on a lock table: a function from lock keys to the token    *)
(* stored under the key, NoToken when the key is absent.                   *)
(* SingleFlight, IngestRead, QuoteService and DailyIngest instantiate it.  *)
(***************************************************************************)
CONSTANT NoToken

\* Mutant of SetNx: SET without NX, which takes the key from its holder.
SetOverwriting(table, key, token) == [table EXCEPT ![key] = token]

\* SET key token NX EX ttl: stores the token only when the key is absent.
SetNx(table, key, token) ==
    IF table[key] = NoToken THEN [table EXCEPT ![key] = token] ELSE table

\* Mutant of CompareAndDelete: a plain DEL, whoever holds the key.
PlainDelete(table, key, token) == [table EXCEPT ![key] = NoToken]

\* _RELEASE_LUA: deletes the key only while it still holds the given token.
CompareAndDelete(table, key, token) ==
    IF table[key] = token THEN [table EXCEPT ![key] = NoToken] ELSE table
=============================================================================

---------------------------- MODULE SingleFlight ----------------------------
(***************************************************************************)
(* cache/single_flight.py: the lease that dedupes identical fetches.       *)
(*                                                                         *)
(* A call is one use of "async with single_flight(client, key)". Calls     *)
(* are never reused, so a call stands for its own uuid token. Its body is  *)
(* the caller's: it runs whatever the context manager yields, True or      *)
(* False, and for as long as it likes, since nothing bounds the fetch.     *)
(* The lease may therefore run out at any moment after it was taken.       *)
(***************************************************************************)
CONSTANTS
    Keys,        \* lock keys: lock_key(symbol, timeframe, range_key)
    Calls,       \* uses of the context manager, one token each
    Connected,   \* the calls whose client is not None
    NoToken      \* an absent Redis key

ASSUME CallsAssumption == Connected \subseteq Calls /\ NoToken \notin Calls

VARIABLES
    lock,       \* Redis: the token stored under each lock key
    key,        \* the key of each call, an argument
    pc,         \* "new", "body" (inside the with block) or "done"
    acquired,   \* the local variable of each call, the value yielded
    leased      \* history: calls whose own SET took the key and still has it

vars == <<lock, key, pc, acquired, leased>>

INSTANCE RedisLock

Init ==
    /\ lock = [k \in Keys |-> NoToken]
    /\ key \in [Calls -> Keys]
    /\ pc = [c \in Calls |-> "new"]
    /\ acquired = [c \in Calls |-> FALSE]
    /\ leased = {}

-----------------------------------------------------------------------------
\* No client: yield True, and nothing to release afterwards.
EnterWithoutClient(c) ==
    /\ pc[c] = "new"
    /\ c \notin Connected
    /\ pc' = [pc EXCEPT ![c] = "body"]
    /\ acquired' = [acquired EXCEPT ![c] = TRUE]
    /\ UNCHANGED <<lock, key, leased>>

\* Mutant of Enter: the reply of SET, True or the null reply, is kept without bool().
EnterKeepingReply(c) ==
    /\ pc[c] = "new"
    /\ c \in Connected
    /\ pc' = [pc EXCEPT ![c] = "body"]
    /\ lock' = SetNx(lock, key[c], c)
    /\ acquired' = [acquired EXCEPT ![c] = IF lock[key[c]] = NoToken THEN TRUE ELSE NoToken]
    /\ leased' = IF lock[key[c]] = NoToken THEN leased \cup {c} ELSE leased
    /\ UNCHANGED key

\* SET NX answers: True if the key was absent, and False, which the body sees
\* as the yielded value, if another token is there.
Enter(c) ==
    /\ pc[c] = "new"
    /\ c \in Connected
    /\ pc' = [pc EXCEPT ![c] = "body"]
    /\ lock' = SetNx(lock, key[c], c)
    /\ acquired' = [acquired EXCEPT ![c] = (lock[key[c]] = NoToken)]
    /\ leased' = IF lock[key[c]] = NoToken THEN leased \cup {c} ELSE leased
    /\ UNCHANGED key

\* Mutant of EnterOnError: the handler yields False, "not acquired".
EnterRefusedOnError(c) ==
    /\ pc[c] = "new"
    /\ c \in Connected
    /\ pc' = [pc EXCEPT ![c] = "body"]
    /\ lock' \in {lock, SetNx(lock, key[c], c)}
    /\ UNCHANGED <<key, acquired, leased>>

\* SET raises, before or after the server ran it: proceed as if acquired.
EnterOnError(c) ==
    /\ pc[c] = "new"
    /\ c \in Connected
    /\ pc' = [pc EXCEPT ![c] = "body"]
    /\ lock' \in {lock, SetNx(lock, key[c], c)}
    /\ acquired' = [acquired EXCEPT ![c] = TRUE]
    /\ UNCHANGED <<key, leased>>

\* The body ended, normally or by an exception, and nothing is to be released.
LeaveWithoutRelease(c) ==
    /\ pc[c] = "body"
    /\ c \notin Connected \/ ~acquired[c]
    /\ pc' = [pc EXCEPT ![c] = "done"]
    /\ UNCHANGED <<lock, key, acquired, leased>>

\* The body ended, normally or by an exception: compare-and-delete.
Release(c) ==
    /\ pc[c] = "body"
    /\ c \in Connected /\ acquired[c]
    /\ pc' = [pc EXCEPT ![c] = "done"]
    /\ lock' = CompareAndDelete(lock, key[c], c)
    /\ leased' = leased \ {c}
    /\ UNCHANGED <<key, acquired>>

\* The release raises, before or after the server ran it; it is swallowed.
ReleaseOnError(c) ==
    /\ pc[c] = "body"
    /\ c \in Connected /\ acquired[c]
    /\ pc' = [pc EXCEPT ![c] = "done"]
    /\ lock' \in {lock, CompareAndDelete(lock, key[c], c)}
    /\ leased' = leased \ {c}
    /\ UNCHANGED <<key, acquired>>

\* The process dies, or the task is cancelled (CancelledError is no Exception,
\* so neither handler sees it), inside the body or while SET is in flight.
Abandon(c) ==
    /\ pc[c] \in {"new", "body"}
    /\ pc' = [pc EXCEPT ![c] = "done"]
    /\ lock' \in IF pc[c] = "new" /\ c \in Connected
                 THEN {lock, SetNx(lock, key[c], c)} ELSE {lock}
    /\ leased' = leased \ {c}
    /\ UNCHANGED <<key, acquired>>

\* The EX of the SET: Redis drops the key once its time is over.
Expire(k) ==
    /\ lock[k] # NoToken
    /\ lock' = [lock EXCEPT ![k] = NoToken]
    /\ leased' = leased \ {lock[k]}
    /\ UNCHANGED <<key, pc, acquired>>

CallStep(c) ==
    \/ EnterWithoutClient(c)
    \/ Enter(c)
    \/ EnterOnError(c)
    \/ LeaveWithoutRelease(c)
    \/ Release(c)
    \/ ReleaseOnError(c)
    \/ Abandon(c)

Next == (\E c \in Calls : CallStep(c)) \/ (\E k \in Keys : Expire(k))

Spec == Init /\ [][Next]_vars

-----------------------------------------------------------------------------
\* The values of the variables. What the code adds to the declarations is that
\* the yielded value is a truth value whatever Redis replied.
TypeOK ==
    /\ lock \in [Keys -> Calls \cup {NoToken}]
    /\ key \in [Calls -> Keys]
    /\ pc \in [Calls -> {"new", "body", "done"}]
    /\ acquired \in [Calls -> BOOLEAN]
    /\ leased \subseteq Calls

\* A call whose SET took the key and whose lease has not run out is inside its
\* body, was told True, and its token is the one in Redis: no release by an
\* earlier holder, no error path and no crash of another call takes it away.
LeaseHeld ==
    \A c \in leased : c \in Connected /\ pc[c] = "body" /\ acquired[c] /\ lock[key[c]] = c

\* Of two calls inside their bodies for one key that were both told True, at
\* least one entered through a Redis error, has no client, or lost its lease to
\* the TTL: there is no other way for two identical fetches to overlap.
ExclusiveLease ==
    \A c, d \in Calls :
        /\ c # d /\ key[c] = key[d]
        /\ pc[c] = "body" /\ acquired[c] /\ pc[d] = "body" /\ acquired[d]
        => c \notin leased \/ d \notin leased

\* "We never delete a lock another holder acquired after ours expired"
\* (single_flight.py:22-23): a step of a call leaves every lock that another
\* call holds in place.
NeverDeletesAnother ==
    [][\A c \in Calls : pc'[c] # pc[c] =>
         \A k \in Keys : lock[k] \notin {c, NoToken} => lock'[k] = lock[k]]_vars

\* A call in its body whose token is in Redis has a client and was told True, so that it
\* leaves by a release: it never leaves its lock behind to make the re-runs of the next
\* minutes skip, unless that release raises or the call dies. This holds too of a lock
\* that Redis took for a SET whose reply was an error, of which the call knows nothing.
HoldersRelease ==
    \A c \in Calls : pc[c] = "body" /\ lock[key[c]] = c => c \in Connected /\ acquired[c]
=============================================================================

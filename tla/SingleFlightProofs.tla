------------------------- MODULE SingleFlightProofs -------------------------
(***************************************************************************)
(* Proofs about SingleFlight, for every set of calls and of keys.          *)
(*                                                                         *)
(* TypeOK /\ LeaseHeld is inductive: a lease is lost only by its holder's  *)
(* exit or by the TTL, because SET NX does not take a key from its holder  *)
(* and the release deletes a key only while it holds the caller's token.   *)
(***************************************************************************)
EXTENDS SingleFlight, TLAPS

\* The two Redis commands keep a lock table a lock table.
LEMMA LockTable ==
    ASSUME lock \in [Keys -> Calls \cup {NoToken}], NEW c \in Calls, NEW k \in Keys
    PROVE  /\ SetNx(lock, k, c) \in [Keys -> Calls \cup {NoToken}]
           /\ CompareAndDelete(lock, k, c) \in [Keys -> Calls \cup {NoToken}]
  BY DEF SetNx, CompareAndDelete

\* SET NX changes no key that is held.
LEMMA SetNxKeepsHolders ==
    ASSUME lock \in [Keys -> Calls \cup {NoToken}], NEW c \in Calls, NEW k \in Keys,
           NEW j \in Keys, lock[j] # NoToken
    PROVE  SetNx(lock, k, c)[j] = lock[j]
  BY DEF SetNx

\* The release changes no key that another token holds.
LEMMA ReleaseKeepsOthers ==
    ASSUME lock \in [Keys -> Calls \cup {NoToken}], NEW c \in Calls, NEW k \in Keys,
           NEW j \in Keys, lock[j] # c
    PROVE  CompareAndDelete(lock, k, c)[j] = lock[j]
  BY DEF CompareAndDelete

\* What a call's step does to the locks of the others: the fact both invariants
\* and the action property rest on.
LEMMA CallKeepsOthers ==
    ASSUME TypeOK, NEW c \in Calls, CallStep(c), NEW j \in Keys, lock[j] \notin {c, NoToken}
    PROVE  lock'[j] = lock[j]
  <1>1. key[c] \in Keys /\ lock \in [Keys -> Calls \cup {NoToken}]
    BY DEF TypeOK
  <1>2. lock' \in {lock, SetNx(lock, key[c], c), CompareAndDelete(lock, key[c], c)}
    BY DEF CallStep, EnterWithoutClient, Enter, EnterOnError, LeaveWithoutRelease,
           Release, ReleaseOnError, Abandon
  <1>3. QED
    BY <1>1, <1>2, SetNxKeepsHolders, ReleaseKeepsOthers

\* The variables keep their values' types: single_flight yields a truth value on
\* every path and Redis holds tokens of calls.
THEOREM TypeCorrect == Spec => []TypeOK
  <1>1. Init => TypeOK
    BY DEF Init, TypeOK
  <1>2. TypeOK /\ [Next]_vars => TypeOK'
    <2> SUFFICES ASSUME TypeOK, [Next]_vars PROVE TypeOK'
      OBVIOUS
    <2>1. ASSUME NEW c \in Calls, CallStep(c) PROVE TypeOK'
      <3>1. key[c] \in Keys
        BY DEF TypeOK
      <3>2. /\ SetNx(lock, key[c], c) \in [Keys -> Calls \cup {NoToken}]
            /\ CompareAndDelete(lock, key[c], c) \in [Keys -> Calls \cup {NoToken}]
        BY <3>1, LockTable DEF TypeOK
      <3>3. QED
        BY <2>1, <3>1, <3>2 DEF TypeOK, CallStep, EnterWithoutClient, Enter, EnterOnError,
           LeaveWithoutRelease, Release, ReleaseOnError, Abandon
    <2>2. ASSUME NEW k \in Keys, Expire(k) PROVE TypeOK'
      BY <2>2 DEF TypeOK, Expire
    <2>3. CASE UNCHANGED vars
      BY <2>3 DEF TypeOK, vars
    <2>4. QED
      BY <2>1, <2>2, <2>3 DEF Next
  <1>3. QED
    BY <1>1, <1>2, PTL DEF Spec

\* A call keeps its lease, and its token in Redis, until it leaves or the TTL ends.
THEOREM LeaseIsHeld == Spec => []LeaseHeld
  <1>1. Init => LeaseHeld
    BY DEF Init, LeaseHeld
  <1>2. TypeOK /\ LeaseHeld /\ [Next]_vars => LeaseHeld'
    <2> SUFFICES ASSUME TypeOK, LeaseHeld, [Next]_vars PROVE LeaseHeld'
      OBVIOUS
    <2>1. ASSUME NEW c \in Calls, CallStep(c) PROVE LeaseHeld'
      <3> SUFFICES ASSUME NEW d \in Calls, d \in leased'
                   PROVE  d \in Connected /\ pc'[d] = "body" /\ acquired'[d] /\ lock'[key'[d]] = d
        BY <2>1 DEF LeaseHeld, TypeOK, CallStep, EnterWithoutClient, Enter, EnterOnError,
           LeaveWithoutRelease, Release, ReleaseOnError, Abandon
      <3>1. CASE d # c
        <4>1. d \in leased /\ pc'[d] = pc[d] /\ acquired'[d] = acquired[d] /\ key' = key
          BY <2>1, <3>1 DEF TypeOK, CallStep, EnterWithoutClient, Enter, EnterOnError,
             LeaveWithoutRelease, Release, ReleaseOnError, Abandon
        <4>2. lock[key[d]] = d /\ key[d] \in Keys /\ d # NoToken
          BY <4>1, CallsAssumption DEF LeaseHeld, TypeOK
        <4>3. lock'[key[d]] = d
          BY <2>1, <3>1, <4>2, CallKeepsOthers
        <4>4. QED
          BY <4>1, <4>3 DEF LeaseHeld
      <3>2. CASE d = c
        <4>1. ~(EnterWithoutClient(c) \/ EnterOnError(c) \/ LeaveWithoutRelease(c))
          BY <3>2 DEF LeaseHeld, EnterWithoutClient, EnterOnError, LeaveWithoutRelease
        <4>2. Enter(c)
          BY <2>1, <3>2, <4>1 DEF CallStep, Release, ReleaseOnError, Abandon
        <4>3. lock[key[c]] = NoToken
          BY <3>2, <4>2 DEF Enter, LeaseHeld
        <4>4. QED
          BY <3>2, <4>2, <4>3 DEF Enter, SetNx, TypeOK
      <3>3. QED
        BY <3>1, <3>2
    <2>2. ASSUME NEW k \in Keys, Expire(k) PROVE LeaseHeld'
      BY <2>2 DEF LeaseHeld, TypeOK, Expire
    <2>3. CASE UNCHANGED vars
      BY <2>3 DEF LeaseHeld, vars
    <2>4. QED
      BY <2>1, <2>2, <2>3 DEF Next
  <1>3. QED
    BY <1>1, <1>2, TypeCorrect, PTL DEF Spec

\* At most one live lease per key, for any number of concurrent callers.
THEOREM LeaseIsExclusive == Spec => []ExclusiveLease
  <1>1. TypeOK /\ LeaseHeld => ExclusiveLease
    BY DEF TypeOK, LeaseHeld, ExclusiveLease
  <1>2. QED
    BY <1>1, TypeCorrect, LeaseIsHeld, PTL

\* No caller's step deletes or replaces the lock of another caller.
THEOREM OthersKeepTheirLocks == Spec => NeverDeletesAnother
  <1>1. TypeOK /\ [Next]_vars =>
          [\A c \in Calls : pc'[c] # pc[c] =>
             \A k \in Keys : lock[k] \notin {c, NoToken} => lock'[k] = lock[k]]_vars
    <2> SUFFICES ASSUME TypeOK, [Next]_vars, NEW c \in Calls, pc'[c] # pc[c],
                        NEW k \in Keys, lock[k] \notin {c, NoToken}
                 PROVE  lock'[k] = lock[k]
      OBVIOUS
    <2>1. CallStep(c)
      <3>1. ASSUME NEW d \in Calls, CallStep(d) PROVE d = c
        BY <3>1 DEF TypeOK, CallStep, EnterWithoutClient, Enter, EnterOnError,
           LeaveWithoutRelease, Release, ReleaseOnError, Abandon
      <3>2. ~UNCHANGED pc
        OBVIOUS
      <3>3. QED
        BY <3>1, <3>2 DEF Next, Expire, vars
    <2>2. QED
      BY <2>1, CallKeepsOthers
  <1>2. QED
    BY <1>1, TypeCorrect, PTL DEF Spec, NeverDeletesAnother

\* A token gets into Redis only by its own call's SET, which comes with acquired = True
\* when the reply is an error.
TokensInv ==
    /\ \A c \in Calls : pc[c] = "new" => lock[key[c]] # c
    /\ HoldersRelease

\* Whoever has its token in Redis will release it, if it lives and Redis answers.
THEOREM HoldersWillRelease == Spec => []HoldersRelease
  <1>1. Init => TokensInv
    BY CallsAssumption DEF Init, TokensInv, HoldersRelease
  <1>2. TypeOK /\ TokensInv /\ [Next]_vars => TokensInv'
    <2> SUFFICES ASSUME TypeOK, TokensInv, [Next]_vars PROVE TokensInv'
      OBVIOUS
    <2>1. ASSUME NEW c \in Calls, CallStep(c), NEW d \in Calls
          PROVE  /\ pc'[d] = "new" => lock'[key'[d]] # d
                 /\ pc'[d] = "body" /\ lock'[key'[d]] = d => d \in Connected /\ acquired'[d]
      <3>1. key' = key /\ key[c] \in Keys /\ key[d] \in Keys /\ c # NoToken
        BY <2>1, CallsAssumption DEF TypeOK, CallStep, EnterWithoutClient, Enter, EnterOnError,
           LeaveWithoutRelease, Release, ReleaseOnError, Abandon
      <3>2. lock' \in {lock, SetNx(lock, key[c], c), CompareAndDelete(lock, key[c], c)}
        BY <2>1 DEF CallStep, EnterWithoutClient, Enter, EnterOnError, LeaveWithoutRelease,
           Release, ReleaseOnError, Abandon
      <3>3. CASE d # c
        <4>1. pc'[d] = pc[d] /\ acquired'[d] = acquired[d]
          BY <2>1, <3>3 DEF TypeOK, CallStep, EnterWithoutClient, Enter, EnterOnError,
             LeaveWithoutRelease, Release, ReleaseOnError, Abandon
        <4>2. lock'[key[d]] = d => lock[key[d]] = d
          BY <3>1, <3>2, <3>3, CallsAssumption DEF TypeOK, SetNx, CompareAndDelete
        <4>3. QED
          BY <3>1, <4>1, <4>2 DEF TokensInv, HoldersRelease
      <3>4. CASE d = c
        <4>1. CASE EnterWithoutClient(c) \/ LeaveWithoutRelease(c) \/ Release(c)
                   \/ ReleaseOnError(c) \/ Abandon(c)
          BY <3>1, <3>4, <4>1 DEF TypeOK, TokensInv, HoldersRelease, EnterWithoutClient,
             LeaveWithoutRelease, Release, ReleaseOnError, Abandon
        <4>2. CASE Enter(c)
          BY <3>1, <3>4, <4>2 DEF TypeOK, TokensInv, HoldersRelease, Enter, SetNx
        <4>3. CASE EnterOnError(c)
          BY <3>1, <3>4, <4>3 DEF TypeOK, EnterOnError
        <4>4. QED
          BY <2>1, <4>1, <4>2, <4>3 DEF CallStep
      <3>5. QED
        BY <3>3, <3>4
    <2>2. ASSUME NEW k \in Keys, Expire(k) PROVE TokensInv'
      BY <2>2, CallsAssumption DEF TokensInv, HoldersRelease, TypeOK, Expire
    <2>3. CASE UNCHANGED vars
      BY <2>3 DEF TokensInv, HoldersRelease, vars
    <2>4. QED
      BY <2>1, <2>2, <2>3 DEF Next, TokensInv, HoldersRelease
  <1>3. TokensInv => HoldersRelease
    BY DEF TokensInv
  <1>4. QED
    BY <1>1, <1>2, <1>3, TypeCorrect, PTL DEF Spec
=============================================================================

-------------------------- MODULE QuoteServiceProofs --------------------------
(***************************************************************************)
(* Proofs about QuoteService, for any number of symbols and calls and any  *)
(* bounds.                                                                 *)
(***************************************************************************)
EXTENDS QuoteService, TLAPS

\* Where a request is inside the with block.
Body == {"recheck", "fetch", "store", "leave"}

\* Nothing has failed and no lock has expired.
Quiet == faults = 0 /\ expiries = 0

\* What a call stores is the quote of its own symbol.
StoresOwn == \A c \in Calls : pc[c] = "store" => quote[c] # Nothing /\ quote[c].symbol = req[c]

\* Without failures and expiries the lock of a symbol is held by the one call that
\* is inside the block and was told True.
LockHeld ==
    Quiet => \A c \in Calls : pc[c] \in Body /\ acquired[c] => lock[req[c]] = c

\* A call that asked TFEX is past its fetch, and once past its store its quote stays.
FetchStored ==
    /\ \A c \in fetched : pc[c] \in {"store", "leave", "left"}
    /\ Quiet => \A c \in fetched : pc[c] \in {"leave", "left"} => cache[req[c]] # Nothing

\* A holder that is about to ask TFEX is the first holder to do so.
FirstToFetch ==
    Quiet => \A c \in Calls, d \in fetched :
        pc[c] = "fetch" /\ acquired[c] /\ acquired[d] => req[d] # req[c]

\* The inductive invariant of the one fetch per symbol.
IInv == TypeOK /\ StoresOwn /\ LockHeld /\ FetchStored /\ FirstToFetch /\ LeasedFetchOnce

-----------------------------------------------------------------------------
\* The Redis commands keep the lock table a table of calls.
LEMMA LockTable ==
    ASSUME TypeOK, NEW c \in Calls
    PROVE  /\ SetNx(lock, req[c], c) \in [Symbols -> Calls \cup {NoToken}]
           /\ CompareAndDelete(lock, req[c], c) \in [Symbols -> Calls \cup {NoToken}]
  BY DEF TypeOK, SetNx, CompareAndDelete

\* The values of the variables, call step by call step.
LEMMA TypeCall ==
    ASSUME TypeOK, StoresOwn, NEW c \in Calls, CallStep(c)
    PROVE  TypeOK' /\ StoresOwn'
  <1> USE DEF Goto, Fault, Put, recorded, StoresOwn
  <1>1. CASE CacheHit(c) \/ CacheMiss(c) \/ CacheMissOnError(c)
    BY <1>1 DEF TypeOK, CacheHit, CacheMiss, CacheMissOnError
  <1>2. CASE EnterBlock(c) \/ EnterBlockOnError(c)
    <2>1. lock' \in [Symbols -> Calls \cup {NoToken}]
      BY <1>2, LockTable DEF TypeOK, EnterBlock, EnterBlockOnError
    <2>2. acquired' \in [Calls -> BOOLEAN] /\ leased' \subseteq Calls
      BY <1>2 DEF TypeOK, EnterBlock, EnterBlockOnError
    <2>3. QED
      BY <1>2, <2>1, <2>2 DEF TypeOK, EnterBlock, EnterBlockOnError
  <1>3. CASE FetchQuote(c)
    <2>1. [symbol |-> req[c], version |-> venue[req[c]]] \in Quotes
      BY DEF TypeOK, Quotes
    <2>2. quote' \in [Calls -> Quotes \cup {Nothing}]
      BY <1>3, <2>1 DEF TypeOK, FetchQuote
    <2>3. quote'[c] # Nothing /\ quote'[c].symbol = req[c]
      BY <1>3, <2>1, QuoteAssumption DEF TypeOK, FetchQuote
    <2>4. QED
      BY <1>3, <2>2, <2>3 DEF TypeOK, FetchQuote
  <1>4. CASE FetchFails(c)
    BY <1>4 DEF TypeOK, FetchFails
  <1>5. CASE StoreQuote(c) \/ StoreOnError(c)
    <2>1. quote[c] \in Quotes
      BY <1>5 DEF TypeOK, StoreQuote, StoreOnError
    <2>2. QED
      BY <1>5, <2>1 DEF TypeOK, StoreQuote, StoreOnError
  <1>6. CASE LeaveBlock(c) \/ LeaveBlockOnError(c)
    BY <1>6, LockTable DEF TypeOK, LeaveBlock, LeaveBlockOnError
  <1>7. CASE Crash(c)
    BY <1>7, LockTable DEF TypeOK, Crash
  <1>8. QED
    BY <1>1, <1>2, <1>3, <1>4, <1>5, <1>6, <1>7 DEF CallStep

\* The values of the variables, as quotes change and keys expire.
LEMMA TypeWorld ==
    ASSUME TypeOK, StoresOwn, NEW s \in Symbols, VenueUpdate(s) \/ ExpireLock(s) \/ ExpireQuote(s)
    PROVE  TypeOK' /\ StoresOwn'
  BY DEF TypeOK, StoresOwn, VenueUpdate, ExpireLock, ExpireQuote, Expiry, recorded

-----------------------------------------------------------------------------
\* While nothing fails or expires, only the holder's own release frees its lock.
LEMMA LockCall ==
    ASSUME TypeOK, LockHeld, NEW c \in Calls, CallStep(c)
    PROVE  LockHeld'
  <1> USE DEF Goto, Fault, Put, recorded
  <1>1. SUFFICES ASSUME Quiet', NEW d \in Calls, pc'[d] \in Body, acquired'[d]
                 PROVE  lock'[req'[d]] = d
    BY DEF LockHeld
  <1>2. Quiet /\ faults' = faults /\ req' = req
    BY <1>1 DEF Quiet, TypeOK, CallStep, CacheHit, CacheMiss, CacheMissOnError, EnterBlock,
       EnterBlockOnError, FetchQuote, FetchFails, StoreQuote, StoreOnError, LeaveBlock,
       LeaveBlockOnError, Crash
  <1>3. req[c] \in Symbols /\ req[d] \in Symbols /\ c # NoToken /\ d # NoToken
    BY QuoteAssumption DEF TypeOK
  <1>4. CASE EnterBlock(c)
    <2>1. CASE d = c
      BY <1>1, <1>2, <1>3, <1>4, <2>1 DEF EnterBlock, SetNx, TypeOK
    <2>2. CASE d # c
      <3>1. lock[req[d]] = d
        BY <1>1, <1>2, <1>4, <2>2 DEF EnterBlock, TypeOK, LockHeld
      <3>2. QED
        BY <1>2, <1>3, <1>4, <3>1 DEF EnterBlock, SetNx, TypeOK
    <2>3. QED
      BY <2>1, <2>2
  <1>5. CASE LeaveBlock(c)
    <2>1. d # c /\ pc[d] \in Body /\ acquired[d]
      BY <1>1, <1>5 DEF LeaveBlock, TypeOK, Body
    <2>2. lock[req[d]] = d
      BY <1>2, <2>1 DEF LockHeld
    <2>3. QED
      BY <1>2, <1>3, <1>5, <2>1, <2>2 DEF LeaveBlock, CompareAndDelete, TypeOK
  <1>6. CASE CacheHit(c) \/ CacheMiss(c) \/ FetchQuote(c) \/ StoreQuote(c)
    <2>1. lock' = lock /\ acquired' = acquired
      BY <1>6 DEF CacheHit, CacheMiss, FetchQuote, StoreQuote
    <2>2. pc[d] \in Body
      BY <1>1, <1>6 DEF CacheHit, CacheMiss, FetchQuote, StoreQuote, TypeOK, Body
    <2>3. QED
      BY <1>1, <1>2, <2>1, <2>2 DEF LockHeld
  <1>7. QED
    BY <1>2, <1>4, <1>5, <1>6 DEF CallStep, TypeOK, CacheMissOnError, EnterBlockOnError, FetchFails,
       StoreOnError, LeaveBlockOnError, Crash

\* A holder fetches only after a re-check that missed, when no earlier holder can
\* have left its quote: that one would hold the lock still, or have stored.
LEMMA FetchCall ==
    ASSUME TypeOK, StoresOwn, LockHeld, FetchStored, FirstToFetch, LeasedFetchOnce,
           NEW c \in Calls, CallStep(c)
    PROVE  FetchStored' /\ FirstToFetch' /\ LeasedFetchOnce'
  <1> USE DEF Goto, Fault, Put, recorded
  <1>0. req' = req /\ fetched \subseteq fetched' /\ fetched' \subseteq fetched \cup {c}
        /\ \A d \in Calls \ {c} : pc'[d] = pc[d] /\ acquired'[d] = acquired[d]
    BY DEF TypeOK, CallStep, CacheHit, CacheMiss, CacheMissOnError, EnterBlock,
       EnterBlockOnError, FetchQuote, FetchFails, StoreQuote, StoreOnError, LeaveBlock,
       LeaveBlockOnError, Crash
  <1>1. \A d \in fetched' : pc'[d] \in {"store", "leave", "left"}
    BY <1>0 DEF FetchStored, TypeOK, CallStep, CacheHit, CacheMiss, CacheMissOnError, EnterBlock,
       EnterBlockOnError, FetchQuote, FetchFails, StoreQuote, StoreOnError, LeaveBlock,
       LeaveBlockOnError, Crash
  <1>2. CASE ~Quiet'
    BY <1>1, <1>2 DEF FetchStored, FirstToFetch, LeasedFetchOnce, Quiet
  <1>3. CASE Quiet'
    <2>0. Quiet
      BY <1>3 DEF Quiet, TypeOK, CallStep, CacheHit, CacheMiss, CacheMissOnError, EnterBlock,
         EnterBlockOnError, FetchQuote, FetchFails, StoreQuote, StoreOnError, LeaveBlock,
         LeaveBlockOnError, Crash
    <2>1. CacheHit(c) \/ CacheMiss(c) \/ EnterBlock(c) \/ FetchQuote(c) \/ StoreQuote(c) \/ LeaveBlock(c)
      BY <1>3, <2>0 DEF Quiet, CallStep, CacheMissOnError, EnterBlockOnError, FetchFails,
         StoreOnError, LeaveBlockOnError, Crash
    <2>2. \A s \in Symbols : cache[s] # Nothing => cache'[s] # Nothing
      BY <2>1 DEF TypeOK, StoresOwn, CacheHit, CacheMiss, EnterBlock, FetchQuote, StoreQuote, LeaveBlock
    <2>3. FetchStored'
      <3>1. ASSUME NEW d \in fetched', pc'[d] \in {"leave", "left"} PROVE cache'[req[d]] # Nothing
        <4>0. d \in Calls /\ req[d] \in Symbols
          BY <1>0 DEF TypeOK
        <4>1. CASE d \in fetched /\ pc[d] \in {"leave", "left"}
          BY <2>0, <2>2, <4>0, <4>1 DEF FetchStored
        <4>2. CASE StoreQuote(c) /\ d = c
          BY <4>0, <4>2 DEF StoreQuote, StoresOwn, TypeOK
        <4>3. QED
          BY <1>0, <2>1, <3>1, <4>0, <4>1, <4>2 DEF FetchStored, CacheHit, CacheMiss, EnterBlock,
             FetchQuote, StoreQuote, LeaveBlock, TypeOK
      <3>2. QED
        BY <1>0, <1>1, <3>1 DEF FetchStored
    <2>4. FirstToFetch' /\ LeasedFetchOnce'
      <3>1. CASE FetchQuote(c)
        <4>1. acquired' = acquired /\ fetched' = fetched \cup {c} /\ pc[c] = "fetch" /\ pc'[c] = "store"
          BY <3>1 DEF FetchQuote, TypeOK
        <4>2. \A d \in fetched : acquired[c] /\ acquired[d] => req[d] # req[c]
          BY <2>0, <4>1 DEF FirstToFetch
        <4>3. \A d \in Calls : pc[d] = "fetch" /\ acquired[d] /\ acquired[c] /\ d # c => req[d] # req[c]
          BY <2>0, <4>1 DEF LockHeld, Body
        <4>4. LeasedFetchOnce'
          BY <1>0, <2>0, <4>1, <4>2 DEF LeasedFetchOnce, Quiet
        <4>5. FirstToFetch'
          BY <1>0, <2>0, <4>1, <4>3 DEF FirstToFetch
        <4>6. QED
          BY <4>4, <4>5
      <3>2. CASE CacheMiss(c)
        <4>1. acquired' = acquired /\ fetched' = fetched /\ cache[req[c]] = Nothing
          BY <3>2 DEF CacheMiss
        <4>2. ASSUME NEW d \in fetched, pc'[c] = "fetch", acquired[c], acquired[d], req[d] = req[c]
              PROVE  FALSE
          <5>1. pc[c] = "recheck" /\ lock[req[c]] = c
            BY <2>0, <3>2, <4>2 DEF CacheMiss, LockHeld, Body, TypeOK
          <5>2. d \in Calls /\ pc[d] = "store"
            BY <2>0, <4>1, <4>2 DEF FetchStored, TypeOK
          <5>3. lock[req[d]] = d
            BY <2>0, <4>2, <5>2 DEF LockHeld, Body
          <5>4. QED
            BY <4>2, <5>1, <5>2, <5>3
        <4>3. QED
          BY <1>0, <2>0, <4>1, <4>2 DEF FirstToFetch, LeasedFetchOnce, Quiet
      <3>3. CASE EnterBlock(c)
        <4>1. fetched' = fetched /\ c \notin fetched /\ pc'[c] = "recheck"
          BY <3>3 DEF EnterBlock, FetchStored, TypeOK
        <4>2. QED
          BY <1>0, <2>0, <4>1 DEF FirstToFetch, LeasedFetchOnce, Quiet, TypeOK
      <3>4. CASE CacheHit(c) \/ StoreQuote(c) \/ LeaveBlock(c)
        <4>1. fetched' = fetched /\ acquired' = acquired /\ pc'[c] # "fetch"
          BY <3>4 DEF CacheHit, StoreQuote, LeaveBlock, TypeOK
        <4>2. QED
          BY <1>0, <2>0, <4>1 DEF FirstToFetch, LeasedFetchOnce, Quiet, TypeOK
      <3>5. QED
        BY <2>1, <3>1, <3>2, <3>3, <3>4
    <2>5. QED
      BY <2>3, <2>4
  <1>4. QED
    BY <1>2, <1>3

\* Quotes that change and keys that expire leave the invariant alone.
LEMMA WorldStep ==
    ASSUME IInv, NEW s \in Symbols, VenueUpdate(s) \/ ExpireLock(s) \/ ExpireQuote(s)
    PROVE  LockHeld' /\ FetchStored' /\ FirstToFetch' /\ LeasedFetchOnce'
  <1> USE DEF recorded
  <1>1. req' = req /\ pc' = pc /\ acquired' = acquired /\ fetched' = fetched
    BY DEF VenueUpdate, ExpireLock, ExpireQuote
  <1>2. CASE VenueUpdate(s)
    BY <1>1, <1>2 DEF IInv, VenueUpdate, LockHeld, FetchStored, FirstToFetch, LeasedFetchOnce, Quiet
  <1>3. CASE ExpireLock(s) \/ ExpireQuote(s)
    <2>1. ~Quiet'
      BY <1>3 DEF IInv, TypeOK, ExpireLock, ExpireQuote, Expiry, Quiet
    <2>2. QED
      BY <1>1, <2>1 DEF IInv, LockHeld, FetchStored, FirstToFetch, LeasedFetchOnce, Quiet
  <1>4. QED
    BY <1>2, <1>3

\* The inductive invariant holds of every reachable state.
THEOREM Inductive == Spec => []IInv
  <1>1. Init => IInv
    BY QuoteAssumption
       DEF Init, IInv, TypeOK, StoresOwn, LockHeld, FetchStored, FirstToFetch, LeasedFetchOnce, Body
  <1>2. IInv /\ [Next]_vars => IInv'
    <2> SUFFICES ASSUME IInv, [Next]_vars PROVE IInv'
      OBVIOUS
    <2>1. ASSUME NEW c \in Calls, CallStep(c) PROVE IInv'
      BY <2>1, TypeCall, LockCall, FetchCall DEF IInv
    <2>2. ASSUME NEW s \in Symbols, VenueUpdate(s) \/ ExpireLock(s) \/ ExpireQuote(s) PROVE IInv'
      BY <2>2, TypeWorld, WorldStep DEF IInv
    <2>3. CASE UNCHANGED vars
      BY <2>3 DEF vars, recorded, IInv, TypeOK, StoresOwn, LockHeld, FetchStored, FirstToFetch,
         LeasedFetchOnce, Quiet
    <2>4. QED
      BY <2>1, <2>2, <2>3 DEF Next
  <1>3. QED
    BY <1>1, <1>2, PTL DEF Spec

\* The values of the variables, for any symbols, calls and bounds.
THEOREM TypeCorrect == Spec => []TypeOK
  BY Inductive, PTL DEF IInv

\* Of the calls that got a symbol's lock one asks TFEX, however many there are.
THEOREM HoldersFetchOnce == Spec => []LeasedFetchOnce
  BY Inductive, PTL DEF IInv

-----------------------------------------------------------------------------
\* A call whose lease has not run out is inside its block and its token is in Redis.
LeaseHeld == \A c \in leased : pc[c] \in Body /\ acquired[c] /\ lock[req[c]] = c

\* An entry is under its own symbol, and neither it nor a quote in the hands of a call
\* shows more than the venue has.
ShowsPast ==
    /\ \A s \in Symbols : cache[s] # Nothing => cache[s].symbol = s /\ cache[s].version <= venue[s]
    /\ \A c \in Calls : pc[c] = "store" => quote[c].version <= venue[req[c]]

\* What a holder is about to store is no older than an entry another holder stored.
HoldersInOrder ==
    \A c \in leased :
      pc[c] = "store" /\ req[c] \in underLease /\ cache[req[c]] # Nothing
      => cache[req[c]].version <= quote[c].version

\* The inductive invariant of live leases, whatever fails.
LInv == LeaseHeld /\ ShowsPast /\ HoldersInOrder

\* Nobody's step ends the lease of another call or moves it.
LEMMA LeaseCall ==
    ASSUME TypeOK, LeaseHeld, NEW c \in Calls, CallStep(c)
    PROVE  LeaseHeld' /\ (leased' \subseteq leased \cup {c})
  <1> USE DEF Goto, Fault, Put, recorded, Body
  <1>1. CASE CacheHit(c) \/ CacheMiss(c) \/ CacheMissOnError(c)
    BY <1>1 DEF TypeOK, LeaseHeld, CacheHit, CacheMiss, CacheMissOnError
  <1>2. CASE EnterBlock(c) \/ EnterBlockOnError(c)
    <2>1. c \notin leased /\ req[c] \in Symbols /\ c # NoToken
      BY <1>2, QuoteAssumption DEF TypeOK, LeaseHeld, EnterBlock, EnterBlockOnError
    <2>2. /\ req' = req /\ pc'[c] = "recheck" /\ leased' \subseteq leased \cup {c}
          /\ \A d \in Calls \ {c} : pc'[d] = pc[d] /\ acquired'[d] = acquired[d]
      BY <1>2 DEF TypeOK, EnterBlock, EnterBlockOnError
    <2>3. c \in leased' => acquired'[c] /\ lock'[req[c]] = c
      BY <1>2, <2>1 DEF TypeOK, EnterBlock, EnterBlockOnError, SetNx
    <2>4. \A d \in leased : lock'[req[d]] = d
      <3>1. lock' \in {lock, SetNx(lock, req[c], c)}
        BY <1>2 DEF EnterBlock, EnterBlockOnError
      <3>2. \A d \in leased : lock[req[d]] = d /\ d # NoToken /\ req[d] \in Symbols
        BY QuoteAssumption DEF TypeOK, LeaseHeld
      <3> QED BY <2>1, <3>1, <3>2 DEF SetNx, TypeOK
    <2> QED BY <2>1, <2>2, <2>3, <2>4 DEF TypeOK, LeaseHeld
  <1>3. CASE FetchQuote(c) \/ FetchFails(c) \/ StoreQuote(c) \/ StoreOnError(c)
    BY <1>3 DEF TypeOK, LeaseHeld, FetchQuote, FetchFails, StoreQuote, StoreOnError
  <1>4. CASE LeaveBlock(c) \/ LeaveBlockOnError(c)
    BY <1>4 DEF TypeOK, LeaseHeld, LeaveBlock, LeaveBlockOnError, CompareAndDelete
  <1>5. CASE Crash(c)
    BY <1>5, QuoteAssumption DEF TypeOK, LeaseHeld, Crash, SetNx
  <1> QED BY <1>1, <1>2, <1>3, <1>4, <1>5 DEF CallStep

\* The step of a call keeps entries and quotes in order: only a store writes an entry,
\* and no other holder of its symbol is about to store.
LEMMA OrderCall ==
    ASSUME TypeOK, StoresOwn, LInv, NEW c \in Calls, CallStep(c)
    PROVE  ShowsPast' /\ HoldersInOrder'
  <1> USE DEF Goto, Fault, recorded
  <1>1. CASE FetchQuote(c)
    BY <1>1 DEF TypeOK, LInv, ShowsPast, HoldersInOrder, FetchQuote
  <1>2. CASE (StoreQuote(c) \/ StoreOnError(c)) /\ Put(c)
    <2>1. /\ pc[c] = "store" /\ pc' = [pc EXCEPT ![c] = "leave"]
          /\ UNCHANGED <<venue, req, quote, leased>>
      BY <1>2 DEF StoreQuote, StoreOnError
    <2>2. quote[c] # Nothing /\ quote[c].symbol = req[c] /\ req[c] \in Symbols
      BY <2>1 DEF StoresOwn, TypeOK
    <2>3. ShowsPast'
      BY <1>2, <2>1, <2>2 DEF TypeOK, LInv, ShowsPast, Put
    <2>4. ASSUME NEW d \in leased, pc'[d] = "store", req[d] \in underLease', cache'[req[d]] # Nothing
          PROVE  cache'[req[d]].version <= quote[d].version
      <3>1. d \in Calls /\ d # c /\ pc[d] = "store"
        BY <2>1, <2>4 DEF TypeOK
      <3>2. req[d] # req[c]
        <4>1. CASE c \in leased
          BY <3>1, <4>1 DEF LInv, LeaseHeld
        <4>2. CASE c \notin leased
          BY <1>2, <2>2, <2>4, <4>2 DEF Put
        <4> QED BY <4>1, <4>2
      <3> QED BY <1>2, <2>2, <2>4, <3>1, <3>2 DEF Put, LInv, HoldersInOrder, TypeOK
    <2> QED BY <2>1, <2>3, <2>4 DEF HoldersInOrder
  <1>3. CASE UNCHANGED <<venue, cache, req, underLease>> /\ pc'[c] # "store"
             /\ (\A d \in Calls \ {c} : pc'[d] = pc[d] /\ quote'[d] = quote[d])
             /\ leased' \subseteq leased \cup {c}
    BY <1>3 DEF TypeOK, LInv, ShowsPast, HoldersInOrder
  <1>4. CASE \/ CacheHit(c) \/ CacheMiss(c) \/ CacheMissOnError(c)
             \/ EnterBlock(c) \/ EnterBlockOnError(c) \/ FetchFails(c)
             \/ StoreOnError(c) /\ UNCHANGED <<cache, underLease>>
             \/ LeaveBlock(c) \/ LeaveBlockOnError(c) \/ Crash(c)
    <2>1. leased' \subseteq leased \cup {c}
      BY LeaseCall DEF LInv
    <2>2. UNCHANGED <<venue, cache, req, underLease>> /\ pc'[c] # "store"
          /\ (\A d \in Calls \ {c} : pc'[d] = pc[d] /\ quote'[d] = quote[d])
      BY <1>4 DEF TypeOK, CacheHit, CacheMiss, CacheMissOnError, EnterBlock, EnterBlockOnError,
         FetchFails, StoreOnError, LeaveBlock, LeaveBlockOnError, Crash
    <2> QED BY <1>3, <2>1, <2>2
  <1> QED BY <1>1, <1>2, <1>4 DEF CallStep, StoreQuote, StoreOnError

\* So do the venue, whose versions grow, and keys that expire.
LEMMA OrderWorld ==
    ASSUME TypeOK, StoresOwn, LInv, NEW s \in Symbols,
           VenueUpdate(s) \/ ExpireLock(s) \/ ExpireQuote(s)
    PROVE  LInv'
  <1> USE DEF recorded
  <1>1. CASE VenueUpdate(s)
    BY <1>1 DEF TypeOK, StoresOwn, LInv, LeaseHeld, ShowsPast, HoldersInOrder, VenueUpdate, Quotes
  <1>2. CASE ExpireLock(s)
    BY <1>2, QuoteAssumption DEF TypeOK, LInv, LeaseHeld, ShowsPast, HoldersInOrder, ExpireLock
  <1>3. CASE ExpireQuote(s)
    BY <1>3 DEF TypeOK, LInv, LeaseHeld, ShowsPast, HoldersInOrder, ExpireQuote
  <1> QED BY <1>1, <1>2, <1>3

\* Leases, entries and quotes stay in order in every reachable state.
THEOREM Ordered == Spec => []LInv
  <1>1. Init => LInv
    BY DEF Init, LInv, LeaseHeld, ShowsPast, HoldersInOrder
  <1>2. IInv /\ LInv /\ [Next]_vars => LInv'
    <2> SUFFICES ASSUME IInv, LInv, [Next]_vars PROVE LInv'
      OBVIOUS
    <2>1. ASSUME NEW c \in Calls, CallStep(c) PROVE LInv'
      BY <2>1, LeaseCall, OrderCall DEF IInv, LInv
    <2>2. CASE UNCHANGED vars
      BY <2>2 DEF vars, recorded, LInv, LeaseHeld, ShowsPast, HoldersInOrder
    <2> QED BY <2>1, <2>2, OrderWorld DEF Next, IInv
  <1> QED BY <1>1, <1>2, Inductive, PTL DEF Spec

\* Among holders an older quote never replaces a newer one, for any number of calls.
THEOREM HoldersKeepNewer == Spec => NewerStays
  <1>1. IInv /\ LInv /\ [Next]_vars =>
          [\A s \in Symbols \cap underLease \cap underLease' :
             cache[s] # Nothing /\ cache'[s] # Nothing => cache[s].version <= cache'[s].version]_vars
    <2> SUFFICES ASSUME IInv, LInv, Next, NEW s \in Symbols, s \in underLease, s \in underLease',
                        cache[s] # Nothing, cache'[s] # Nothing
                 PROVE  cache[s].version <= cache'[s].version
      OBVIOUS
    <2> USE DEF recorded
    <2>0. cache[s] \in Quotes /\ cache[s].version <= cache[s].version
      BY DEF IInv, TypeOK, Quotes
    <2>1. CASE cache'[s] = cache[s]
      BY <2>0, <2>1
    <2>2. ASSUME NEW c \in Calls, StoreQuote(c) \/ StoreOnError(c), Put(c)
          PROVE  cache[s].version <= cache'[s].version
      <3>1. quote[c].symbol = req[c] /\ pc[c] = "store"
        BY <2>2 DEF StoreQuote, StoreOnError, IInv, StoresOwn
      <3>2. CASE s # req[c]
        BY <2>1, <2>2, <3>1, <3>2 DEF Put, IInv, TypeOK
      <3>3. CASE s = req[c]
        <4>1. c \in leased /\ cache'[s] = quote[c]
          BY <2>2, <3>1, <3>3 DEF Put, IInv, TypeOK
        <4> QED BY <3>1, <3>3, <4>1 DEF LInv, HoldersInOrder
      <3> QED BY <3>2, <3>3
    <2>3. ASSUME NEW c \in Calls, CallStep(c) PROVE cache[s].version <= cache'[s].version
      <3>1. cache' = cache \/ ((StoreQuote(c) \/ StoreOnError(c)) /\ Put(c))
        BY <2>3 DEF CallStep, CacheHit, CacheMiss, CacheMissOnError, EnterBlock, EnterBlockOnError,
           FetchQuote, FetchFails, StoreQuote, StoreOnError, LeaveBlock, LeaveBlockOnError, Crash
      <3> QED BY <2>1, <2>2, <3>1
    <2>4. ASSUME NEW t \in Symbols, VenueUpdate(t) \/ ExpireLock(t) \/ ExpireQuote(t)
          PROVE  cache'[s] = cache[s]
      BY <2>4 DEF VenueUpdate, ExpireLock, ExpireQuote, IInv, TypeOK
    <2> QED BY <2>1, <2>3, <2>4 DEF Next
  <1> QED BY <1>1, Inductive, Ordered, PTL DEF Spec, NewerStays

-----------------------------------------------------------------------------
\* A call's step is a step of its with block, or none of it.
LEMMA CallSimulates ==
    ASSUME TypeOK, LeaseHeld, NEW c \in Calls, CallStep(c)
    PROVE  SF!CallStep(c) \/ UNCHANGED SF!vars
  <1> USE DEF Goto, Fault, recorded
  <1> DEFINE block == [d \in Calls |-> BlockOf(d)]
  <1>0. block' = [block EXCEPT ![c] = BlockOf(c)'] /\ block[c] = BlockOf(c)
    <2>1. \A d \in Calls \ {c} : pc'[d] = pc[d]
      BY DEF TypeOK, CallStep, CacheHit, CacheMiss, CacheMissOnError, EnterBlock, EnterBlockOnError,
         FetchQuote, FetchFails, StoreQuote, StoreOnError, LeaveBlock, LeaveBlockOnError, Crash
    <2> QED BY <2>1 DEF BlockOf
  <1>1. BlockOf(c)' = BlockOf(c) => block' = block
    BY <1>0
  <1> HIDE DEF block
  <1>2. CASE CacheHit(c) \/ CacheMiss(c) \/ CacheMissOnError(c)
             \/ FetchQuote(c) \/ FetchFails(c) \/ StoreQuote(c) \/ StoreOnError(c)
    <2>1. BlockOf(c)' = BlockOf(c) /\ UNCHANGED <<lock, req, acquired, leased>>
      BY <1>2 DEF CacheHit, CacheMiss, CacheMissOnError, FetchQuote, FetchFails, StoreQuote,
         StoreOnError, BlockOf, TypeOK
    <2> QED BY <1>1, <2>1 DEF SF!vars, block
  <1>3. CASE EnterBlock(c)
    <2>1. BlockOf(c) = "new" /\ BlockOf(c)' = "body"
      BY <1>3 DEF EnterBlock, BlockOf, TypeOK
    <2>2. SF!Enter(c)
      BY <1>0, <1>3, <2>1 DEF EnterBlock, SF!Enter, SetNx, SF!SetNx, block
    <2> QED BY <2>2 DEF SF!CallStep
  <1>4. CASE EnterBlockOnError(c)
    <2>1. BlockOf(c) = "new" /\ BlockOf(c)' = "body"
      BY <1>4 DEF EnterBlockOnError, BlockOf, TypeOK
    <2>2. SF!EnterOnError(c)
      BY <1>0, <1>4, <2>1 DEF EnterBlockOnError, SF!EnterOnError, SetNx, SF!SetNx, block
    <2> QED BY <2>2 DEF SF!CallStep
  <1>5. CASE LeaveBlock(c)
    <2>1. BlockOf(c) = "body" /\ BlockOf(c)' = "done"
      BY <1>5 DEF LeaveBlock, BlockOf, TypeOK
    <2>2. CASE acquired[c]
      <3>1. SF!Release(c)
        BY <1>0, <1>5, <2>1, <2>2 DEF LeaveBlock, SF!Release, CompareAndDelete, SF!CompareAndDelete, block
      <3> QED BY <3>1 DEF SF!CallStep
    <2>3. CASE ~acquired[c]
      <3>1. leased' = leased /\ lock' = lock
        BY <1>5, <2>3 DEF LeaveBlock, LeaseHeld
      <3>2. SF!LeaveWithoutRelease(c)
        BY <1>0, <1>5, <2>1, <2>3, <3>1 DEF LeaveBlock, SF!LeaveWithoutRelease, block
      <3> QED BY <3>2 DEF SF!CallStep
    <2> QED BY <2>2, <2>3
  <1>6. CASE LeaveBlockOnError(c)
    <2>1. BlockOf(c) = "body" /\ BlockOf(c)' = "done"
      BY <1>6 DEF LeaveBlockOnError, BlockOf, TypeOK
    <2>2. SF!ReleaseOnError(c)
      BY <1>0, <1>6, <2>1
         DEF LeaveBlockOnError, SF!ReleaseOnError, CompareAndDelete, SF!CompareAndDelete, block
    <2> QED BY <2>2 DEF SF!CallStep
  <1>7. CASE Crash(c) /\ pc[c] = "new"
    <2>1. BlockOf(c)' = BlockOf(c) /\ UNCHANGED <<lock, req, acquired, leased>>
      BY <1>7 DEF Crash, BlockOf, TypeOK, LeaseHeld, Body
    <2> QED BY <1>1, <2>1 DEF SF!vars, block
  <1>8. CASE Crash(c) /\ pc[c] # "new"
    <2>1. /\ BlockOf(c) = IF pc[c] = "enter" THEN "new" ELSE "body"
          /\ BlockOf(c)' = "done"
      BY <1>8 DEF Crash, BlockOf, TypeOK
    <2>2. SF!Abandon(c)
      BY <1>0, <1>8, <2>1 DEF Crash, SF!Abandon, SetNx, SF!SetNx, block
    <2> QED BY <2>2 DEF SF!CallStep
  <1> QED BY <1>2, <1>3, <1>4, <1>5, <1>6, <1>7, <1>8 DEF CallStep

\* A request follows the protocol of single_flight on every path, whatever fails.
THEOREM QuotesUseSingleFlight == Spec => UsesSingleFlight
  <1>1. Init => SF!Init
    BY DEF Init, SF!Init, BlockOf
  <1>2. TypeOK /\ LeaseHeld /\ [Next]_vars => [SF!Next]_(SF!vars)
    <2> SUFFICES ASSUME TypeOK, LeaseHeld, [Next]_vars PROVE SF!Next \/ UNCHANGED SF!vars
      OBVIOUS
    <2> USE DEF recorded
    <2>1. ASSUME NEW c \in Calls, CallStep(c) PROVE SF!Next \/ UNCHANGED SF!vars
      BY <2>1, CallSimulates DEF SF!Next
    <2>2. UNCHANGED pc => UNCHANGED [c \in Calls |-> BlockOf(c)]
      BY DEF BlockOf
    <2>3. ASSUME NEW s \in Symbols, ExpireLock(s) PROVE SF!Next
      BY <2>2, <2>3 DEF ExpireLock, SF!Expire, SF!Next
    <2>4. ASSUME NEW s \in Symbols, VenueUpdate(s) \/ ExpireQuote(s) PROVE UNCHANGED SF!vars
      BY <2>2, <2>4 DEF VenueUpdate, ExpireQuote, SF!vars
    <2>5. CASE UNCHANGED vars
      BY <2>2, <2>5 DEF vars, SF!vars
    <2> QED BY <2>1, <2>3, <2>4, <2>5 DEF Next
  <1> QED BY <1>1, <1>2, Inductive, Ordered, PTL DEF Spec, IInv, LInv, UsesSingleFlight, SF!Spec

-----------------------------------------------------------------------------
\* What is proved of the lock, for the requests.
SFP == INSTANCE SingleFlightProofs WITH
    Keys <- Symbols, Connected <- Calls, key <- req, pc <- [c \in Calls |-> BlockOf(c)]

\* The same module, with the same substitution.
LEMMA SameLock ==
    /\ SF!Init <=> SFP!Init
    /\ [SF!Next]_(SF!vars) <=> [SFP!Next]_(SFP!vars)
    /\ SF!LeaseHeld <=> SFP!LeaseHeld
    /\ SF!ExclusiveLease <=> SFP!ExclusiveLease
  BY DEF SF!Init, SFP!Init, SF!Next, SFP!Next, SF!vars, SFP!vars, SF!CallStep, SFP!CallStep,
         SF!EnterWithoutClient, SFP!EnterWithoutClient, SF!Enter, SFP!Enter, SF!EnterOnError,
         SFP!EnterOnError, SF!LeaveWithoutRelease, SFP!LeaveWithoutRelease, SF!Release, SFP!Release,
         SF!ReleaseOnError, SFP!ReleaseOnError, SF!Abandon, SFP!Abandon, SF!Expire, SFP!Expire,
         SF!SetNx, SFP!SetNx, SF!CompareAndDelete, SFP!CompareAndDelete, SF!LeaseHeld, SFP!LeaseHeld,
         SF!ExclusiveLease, SFP!ExclusiveLease

\* Two requests for a symbol that were both told True overlap only after a Redis error or
\* when the lock of one ran out; those told False are the ones that break the promise.
THEOREM RequestsAreExclusive == Spec => [](SF!LeaseHeld /\ SF!ExclusiveLease)
  <1>1. Calls \subseteq Calls /\ NoToken \notin Calls
    BY QuoteAssumption
  <1>2. SFP!Spec => []SFP!LeaseHeld
    BY <1>1, SFP!LeaseIsHeld
  <1>3. SFP!Spec => []SFP!ExclusiveLease
    BY <1>1, SFP!LeaseIsExclusive
  <1>4. SF!Spec => SFP!Spec
    BY SameLock, PTL DEF SF!Spec, SFP!Spec
  <1>5. Spec => SF!Spec
    BY QuotesUseSingleFlight DEF UsesSingleFlight
  <1> QED BY <1>2, <1>3, <1>4, <1>5, SameLock, PTL
=============================================================================

-------------------------- MODULE IngestReadProofs --------------------------
(***************************************************************************)
(* Proofs about IngestRead, for any number of series, ranges, windows,     *)
(* ingests and reads, and any bounds.                                      *)
(***************************************************************************)
EXTENDS IngestRead, TLAPS

\* Every cached answer sits under the key of its own query.
CacheKeyed ==
    \A k \in CacheKeys : cache[k] # Nothing => MakeKey(cache[k].query) = k

\* Only an ingest that has written sweeps.
SweepsAfterWrite ==
    \A i \in Ingests : ipc[i] \in {"scan", "sweep"} => iout[i] = "written"

\* The inductive invariant behind StaleIsExplained.
IInv == TypeOK /\ ServedMatchesRequest /\ CacheKeyed /\ SweepsAfterWrite /\ StaleIsExplained

-----------------------------------------------------------------------------
\* The helpers map arguments of the right kind to values of the right kind.

\* A query answers with a record of what it read.
LEMMA FetchAnswers ==
    ASSUME TypeOK, NEW q \in Requests
    PROVE  Fetch(q) \in Answers /\ Fetch(q).query = q
  BY DEF TypeOK, Fetch, Answers, Requests

\* make_key yields a cache key of the same series.
LEMMA MakeKeyType ==
    ASSUME NEW q \in Requests
    PROVE  MakeKey(q) \in CacheKeys /\ MakeKey(q)[2] = q.series
  BY DEF MakeKey, CacheKeys, Requests

\* The Redis commands keep the lock table a table of ingests' tokens.
LEMMA LockTable ==
    ASSUME TypeOK, NEW i \in Ingests
    PROVE  /\ SetNx(lock, ireq[i], i) \in [LockKeys -> Ingests \cup {NoToken}]
           /\ CompareAndDelete(lock, ireq[i], i) \in [LockKeys -> Ingests \cup {NoToken}]
  BY DEF TypeOK, SetNx, CompareAndDelete

\* The series of an ingest is a series.
LEMMA SeriesType ==
    ASSUME TypeOK, NEW i \in Ingests
    PROVE  SeriesOf(i) \in Series
  BY DEF TypeOK, SeriesOf, LockKeys

\* Excuse only adds causes.
LEMMA ExcuseAdds ==
    ASSUME TypeOK, NEW keys, NEW why \in Causes, Excuse(keys, why)
    PROVE  /\ cause' \in [CacheKeys -> SUBSET Causes]
           /\ \A k \in CacheKeys : cause[k] \subseteq cause'[k]
           /\ \A k \in CacheKeys : k \in keys => cause'[k] # {}
  BY DEF TypeOK, Excuse

\* An entry that goes leaves the cache, its history and the sweeps well-typed.
LEMMA VanishType ==
    ASSUME TypeOK, NEW k, Vanish(k)
    PROVE  /\ cache' \in [CacheKeys -> Answers \cup {Nothing}]
           /\ cause' \in [CacheKeys -> SUBSET Causes]
           /\ todo' \in [Ingests -> SUBSET CacheKeys]
  BY DEF TypeOK, Vanish

-----------------------------------------------------------------------------
\* Type correctness, ingest by ingest step.
LEMMA TypeIngest ==
    ASSUME TypeOK, NEW i \in Ingests, IngestStep(i)
    PROVE  TypeOK'
  <1> USE DEF external, stored, ingestVars, readVars, Goto
  <1>0. CacheKeys = Variants \X Series \X Windows /\ i \in Ingests
    BY DEF CacheKeys
  <1>1. CASE Refuse(i)
    BY <1>1 DEF TypeOK, Refuse
  <1>2. CASE TakeLock(i)
    BY <1>2, LockTable DEF TypeOK, TakeLock
  <1>3. CASE TakeLockOnError(i)
    BY <1>3, LockTable DEF TypeOK, TakeLockOnError, Fault
  <1>4. CASE Skip(i)
    BY <1>4 DEF TypeOK, Skip
  <1>5. CASE FetchBars(i)
    BY <1>5, SeriesType DEF TypeOK, FetchBars
  <1>6. CASE FetchFails(i)
    BY <1>6 DEF TypeOK, FetchFails, Fault
  <1>7. CASE Upsert(i)
    BY <1>7, SeriesType DEF TypeOK, Upsert
  <1>8. CASE UpsertFails(i)
    <2>1. "fault" \in Causes
      BY DEF Causes
    <2>2. cause' \in [CacheKeys -> SUBSET Causes]
      BY <1>8, <2>1, ExcuseAdds DEF UpsertFails, TypeOK
    <2>3. QED
      BY <1>8, <2>2, SeriesType DEF TypeOK, UpsertFails, Fault
  <1>9. CASE ReleaseLock(i)
    BY <1>9, LockTable DEF TypeOK, ReleaseLock, AfterRelease
  <1>10. CASE ReleaseLockOnError(i)
    BY <1>10, LockTable DEF TypeOK, ReleaseLockOnError, AfterRelease, Fault
  <1>11. CASE BeginSweep(i)
    BY <1>11 DEF TypeOK, BeginSweep, EntriesOf
  <1>12. CASE SweepEntry(i)
    <2>1. PICK k \in EntriesOf(SeriesOf(i)) : Vanish(k)
      BY <1>12 DEF SweepEntry
    <2>2. QED
      BY <1>12, <2>1, VanishType DEF TypeOK, SweepEntry
  <1>13. CASE EndSweep(i)
    BY <1>13 DEF TypeOK, EndSweep
  <1>14. CASE SweepFails(i)
    <2>1. cause' \in [CacheKeys -> SUBSET Causes]
      BY <1>14, ExcuseAdds DEF SweepFails, Causes
    <2>2. QED
      BY <1>14, <2>1 DEF TypeOK, SweepFails, Fault
  <1>15. CASE CrashIngest(i)
    <2>1. cause' \in [CacheKeys -> SUBSET Causes]
      BY <1>15, ExcuseAdds DEF CrashIngest, Causes, TypeOK
    <2>2. QED
      BY <1>15, <2>1, LockTable DEF TypeOK, CrashIngest, Fault
  <1>16. QED
    BY <1>1, <1>2, <1>3, <1>4, <1>5, <1>6, <1>7, <1>8, <1>9, <1>10, <1>11, <1>12, <1>13,
       <1>14, <1>15 DEF IngestStep

\* What a read writes to the cache, and the history it keeps of it.
LEMMA StoreRowsType ==
    ASSUME TypeOK, NEW r \in Reads, StoreRows(r)
    PROVE  /\ cache' \in [CacheKeys -> Answers \cup {Nothing}]
           /\ cause' \in [CacheKeys -> SUBSET Causes]
  <1>1. rows[r] \in Answers \cup {Nothing} /\ {} \in SUBSET Causes /\ {"race"} \in SUBSET Causes
    BY DEF TypeOK, Causes
  <1>2. QED
    BY <1>1 DEF TypeOK, StoreRows

\* Type correctness, read step by read step.
LEMMA TypeRead ==
    ASSUME TypeOK, NEW r \in Reads, ReadStep(r)
    PROVE  TypeOK'
  <1> USE DEF external, stored, ingestVars, readVars
  <1>0. rreq[r] \in Requests /\ MakeKey(rreq[r]) \in CacheKeys
    BY MakeKeyType DEF TypeOK
  <1>1. CASE ReadHit(r)
    <2>1. rows' \in [Reads -> Answers \cup {Nothing}]
      BY <1>0, <1>1 DEF TypeOK, ReadHit
    <2>2. \A q \in Reads : rpc'[q] = "fill" => rows'[q] # Nothing
      BY <1>1 DEF TypeOK, ReadHit
    <2>3. QED
      BY <1>1, <2>1, <2>2 DEF TypeOK, ReadHit
  <1>2. CASE ReadMiss(r)
    BY <1>2 DEF TypeOK, ReadMiss
  <1>3. CASE ReadMissOnError(r)
    BY <1>3 DEF TypeOK, ReadMissOnError, Fault
  <1>4. CASE Query(r)
    <2>1. Fetch(rreq[r]) \in Answers /\ Fetch(rreq[r]) # Nothing
      BY <1>0, FetchAnswers, NothingAssumption
    <2>2. rows' \in [Reads -> Answers \cup {Nothing}]
      BY <1>4, <2>1 DEF TypeOK, Query
    <2>3. \A q \in Reads : rpc'[q] = "fill" => rows'[q] # Nothing
      BY <1>4, <2>1 DEF TypeOK, Query
    <2>4. QED
      BY <1>4, <2>2, <2>3 DEF TypeOK, Query
  <1>5. CASE QueryFails(r)
    BY <1>5 DEF TypeOK, QueryFails, Fault
  <1>6. CASE Fill(r)
    BY <1>6, StoreRowsType DEF TypeOK, Fill
  <1>7. CASE FillOnError(r)
    BY <1>7, StoreRowsType DEF TypeOK, FillOnError, Fault
  <1>8. QED
    BY <1>1, <1>2, <1>3, <1>4, <1>5, <1>6, <1>7 DEF ReadStep

\* Type correctness, the environment.
LEMMA TypeEnvironment ==
    ASSUME TypeOK, Environment
    PROVE  TypeOK'
  <1> USE DEF external, stored, ingestVars, readVars
  <1>1. ASSUME NEW s \in Series, VenueUpdate(s) PROVE TypeOK'
    BY <1>1 DEF TypeOK, VenueUpdate
  <1>2. ASSUME NEW s \in Series, RecordCorporateAction(s) PROVE TypeOK'
    <2>1. cause' \in [CacheKeys -> SUBSET Causes]
      BY <1>2, ExcuseAdds DEF RecordCorporateAction, Causes
    <2>2. QED
      BY <1>2, <2>1 DEF TypeOK, RecordCorporateAction
  <1>3. ASSUME NEW s \in Series, RewriteBars(s) PROVE TypeOK'
    <2>1. cause' \in [CacheKeys -> SUBSET Causes]
      BY <1>3, ExcuseAdds DEF RewriteBars, Causes
    <2>2. 0..MaxVersion \subseteq Nat
      BY IngestReadAssumption
    <2>3. QED
      BY <1>3, <2>1, <2>2 DEF TypeOK, RewriteBars
  <1>4. ASSUME NEW k \in LockKeys, ExpireLock(k) PROVE TypeOK'
    BY <1>4 DEF TypeOK, ExpireLock
  <1>5. ASSUME NEW k \in CacheKeys, ExpireEntry(k) PROVE TypeOK'
    BY <1>5, VanishType DEF TypeOK, ExpireEntry
  <1>6. QED
    BY <1>1, <1>2, <1>3, <1>4, <1>5 DEF Environment

\* The variables keep their values' types on every path of the code.
THEOREM TypeCorrect == Spec => []TypeOK
  <1>1. Init => TypeOK
    BY DEF Init, TypeOK, Causes
  <1>2. TypeOK /\ [Next]_vars => TypeOK'
    <2>1. TypeOK /\ UNCHANGED vars => TypeOK'
      BY DEF TypeOK, vars, external, stored, ingestVars, readVars
    <2>2. QED
      BY <2>1, TypeIngest, TypeRead, TypeEnvironment DEF Next
  <1>3. QED
    BY <1>1, <1>2, PTL DEF Spec

-----------------------------------------------------------------------------
\* Rows keep to their query: in the cache and in the hands of the reads.
LEMMA KeyedStep ==
    ASSUME TypeOK, ServedMatchesRequest, CacheKeyed, [Next]_vars
    PROVE  ServedMatchesRequest' /\ CacheKeyed'
  <1> USE DEF external, stored, ingestVars, readVars
  <1>1. ASSUME NEW i \in Ingests, IngestStep(i) PROVE ServedMatchesRequest' /\ CacheKeyed'
    <2>1. rows' = rows /\ rreq' = rreq
      BY <1>1 DEF IngestStep, Refuse, TakeLock, TakeLockOnError, Skip, FetchBars, FetchFails,
         Upsert, UpsertFails, ReleaseLock, ReleaseLockOnError, BeginSweep, SweepEntry,
         EndSweep, SweepFails, CrashIngest
    <2>2. \A k \in CacheKeys : cache'[k] \in {cache[k], Nothing}
      <3>1. CASE SweepEntry(i)
        BY <3>1 DEF SweepEntry, Vanish, TypeOK
      <3>2. CASE cache' = cache
        BY <3>2
      <3>3. QED
        BY <1>1, <3>1, <3>2 DEF IngestStep, Refuse, TakeLock, TakeLockOnError, Skip,
           FetchBars, FetchFails, Upsert, UpsertFails, ReleaseLock, ReleaseLockOnError,
           BeginSweep, EndSweep, SweepFails, CrashIngest
    <2>3. CacheKeyed'
      BY <2>2 DEF CacheKeyed, MakeKey
    <2>4. QED
      BY <2>1, <2>3 DEF ServedMatchesRequest
  <1>2. ASSUME NEW r \in Reads, ReadStep(r) PROVE ServedMatchesRequest' /\ CacheKeyed'
    <2>0. rreq[r] \in Requests /\ MakeKey(rreq[r]) \in CacheKeys
      BY MakeKeyType DEF TypeOK
    <2>1. CASE ReadHit(r)
      <3>1. cache[MakeKey(rreq[r])].query = rreq[r]
        <4> DEFINE hit == cache[MakeKey(rreq[r])]
        <4>1. hit \in Answers /\ MakeKey(hit.query) = MakeKey(rreq[r])
          BY <2>0, <2>1 DEF ReadHit, TypeOK, CacheKeyed
        <4>2. hit.query \in Requests
          BY <4>1 DEF Answers
        <4> HIDE DEF hit
        <4>3. hit.query = rreq[r]
          BY <2>0, <4>1, <4>2 DEF MakeKey, Requests
        <4>4. QED
          BY <4>3 DEF hit
      <3>2. QED
        BY <2>0, <2>1, <3>1 DEF ReadHit, TypeOK, ServedMatchesRequest, CacheKeyed, MakeKey
    <2>2. CASE ReadMiss(r) \/ ReadMissOnError(r) \/ QueryFails(r)
      BY <2>2 DEF ReadMiss, ReadMissOnError, QueryFails, ServedMatchesRequest, CacheKeyed, MakeKey
    <2>3. CASE Query(r)
      <3>1. Fetch(rreq[r]).query = rreq[r]
        BY <2>0, FetchAnswers
      <3>2. QED
        BY <2>3, <3>1 DEF Query, TypeOK, ServedMatchesRequest, CacheKeyed, MakeKey
    <2>4. CASE Fill(r) \/ FillOnError(r)
      <3>1. rows' = rows /\ rreq' = rreq
        BY <2>4 DEF Fill, FillOnError
      <3>2. StoreRows(r) \/ cache' = cache
        BY <2>4 DEF Fill, FillOnError
      <3>3. ASSUME NEW k \in CacheKeys, cache'[k] # Nothing
            PROVE  MakeKey(cache'[k].query) = k
        <4>1. CASE cache'[k] = cache[k]
          BY <3>3, <4>1 DEF CacheKeyed
        <4>2. CASE k = MakeKey(rreq[r]) /\ cache'[k] = rows[r]
          BY <3>3, <4>2 DEF ServedMatchesRequest
        <4>3. QED
          BY <2>0, <3>2, <4>1, <4>2 DEF StoreRows, TypeOK
      <3>4. QED
        BY <3>1, <3>3 DEF ServedMatchesRequest, CacheKeyed, MakeKey
    <2>5. QED
      BY <1>2, <2>1, <2>2, <2>3, <2>4 DEF ReadStep
  <1>3. ASSUME Environment PROVE ServedMatchesRequest' /\ CacheKeyed'
    <2>1. rows' = rows /\ rreq' = rreq
      BY <1>3 DEF Environment, VenueUpdate, RecordCorporateAction, RewriteBars, ExpireLock,
         ExpireEntry
    <2>2. \A k \in CacheKeys : cache'[k] \in {cache[k], Nothing}
      BY <1>3 DEF Environment, VenueUpdate, RecordCorporateAction, RewriteBars, ExpireLock,
         ExpireEntry, Vanish, TypeOK
    <2>3. QED
      BY <2>1, <2>2 DEF ServedMatchesRequest, CacheKeyed, MakeKey
  <1>4. CASE UNCHANGED vars
    BY <1>4 DEF vars, ServedMatchesRequest, CacheKeyed, MakeKey
  <1>5. QED
    BY <1>1, <1>2, <1>3, <1>4 DEF Next

\* Every read is served rows of its own query, whatever ran beside it.
THEOREM ServesWhatWasAsked == Spec => []ServedMatchesRequest
  <1>1. Init => ServedMatchesRequest /\ CacheKeyed
    BY DEF Init, ServedMatchesRequest, CacheKeyed
  <1>2. TypeOK /\ ServedMatchesRequest /\ CacheKeyed /\ [Next]_vars
          => (ServedMatchesRequest /\ CacheKeyed)'
    BY KeyedStep
  <1>3. QED
    BY <1>1, <1>2, TypeCorrect, PTL DEF Spec

-----------------------------------------------------------------------------
\* An ingest reaches its sweep only from a release after a write.
LEMMA SweepsStep ==
    ASSUME TypeOK, SweepsAfterWrite, [Next]_vars
    PROVE  SweepsAfterWrite'
  <1> USE DEF external, stored, ingestVars, readVars, Goto
  <1>1. ASSUME NEW i \in Ingests, IngestStep(i) PROVE SweepsAfterWrite'
    <2>1. \A j \in Ingests \ {i} : ipc'[j] = ipc[j] /\ iout'[j] = iout[j]
      BY <1>1 DEF TypeOK, IngestStep, Refuse, TakeLock, TakeLockOnError, Skip, FetchBars,
         FetchFails, Upsert, UpsertFails, ReleaseLock, ReleaseLockOnError, BeginSweep,
         SweepEntry, EndSweep, SweepFails, CrashIngest
    <2>2. ipc'[i] \in {"scan", "sweep"} => iout'[i] = "written"
      BY <1>1 DEF TypeOK, SweepsAfterWrite, AfterRelease, IngestStep, Refuse, TakeLock,
         TakeLockOnError, Skip, FetchBars, FetchFails, Upsert, UpsertFails, ReleaseLock,
         ReleaseLockOnError, BeginSweep, SweepEntry, EndSweep, SweepFails, CrashIngest
    <2>3. QED
      BY <2>1, <2>2 DEF SweepsAfterWrite
  <1>2. ASSUME NEW r \in Reads, ReadStep(r) PROVE SweepsAfterWrite'
    BY <1>2 DEF SweepsAfterWrite, ReadStep, ReadHit, ReadMiss, ReadMissOnError, Query,
       QueryFails, Fill, FillOnError
  <1>3. ASSUME Environment PROVE SweepsAfterWrite'
    BY <1>3 DEF SweepsAfterWrite, Environment, VenueUpdate, RecordCorporateAction,
       RewriteBars, ExpireLock, ExpireEntry
  <1>4. CASE UNCHANGED vars
    BY <1>4 DEF vars, SweepsAfterWrite
  <1>5. QED
    BY <1>1, <1>2, <1>3, <1>4 DEF Next

-----------------------------------------------------------------------------
\* A cached answer depends on the database rows of the series of its key only.
LEMMA AnswerOfSeries ==
    ASSUME TypeOK, CacheKeyed, NEW k \in CacheKeys, cache[k] # Nothing
    PROVE  /\ cache[k].query \in Requests
           /\ cache[k].query.series = k[2]
  <1>1. cache[k] \in Answers
    BY DEF TypeOK
  <1>2. QED
    BY <1>1, MakeKeyType DEF Answers, CacheKeyed

\* A step that leaves the rows of a key's series and its entry alone keeps the
\* entry's staleness.
LEMMA StaleKept ==
    ASSUME TypeOK, CacheKeyed, NEW k \in CacheKeys,
           cache'[k] = cache[k], db'[k[2]] = db[k[2]], actions'[k[2]] = actions[k[2]],
           Stale(k)'
    PROVE  Stale(k)
  <1>1. cache[k] # Nothing
    BY DEF Stale
  <1>2. Fetch(cache[k].query)' = Fetch(cache[k].query)
    BY <1>1, AnswerOfSeries DEF Fetch
  <1>3. QED
    BY <1>1, <1>2 DEF Stale

\* The same for every entry when the step changes nothing that is stored.
LEMMA StaleKeptBySilence ==
    ASSUME TypeOK, CacheKeyed, NEW k \in CacheKeys,
           cache' = cache, db' = db, actions' = actions, Stale(k)'
    PROVE  Stale(k)
  BY StaleKept

\* What an entry that goes leaves as it was: the other entries, their history, and
\* their place in the sweeps.
LEMMA VanishedIsGone ==
    ASSUME TypeOK, NEW n, Vanish(n), NEW k \in CacheKeys, cache'[k] # Nothing
    PROVE  /\ cache'[k] = cache[k] /\ cause'[k] = cause[k]
           /\ \A i \in Ingests : k \in todo[i] => k \in todo'[i]
  BY DEF TypeOK, Vanish

\* An ingest's step takes an entry out of another ingest's sweep only by deleting it.
LEMMA OwedByOthers ==
    ASSUME TypeOK, NEW i \in Ingests, IngestStep(i), NEW k \in CacheKeys, cache'[k] # Nothing,
           NEW j \in Ingests, j # i, OwedBy(j, k)
    PROVE  OwedBy(j, k)'
  <1> USE DEF external, stored, ingestVars, readVars, Goto
  <1>1. ipc'[j] = ipc[j] /\ iout'[j] = iout[j] /\ ireq' = ireq
    BY DEF TypeOK, IngestStep, Refuse, TakeLock, TakeLockOnError, Skip, FetchBars,
       FetchFails, Upsert, UpsertFails, ReleaseLock, ReleaseLockOnError, BeginSweep,
       SweepEntry, EndSweep, SweepFails, CrashIngest
  <1>2. k \in todo[j] => k \in todo'[j]
    <2>1. CASE SweepEntry(i)
      BY <2>1, VanishedIsGone DEF SweepEntry
    <2>2. CASE todo'[j] = todo[j]
      BY <2>2
    <2>3. QED
      BY <2>1, <2>2 DEF TypeOK, IngestStep, Refuse, TakeLock, TakeLockOnError, Skip, FetchBars,
         FetchFails, Upsert, UpsertFails, ReleaseLock, ReleaseLockOnError, BeginSweep,
         EndSweep, SweepFails, CrashIngest
  <1>3. QED
    BY <1>1, <1>2 DEF OwedBy, SeriesOf

\* Every step of an ingest keeps the staleness of every entry explained.
LEMMA ExplainedIngest ==
    ASSUME IInv, NEW i \in Ingests, IngestStep(i)
    PROVE  StaleIsExplained'
  <1> USE DEF external, stored, ingestVars, readVars, Goto
  <1> SUFFICES ASSUME NEW k \in CacheKeys, Stale(k)'
               PROVE  Owed(k)' \/ cause'[k] # {}
    BY DEF StaleIsExplained
  <1>0. TypeOK /\ CacheKeyed /\ SweepsAfterWrite /\ StaleIsExplained
    BY DEF IInv
  <1>1. ASSUME NEW j \in Ingests, j # i, OwedBy(j, k) PROVE Owed(k)'
    BY <1>0, <1>1, OwedByOthers DEF Owed, Stale
  \* Steps that leave the stores alone and are no part of a sweep of i.
  <1>2. CASE /\ cache' = cache /\ db' = db /\ actions' = actions
             /\ cause[k] \subseteq cause'[k]
             /\ OwedBy(i, k) => OwedBy(i, k)' \/ cause'[k] # {}
    BY <1>0, <1>1, <1>2, StaleKeptBySilence DEF StaleIsExplained, Owed
  <1>3. CASE \/ Refuse(i) \/ TakeLock(i) \/ TakeLockOnError(i) \/ Skip(i)
             \/ FetchBars(i) \/ FetchFails(i)
    <2>1. ~OwedBy(i, k)
      BY <1>3 DEF OwedBy, Refuse, TakeLock, TakeLockOnError, Skip, FetchBars, FetchFails
    <2>2. cache' = cache /\ db' = db /\ actions' = actions /\ cause' = cause
      BY <1>3 DEF Refuse, TakeLock, TakeLockOnError, Skip, FetchBars, FetchFails
    <2>3. QED
      BY <1>2, <2>1, <2>2
  <1>4. CASE Upsert(i)
    <2>1. CASE k[2] = SeriesOf(i)
      <3>1. OwedBy(i, k)'
        BY <1>0, <1>4, <2>1 DEF Upsert, OwedBy, TypeOK, SeriesOf
      <3>2. QED
        BY <3>1 DEF Owed
    <2>2. CASE k[2] # SeriesOf(i)
      <3>1. db'[k[2]] = db[k[2]] /\ cache' = cache /\ actions' = actions /\ cause' = cause
        BY <1>0, <1>4, <2>2, SeriesType DEF Upsert, TypeOK, CacheKeys
      <3>2. Stale(k)
        BY <1>0, <3>1, StaleKept
      <3>3. QED
        BY <1>0, <1>1, <2>2, <3>1, <3>2 DEF StaleIsExplained, Owed, OwedBy
    <2>3. QED
      BY <2>1, <2>2
  <1>5. CASE UpsertFails(i)
    <2>1. ~OwedBy(i, k) /\ cache' = cache /\ actions' = actions
      BY <1>5 DEF OwedBy, UpsertFails
    <2>2. CASE UNCHANGED <<db, cause>>
      BY <1>2, <2>1, <2>2
    <2>3. CASE /\ db' = [db EXCEPT ![SeriesOf(i)] = ibars[i]]
               /\ Excuse(Present(SeriesOf(i)), "fault")
      <3>1. /\ cause[k] \subseteq cause'[k]
            /\ k \in Present(SeriesOf(i)) => cause'[k] # {}
        BY <1>0, <2>3, ExcuseAdds DEF Causes
      <3>2. CASE k[2] = SeriesOf(i)
        BY <2>1, <3>1, <3>2 DEF Stale, Present
      <3>3. CASE k[2] # SeriesOf(i)
        <4>1. db'[k[2]] = db[k[2]]
          BY <1>0, <2>3, <3>3, SeriesType DEF TypeOK, CacheKeys
        <4>2. Stale(k)
          BY <1>0, <2>1, <4>1, StaleKept
        <4>3. QED
          BY <1>0, <1>1, <2>1, <3>1, <4>2 DEF StaleIsExplained, Owed
      <3>4. QED
        BY <3>2, <3>3
    <2>4. QED
      BY <1>5, <2>2, <2>3 DEF UpsertFails
  <1>6. CASE ReleaseLock(i) \/ ReleaseLockOnError(i)
    <2>1. OwedBy(i, k) => OwedBy(i, k)'
      BY <1>0, <1>6 DEF OwedBy, ReleaseLock, ReleaseLockOnError, AfterRelease, TypeOK, SeriesOf
    <2>2. cache' = cache /\ db' = db /\ actions' = actions /\ cause' = cause
      BY <1>6 DEF ReleaseLock, ReleaseLockOnError
    <2>3. QED
      BY <1>2, <2>1, <2>2
  <1>7. CASE BeginSweep(i)
    <2>1. cache' = cache /\ db' = db /\ actions' = actions /\ cause' = cause
      BY <1>7 DEF BeginSweep
    <2>2. cache[k] # Nothing
      BY <2>1 DEF Stale
    <2>3. OwedBy(i, k) => OwedBy(i, k)'
      BY <1>0, <1>7, <2>2 DEF OwedBy, BeginSweep, EntriesOf, Matches, TypeOK, SeriesOf
    <2>4. QED
      BY <1>2, <2>1, <2>3
  <1>8. CASE SweepEntry(i)
    <2>1. PICK n \in EntriesOf(SeriesOf(i)) : Vanish(n)
      BY <1>8 DEF SweepEntry
    <2>2. /\ cache'[k] = cache[k] /\ cause'[k] = cause[k]
          /\ k \in todo[i] => k \in todo'[i]
      BY <1>0, <2>1, VanishedIsGone DEF Stale
    <2>3. db' = db /\ actions' = actions
      BY <1>8 DEF SweepEntry
    <2>4. OwedBy(i, k) => OwedBy(i, k)'
      BY <1>8, <2>2 DEF OwedBy, SweepEntry, SeriesOf
    <2>5. Stale(k)
      BY <1>0, <2>2, <2>3, StaleKept
    <2>6. QED
      BY <1>0, <1>1, <2>2, <2>4, <2>5 DEF StaleIsExplained, Owed
  <1>9. CASE EndSweep(i)
    <2>1. ~OwedBy(i, k)
      BY <1>9 DEF OwedBy, EndSweep
    <2>2. QED
      BY <1>2, <1>9, <2>1 DEF EndSweep
  <1>10. CASE SweepFails(i) \/ (CrashIngest(i) /\ iout[i] = "written")
    <2>1. Excuse(Present(SeriesOf(i)), "fault")
      BY <1>10 DEF SweepFails, CrashIngest
    <2>2. cache' = cache /\ db' = db /\ actions' = actions
      BY <1>10 DEF SweepFails, CrashIngest
    <2>3. /\ cause[k] \subseteq cause'[k]
          /\ k \in Present(SeriesOf(i)) => cause'[k] # {}
      BY <1>0, <2>1, ExcuseAdds DEF Causes
    <2>4. OwedBy(i, k) => cause'[k] # {}
      BY <2>2, <2>3 DEF OwedBy, Stale, Present
    <2>5. QED
      BY <1>2, <2>2, <2>3, <2>4
  <1>11. CASE CrashIngest(i) /\ iout[i] # "written"
    <2>1. ~OwedBy(i, k)
      BY <1>0, <1>11 DEF OwedBy, SweepsAfterWrite
    <2>2. QED
      BY <1>2, <1>11, <2>1 DEF CrashIngest
  <1>12. QED
    BY <1>3, <1>4, <1>5, <1>6, <1>7, <1>8, <1>9, <1>10, <1>11 DEF IngestStep

\* Reads do not touch sweeps.
LEMMA OwedKept ==
    ASSUME NEW k \in CacheKeys, Owed(k), UNCHANGED <<ipc, iout, todo, ireq>>
    PROVE  Owed(k)'
  BY DEF Owed, OwedBy, SeriesOf

\* Every step of a read keeps the staleness of every entry explained.
LEMMA ExplainedRead ==
    ASSUME IInv, NEW r \in Reads, ReadStep(r)
    PROVE  StaleIsExplained'
  <1> USE DEF external, stored, ingestVars, readVars
  <1> SUFFICES ASSUME NEW k \in CacheKeys, Stale(k)'
               PROVE  Owed(k)' \/ cause'[k] # {}
    BY DEF StaleIsExplained
  <1>0. TypeOK /\ CacheKeyed /\ StaleIsExplained /\ ServedMatchesRequest
    BY DEF IInv
  <1>1. UNCHANGED <<ipc, iout, todo, ireq, db, actions>>
    BY DEF ReadStep, ReadHit, ReadMiss, ReadMissOnError, Query, QueryFails, Fill, FillOnError
  <1>2. Owed(k) => Owed(k)'
    BY <1>1, OwedKept
  <1>3. CASE UNCHANGED <<cache, cause>>
    BY <1>0, <1>1, <1>2, <1>3, StaleKeptBySilence DEF StaleIsExplained
  <1>4. CASE StoreRows(r) /\ rows' = rows
    <2>0. MakeKey(rreq[r]) \in CacheKeys
      BY <1>0, MakeKeyType DEF TypeOK
    <2>1. CASE k = MakeKey(rreq[r])
      <3>1. cache'[k] = rows[r] /\ rows[r] # Nothing
        BY <1>0, <1>4, <2>0, <2>1 DEF StoreRows, TypeOK, Stale
      <3>2. rows[r] # Fetch(rows[r].query)
        BY <1>1, <1>4, <3>1 DEF Stale, Fetch
      <3>3. Owed(k) \/ cause'[k] = {"race"}
        BY <1>0, <1>4, <2>0, <2>1, <3>2 DEF StoreRows, TypeOK
      <3>4. QED
        BY <1>2, <3>3
    <2>2. CASE k # MakeKey(rreq[r])
      <3>1. cache'[k] = cache[k] /\ cause'[k] = cause[k]
        BY <1>0, <1>4, <2>0, <2>2 DEF StoreRows, TypeOK
      <3>2. Stale(k)
        BY <1>0, <1>1, <3>1, StaleKept
      <3>3. QED
        BY <1>0, <1>2, <3>1, <3>2 DEF StaleIsExplained
    <2>3. QED
      BY <2>1, <2>2
  <1>5. QED
    BY <1>3, <1>4 DEF ReadStep, ReadHit, ReadMiss, ReadMissOnError, Query, QueryFails, Fill,
       FillOnError

\* A write that invalidates nothing excuses the entries of its series.
LEMMA ExplainedSilentWrite ==
    ASSUME IInv, NEW s \in Series, RecordCorporateAction(s) \/ RewriteBars(s)
    PROVE  StaleIsExplained'
  <1> USE DEF external, stored, ingestVars, readVars
  <1> SUFFICES ASSUME NEW k \in CacheKeys, Stale(k)'
               PROVE  Owed(k)' \/ cause'[k] # {}
    BY DEF StaleIsExplained
  <1>0. TypeOK /\ CacheKeyed /\ StaleIsExplained
    BY DEF IInv
  <1>1. /\ UNCHANGED <<ipc, iout, todo, ireq, cache>>
        /\ Excuse(Present(s), "silent")
    BY DEF RecordCorporateAction, RewriteBars
  <1>2. /\ cause[k] \subseteq cause'[k]
        /\ k \in Present(s) => cause'[k] # {}
    BY <1>0, <1>1, ExcuseAdds DEF Causes
  <1>3. CASE k[2] = s
    BY <1>1, <1>2, <1>3 DEF Stale, Present
  <1>4. CASE k[2] # s
    <2>1. db'[k[2]] = db[k[2]] /\ actions'[k[2]] = actions[k[2]]
      BY <1>0, <1>4 DEF RecordCorporateAction, RewriteBars, TypeOK, CacheKeys
    <2>2. Stale(k)
      BY <1>0, <1>1, <2>1, StaleKept
    <2>3. Owed(k) => Owed(k)'
      BY <1>1, OwedKept
    <2>4. QED
      BY <1>0, <1>2, <2>2, <2>3 DEF StaleIsExplained
  <1>5. QED
    BY <1>3, <1>4

\* The rest of the environment changes no row, and deletes entries at most.
LEMMA ExplainedEnvironment ==
    ASSUME IInv, Environment
    PROVE  StaleIsExplained'
  <1> USE DEF external, stored, ingestVars, readVars
  <1>0. TypeOK /\ CacheKeyed /\ StaleIsExplained
    BY DEF IInv
  <1>1. ASSUME NEW s \in Series, VenueUpdate(s) \/ (\E k \in LockKeys : ExpireLock(k))
        PROVE  StaleIsExplained'
    <2>1. UNCHANGED <<ipc, iout, todo, ireq, cache, cause, db, actions>>
      BY <1>1 DEF VenueUpdate, ExpireLock
    <2>2. QED
      BY <1>0, <2>1, StaleKeptBySilence, OwedKept DEF StaleIsExplained
  <1>2. ASSUME NEW n \in CacheKeys, ExpireEntry(n) PROVE StaleIsExplained'
    <2> SUFFICES ASSUME NEW k \in CacheKeys, Stale(k)'
                 PROVE  Owed(k)' \/ cause'[k] # {}
      BY DEF StaleIsExplained
    <2>1. UNCHANGED <<ipc, iout, ireq, db, actions>> /\ Vanish(n)
      BY <1>2 DEF ExpireEntry
    <2>2. /\ cache'[k] = cache[k] /\ cause'[k] = cause[k]
          /\ \A i \in Ingests : k \in todo[i] => k \in todo'[i]
      BY <1>0, <2>1, VanishedIsGone DEF Stale
    <2>3. Owed(k) => Owed(k)'
      BY <2>1, <2>2 DEF Owed, OwedBy, SeriesOf
    <2>4. QED
      BY <1>0, <2>1, <2>2, <2>3, StaleKept DEF StaleIsExplained
  <1>3. ASSUME NEW n \in LockKeys, ExpireLock(n) PROVE StaleIsExplained'
    <2>1. UNCHANGED <<ipc, iout, todo, ireq, cache, cause, db, actions>>
      BY <1>3 DEF ExpireLock
    <2>2. QED
      BY <1>0, <2>1, StaleKeptBySilence, OwedKept DEF StaleIsExplained
  <1>4. QED
    BY <1>1, <1>2, <1>3, ExplainedSilentWrite DEF Environment

\* The inductive invariant: a stale entry is stale with a sweep to come, or by
\* one of the three causes.
LEMMA Inductive == Spec => []IInv
  <1>1. Init => IInv
    <2>1. Init => TypeOK
      BY DEF Init, TypeOK, Causes
    <2>2. Init => ServedMatchesRequest /\ CacheKeyed /\ SweepsAfterWrite /\ StaleIsExplained
      BY DEF Init, ServedMatchesRequest, CacheKeyed, SweepsAfterWrite, StaleIsExplained, Stale
    <2>3. QED
      BY <2>1, <2>2 DEF IInv
  <1>2. IInv /\ TypeOK' /\ [Next]_vars => IInv'
    <2> SUFFICES ASSUME IInv, TypeOK', [Next]_vars PROVE IInv'
      OBVIOUS
    <2>1. ServedMatchesRequest' /\ CacheKeyed' /\ SweepsAfterWrite'
      BY KeyedStep, SweepsStep DEF IInv
    <2>2. StaleIsExplained'
      <3>1. CASE UNCHANGED vars
        BY <3>1, StaleKeptBySilence, OwedKept
           DEF vars, IInv, StaleIsExplained, external, stored, ingestVars
      <3>2. QED
        BY <3>1, ExplainedIngest, ExplainedRead, ExplainedEnvironment DEF Next
    <2>3. QED
      BY <2>1, <2>2 DEF IInv
  <1>3. QED
    BY <1>1, <1>2, TypeCorrect, PTL DEF Spec

\* A cached answer that differs from the database is about to be swept, or was
\* made so by a late fill, a fault, or a writer that sweeps nothing.
THEOREM CoherentOrExplained == Spec => []StaleIsExplained
  BY Inductive, PTL DEF IInv
=============================================================================

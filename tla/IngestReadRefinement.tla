------------------------ MODULE IngestReadRefinement ------------------------
(***************************************************************************)
(* The ingests of IngestRead use their lock as SingleFlight specifies, for *)
(* any number of series, ranges, ingests and reads: every step is a step   *)
(* of SingleFlight on the lock keys, or leaves its variables unchanged.    *)
(* What SingleFlightProofs proves of the lock thus holds of the ingests.   *)
(***************************************************************************)
EXTENDS IngestReadProofs

\* How far an ingest is, what it was told, and whether it still has its lease.
BlockInv == \A i \in Ingests :
    /\ ipc[i] \in {"fetch", "upsert", "release"} => iacq[i]
    /\ ipc[i] = "skip" => ~iacq[i]
    /\ ipc[i] \notin {"new", "done"} => i \in MayIngest
    /\ iout[i] = "refused" => ipc[i] = "done" /\ i \notin MayIngest
    /\ i \in leased => ipc[i] \in {"fetch", "upsert", "release"}

\* The invariant of an ingest is its own affair.
LEMMA BlockStep ==
    ASSUME TypeOK, BlockInv, [Next]_vars
    PROVE  BlockInv'
  <1> USE DEF external, stored, ingestVars, readVars, Goto
  <1>1. ASSUME NEW i \in Ingests, IngestStep(i) PROVE BlockInv'
    <2>1. ASSUME NEW j \in Ingests, j # i
          PROVE  /\ ipc'[j] = ipc[j] /\ iout'[j] = iout[j] /\ iacq'[j] = iacq[j]
                 /\ j \in leased' => j \in leased
      BY <1>1, <2>1 DEF TypeOK, IngestStep, Refuse, TakeLock, TakeLockOnError, Skip,
         FetchBars, FetchFails, Upsert, UpsertFails, ReleaseLock, ReleaseLockOnError,
         BeginSweep, SweepEntry, EndSweep, SweepFails, CrashIngest
    <2>2. /\ ipc'[i] \in {"fetch", "upsert", "release"} => iacq'[i]
          /\ ipc'[i] = "skip" => ~iacq'[i]
          /\ ipc'[i] \notin {"new", "done"} => i \in MayIngest
          /\ iout'[i] = "refused" => ipc'[i] = "done" /\ i \notin MayIngest
          /\ i \in leased' => ipc'[i] \in {"fetch", "upsert", "release"}
      <3>1. CASE Refuse(i)
        BY <3>1 DEF TypeOK, BlockInv, Refuse
      <3>2. CASE TakeLock(i) \/ TakeLockOnError(i) \/ Skip(i)
        BY <3>2 DEF TypeOK, BlockInv, TakeLock, TakeLockOnError, Skip
      <3>3. CASE FetchBars(i) \/ FetchFails(i) \/ Upsert(i) \/ UpsertFails(i)
        BY <3>3 DEF TypeOK, BlockInv, FetchBars, FetchFails, Upsert, UpsertFails
      <3>4. CASE ReleaseLock(i) \/ ReleaseLockOnError(i) \/ CrashIngest(i)
        BY <3>4 DEF TypeOK, BlockInv, ReleaseLock, ReleaseLockOnError, CrashIngest, AfterRelease
      <3>5. CASE BeginSweep(i) \/ SweepEntry(i) \/ EndSweep(i) \/ SweepFails(i)
        BY <3>5 DEF TypeOK, BlockInv, BeginSweep, SweepEntry, EndSweep, SweepFails
      <3>6. QED
        BY <1>1, <3>1, <3>2, <3>3, <3>4, <3>5 DEF IngestStep
    <2>3. QED
      BY <2>1, <2>2 DEF BlockInv
  <1>2. ASSUME NEW r \in Reads, ReadStep(r) PROVE BlockInv'
    BY <1>2 DEF BlockInv, ReadStep, ReadHit, ReadMiss, ReadMissOnError, Query, QueryFails,
       Fill, FillOnError
  <1>3. ASSUME Environment PROVE BlockInv'
    BY <1>3 DEF BlockInv, Environment, VenueUpdate, RecordCorporateAction, RewriteBars,
       ExpireLock, ExpireEntry
  <1>4. CASE UNCHANGED vars
    BY <1>4 DEF vars, BlockInv
  <1>5. QED
    BY <1>1, <1>2, <1>3, <1>4 DEF Next

-----------------------------------------------------------------------------
\* The position SingleFlight sees moves with the step of its own ingest only.
LEMMA BlockMoves ==
    ASSUME TypeOK, NEW i \in Ingests, IngestStep(i)
    PROVE  [j \in Ingests |-> BlockOf(j)]' =
             [[j \in Ingests |-> BlockOf(j)] EXCEPT ![i] = BlockOf(i)']
  <1> USE DEF external, stored, ingestVars, readVars, Goto
  <1>1. ASSUME NEW j \in Ingests, j # i PROVE BlockOf(j)' = BlockOf(j)
    <2>1. ipc'[j] = ipc[j] /\ iout'[j] = iout[j]
      BY <1>1 DEF TypeOK, IngestStep, Refuse, TakeLock, TakeLockOnError, Skip, FetchBars,
         FetchFails, Upsert, UpsertFails, ReleaseLock, ReleaseLockOnError, BeginSweep,
         SweepEntry, EndSweep, SweepFails, CrashIngest
    <2>2. QED
      BY <2>1 DEF BlockOf
  <1>2. QED
    BY <1>1

\* An ingest's step is a step of its call, or none.
LEMMA IngestSimulates ==
    ASSUME TypeOK, BlockInv, NEW i \in Ingests, IngestStep(i)
    PROVE  SF!CallStep(i) \/ UNCHANGED SF!vars
  <1> USE DEF external, stored, ingestVars, readVars, Goto
  <1> DEFINE block == [j \in Ingests |-> BlockOf(j)]
  <1>0. block' = [block EXCEPT ![i] = BlockOf(i)'] /\ block[i] = BlockOf(i)
    BY BlockMoves
  <1>a. block \in [Ingests -> {"new", "body", "done"}]
    BY DEF BlockOf
  <1>b. BlockOf(i)' = BlockOf(i) => block' = block
    BY <1>0, <1>a
  <1> HIDE DEF block
  <1>1. CASE Refuse(i)
    <2>1. BlockOf(i) = "new" /\ BlockOf(i)' = "new"
      BY <1>1 DEF Refuse, BlockOf, TypeOK
    <2>2. QED
      BY <1>1, <1>b, <2>1 DEF Refuse, SF!vars, block
  <1>2. CASE TakeLock(i)
    <2>1. BlockOf(i) = "new" /\ BlockOf(i)' = "body" /\ i \in MayIngest
      BY <1>2 DEF TakeLock, BlockOf, TypeOK, BlockInv
    <2>2. SF!Enter(i)
      BY <1>0, <1>2, <2>1 DEF TakeLock, SF!Enter, SetNx, SF!SetNx, block
    <2>3. QED
      BY <2>2 DEF SF!CallStep
  <1>3. CASE TakeLockOnError(i)
    <2>1. BlockOf(i) = "new" /\ BlockOf(i)' = "body" /\ i \in MayIngest
      BY <1>3 DEF TakeLockOnError, BlockOf, TypeOK, BlockInv
    <2>2. SF!EnterOnError(i)
      BY <1>0, <1>3, <2>1 DEF TakeLockOnError, SF!EnterOnError, SetNx, SF!SetNx, block
    <2>3. QED
      BY <2>2 DEF SF!CallStep
  <1>4. CASE Skip(i)
    <2>1. BlockOf(i) = "body" /\ BlockOf(i)' = "done" /\ ~iacq[i]
      BY <1>4 DEF Skip, BlockOf, TypeOK, BlockInv
    <2>2. SF!LeaveWithoutRelease(i)
      BY <1>0, <1>4, <2>1 DEF Skip, SF!LeaveWithoutRelease, block
    <2>3. QED
      BY <2>2 DEF SF!CallStep
  <1>5. CASE FetchBars(i) \/ FetchFails(i) \/ Upsert(i) \/ UpsertFails(i)
    <2>1. BlockOf(i) = "body" /\ BlockOf(i)' = "body"
      BY <1>5 DEF FetchBars, FetchFails, Upsert, UpsertFails, BlockOf, TypeOK, BlockInv
    <2>2. UNCHANGED <<lock, ireq, iacq, leased>>
      BY <1>5 DEF FetchBars, FetchFails, Upsert, UpsertFails
    <2>3. QED
      BY <1>b, <2>1, <2>2 DEF SF!vars, block
  <1>6. CASE ReleaseLock(i)
    <2>1. BlockOf(i) = "body" /\ BlockOf(i)' = "done" /\ iacq[i] /\ i \in MayIngest
      BY <1>6 DEF ReleaseLock, AfterRelease, BlockOf, TypeOK, BlockInv
    <2>2. SF!Release(i)
      BY <1>0, <1>6, <2>1
         DEF ReleaseLock, SF!Release, CompareAndDelete, SF!CompareAndDelete, block
    <2>3. QED
      BY <2>2 DEF SF!CallStep
  <1>7. CASE ReleaseLockOnError(i)
    <2>1. BlockOf(i) = "body" /\ BlockOf(i)' = "done" /\ iacq[i] /\ i \in MayIngest
      BY <1>7 DEF ReleaseLockOnError, AfterRelease, BlockOf, TypeOK, BlockInv
    <2>2. SF!ReleaseOnError(i)
      BY <1>0, <1>7, <2>1
         DEF ReleaseLockOnError, SF!ReleaseOnError, CompareAndDelete, SF!CompareAndDelete, block
    <2>3. QED
      BY <2>2 DEF SF!CallStep
  <1>8. CASE BeginSweep(i) \/ SweepEntry(i) \/ EndSweep(i) \/ SweepFails(i)
    <2>1. BlockOf(i) = "done" /\ BlockOf(i)' = "done"
      BY <1>8 DEF BeginSweep, SweepEntry, EndSweep, SweepFails, BlockOf, TypeOK, BlockInv
    <2>2. UNCHANGED <<lock, ireq, iacq, leased>>
      BY <1>8 DEF BeginSweep, SweepEntry, EndSweep, SweepFails
    <2>3. QED
      BY <1>b, <2>1, <2>2 DEF SF!vars, block
  <1>9. CASE CrashIngest(i)
    <2>1. BlockOf(i)' = "done"
      BY <1>9 DEF CrashIngest, BlockOf, TypeOK, BlockInv
    <2>2. CASE ipc[i] \in {"scan", "sweep"}
      <3>1. BlockOf(i) = "done" /\ leased' = leased
        BY <1>9, <2>2 DEF CrashIngest, BlockOf, TypeOK, BlockInv
      <3>2. UNCHANGED <<lock, ireq, iacq, leased>>
        BY <1>9, <2>2, <3>1 DEF CrashIngest
      <3>3. QED
        BY <1>b, <2>1, <3>1, <3>2 DEF SF!vars, block
    <2>3. CASE ipc[i] \notin {"scan", "sweep"}
      <3>1. /\ ipc[i] = "new" => BlockOf(i) = "new"
            /\ ipc[i] # "new" => BlockOf(i) = "body"
            /\ i \in MayIngest
        BY <1>9, <2>3 DEF CrashIngest, BlockOf, TypeOK, BlockInv
      <3>2. SF!Abandon(i)
        BY <1>0, <1>9, <2>1, <3>1 DEF CrashIngest, SF!Abandon, SetNx, SF!SetNx, block
      <3>3. QED
        BY <3>2 DEF SF!CallStep
    <2>4. QED
      BY <2>2, <2>3
  <1>10. QED
    BY <1>1, <1>2, <1>3, <1>4, <1>5, <1>6, <1>7, <1>8, <1>9 DEF IngestStep

\* A step that is not an ingest's is the expiry of a lock, or none of the lock's.
LEMMA OthersSimulate ==
    ASSUME TypeOK,
           (\E r \in Reads : ReadStep(r)) \/ Environment \/ UNCHANGED vars
    PROVE  (\E k \in LockKeys : SF!Expire(k)) \/ UNCHANGED SF!vars
  <1> USE DEF external, stored, ingestVars, readVars
  <1>1. ASSUME UNCHANGED <<ipc, iout, ireq, iacq>>
        PROVE  UNCHANGED <<ireq, iacq, [i \in Ingests |-> BlockOf(i)]>>
    BY <1>1 DEF BlockOf
  <1>2. ASSUME NEW r \in Reads, ReadStep(r) PROVE UNCHANGED SF!vars
    BY <1>1, <1>2 DEF ReadStep, ReadHit, ReadMiss, ReadMissOnError, Query, QueryFails, Fill,
       FillOnError, SF!vars
  <1>3. ASSUME NEW s \in Series, VenueUpdate(s) \/ RecordCorporateAction(s) \/ RewriteBars(s)
        PROVE  UNCHANGED SF!vars
    BY <1>1, <1>3 DEF VenueUpdate, RecordCorporateAction, RewriteBars, SF!vars
  <1>4. ASSUME NEW k \in CacheKeys, ExpireEntry(k) PROVE UNCHANGED SF!vars
    BY <1>1, <1>4 DEF ExpireEntry, SF!vars
  <1>5. ASSUME NEW k \in LockKeys, ExpireLock(k) PROVE SF!Expire(k)
    BY <1>1, <1>5 DEF ExpireLock, SF!Expire
  <1>6. CASE UNCHANGED vars
    BY <1>1, <1>6 DEF vars, SF!vars
  <1>7. QED
    BY <1>2, <1>3, <1>4, <1>5, <1>6 DEF Environment

\* Ingests follow the protocol of single_flight on every path, whatever fails.
THEOREM IngestsUseSingleFlight == Spec => UsesSingleFlight
  <1>1. Init => BlockInv /\ SF!Init
    <2>1. Init => BlockInv
      BY DEF Init, BlockInv
    <2>2. Init => SF!Init
      BY DEF Init, SF!Init, BlockOf
    <2>3. QED
      BY <2>1, <2>2
  <1>2. TypeOK /\ BlockInv /\ [Next]_vars => BlockInv'
    BY BlockStep
  <1>3. TypeOK /\ BlockInv /\ [Next]_vars => [SF!Next]_(SF!vars)
    BY IngestSimulates, OthersSimulate DEF Next, SF!Next
  <1>4. QED
    BY <1>1, <1>2, <1>3, TypeCorrect, PTL DEF Spec, UsesSingleFlight, SF!Spec

-----------------------------------------------------------------------------
\* What is proved of the lock, for the ingests.
SFP == INSTANCE SingleFlightProofs WITH
    Keys <- LockKeys, Calls <- Ingests, Connected <- MayIngest,
    key <- ireq, acquired <- iacq, pc <- [i \in Ingests |-> BlockOf(i)]

\* The same module, with the same substitution.
LEMMA SameLock ==
    /\ SF!Init <=> SFP!Init
    /\ [SF!Next]_(SF!vars) <=> [SFP!Next]_(SFP!vars)
    /\ SF!LeaseHeld <=> SFP!LeaseHeld
    /\ SF!ExclusiveLease <=> SFP!ExclusiveLease
  BY DEF SF!Init, SFP!Init, SF!Next, SFP!Next, SF!vars, SFP!vars, SF!CallStep, SFP!CallStep,
         SF!EnterWithoutClient, SFP!EnterWithoutClient, SF!Enter, SFP!Enter, SF!EnterOnError,
         SFP!EnterOnError, SF!LeaveWithoutRelease, SFP!LeaveWithoutRelease, SF!Release, SFP!Release,
         SF!ReleaseOnError, SFP!ReleaseOnError, SF!Abandon, SFP!Abandon, SF!Expire, SFP!Expire,
         SF!SetNx, SFP!SetNx, SF!CompareAndDelete, SFP!CompareAndDelete, SF!LeaseHeld, SFP!LeaseHeld,
         SF!ExclusiveLease, SFP!ExclusiveLease

\* Two ingests of a range that both go on to fetch overlap only after a Redis error or
\* when the lock of one ran out, and a live lock is in Redis until its ingest leaves.
THEOREM IngestsAreExclusive == Spec => [](SF!LeaseHeld /\ SF!ExclusiveLease)
  <1>1. MayIngest \subseteq Ingests /\ NoToken \notin Ingests
    BY IngestReadAssumption
  <1>2. SFP!Spec => []SFP!LeaseHeld
    BY <1>1, SFP!LeaseIsHeld
  <1>3. SFP!Spec => []SFP!ExclusiveLease
    BY <1>1, SFP!LeaseIsExclusive
  <1>4. SF!Spec => SFP!Spec
    BY SameLock, PTL DEF SF!Spec, SFP!Spec
  <1>5. Spec => SF!Spec
    BY IngestsUseSingleFlight DEF UsesSingleFlight
  <1> QED BY <1>2, <1>3, <1>4, <1>5, SameLock, PTL
=============================================================================

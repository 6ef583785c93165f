-------------------------- MODULE DailyIngestProofs --------------------------
(***************************************************************************)
(* Proofs about DailyIngest, for any symbols and lists, any concurrency,   *)
(* any number of retries and any interval.                                 *)
(***************************************************************************)
EXTENDS DailyIngest, FiniteSetTheorems, TLAPS

\* The failed tries of a task are those before its current one, and, once that one
\* has failed too, it; a task backs off only while it has a retry left.
Counted ==
    \A t \in DOMAIN resolved :
        /\ pc[t] \in {"backoff", "failed"} => failures[t] = attempt[t] + 1
        /\ pc[t] \notin {"backoff", "failed"} => failures[t] = attempt[t]
        /\ pc[t] = "backoff" => attempt[t] < Retries

\* The pacer's clock is not behind the last start it allowed.
Spaced == sinceGrant + nextIn >= MinInterval

\* The inductive invariant.
IInv == TypeOK /\ Counted

\* The positions of a task.
Labels == {"queued", "pacing", "locking", "fetching", "sweeping", "backoff", "ok", "failed"}

\* The list of a run, and what is indexed by it, before there is one.
LEMMA EmptyRun ==
    /\ DOMAIN <<>> = {}
    /\ \A S : <<>> \in [DOMAIN <<>> -> S]
    /\ \A S : <<>> \in Seq(S)
  OBVIOUS

\* A sequence of no elements is one of any elements.
LEMMA EmptySeq ==
    ASSUME NEW q \in Seq({}), NEW S
    PROVE  q \in Seq(S)
  OBVIOUS

\* Positions are numbers.
LEMMA Positions ==
    ASSUME TypeOK
    PROVE  resolved \in Seq(Symbols) /\ DOMAIN resolved = 1..Len(resolved) /\ DOMAIN pc = DOMAIN resolved
  BY DailyAssumption DEF TypeOK

\* A back-off grows with the attempt.
LEMMA Longer ==
    ASSUME NEW b \in Nat, NEW x \in Nat, NEW y \in Nat, x <= y
    PROVE  b * x <= b * y /\ b * x \in Nat
  OBVIOUS

-----------------------------------------------------------------------------
\* The values of the variables, before and after the tasks.
LEMMA TypePhase ==
    ASSUME TypeOK, Raise \/ Resolve \/ Summarise \/ Crash \/ Rerun
    PROVE  TypeOK'
  <1> USE DEF taskVars, pacing, Labels
  <1>1. CASE Raise \/ Crash
    BY <1>1 DEF TypeOK, Raise, Crash
  <1>2. CASE Resolve
    <2>1. pacerQueue \in Seq({})
      BY <1>2, EmptyRun DEF TypeOK, Resolve
    <2>2. PICK list \in Lists :
            /\ resolved' = list
            /\ pc' = [t \in DOMAIN list |-> "queued"]
            /\ attempt' = [t \in DOMAIN list |-> 0]
            /\ sleep' = [t \in DOMAIN list |-> 0]
            /\ failures' = [t \in DOMAIN list |-> 0]
            /\ phase' = IF list = <<>> THEN "done" ELSE "running"
      BY <1>2 DEF Resolve
    <2>3. 0 \in 0..Retries /\ 0 \in 0..(Backoff * Retries) /\ 0 \in 0..(Retries + 1)
      BY DailyAssumption, Longer
    <2>4. report = NoReport
      BY <1>2 DEF TypeOK, Resolve
    <2>5. pacerQueue \in Seq(DOMAIN resolved')
      BY <2>1, EmptySeq
    <2>6. QED
      BY <1>2, <2>2, <2>3, <2>4, <2>5, EmptyRun DEF TypeOK, Resolve, NoReport
  <1>3. CASE Summarise
    BY <1>3, Positions DEF TypeOK, Summarise
  <1>4. CASE Rerun
    <2>1. run' \in 1..MaxRuns
      BY <1>4, DailyAssumption DEF TypeOK, Rerun
    <2>2. 0 \in 0..MinInterval /\ MinInterval \in 0..MinInterval
      BY DailyAssumption
    <2>3. report' = NoReport
      BY <1>4 DEF TypeOK, Rerun
    <2>4. QED
      BY <1>4, <2>1, <2>2, <2>3, EmptyRun DEF TypeOK, Rerun, NoReport
  <1>5. QED
    BY <1>1, <1>2, <1>3, <1>4

\* A task is queued for the pacer.
LEMMA Queued ==
    ASSUME TypeOK, NEW t \in DOMAIN pc
    PROVE  Append(pacerQueue, t) \in Seq(DOMAIN resolved)
  BY Positions DEF TypeOK

\* The values of the variables, task step by task step.
LEMMA TypeTask ==
    ASSUME TypeOK, Counted, NEW t \in DOMAIN pc, TaskStep(t)
    PROVE  TypeOK'
  <1> USE DEF taskVars, pacing, Goto
  <1>0. t \in DOMAIN resolved /\ phase = "running" /\ phase' = phase
    BY Positions DEF TaskStep, Proceed, Upstream, Acquire, Pass, StartFetch, Skip, Swept, Retry,
       Written, AttemptFails
  <1>1. CASE Acquire(t)
    BY <1>0, <1>1, Queued DEF TypeOK, Acquire
  <1>2. CASE Pass(t)
    <2>1. pacerQueue' \in Seq(DOMAIN resolved)
      BY <1>2, DailyAssumption DEF TypeOK, Pass
    <2>2. nextIn' \in 0..MinInterval /\ sinceGrant' \in 0..MinInterval
      BY <1>2, DailyAssumption DEF Pass
    <2>3. QED
      BY <1>0, <1>2, <2>1, <2>2 DEF TypeOK, Pass
  <1>3. CASE StartFetch(t)
    <2>1. DOMAIN lock' = Symbols
      BY <1>3 DEF TypeOK, StartFetch, SetNx
    <2>2. QED
      BY <1>0, <1>3, <2>1 DEF TypeOK, StartFetch
  <1>4. CASE Skip(t)
    BY <1>0, <1>4 DEF TypeOK, Skip
  <1>5. CASE Written(t)
    <2>1. DOMAIN lock' = Symbols
      BY <1>5 DEF TypeOK, Written, Release, CompareAndDelete
    <2>2. SymbolOf(t) \in Symbols
      BY <1>0, Positions DEF SymbolOf
    <2>3. QED
      BY <1>0, <1>5, <2>1, <2>2 DEF TypeOK, Written
  <1>6. CASE Swept(t)
    BY <1>0, <1>6 DEF TypeOK, Swept
  <1>7. CASE AttemptFails(t)
    <2>1. DOMAIN lock' = Symbols
      BY <1>7 DEF TypeOK, AttemptFails, Release, CompareAndDelete
    <2>2. failures' \in [DOMAIN resolved -> 0..(Retries + 1)]
      <3>1. failures[t] = attempt[t] /\ attempt[t] \in 0..Retries
        BY <1>0, <1>7 DEF TypeOK, Counted, AttemptFails
      <3>2. failures[t] + 1 \in 0..(Retries + 1)
        BY <3>1, DailyAssumption
      <3>3. QED
        BY <1>0, <1>7, <3>2 DEF TypeOK, AttemptFails
    <2>3. sleep' \in [DOMAIN resolved -> 0..(Backoff * Retries)]
      <3>1. CASE attempt[t] = Retries
        BY <1>7, <3>1 DEF TypeOK, AttemptFails
      <3>2. CASE attempt[t] # Retries
        <4>1. attempt[t] + 1 \in Nat /\ attempt[t] + 1 <= Retries
          BY <1>0, <3>2, DailyAssumption DEF TypeOK
        <4>2. Backoff * (attempt[t] + 1) \in 0..(Backoff * Retries)
          BY <4>1, Longer, DailyAssumption
        <4>3. QED
          BY <1>0, <1>7, <3>2, <4>2 DEF TypeOK, AttemptFails
      <3>3. QED
        BY <3>1, <3>2
    <2>4. QED
      BY <1>0, <1>7, <2>1, <2>2, <2>3 DEF TypeOK, AttemptFails
  <1>8. CASE Retry(t)
    <2>1. attempt[t] + 1 \in 0..Retries
      BY <1>0, <1>8, DailyAssumption DEF TypeOK, Counted, Retry
    <2>2. QED
      BY <1>0, <1>8, <2>1, Queued DEF TypeOK, Retry
  <1>9. QED
    BY <1>1, <1>2, <1>3, <1>4, <1>5, <1>6, <1>7, <1>8 DEF TaskStep, Proceed, Upstream

\* The tries are counted as they fail.
LEMMA CountedStep ==
    ASSUME TypeOK, Counted, [Next]_vars
    PROVE  Counted'
  <1> USE DEF taskVars, pacing, Goto
  <1>1. ASSUME NEW t \in DOMAIN pc, TaskStep(t) PROVE Counted'
    <2>0. t \in DOMAIN resolved /\ resolved' = resolved
      BY <1>1, Positions DEF TaskStep, Proceed, Upstream, Acquire, Pass, StartFetch, Skip, Swept,
         Retry, Written, AttemptFails
    <2>1. CASE AttemptFails(t)
      <3>1. attempt[t] \in 0..Retries /\ failures[t] = attempt[t]
        BY <2>0, <2>1 DEF TypeOK, Counted, AttemptFails
      <3>2. QED
        BY <2>0, <2>1, <3>1, DailyAssumption DEF TypeOK, Counted, AttemptFails
    <2>2. CASE Retry(t)
      BY <2>0, <2>2 DEF TypeOK, Counted, Retry
    <2>3. CASE Acquire(t) \/ Pass(t) \/ StartFetch(t) \/ Skip(t) \/ Written(t) \/ Swept(t)
      BY <2>0, <2>3 DEF TypeOK, Counted, Acquire, Pass, StartFetch, Skip, Written, Swept
    <2>4. QED
      BY <1>1, <2>1, <2>2, <2>3 DEF TaskStep, Proceed, Upstream
  <1>2. CASE Resolve
    BY <1>2 DEF Counted, Resolve
  <1>3. CASE Rerun
    BY <1>3, EmptyRun DEF Counted, Rerun
  <1>4. CASE Raise \/ Summarise \/ Crash \/ Tick \/ UNCHANGED vars
    BY <1>4 DEF Counted, Raise, Summarise, Crash, Tick, vars
  <1>5. CASE \E s \in Symbols : RivalTakes(s) \/ ExpireLock(s)
    BY <1>5 DEF Counted, RivalTakes, ExpireLock
  <1>6. QED
    BY <1>1, <1>2, <1>3, <1>4, <1>5 DEF Next

\* The values of the variables, as time passes and other ingests run.
LEMMA TypeWorld ==
    ASSUME TypeOK,
           \/ Tick
           \/ \E s \in Symbols : RivalTakes(s) \/ ExpireLock(s)
           \/ UNCHANGED vars
    PROVE  TypeOK'
  <1> USE DEF taskVars, pacing
  <1>1. CASE Tick
    <2>1. nextIn' \in 0..MinInterval /\ sinceGrant' \in 0..MinInterval
      BY <1>1, DailyAssumption DEF TypeOK, Tick, Less, More
    <2>2. Backoff * Retries \in Nat
      BY Longer, DailyAssumption
    <2>3. \A t \in DOMAIN resolved : Less(sleep[t]) \in 0..(Backoff * Retries)
      BY <2>2 DEF TypeOK, Less
    <2>4. sleep' \in [DOMAIN resolved -> 0..(Backoff * Retries)]
      BY <1>1, <2>3 DEF TypeOK, Tick
    <2>5. QED
      BY <1>1, <2>1, <2>4 DEF TypeOK, Tick
  <1>2. CASE \E s \in Symbols : RivalTakes(s) \/ ExpireLock(s)
    BY <1>2 DEF TypeOK, RivalTakes, ExpireLock
  <1>3. CASE UNCHANGED vars
    BY <1>3 DEF TypeOK, vars
  <1>4. QED
    BY <1>1, <1>2, <1>3

\* No run goes beyond its last retry, and back-offs are bounded.
THEOREM Inductive == Spec => []IInv
  <1>1. Init => IInv
    <2>1. 0 \in 0..MinInterval /\ MinInterval \in 0..MinInterval /\ 1 \in 1..MaxRuns
      BY DailyAssumption
    <2>2. QED
      BY <2>1, EmptyRun DEF Init, IInv, TypeOK, Counted, NoReport
  <1>2. IInv /\ [Next]_vars => IInv'
    BY TypePhase, TypeTask, TypeWorld, CountedStep DEF IInv, Next
  <1>3. QED
    BY <1>1, <1>2, PTL DEF Spec

\* The values of the variables, for any lists and retries.
THEOREM TypeCorrect == Spec => []TypeOK
  BY Inductive, PTL DEF IInv

-----------------------------------------------------------------------------
\* The pacer's tasks are spaced, for any number of them and however late they wake.
THEOREM StartsAllowedApart == Spec => GrantsSpaced
  <1> USE DEF taskVars, pacing, Goto
  <1>1. Init => Spaced
    BY DailyAssumption DEF Init, Spaced
  <1>2. TypeOK /\ Spaced /\ [Next]_vars => Spaced'
    <2> SUFFICES ASSUME TypeOK, Spaced, [Next]_vars PROVE Spaced'
      OBVIOUS
    <2>1. ASSUME NEW t \in DOMAIN pc, Pass(t) PROVE Spaced'
      BY <2>1, DailyAssumption DEF Pass, Spaced
    <2>2. CASE Tick
      BY <2>2, DailyAssumption DEF TypeOK, Tick, Less, More, Spaced
    <2>3. CASE Rerun
      BY <2>3, DailyAssumption DEF Rerun, Spaced
    <2>4. CASE UNCHANGED <<nextIn, sinceGrant>>
      BY <2>4 DEF Spaced
    <2>5. QED
      BY <2>1, <2>2, <2>3, <2>4 DEF Next, vars, Raise, Resolve, Summarise, Crash, TaskStep, Proceed,
         Upstream, Acquire, StartFetch, Skip, Swept, Retry, Written, AttemptFails, RivalTakes, ExpireLock
  <1>3. TypeOK /\ Spaced /\ [Next]_vars =>
          [(phase' = "running" /\ \E t \in DOMAIN pc : pc[t] = "pacing" /\ pc'[t] = "locking")
             => sinceGrant = MinInterval]_vars
    <2> SUFFICES ASSUME TypeOK, Spaced, Next, phase' = "running",
                        NEW t \in DOMAIN pc, pc[t] = "pacing", pc'[t] = "locking"
                 PROVE  sinceGrant = MinInterval
      BY DEF vars
    <2>1. PICK u \in DOMAIN pc : Pass(u)
      <3>1. ASSUME NEW u \in DOMAIN pc, TaskStep(u) PROVE Pass(u)
        BY <3>1, Positions DEF TypeOK, TaskStep, Proceed, Upstream, Acquire, StartFetch, Skip,
           Swept, Retry, Written, AttemptFails
      <3>2. CASE Resolve
        BY <3>2, EmptyRun DEF TypeOK, Resolve
      <3>3. CASE Rerun
        BY <3>3 DEF Rerun
      <3>4. CASE pc' = pc
        BY <3>4
      <3>5. Raise \/ Summarise \/ Crash \/ Tick
              \/ (\E s \in Symbols : RivalTakes(s) \/ ExpireLock(s)) => pc' = pc
        BY DEF Raise, Summarise, Crash, Tick, RivalTakes, ExpireLock
      <3>6. QED
        BY <3>1, <3>2, <3>3, <3>4, <3>5 DEF Next
    <2>2. QED
      BY <2>1, DailyAssumption DEF Pass, Spaced, TypeOK
  <1>4. QED
    BY <1>1, <1>2, <1>3, TypeCorrect, PTL DEF Spec, GrantsSpaced

-----------------------------------------------------------------------------
\* The tasks with a permit are finitely many.
LEMMA WorkingFinite ==
    ASSUME TypeOK
    PROVE  IsFiniteSet(DOMAIN pc) /\ IsFiniteSet(Working)
  <1>1. IsFiniteSet(DOMAIN pc)
    BY Positions, FS_Interval
  <1>2. Working \subseteq DOMAIN pc
    BY DEF Working
  <1>3. QED
    BY <1>1, <1>2, FS_Subset

\* No more tasks hold a permit than there are permits.
PermitsKept == Cardinality(Working) <= Concurrency

\* Only Acquire gives a permit.
LEMMA PermitsStep ==
    ASSUME IInv, PermitsKept, [Next]_vars
    PROVE  PermitsKept'
  <1> USE DEF taskVars, pacing, Goto, PermitsKept
  <1>0. TypeOK /\ IsFiniteSet(Working) /\ DOMAIN pc = DOMAIN resolved
    BY WorkingFinite, Positions DEF IInv
  <1>1. CASE Working' \subseteq Working
    <2>1. Cardinality(Working') <= Cardinality(Working) /\ Cardinality(Working') \in Nat
      BY <1>0, <1>1, FS_Subset, FS_CardinalityType
    <2>2. QED
      BY <1>0, <2>1, DailyAssumption, FS_CardinalityType
  <1>2. ASSUME NEW t \in DOMAIN pc, Acquire(t) PROVE PermitsKept'
    <2>1. Working' = Working \cup {t} /\ t \notin Working
      BY <1>0, <1>2 DEF Acquire, Working, TypeOK
    <2>2. Cardinality(Working') = Cardinality(Working) + 1
      BY <1>0, <2>1, FS_AddElement
    <2>3. QED
      BY <1>0, <1>2, <2>2, DailyAssumption, FS_CardinalityType DEF Acquire
  <1>3. ASSUME NEW t \in DOMAIN pc, TaskStep(t), ~Acquire(t) PROVE Working' \subseteq Working
    BY <1>0, <1>3 DEF Working, TypeOK, TaskStep, Proceed, Upstream, Pass, StartFetch, Skip, Swept,
       Retry, Written, AttemptFails
  <1>4. QED
    <2>1. \/ \E t \in DOMAIN pc : TaskStep(t)
          \/ Resolve \/ Rerun
          \/ pc' = pc
      BY DEF Next, vars, Raise, Summarise, Crash, Tick, RivalTakes, ExpireLock
    <2>2. ASSUME NEW t \in DOMAIN pc, TaskStep(t) PROVE PermitsKept'
      BY <1>1, <1>2, <1>3, <2>2
    <2>3. CASE Resolve \/ Rerun \/ pc' = pc
      <3>1. Working' \subseteq Working
        BY <2>3, <1>0 DEF Working, Resolve, Rerun
      <3>2. QED
        BY <1>1, <3>1
    <2>4. QED
      BY <2>1, <2>2, <2>3

\* No more fetches run at a time than there are permits, whatever their number.
THEOREM FetchesAreBounded == Spec => []FetchesBounded
  <1>1. Init => PermitsKept
    <2> SUFFICES ASSUME Init PROVE PermitsKept
      OBVIOUS
    <2>1. Working = {}
      BY EmptyRun DEF Init, Working
    <2>2. Cardinality(Working) = 0
      BY <2>1, FS_EmptySet
    <2>3. QED
      BY <2>2, DailyAssumption DEF PermitsKept
  <1>2. IInv /\ PermitsKept /\ [Next]_vars => PermitsKept'
    BY PermitsStep
  <1>3. IInv /\ PermitsKept => FetchesBounded
    <2> DEFINE fetching == {t \in DOMAIN pc : pc[t] = "fetching"}
    <2> SUFFICES ASSUME IInv, PermitsKept
                 PROVE  Cardinality(fetching) <= Concurrency
      BY DEF FetchesBounded
    <2>1. fetching \subseteq Working
      BY DEF Working
    <2>2. IsFiniteSet(Working)
      BY WorkingFinite DEF IInv
    <2>3. Cardinality(fetching) <= Cardinality(Working) /\ Cardinality(fetching) \in Nat
      BY <2>1, <2>2, FS_Subset, FS_CardinalityType
    <2>4. QED
      BY <2>2, <2>3, FS_CardinalityType, DailyAssumption DEF PermitsKept
  <1>4. QED
    BY <1>1, <1>2, <1>3, Inductive, PTL DEF Spec

-----------------------------------------------------------------------------
\* A task step settles the task's symbol, counts a failed try, or shows nothing.
LEMMA TaskKeepsPromises ==
    ASSUME IInv, NEW t \in DOMAIN pc, TaskStep(t)
    PROVE  BR!Succeed(t) \/ BR!Fail(t) \/ UNCHANGED BR!vars
  <1> USE DEF taskVars, pacing, Goto
  <1>0. /\ t \in DOMAIN resolved /\ phase = "running" /\ phase' = "running"
        /\ resolved' = resolved /\ report' = report /\ DOMAIN pc' = DOMAIN pc
        /\ \A u \in DOMAIN pc : u # t => pc'[u] = pc[u]
    BY Positions DEF IInv, TaskStep, Proceed, Upstream, Acquire, Pass, StartFetch, Skip, Swept,
       Retry, Written, AttemptFails
  <1>1. Stage = "running" /\ Stage' = "running"
    BY <1>0 DEF Stage
  <1>2. CASE Skip(t) \/ Swept(t)
    <2>1. Outcome[t] = "pending" /\ Outcome' = [Outcome EXCEPT ![t] = "ok"]
      BY <1>0, <1>2 DEF Outcome, Skip, Swept, IInv, TypeOK
    <2>2. failures' = failures
      BY <1>2 DEF Skip, Swept
    <2>3. QED
      BY <1>0, <1>1, <2>1, <2>2 DEF BR!Succeed
  <1>3. CASE AttemptFails(t)
    <2>1. failures[t] = attempt[t] /\ Outcome[t] = "pending"
      BY <1>0, <1>3 DEF Outcome, AttemptFails, IInv, Counted
    <2>2. failures' = [failures EXCEPT ![t] = failures[t] + 1]
      BY <1>3 DEF AttemptFails
    <2>3. Outcome' = IF failures[t] = Retries THEN [Outcome EXCEPT ![t] = "failed"] ELSE Outcome
      BY <1>0, <1>3, <2>1 DEF Outcome, AttemptFails, IInv, TypeOK
    <2>4. QED
      BY <1>0, <1>1, <2>1, <2>2, <2>3 DEF BR!Fail
  <1>4. CASE Acquire(t) \/ Pass(t) \/ StartFetch(t) \/ Written(t) \/ Retry(t)
    <2>1. Outcome' = Outcome /\ failures' = failures
      BY <1>0, <1>4 DEF Outcome, Acquire, Pass, StartFetch, Written, Retry, IInv, TypeOK
    <2>2. QED
      BY <1>0, <1>1, <2>1 DEF BR!vars
  <1>5. QED
    BY <1>2, <1>3, <1>4 DEF TaskStep, Proceed, Upstream

\* The bulk refresh keeps what it promises its caller, for any lists, concurrency,
\* retries, pacing, crashes and other ingests.
THEOREM RefreshKeepsPromises == Spec => KeepsPromises
  <1> USE DEF taskVars, pacing
  <1>1. Init => BR!Init
    BY EmptyRun DEF Init, BR!Init, Stage, Outcome, NoReport, BR!NoReport
  <1>2. IInv /\ [Next]_vars => [BR!Next]_(BR!vars)
    <2> SUFFICES ASSUME IInv, [Next]_vars PROVE BR!Next \/ UNCHANGED BR!vars
      OBVIOUS
    <2>0. TypeOK /\ DOMAIN pc = DOMAIN resolved
      BY Positions DEF IInv
    <2>1. CASE Raise \/ Crash
      BY <2>1 DEF Raise, Crash, BR!Next, BR!Stop, Stage, Outcome
    <2>2. CASE Resolve
      <3>1. BR!Begin
        BY <2>2 DEF Resolve, BR!Begin, Stage, Outcome
      <3>2. QED
        BY <3>1 DEF BR!Next
    <2>3. CASE Summarise
      <3>1. BR!Publish
        BY <2>0, <2>3 DEF Summarise, BR!Publish, Stage, Outcome
      <3>2. QED
        BY <3>1 DEF BR!Next
    <2>4. CASE Rerun
      <3>1. Outcome' = <<>>
        BY <2>4, EmptyRun DEF Rerun, Outcome
      <3>2. report = BR!NoReport
        BY <2>0, <2>4 DEF Rerun, TypeOK, NoReport, BR!NoReport
      <3>3. BR!Again
        BY <2>4, <3>1, <3>2 DEF Rerun, BR!Again, Stage
      <3>4. QED
        BY <3>3 DEF BR!Next
    <2>5. ASSUME NEW t \in DOMAIN pc, TaskStep(t) PROVE BR!Next \/ UNCHANGED BR!vars
      BY <2>0, <2>5, TaskKeepsPromises DEF BR!Next
    <2>6. CASE Tick \/ (\E s \in Symbols : RivalTakes(s) \/ ExpireLock(s)) \/ UNCHANGED vars
      BY <2>6 DEF Tick, RivalTakes, ExpireLock, vars, BR!vars, Stage, Outcome
    <2>7. QED
      BY <2>1, <2>2, <2>3, <2>4, <2>5, <2>6 DEF Next
  <1>3. QED
    BY <1>1, <1>2, Inductive, PTL DEF Spec, KeepsPromises, BR!Spec

-----------------------------------------------------------------------------
\* Who waits for the pacer is in its queue, once, and nobody else is.
QueueInv ==
    /\ \A t \in DOMAIN resolved : pc[t] = "pacing" => \E i \in DOMAIN pacerQueue : pacerQueue[i] = t
    /\ \A i \in DOMAIN pacerQueue : pc[pacerQueue[i]] = "pacing"
    /\ \A i, j \in DOMAIN pacerQueue : pacerQueue[i] = pacerQueue[j] => i = j

\* Every step keeps the pacer's queue what QueueInv says.
LEMMA QueueStep ==
    ASSUME IInv, QueueInv, [Next]_vars
    PROVE  QueueInv'
  <1> USE DEF taskVars, pacing, Goto
  <1>0. /\ TypeOK /\ DOMAIN pc = DOMAIN resolved /\ pc \in [DOMAIN resolved -> Labels]
        /\ pacerQueue \in Seq(DOMAIN resolved)
    BY Positions DEF IInv, TypeOK, Labels
  \* A task goes to the end of the queue.
  <1>1. ASSUME NEW t \in DOMAIN pc, pc[t] # "pacing", pc' = [pc EXCEPT ![t] = "pacing"],
               pacerQueue' = Append(pacerQueue, t), resolved' = resolved
        PROVE  QueueInv'
    <2>1. /\ DOMAIN pacerQueue' = 1..(Len(pacerQueue) + 1) /\ DOMAIN pacerQueue = 1..Len(pacerQueue)
          /\ Len(pacerQueue) \in Nat
          /\ \A i \in DOMAIN pacerQueue : pacerQueue'[i] = pacerQueue[i] /\ pacerQueue[i] \in DOMAIN resolved
          /\ pacerQueue'[Len(pacerQueue) + 1] = t
      BY <1>0, <1>1
    <2>2. \A i \in DOMAIN pacerQueue : pacerQueue[i] # t
      BY <1>1 DEF QueueInv
    <2>3. \A i \in DOMAIN pacerQueue' : pc'[pacerQueue'[i]] = "pacing"
      BY <1>0, <1>1, <2>1 DEF QueueInv
    <2>4. \A i, j \in DOMAIN pacerQueue' : pacerQueue'[i] = pacerQueue'[j] => i = j
      BY <2>1, <2>2 DEF QueueInv
    <2>5. ASSUME NEW u \in DOMAIN resolved, pc'[u] = "pacing"
          PROVE  \E i \in DOMAIN pacerQueue' : pacerQueue'[i] = u
      <3>1. CASE u = t
        BY <2>1, <3>1
      <3>2. CASE u # t
        BY <1>0, <1>1, <2>1, <2>5, <3>2 DEF QueueInv
      <3> QED BY <3>1, <3>2
    <2> QED BY <1>1, <2>3, <2>4, <2>5 DEF QueueInv
  \* The head of the queue goes on.
  <1>2. ASSUME NEW t \in DOMAIN pc, Pass(t) PROVE QueueInv'
    <2>1. /\ pacerQueue # <<>> /\ pacerQueue[1] = t /\ pc' = [pc EXCEPT ![t] = "locking"]
          /\ pacerQueue' = Tail(pacerQueue) /\ resolved' = resolved
      BY <1>0, <1>2 DEF Pass
    <2>2. /\ 1 \in DOMAIN pacerQueue
          /\ \A i \in DOMAIN pacerQueue' : i + 1 \in DOMAIN pacerQueue /\ pacerQueue'[i] = pacerQueue[i + 1]
                                           /\ i + 1 # 1 /\ i \in Nat
          /\ \A i \in DOMAIN pacerQueue : i # 1 => i - 1 \in DOMAIN pacerQueue'
                                           /\ pacerQueue'[i - 1] = pacerQueue[i]
          /\ \A i \in DOMAIN pacerQueue : pacerQueue[i] \in DOMAIN resolved
      BY <1>0, <2>1
    <2>3. \A i \in DOMAIN pacerQueue' : pacerQueue'[i] # t
      BY <2>1, <2>2 DEF QueueInv
    <2>4. \A i \in DOMAIN pacerQueue' : pc'[pacerQueue'[i]] = "pacing"
      BY <1>0, <2>1, <2>2, <2>3 DEF QueueInv
    <2>5. ASSUME NEW i \in DOMAIN pacerQueue', NEW j \in DOMAIN pacerQueue', pacerQueue'[i] = pacerQueue'[j]
          PROVE  i = j
      <3>1. i + 1 = j + 1
        BY <2>2, <2>5 DEF QueueInv
      <3> QED BY <2>2, <3>1
    <2>6. ASSUME NEW u \in DOMAIN resolved, pc'[u] = "pacing"
          PROVE  \E i \in DOMAIN pacerQueue' : pacerQueue'[i] = u
      <3>1. u # t /\ pc[u] = "pacing"
        BY <1>0, <2>1, <2>6
      <3>2. PICK i \in DOMAIN pacerQueue : pacerQueue[i] = u
        BY <3>1 DEF QueueInv
      <3>3. i # 1
        BY <2>1, <3>1, <3>2
      <3> QED BY <2>2, <3>2, <3>3
    <2> QED BY <2>1, <2>4, <2>5, <2>6 DEF QueueInv
  \* A task that is not in the queue moves on and does not enter it.
  <1>3. ASSUME NEW t \in DOMAIN pc, NEW l \in Labels \ {"pacing"}, pc[t] # "pacing",
               pc' = [pc EXCEPT ![t] = l], UNCHANGED <<pacerQueue, resolved>>
        PROVE  QueueInv'
    BY <1>0, <1>3 DEF QueueInv
  <1>4. ASSUME NEW t \in DOMAIN pc, TaskStep(t) PROVE QueueInv'
    <2>1. CASE Acquire(t) \/ Retry(t)
      BY <1>1, <2>1 DEF Acquire, Retry
    <2>2. CASE StartFetch(t) \/ Skip(t) \/ Written(t) \/ Swept(t) \/ AttemptFails(t)
      <3>1. \E l \in Labels \ {"pacing"} : pc' = [pc EXCEPT ![t] = l]
        BY <2>2 DEF StartFetch, Skip, Written, Swept, AttemptFails, Labels
      <3>2. pc[t] # "pacing" /\ UNCHANGED <<pacerQueue, resolved>>
        BY <2>2 DEF StartFetch, Skip, Written, Swept, AttemptFails
      <3> QED BY <1>3, <3>1, <3>2
    <2> QED BY <1>2, <1>4, <2>1, <2>2 DEF TaskStep, Proceed, Upstream
  <1>5. CASE Resolve
    <2>1. resolved = <<>> /\ pacerQueue' = pacerQueue
      BY <1>0, <1>5 DEF TypeOK, Resolve
    <2>2. DOMAIN pacerQueue = {}
      BY <1>0, <2>1, EmptyRun
    <2>3. \A t \in DOMAIN resolved' : pc'[t] # "pacing"
      BY <1>5 DEF Resolve
    <2> QED BY <2>1, <2>2, <2>3 DEF QueueInv
  <1>6. CASE Rerun
    BY <1>6, EmptyRun DEF Rerun, QueueInv
  <1>7. CASE UNCHANGED <<pc, pacerQueue, resolved>>
    BY <1>7 DEF QueueInv
  <1> QED
    BY <1>4, <1>5, <1>6, <1>7 DEF Next, vars, Raise, Summarise, Crash, Tick, RivalTakes, ExpireLock

\* A set of positions that is not empty has a first one.
LEMMA FirstOf ==
    ASSUME NEW S \in SUBSET Nat, NEW n \in S
    PROVE  \E m \in S : \A k \in S : m <= k
  <1> DEFINE T == {1..k : k \in {i \in S : i <= n}}
             Strict == StrictSubsetOrdering(1..n)
  <1>1. IsWellFoundedOn(Strict, SUBSET (1..n))
    <2>1. IsFiniteSet(1..n)
      BY FS_Interval
    <2> QED BY <2>1, FS_StrictSubsetOrderingWellFounded, FS_FiniteSubsetsOfFinite
  <1>2. T \subseteq SUBSET (1..n) /\ T # {}
    OBVIOUS
  <1>3. PICK x \in T : \A y \in T : ~ (<<y, x>> \in Strict)
    <2> HIDE DEF T, Strict
    <2> QED BY <1>1, <1>2, WFMin
  <1>4. PICK m \in S : m <= n /\ x = 1..m
    OBVIOUS
  <1>5. ASSUME NEW k \in S PROVE m <= k
    <2>1. SUFFICES ASSUME k < m PROVE FALSE
      OBVIOUS
    <2>2. 1..k \in T /\ 1..k \subseteq 1..m /\ m \in 1..m /\ m \notin 1..k
      BY <1>4, <2>1
    <2> QED BY <1>2, <1>3, <1>4, <2>2 DEF StrictSubsetOrdering
  <1> QED BY <1>4, <1>5

\* Permits and the pacer never have all tasks wait: the head of the pacer's queue is a task
\* that waits for it, and with nobody working a permit is free for the first in the list.
THEOREM RunIsNeverStuck == Spec => []NeverStuck
  <1>1. Init => QueueInv
    BY EmptyRun DEF Init, QueueInv
  <1>2. IInv /\ QueueInv /\ [Next]_vars => QueueInv'
    BY QueueStep
  <1>3. IInv /\ QueueInv => NeverStuck
    <2> SUFFICES ASSUME IInv, QueueInv, phase = "running",
                        NEW u \in DOMAIN pc, pc[u] \notin {"ok", "failed"}
                 PROVE  \E t \in DOMAIN pc : CanGo(t)
      BY DEF NeverStuck
    <2>0. /\ DOMAIN pc = DOMAIN resolved /\ DOMAIN resolved = 1..Len(resolved)
          /\ pc \in [DOMAIN resolved -> Labels] /\ pacerQueue \in Seq(DOMAIN resolved)
          /\ Len(resolved) \in Nat
      BY Positions DEF IInv, TypeOK, Labels
    <2>1. CASE \E t \in DOMAIN pc : pc[t] \in {"locking", "fetching", "sweeping", "backoff"}
      BY <2>1 DEF CanGo
    <2>2. CASE \E t \in DOMAIN pc : pc[t] = "pacing"
      <3>1. pacerQueue # <<>> /\ 1 \in DOMAIN pacerQueue /\ Head(pacerQueue) = pacerQueue[1]
        BY <2>0, <2>2 DEF QueueInv
      <3>2. Head(pacerQueue) \in DOMAIN pc /\ pc[Head(pacerQueue)] = "pacing"
        BY <2>0, <3>1 DEF QueueInv
      <3> QED BY <3>1, <3>2 DEF CanGo
    <2>3. CASE \A t \in DOMAIN pc : pc[t] \in {"queued", "ok", "failed"}
      <3>1. Working = {}
        BY <2>3 DEF Working
      <3>2. Cardinality(Working) < Concurrency
        BY <3>1, FS_EmptySet, DailyAssumption
      <3> DEFINE Q == {t \in DOMAIN pc : pc[t] = "queued"}
      <3>3. Q \in SUBSET Nat /\ u \in Q
        BY <2>0, <2>3
      <3>4. PICK t \in Q : \A k \in Q : t <= k
        BY <3>3, FirstOf
      <3>5. \A k \in 1..(t - 1) : pc[k] # "queued"
        BY <2>0, <3>3, <3>4
      <3> QED BY <3>2, <3>4, <3>5 DEF CanGo
    <2> QED BY <2>0, <2>1, <2>2, <2>3 DEF Labels
  <1> QED BY <1>1, <1>2, <1>3, Inductive, PTL DEF Spec

-----------------------------------------------------------------------------
\* How many steps a task can still make, at most.
StepsLeft(t) ==
    LET ahead == [queued |-> 6, pacing |-> 5, locking |-> 4, fetching |-> 3, sweeping |-> 2, backoff |-> 1]
    IN IF pc[t] \in {"ok", "failed"} THEN 0 ELSE 6 * (Retries - attempt[t]) + ahead[pc[t]]

\* No task has more steps left than its tries can take.
WithinBudget == phase = "running" => \A t \in DOMAIN pc : StepsLeft(t) \in 0..(6 * (Retries + 1))

\* A step of a task costs it at least one, and no other task gets any.
Spends(t) ==
    /\ StepsLeft(t)' < StepsLeft(t)
    /\ \A u \in DOMAIN pc \ {t} : StepsLeft(u)' = StepsLeft(u)

\* What a step may do to the steps left.
Progress ==
    phase = "running" =>
      UNCHANGED <<resolved, pc, attempt>> \/ \E t \in DOMAIN pc : Spends(t)

\* A task of a run begins with 6 steps for each try; whatever it does costs it at least
\* one, gives no other task any, and what else happens gives none back.
RunsOut == []WithinBudget /\ [][Progress]_vars

\* A run makes a bounded number of steps, so with NeverStuck it ends when time passes and
\* its upstream answers.
THEOREM RunsAreBounded == Spec => RunsOut
  <1>1. IInv => WithinBudget
    <2> SUFFICES ASSUME IInv, NEW t \in DOMAIN pc PROVE StepsLeft(t) \in 0..(6 * (Retries + 1))
      BY DEF WithinBudget
    <2>1. attempt[t] \in 0..Retries /\ pc[t] \in Labels
      BY Positions DEF IInv, TypeOK, Labels
    <2> QED BY <2>1, DailyAssumption DEF StepsLeft, Labels
  <1>2. ASSUME IInv, NEW t \in DOMAIN pc, TaskStep(t) PROVE Spends(t)
    <2>1. /\ pc \in [DOMAIN pc -> Labels] /\ attempt \in [DOMAIN pc -> 0..Retries]
          /\ pc[t] = "backoff" => attempt[t] < Retries
      BY <1>2, Positions DEF IInv, TypeOK, Labels, Counted
    <2>2. CASE Retry(t)
      <3>1. /\ pc[t] = "backoff" /\ pc' = [pc EXCEPT ![t] = "pacing"]
            /\ attempt' = [attempt EXCEPT ![t] = attempt[t] + 1]
        BY <2>2 DEF Retry, Goto
      <3> QED BY <2>1, <3>1, DailyAssumption DEF StepsLeft, Spends
    <2>3. CASE ~Retry(t)
      <3>1. /\ attempt' = attempt
            /\ \E l \in Labels :
                 /\ pc' = [pc EXCEPT ![t] = l]
                 /\ <<pc[t], l>> \in {<<"queued", "pacing">>, <<"pacing", "locking">>,
                        <<"locking", "fetching">>, <<"locking", "ok">>, <<"fetching", "sweeping">>,
                        <<"sweeping", "ok">>, <<"fetching", "backoff">>, <<"fetching", "failed">>}
        BY <1>2, <2>3 DEF TaskStep, Proceed, Upstream, Acquire, Pass, StartFetch, Skip, Swept,
           Written, AttemptFails, Goto, Labels
      <3> QED BY <2>1, <3>1, DailyAssumption DEF StepsLeft, Spends, Labels
    <2> QED BY <2>2, <2>3
  <1>3. IInv /\ [Next]_vars => [Progress]_vars
    BY <1>2
    DEF Progress, Next, vars, taskVars, pacing, Raise, Resolve, Summarise, Crash, Rerun, Tick, RivalTakes,
       ExpireLock
  <1> QED BY <1>1, <1>3, Inductive, PTL DEF Spec, RunsOut

-----------------------------------------------------------------------------
\* Why a run may report success with nothing written.

\* Every try that ends gets its lock released.
ReleasesWork ==
    \A t \in DOMAIN pc : pc[t] = "fetching" /\ pc'[t] # "fetching" =>
      lock' = CompareAndDelete(lock, SymbolOf(t), Token(t))

\* Every fetch that ends without an error brought bars.
FetchesHaveBars ==
    \A t \in DOMAIN pc : pc[t] = "fetching" /\ pc'[t] = "sweeping" => SymbolOf(t) \in fresh'

\* No ingest outside the run, none left by a run before it, and no symbol twice.
Alone ==
    /\ ~Rivals /\ run = 1
    /\ \A t, u \in DOMAIN resolved : resolved[t] = resolved[u] => t = u

\* Then a lock belongs to a task that is at its fetch, so nobody is turned away by it,
\* and who succeeds has written.
AloneInv ==
    Alone =>
      /\ \A s \in Symbols : lock[s] # NoToken =>
           \E t \in DOMAIN pc : pc[t] = "fetching" /\ resolved[t] = s /\ lock[s] = Token(t)
      /\ \A t \in DOMAIN pc : pc[t] \in {"sweeping", "ok"} => resolved[t] \in fresh

\* What the report of a run says.
ReportInv ==
    phase = "done" =>
      /\ report.attempted = Len(resolved)
      /\ report.failures = {t \in DOMAIN pc : pc[t] = "failed"}
      /\ \A t \in DOMAIN pc : pc[t] \in {"ok", "failed"}

\* A step that writes what it fetched and releases its lock keeps the locks of the run
\* its own, and the successes written.
LEMMA AloneStep ==
    ASSUME IInv, AloneInv, [Next]_vars, ReleasesWork, FetchesHaveBars
    PROVE  AloneInv'
  <1> USE DEF taskVars, pacing, Goto
  <1>0. /\ TypeOK /\ DOMAIN pc = DOMAIN resolved /\ pc \in [DOMAIN resolved -> Labels]
        /\ attempt \in [DOMAIN resolved -> 0..Retries] /\ DOMAIN lock = Symbols
        /\ \A t \in DOMAIN resolved : resolved[t] \in Symbols
    BY Positions DEF IInv, TypeOK, Labels
  \* A task that neither was nor will be at its fetch leaves the locks alone.
  <1>1. ASSUME NEW t \in DOMAIN pc, NEW l \in Labels \ {"fetching"}, pc[t] # "fetching",
               pc' = [pc EXCEPT ![t] = l], l \in {"sweeping", "ok"} => pc[t] \in {"sweeping", "ok"},
               \A u \in DOMAIN pc \ {t} : attempt'[u] = attempt[u],
               UNCHANGED <<run, resolved, lock, fresh>>
        PROVE  AloneInv'
    BY <1>0, <1>1 DEF AloneInv, Alone, Token
  <1>2. ASSUME NEW t \in DOMAIN pc, TaskStep(t) PROVE AloneInv'
    <2>1. CASE Acquire(t) \/ Pass(t) \/ Swept(t) \/ Retry(t)
      <3>1. /\ UNCHANGED <<run, resolved, lock, fresh>>
            /\ \/ pc[t] = "queued" /\ pc' = [pc EXCEPT ![t] = "pacing"] /\ attempt' = attempt
               \/ pc[t] = "pacing" /\ pc' = [pc EXCEPT ![t] = "locking"] /\ attempt' = attempt
               \/ pc[t] = "sweeping" /\ pc' = [pc EXCEPT ![t] = "ok"] /\ attempt' = attempt
               \/ /\ pc[t] = "backoff" /\ pc' = [pc EXCEPT ![t] = "pacing"]
                  /\ attempt' = [attempt EXCEPT ![t] = @ + 1]
        BY <2>1 DEF Acquire, Pass, Swept, Retry
      <3>2. \A u \in DOMAIN pc \ {t} : attempt'[u] = attempt[u]
        BY <1>0, <3>1
      <3> QED BY <1>1, <3>1, <3>2 DEF Labels
    <2>2. CASE Skip(t)
      <3>1. SUFFICES ASSUME Alone PROVE FALSE
        BY <2>2 DEF Skip, AloneInv, Alone
      <3>2. PICK u \in DOMAIN pc : pc[u] = "fetching" /\ resolved[u] = resolved[t]
        BY <1>0, <2>2, <3>1 DEF Skip, SymbolOf, AloneInv
      <3> QED BY <1>0, <2>2, <3>1, <3>2 DEF Skip, Alone
    <2>3. CASE StartFetch(t)
      <3> SUFFICES ASSUME Alone PROVE AloneInv'
        BY <2>3 DEF StartFetch, AloneInv, Alone
      <3>1. /\ pc[t] = "locking" /\ pc' = [pc EXCEPT ![t] = "fetching"]
            /\ UNCHANGED <<run, resolved, attempt, fresh>>
            /\ lock' \in {lock, SetNx(lock, resolved[t], Token(t))}
        BY <2>3 DEF StartFetch, SymbolOf
      <3>2. ASSUME NEW s \in Symbols, lock'[s] # NoToken
            PROVE  \E u \in DOMAIN pc' : pc'[u] = "fetching" /\ resolved'[u] = s /\ lock'[s] = Token(u)'
        <4>1. CASE lock'[s] = lock[s]
          <5>1. PICK u \in DOMAIN pc : pc[u] = "fetching" /\ resolved[u] = s /\ lock[s] = Token(u)
            BY <3>2, <4>1 DEF AloneInv
          <5> QED BY <1>0, <3>1, <4>1, <5>1 DEF Token
        <4>2. CASE lock'[s] # lock[s]
          <5>1. s = resolved[t] /\ lock'[s] = Token(t)
            BY <1>0, <3>1, <4>2 DEF SetNx
          <5> QED BY <1>0, <3>1, <5>1 DEF Token
        <4> QED BY <4>1, <4>2
      <3>3. \A u \in DOMAIN pc' : pc'[u] \in {"sweeping", "ok"} => resolved'[u] \in fresh'
        BY <1>0, <3>1 DEF AloneInv
      <3> QED BY <3>2, <3>3 DEF AloneInv
    <2>4. CASE Written(t) \/ AttemptFails(t)
      <3> SUFFICES ASSUME Alone PROVE AloneInv'
        BY <2>4 DEF Written, AttemptFails, AloneInv, Alone
      <3>1. /\ pc[t] = "fetching" /\ UNCHANGED <<run, resolved, attempt>>
            /\ \E l \in {"sweeping", "backoff", "failed"} :
                 pc' = [pc EXCEPT ![t] = l] /\ (l = "sweeping" => resolved[t] \in fresh')
            /\ fresh \subseteq fresh'
        BY <1>0, <2>4 DEF Written, AttemptFails, SymbolOf, FetchesHaveBars
      <3>2. lock' = CompareAndDelete(lock, resolved[t], Token(t))
        BY <1>0, <3>1 DEF ReleasesWork, SymbolOf
      <3>3. ASSUME NEW s \in Symbols, lock'[s] # NoToken
            PROVE  \E u \in DOMAIN pc' : pc'[u] = "fetching" /\ resolved'[u] = s /\ lock'[s] = Token(u)'
        <4>1. lock'[s] = lock[s] /\ ~ (s = resolved[t] /\ lock[s] = Token(t))
          BY <1>0, <3>2, <3>3 DEF CompareAndDelete
        <4>2. PICK u \in DOMAIN pc : pc[u] = "fetching" /\ resolved[u] = s /\ lock[s] = Token(u)
          BY <3>3, <4>1 DEF AloneInv
        <4>3. u # t
          BY <4>1, <4>2
        <4> QED BY <1>0, <3>1, <4>1, <4>2, <4>3 DEF Token
      <3>4. \A u \in DOMAIN pc' : pc'[u] \in {"sweeping", "ok"} => resolved'[u] \in fresh'
        BY <1>0, <3>1 DEF AloneInv
      <3> QED BY <3>3, <3>4 DEF AloneInv
    <2> QED BY <1>2, <2>1, <2>2, <2>3, <2>4 DEF TaskStep, Proceed, Upstream
  <1>3. CASE Resolve
    <2>1. resolved = <<>> /\ UNCHANGED <<run, lock, fresh>> /\ \A t \in DOMAIN pc' : pc'[t] = "queued"
      BY <1>0, <1>3 DEF TypeOK, Resolve
    <2>2. DOMAIN resolved = {}
      BY <2>1, EmptyRun
    <2> QED BY <1>0, <2>1, <2>2 DEF AloneInv, Alone
  <1>4. CASE Rerun
    <2>1. run' # 1
      BY <1>0, <1>4 DEF Rerun, TypeOK
    <2> QED BY <2>1 DEF AloneInv, Alone
  <1>5. ASSUME NEW s \in Symbols, RivalTakes(s) PROVE AloneInv'
    BY <1>5 DEF RivalTakes, AloneInv, Alone
  <1>6. ASSUME NEW s \in Symbols, ExpireLock(s) PROVE AloneInv'
    <2>1. UNCHANGED <<run, resolved, pc, attempt, fresh>> /\ lock' = [lock EXCEPT ![s] = NoToken]
      BY <1>6 DEF ExpireLock
    <2>2. \A q \in Symbols : lock'[q] # NoToken => lock'[q] = lock[q]
      BY <1>0, <2>1
    <2> QED BY <2>1, <2>2 DEF AloneInv, Alone, Token
  <1>7. CASE UNCHANGED <<run, resolved, pc, attempt, lock, fresh>>
    BY <1>7 DEF AloneInv, Alone, Token
  <1> QED
    BY <1>2, <1>3, <1>4, <1>5, <1>6, <1>7 DEF Next, vars, Raise, Summarise, Crash, Tick

\* The report is written once all tasks are settled, and lists those that failed.
LEMMA ReportStep ==
    ASSUME IInv, ReportInv, [Next]_vars PROVE ReportInv'
  <1> USE DEF taskVars, pacing
  <1>1. CASE Summarise
    BY <1>1 DEF Summarise, ReportInv
  <1>2. CASE Resolve
    <2>1. PICK list \in Lists :
            /\ resolved' = list /\ pc' = [t \in DOMAIN list |-> "queued"]
            /\ phase' = IF list = <<>> THEN "done" ELSE "running"
      BY <1>2 DEF Resolve
    <2>2. report' = NoReport
      BY <1>2 DEF Resolve, IInv, TypeOK
    <2>3. CASE list = <<>>
      BY <2>1, <2>2, <2>3, EmptyRun DEF ReportInv, NoReport
    <2> QED BY <2>1, <2>3 DEF ReportInv
  <1>3. CASE phase' # "done"
    BY <1>3 DEF ReportInv
  <1>4. CASE UNCHANGED <<phase, resolved, pc, report>>
    BY <1>4 DEF ReportInv
  <1> QED
    BY <1>1, <1>2, <1>3, <1>4
    DEF Next, vars, Raise, Crash, Rerun, Tick, RivalTakes, ExpireLock, TaskStep, Proceed, Upstream,
        Acquire, Pass, StartFetch, Skip, Swept, Written, AttemptFails, Retry

\* cli.py's "instead of a silent success" holds but for five causes: a fetch that found
\* no bars, a release that failed, the locks of a run that died, an ingest outside the
\* run, a symbol listed twice.
THEOREM SilentSuccessHasACause ==
    Spec /\ [][ReleasesWork /\ FetchesHaveBars]_vars => [](Alone => SuccessMeansWritten)
  <1>1. Init => AloneInv /\ ReportInv
    BY EmptyRun DEF Init, AloneInv, ReportInv
  <1>2. IInv /\ AloneInv /\ [Next]_vars /\ [ReleasesWork /\ FetchesHaveBars]_vars => AloneInv'
    <2>1. CASE UNCHANGED vars
      BY <2>1 DEF vars, taskVars, AloneInv, Alone, Token
    <2> QED BY <2>1, AloneStep
  <1>3. IInv /\ ReportInv /\ [Next]_vars => ReportInv'
    BY ReportStep
  <1>4. IInv /\ AloneInv /\ ReportInv => (Alone => SuccessMeansWritten)
    <2> SUFFICES ASSUME IInv, AloneInv, ReportInv, Alone, phase = "done",
                        Cardinality(report.failures) < report.attempted
                 PROVE  fresh # {}
      BY DEF SuccessMeansWritten
    <2>1. DOMAIN pc = 1..Len(resolved) /\ Len(resolved) \in Nat
      BY Positions DEF IInv
    <2>2. \E t \in DOMAIN pc : pc[t] # "failed"
      <3>1. SUFFICES ASSUME \A t \in DOMAIN pc : pc[t] = "failed" PROVE FALSE
        OBVIOUS
      <3>2. report.failures = 1..Len(resolved) /\ report.attempted = Len(resolved)
        BY <2>1, <3>1 DEF ReportInv
      <3>3. \A n \in Nat : Cardinality(1..n) = n
        <4> SUFFICES ASSUME NEW n \in Nat PROVE Cardinality(1..n) = n
          OBVIOUS
        <4>1. Cardinality(1..n) = IF 1 > n THEN 0 ELSE n - 1 + 1
          BY FS_Interval
        <4> QED BY <4>1
      <3> QED BY <2>1, <3>2, <3>3
    <2> QED BY <2>2 DEF AloneInv, ReportInv
  <1> QED BY <1>1, <1>2, <1>3, <1>4, Inductive, PTL DEF Spec
=============================================================================

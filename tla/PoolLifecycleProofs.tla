------------------------ MODULE PoolLifecycleProofs ------------------------
(***************************************************************************)
(* Proofs about PoolLifecycle, for any number of requests and probes and   *)
(* any cooldown.                                                           *)
(***************************************************************************)
EXTENDS PoolLifecycle, TLAPS

\* Before the lifespan yields there is no pool and no request.
StartingInv ==
    phase = "starting" =>
        /\ pool = NoPool /\ created = 0 /\ lastDbOk = "unknown"
        /\ age = Never /\ gap = Cooldown

\* Requests are handled while serving, a request that holds a pool found one in
\* the module variable, and a probe that reported ok did too.
ServingInv ==
    /\ \A r \in Slots : pc[r] # "idle" => phase = "serving"
    /\ \A r \in Slots : pc[r] = "holding" => pool # NoPool
    /\ HealthyMeansPool

\* Without a pool, the recorded attempt is the last one that was begun.
RecordedInv ==
    phase \in {"starting", "serving"} /\ pool = NoPool =>
        age = gap \/ (age = Never /\ gap = Cooldown)

\* As long as connects are prompt, one attempt at a time is in flight, inside the
\* cooldown it armed, and no pool is open but the module's.
PromptInv ==
    ~overrun =>
        /\ \A r \in Slots : pc[r] = "connecting" => pool = NoPool /\ age < Cooldown
        /\ \A r, s \in Slots : pc[r] = "connecting" /\ pc[s] = "connecting" => r = s
        /\ NoPoolLost

\* The inductive invariant.
IInv == TypeOK /\ StartingInv /\ ServingInv /\ RecordedInv /\ PromptInv

-----------------------------------------------------------------------------
\* An answer changes the report of the probe at most, and to "ok" when served only.
LEMMA AnswerType ==
    ASSUME TypeOK, NEW r \in Slots, NEW served \in BOOLEAN, Answer(r, served)
    PROVE  /\ lastDbOk' \in {"unknown", "ok", "down"}
           /\ lastDbOk' = "ok" => lastDbOk = "ok" \/ served
  BY DEF TypeOK, Answer

\* A new pool is open and no other number changes its meaning.
LEMMA PoolCreatedType ==
    ASSUME TypeOK, PoolCreated
    PROVE  /\ created' \in Nat /\ open' \subseteq 1..created'
           /\ pool' \in open' /\ pool' # NoPool
  BY DEF TypeOK, PoolCreated, NoPool

\* Time only moves ages towards the cooldown.
LEMMA OlderType ==
    ASSUME NEW a \in 0..Never
    PROVE  /\ Older(a) \in 0..Never
           /\ a \in 0..Cooldown => Older(a) \in 0..Cooldown
           /\ a = Never => Older(a) = Never
           /\ a = Cooldown => Older(a) = Cooldown
  BY PoolAssumption DEF Older, Never

\* The initial states have their types.
LEMMA StartsTyped == Init => TypeOK
  <1>1. Init => overrun \in BOOLEAN
    BY ZenonT(20) DEF Init
  <1>2. Init => /\ age \in 0..Never /\ gap \in 0..Cooldown
                /\ created \in Nat /\ open \subseteq 1..created /\ pool \in open \cup {NoPool}
    BY PoolAssumption DEF Init, Never, NoPool
  <1>3. Init => /\ phase \in {"starting", "serving", "closing", "stopped"}
                /\ dbUp \in BOOLEAN
                /\ pc \in [Slots -> {"idle", "connecting", "holding"}]
                /\ lastDbOk \in {"unknown", "ok", "down"}
    BY DEF Init
  <1>4. QED
    BY <1>1, <1>2, <1>3 DEF TypeOK

\* The variables keep their values' types, and _pool is never a closed pool.
THEOREM TypeCorrect == Spec => []TypeOK
  <1> USE DEF slotVars
  <1>1. Init => TypeOK
    BY StartsTyped
  <1>2. TypeOK /\ [Next]_vars => TypeOK'
    <2> SUFFICES ASSUME TypeOK, [Next]_vars PROVE TypeOK'
      OBVIOUS
    <2>1. CASE StartupOpensPool
      BY <2>1, PoolCreatedType DEF TypeOK, StartupOpensPool
    <2>2. CASE StartupFails \/ BeginClose \/ EndClose
      <3>1. CASE StartupFails
        BY <3>1 DEF TypeOK, StartupFails
      <3>2. CASE BeginClose
        BY <3>2, PoolAssumption DEF TypeOK, BeginClose, Never
      <3>3. CASE EndClose
        BY <3>3 DEF TypeOK, EndClose
      <3>4. QED
        BY <2>2, <3>1, <3>2, <3>3
    <2>3. ASSUME NEW r \in Slots, EnsurePool(r) PROVE TypeOK'
      <3>1. CASE GetOpenPool(r)
        BY <3>1 DEF TypeOK, GetOpenPool, NoPool
      <3>2. CASE RefuseInCooldown(r)
        BY <3>2, AnswerType DEF TypeOK, RefuseInCooldown
      <3>3. CASE BeginConnect(r)
        BY <3>3, PoolAssumption DEF TypeOK, BeginConnect, Never
      <3>4. QED
        BY <2>3, <3>1, <3>2, <3>3 DEF EnsurePool
    <2>4. ASSUME NEW r \in Slots, ConnectSucceeds(r) PROVE TypeOK'
      <3>1. Never \in 0..Never
        BY PoolAssumption DEF Never
      <3>2. QED
        BY <2>4, <3>1, PoolCreatedType DEF TypeOK, ConnectSucceeds
    <2>5. ASSUME NEW r \in Slots, ConnectFails(r) \/ UsePool(r) PROVE TypeOK'
      BY <2>5, AnswerType
         DEF TypeOK, ConnectFails, UsePool, QueryAnswers, QueryRaises, ServeFromCache
    <2>6. CASE Tick
      <3>1. gap \in 0..Never
        BY PoolAssumption DEF TypeOK, Never
      <3>2. age' \in 0..Never /\ gap' \in 0..Cooldown
        BY <2>6, <3>1, OlderType DEF TypeOK, Tick
      <3>3. QED
        BY <2>6, <3>2 DEF TypeOK, Tick
    <2>7. CASE DatabaseGoesUpOrDown
      BY <2>7 DEF TypeOK, DatabaseGoesUpOrDown
    <2>8. CASE UNCHANGED vars
      BY <2>8 DEF TypeOK, vars
    <2>9. QED
      BY <2>1, <2>2, <2>3, <2>4, <2>5, <2>6, <2>7, <2>8 DEF Next, Connected
  <1>3. QED
    BY <1>1, <1>2, PTL DEF Spec

-----------------------------------------------------------------------------
\* The steps of the lifespan.
LEMMA LifespanStep ==
    ASSUME IInv, StartupOpensPool \/ StartupFails \/ BeginClose \/ EndClose
    PROVE  StartingInv' /\ ServingInv' /\ RecordedInv' /\ PromptInv'
  <1> USE DEF slotVars
  <1>0. TypeOK /\ StartingInv /\ ServingInv /\ RecordedInv /\ PromptInv
    BY DEF IInv
  <1>1. CASE StartupOpensPool
    <2>1. pool' # NoPool /\ open' = {pool'}
      <3>1. open = {}
        BY <1>0, <1>1 DEF StartupOpensPool, StartingInv, TypeOK
      <3>2. pool' # NoPool
        BY <1>0, <1>1, PoolCreatedType DEF StartupOpensPool
      <3>3. open' = {pool'}
        BY <3>1, <1>1 DEF StartupOpensPool, PoolCreated
      <3>4. QED
        BY <3>2, <3>3
    <2>2. \A r \in Slots : pc[r] = "idle"
      BY <1>0, <1>1 DEF StartupOpensPool, ServingInv
    <2>3. QED
      BY <1>1, <2>1, <2>2 DEF StartupOpensPool, StartingInv, ServingInv, RecordedInv,
         PromptInv, HealthyMeansPool, NoPoolLost
  <1>2. CASE StartupFails
    BY <1>0, <1>2 DEF StartupFails, StartingInv, ServingInv, RecordedInv, PromptInv,
       HealthyMeansPool, NoPoolLost
  <1>3. CASE BeginClose
    BY <1>0, <1>3 DEF BeginClose, StartingInv, ServingInv, RecordedInv, PromptInv,
       HealthyMeansPool, NoPoolLost
  <1>4. CASE EndClose
    BY <1>0, <1>4 DEF EndClose, StartingInv, ServingInv, RecordedInv, PromptInv,
       HealthyMeansPool, NoPoolLost
  <1>5. QED
    BY <1>1, <1>2, <1>3, <1>4

\* The steps of a request that open a pool or find one.
LEMMA EnsureStep ==
    ASSUME IInv, NEW r \in Slots, EnsurePool(r) \/ Connected(r)
    PROVE  StartingInv' /\ ServingInv' /\ RecordedInv' /\ PromptInv'
  <1> USE DEF slotVars
  <1>0. TypeOK /\ StartingInv /\ ServingInv /\ RecordedInv /\ PromptInv
    BY DEF IInv
  <1>1. CASE GetOpenPool(r)
    BY <1>0, <1>1 DEF GetOpenPool, Arrive, TypeOK, StartingInv, ServingInv, RecordedInv,
       PromptInv, HealthyMeansPool, NoPoolLost
  <1>2. CASE RefuseInCooldown(r) \/ ConnectFails(r)
    <2>1. lastDbOk' = "ok" => lastDbOk = "ok"
      BY <1>0, <1>2, AnswerType DEF RefuseInCooldown, ConnectFails, Answer
    <2>2. phase = "serving"
      BY <1>0, <1>2 DEF RefuseInCooldown, ConnectFails, Arrive, ServingInv
    <2>3. \A s \in Slots : pc'[s] \in {pc[s], "idle"}
      BY <1>0, <1>2 DEF RefuseInCooldown, ConnectFails, TypeOK
    <2>4. QED
      BY <1>0, <1>2, <2>1, <2>2, <2>3 DEF RefuseInCooldown, ConnectFails, StartingInv,
         ServingInv, RecordedInv, PromptInv, HealthyMeansPool, NoPoolLost
  <1>3. CASE BeginConnect(r)
    <2>1. ~overrun => \A s \in Slots : pc[s] # "connecting"
      BY <1>0, <1>3 DEF BeginConnect, InCooldown, PromptInv
    <2>2. 0 < Cooldown
      BY PoolAssumption
    <2>3. phase = "serving" /\ \A s \in Slots \ {r} : pc'[s] = pc[s]
      BY <1>0, <1>3 DEF BeginConnect, Arrive, TypeOK
    <2>4. pc'[r] = "connecting"
      BY <1>0, <1>3 DEF BeginConnect, TypeOK
    <2>5. PromptInv'
      BY <1>0, <1>3, <2>1, <2>2, <2>3 DEF BeginConnect, PromptInv, NoPoolLost
    <2>6. QED
      BY <1>0, <1>3, <2>3, <2>4, <2>5 DEF BeginConnect, StartingInv, ServingInv, RecordedInv,
         HealthyMeansPool
  <1>4. CASE ConnectSucceeds(r)
    <2>1. pool' # NoPool /\ phase = "serving"
      BY <1>0, <1>4, PoolCreatedType DEF ConnectSucceeds, ServingInv
    <2>2. ~overrun => open = {} /\ \A s \in Slots : pc'[s] # "connecting"
      BY <1>0, <1>4 DEF ConnectSucceeds, PromptInv, NoPoolLost, TypeOK, NoPool
    <2>3. PromptInv'
      BY <1>4, <2>2 DEF ConnectSucceeds, PoolCreated, PromptInv, NoPoolLost
    <2>4. QED
      BY <1>0, <1>4, <2>1, <2>3 DEF ConnectSucceeds, StartingInv, ServingInv, RecordedInv,
         HealthyMeansPool
  <1>5. QED
    BY <1>1, <1>2, <1>3, <1>4 DEF EnsurePool, Connected

\* The last step of a request, and the steps of the world.
LEMMA UseStep ==
    ASSUME IInv, (\E r \in Slots : UsePool(r)) \/ DatabaseGoesUpOrDown \/ UNCHANGED vars
    PROVE  StartingInv' /\ ServingInv' /\ RecordedInv' /\ PromptInv'
  <1> USE DEF slotVars
  <1>0. TypeOK /\ StartingInv /\ ServingInv /\ RecordedInv /\ PromptInv
    BY DEF IInv
  <1>1. ASSUME NEW r \in Slots, UsePool(r)
        PROVE  StartingInv' /\ ServingInv' /\ RecordedInv' /\ PromptInv'
    <2>1. /\ UNCHANGED <<phase, dbUp, pool, created, open, age, gap, overrun>>
          /\ pc' = [pc EXCEPT ![r] = "idle"]
          /\ pc[r] = "holding"
      BY <1>1 DEF UsePool, QueryAnswers, QueryRaises, ServeFromCache
    <2>2. phase = "serving" /\ pool # NoPool
      BY <1>0, <2>1 DEF ServingInv
    <2>3. \A s \in Slots : pc'[s] \in {pc[s], "idle"}
      BY <1>0, <2>1 DEF TypeOK
    <2>4. QED
      BY <1>0, <2>1, <2>2, <2>3 DEF StartingInv, ServingInv, RecordedInv, PromptInv,
         HealthyMeansPool, NoPoolLost
  <1>2. CASE DatabaseGoesUpOrDown \/ UNCHANGED vars
    BY <1>0, <1>2 DEF DatabaseGoesUpOrDown, vars, StartingInv, ServingInv, RecordedInv,
       PromptInv, HealthyMeansPool, NoPoolLost
  <1>3. QED
    BY <1>1, <1>2

\* Time passing keeps a prompt attempt inside its cooldown.
LEMMA TickStep ==
    ASSUME IInv, Tick
    PROVE  StartingInv' /\ ServingInv' /\ RecordedInv' /\ PromptInv'
  <1> USE DEF slotVars
  <1>0. TypeOK /\ StartingInv /\ ServingInv /\ RecordedInv /\ PromptInv
    BY DEF IInv
  <1>1. age \in Nat /\ gap \in Nat /\ Cooldown \in Nat
    BY <1>0, PoolAssumption DEF TypeOK, Never
  <1>2. UNCHANGED <<phase, dbUp, pool, created, open, pc, lastDbOk>>
    BY DEF Tick
  <1>3. StartingInv' /\ RecordedInv'
    BY <1>0, <1>1, <1>2 DEF Tick, StartingInv, RecordedInv, Older, Never
  <1>4. PromptInv'
    <2> SUFFICES ASSUME ~overrun' PROVE PromptInv'
      BY DEF PromptInv
    <2>1. ~overrun /\ ~(age + 1 >= Cooldown /\ \E r \in Slots : pc[r] = "connecting")
      BY Zenon DEF Tick
    <2>2. /\ \A r \in Slots : pc[r] = "connecting" => pool = NoPool
          /\ \A r, s \in Slots : pc[r] = "connecting" /\ pc[s] = "connecting" => r = s
          /\ NoPoolLost
      BY <1>0, <2>1 DEF PromptInv
    <2>3. \A r \in Slots : pc[r] = "connecting" => age' < Cooldown
      BY <1>1, <2>1 DEF Tick, Older
    <2>4. QED
      BY <1>2, <2>2, <2>3 DEF PromptInv, NoPoolLost
  <1>5. ServingInv'
    BY <1>0, <1>2 DEF ServingInv, HealthyMeansPool
  <1>6. QED
    BY <1>3, <1>4, <1>5

\* The inductive invariant of the pool.
LEMMA Inductive == Spec => []IInv
  <1>1. Init => IInv
    <2>1. Init => StartingInv /\ ServingInv /\ RecordedInv
      BY DEF Init, StartingInv, ServingInv, RecordedInv, HealthyMeansPool
    <2>2. Init => NoPoolLost /\ \A r \in Slots : pc[r] = "idle"
      BY DEF Init, NoPoolLost
    <2>3. Init => PromptInv
      BY <2>2 DEF PromptInv
    <2>4. QED
      BY <2>1, <2>3, StartsTyped DEF IInv
  <1>2. IInv /\ TypeOK' /\ [Next]_vars => IInv'
    BY LifespanStep, EnsureStep, UseStep, TickStep DEF Next, IInv
  <1>3. QED
    BY <1>1, <1>2, TypeCorrect, PTL DEF Spec

\* After a healthy probe no read lacks a pool while the process serves.
THEOREM HealthIsServed == Spec => []HealthyMeansPool
  BY Inductive, PTL DEF IInv, ServingInv

\* As long as connects end within the cooldown there is one pool at a time.
THEOREM OnePoolWhenPrompt == Spec => []SinglePool
  <1>1. IInv => SinglePool
    BY DEF IInv, PromptInv, SinglePool
  <1>2. QED
    BY <1>1, Inductive, PTL

\* On-demand attempts begin a cooldown apart, however long connects hang.
THEOREM AttemptsAreSpaced == Spec => AttemptsSpaced
  <1>1. IInv /\ [Next]_vars =>
          [(\E r \in Slots : pc[r] = "idle" /\ pc'[r] = "connecting") => gap = Cooldown]_vars
    <2> SUFFICES ASSUME IInv, [Next]_vars, NEW r \in Slots, pc[r] = "idle", pc'[r] = "connecting"
                 PROVE  gap = Cooldown
      OBVIOUS
    <2>0. pc \in [Slots -> {"idle", "connecting", "holding"}]
      BY DEF IInv, TypeOK
    <2>1. PICK s \in Slots : BeginConnect(s)
      BY <2>0 DEF Next, StartupOpensPool, StartupFails, BeginClose, EndClose, EnsurePool,
         GetOpenPool, RefuseInCooldown, Connected, ConnectSucceeds, ConnectFails, UsePool,
         QueryAnswers, QueryRaises, ServeFromCache, Tick, DatabaseGoesUpOrDown, vars, slotVars
    <2>2. /\ phase = "serving" /\ pool = NoPool /\ ~(age < Cooldown)
          /\ age = gap \/ gap = Cooldown
      BY <2>1 DEF BeginConnect, Arrive, InCooldown, IInv, RecordedInv
    <2>3. gap \in 0..Cooldown /\ Cooldown \in Nat
      BY PoolAssumption DEF IInv, TypeOK
    <2>4. QED
      BY <2>2, <2>3
  <1>2. QED
    BY <1>1, Inductive, PTL DEF Spec, AttemptsSpaced
=============================================================================

---------------------------- MODULE BulkRefresh ----------------------------
(***************************************************************************)
(* What a bulk refresh promises its caller (docs/operations/               *)
(* scheduled-ingest.md, Guarantees and Exit codes): every listed symbol is *)
(* settled once, as refreshed or, when all its tries have failed, as       *)
(* failed; the report is given once, after the last one is settled, and    *)
(* names exactly the failed ones. A run that dies gives no report.         *)
(***************************************************************************)
EXTENDS Naturals, Sequences

CONSTANTS
    Lists,      \* the symbol lists a run may resolve to
    Retries     \* retries per symbol after the first attempt

VARIABLES
    list,       \* the symbols of the run, in order
    stage,      \* "idle", "running" or "over"
    outcome,    \* of each position: "pending", "ok" or "failed"
    tries,      \* failed tries of each position
    report      \* positions attempted and failed, once the run is over

vars == <<list, stage, outcome, tries, report>>

NoReport == [attempted |-> 0, failures |-> {}]

Init ==
    /\ list = <<>> /\ stage = "idle" /\ report = NoReport
    /\ outcome = <<>> /\ tries = <<>>

\* A run begins, unless there is nothing to refresh.
Begin ==
    /\ stage = "idle"
    /\ \E l \in Lists :
         /\ list' = l
         /\ outcome' = [t \in DOMAIN l |-> "pending"]
         /\ tries' = [t \in DOMAIN l |-> 0]
         /\ stage' = IF l = <<>> THEN "over" ELSE "running"
    /\ UNCHANGED report

Succeed(t) ==
    /\ stage = "running" /\ outcome[t] = "pending"
    /\ outcome' = [outcome EXCEPT ![t] = "ok"]
    /\ UNCHANGED <<list, stage, tries, report>>

\* A failed try: the last one settles the symbol.
Fail(t) ==
    /\ stage = "running" /\ outcome[t] = "pending"
    /\ tries' = [tries EXCEPT ![t] = @ + 1]
    /\ outcome' = IF tries[t] = Retries THEN [outcome EXCEPT ![t] = "failed"] ELSE outcome
    /\ UNCHANGED <<list, stage, report>>

Publish ==
    /\ stage = "running" /\ \A t \in DOMAIN list : outcome[t] # "pending"
    /\ report' = [attempted |-> Len(list),
                  failures |-> {t \in DOMAIN list : outcome[t] = "failed"}]
    /\ stage' = "over"
    /\ UNCHANGED <<list, outcome, tries>>

\* The run raises before it begins, or dies.
Stop ==
    /\ stage # "over" /\ stage' = "over"
    /\ UNCHANGED <<list, outcome, tries, report>>

\* The next run, after one that died.
Again ==
    /\ stage = "over" /\ report = NoReport
    /\ list' = <<>> /\ outcome' = <<>> /\ tries' = <<>> /\ stage' = "idle"
    /\ UNCHANGED report

Next ==
    \/ Begin \/ Publish \/ Stop \/ Again
    \/ \E t \in DOMAIN list : Succeed(t) \/ Fail(t)

Spec == Init /\ [][Next]_vars
=============================================================================

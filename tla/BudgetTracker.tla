---------------------------- MODULE BudgetTracker ----------------------------
(***************************************************************************)
(* The broker's in-memory model budget (broker/budget.py): hourly counters *)
(* per target and for all targets, each reset when it is next looked at an *)
(* hour or more after its last reset, and a count of the requests under    *)
(* way.  A caller asks can_request and, if allowed, calls record_request   *)
(* in the same step; it calls release_request later, perhaps too often.    *)
(***************************************************************************)
EXTENDS Integers, FiniteSets

CONSTANTS
    BudgetTargets,
    Hour,            \* 3600 s
    DeepPerTarget,   \* DEEP_PER_TARGET_PER_HOUR, 5
    CoderPerTarget,  \* CODER_PER_TARGET_PER_HOUR, 3
    DeepGlobal,      \* DEEP_GLOBAL_PER_HOUR, 20
    MaxConcurrency,  \* MAX_DEEP_CODER_CONCURRENCY, 3
    MaxClock         \* bound of the model on time.monotonic()

ASSUME BudgetAssumption ==
    /\ Hour \in Nat \ {0}
    /\ {DeepPerTarget, CoderPerTarget, DeepGlobal, MaxConcurrency} \subseteq Nat
    /\ MaxClock \in Nat

Models == {"deep", "coder"}  \* fast, plan and embed are never counted

VARIABLES
    known,       \* targets that have an entry
    used,        \* its counters per model and target
    targetReset, \* its last_reset
    globalDeep,  \* _global_deep_requests
    globalReset, \* _global_reset_time
    underWay,    \* _current_deep_coder_count
    requests,    \* _active_requests
    clock,       \* time.monotonic()
    granted      \* requests recorded: model, target, time and which of these (history)

trackerVars ==
    <<known, used, targetReset, globalDeep, globalReset, underWay, requests, clock, granted>>

Times == 0..MaxClock

TrackerTypeOK ==
    /\ known \subseteq BudgetTargets
    /\ used \in [Models -> [BudgetTargets -> Nat]]
    /\ targetReset \in [BudgetTargets -> Times]
    /\ globalDeep \in Nat
    /\ globalReset \in Times
    /\ underWay \in Nat
    /\ requests \in [Models -> [BudgetTargets -> Nat]]
    /\ clock \in Times
    /\ granted \subseteq [model : Models, target : BudgetTargets, at : Times, nth : Nat]

TrackerInit ==
    /\ known = {}
    /\ used = [m \in Models |-> [t \in BudgetTargets |-> 0]]
    /\ targetReset = [t \in BudgetTargets |-> 0]
    /\ globalDeep = 0
    /\ globalReset = 0
    /\ underWay = 0
    /\ requests = [m \in Models |-> [t \in BudgetTargets |-> 0]]
    /\ clock = 0
    /\ granted = {}

\* An hour has passed since a reset.
Expired(reset) == clock - reset >= Hour

\* The counters a look at them finds, after the reset they may be due.
Used(m, t)  == IF t \notin known \/ Expired(targetReset[t]) THEN 0 ELSE used[m][t]
GlobalUsed  == IF Expired(globalReset) THEN 0 ELSE globalDeep
Limit(m)    == IF m = "deep" THEN DeepPerTarget ELSE CoderPerTarget

\* Mutant: an expired entry is emptied but its last_reset is not renewed.
LookWithoutRenewal(t) ==
    /\ known' = known \cup {t}
    /\ targetReset' = [targetReset EXCEPT ![t] = IF t \notin known THEN clock ELSE @]

\* _get_target_budget: create or reset the entry of a target.
LookAtTarget(t) ==
    /\ known' = known \cup {t}
    /\ targetReset' = [targetReset EXCEPT ![t] =
                         IF t \notin known \/ Expired(@) THEN clock ELSE @]

LookAtGlobal(m) ==
    globalReset' = IF m = "deep" /\ Expired(globalReset) THEN clock ELSE globalReset

CanRequest(m, t) ==
    /\ m = "deep" => GlobalUsed < DeepGlobal
    /\ Used(m, t) < Limit(m)
    /\ underWay < MaxConcurrency

\* The history's entry of a request recorded now: the nth of its model and target
\* at this time.
NextGrant(m, t) ==
    [model |-> m, target |-> t, at |-> clock,
     nth |-> Cardinality({g \in granted : g.model = m /\ g.target = t /\ g.at = clock})]

\* can_request and, since it is allowed, record_request.
Request(m, t) ==
    /\ CanRequest(m, t)
    /\ LookAtTarget(t)
    /\ LookAtGlobal(m)
    /\ used' = [n \in Models |->
                  [used[n] EXCEPT ![t] = Used(n, t) + IF n = m THEN 1 ELSE 0]]
    /\ globalDeep' = IF m = "deep" THEN GlobalUsed + 1 ELSE globalDeep
    /\ underWay' = underWay + 1
    /\ requests' = [requests EXCEPT ![m][t] = @ + 1]
    /\ granted' = granted \cup {NextGrant(m, t)}
    /\ UNCHANGED clock

\* can_request alone: refused, yet it performs the resets it passes on its way.
\* An exhausted global budget is found before the target is looked at.
Refused(m, t) ==
    /\ ~CanRequest(m, t)
    /\ LookAtGlobal(m)
    /\ globalDeep' = IF m = "deep" THEN GlobalUsed ELSE globalDeep
    /\ IF m = "deep" /\ GlobalUsed >= DeepGlobal
       THEN UNCHANGED <<known, targetReset, used>>
       ELSE /\ LookAtTarget(t)
            /\ used' = [n \in Models |-> [used[n] EXCEPT ![t] = Used(n, t)]]
    /\ UNCHANGED <<underWay, requests, clock, granted>>

\* Only a matching active request is released; a duplicate release does nothing.
Release(m, t) ==
    /\ requests[m][t] > 0
    /\ requests' = [requests EXCEPT ![m][t] = @ - 1]
    /\ underWay' = IF underWay > 0 THEN underWay - 1 ELSE 0
    /\ UNCHANGED <<known, used, targetReset, globalDeep, globalReset, clock, granted>>

DuplicateRelease(m, t) == requests[m][t] = 0 /\ UNCHANGED trackerVars

Tick ==
    /\ clock < MaxClock
    /\ clock' = clock + 1
    /\ UNCHANGED <<known, used, targetReset, globalDeep, globalReset, underWay, requests, granted>>

TrackerNext ==
    \/ \E m \in Models, t \in BudgetTargets :
         Request(m, t) \/ Refused(m, t) \/ Release(m, t) \/ DuplicateRelease(m, t)
    \/ Tick

TrackerSpec == TrackerInit /\ [][TrackerNext]_trackerVars

-----------------------------------------------------------------------------
(* Properties.                                                             *)

\* Requests of a model granted for a set of targets, and how many of them in the
\* hour that ends at e.
Granted(m, ts)   == {g \in granted : g.model = m /\ g.target \in ts}
InHour(m, ts, e) == Cardinality({g \in Granted(m, ts) : g.at > e - Hour /\ g.at <= e})

\* No hour, wherever it begins, holds more than twice any of the limits: the
\* counters of the targets and the global one are reset at different moments,
\* and a refused request resets them too.
HourlyWithinTwice ==
    \A e \in Times :
        /\ \A m \in Models, t \in BudgetTargets : InHour(m, {t}, e) <= 2 * Limit(m)
        /\ InHour("deep", BudgetTargets, e) <= 2 * DeepGlobal
=============================================================================

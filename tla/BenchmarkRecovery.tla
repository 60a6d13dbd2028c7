-------------------------- MODULE BenchmarkRecovery --------------------------
(***************************************************************************)
(* The offline prototype of benchmark recovery                             *)
(* (router/offline/benchmark-recovery.ts): execute, reconcile and          *)
(* recoverPendingAudits of several MockBenchmarkRecovery objects, each     *)
(* with its own copy of the fixtures, over one action store and one        *)
(* ledger.  Objects of different processes interleave between any two      *)
(* calls of the store; a crash between two of them forgets the fixtures.   *)
(*                                                                         *)
(* The two capabilities and the states they require (faulted, stopped) are *)
(* one: a fixture is "ill" or "healthy".  Everything the schemas and the   *)
(* comparison with the grant refuse is a call that ends before it begins.  *)
(* Time is a clock that only goes forward: MaxTime bounds it.              *)
(***************************************************************************)
EXTENDS ActionStore

CONSTANTS
    Objects,    \* MockBenchmarkRecovery instances
    Calls,      \* concurrent calls of execute, reconcile and recoverPendingAudits
    Nobody,     \* the action or object of a call that is not running
    Freshness,  \* 30 seconds: the greatest age of an observation
    MaxSetbacks \* bound of the model on failures and restarts

ASSUME RecoveryAssumption ==
    /\ Nobody \notin ActionIds \cup Objects
    /\ Freshness \in Nat
    /\ MaxSetbacks \in Nat
    /\ Cooldown > 2 * Freshness

VARIABLES
    fixture,     \* resources: per object and target, "ill" or "healthy"
    binding,     \* mock_bindings: the target and purpose an id was bound to
    call,        \* the calls that are running
    ledger,      \* what the audit ledger says of each action
    setbacks,    \* failures and restarts so far
    dispatched,  \* the actions whose effect took place (history)
    reported     \* the actions a caller was told were executed (history)

recoveryVars == <<storeVars, fixture, binding, call, ledger, setbacks, dispatched,
                  reported>>

Conditions == {"ill", "healthy"}
NoBinding == [target |-> NoTarget, purpose |-> "none"]
NoCall == [at |-> "idle", object |-> Nobody, action |-> Nobody, target |-> NoTarget,
           purpose |-> "none", observed |-> 0, todo |-> {}]

RecoveryInit ==
    /\ StoreInit
    /\ fixture \in [Objects -> [Targets -> Conditions]]
    /\ binding = [a \in ActionIds |-> NoBinding]
    /\ call = [c \in Calls |-> NoCall]
    /\ ledger = [a \in ActionIds |-> {}]
    /\ setbacks = 0
    /\ dispatched = {}
    /\ reported = {}

------------------------------------------------------------------------------
(* Steps of a call.                                                         *)

CallAt(c, step) == call[c].at = step
Goto(c, step) == call' = [call EXCEPT ![c].at = step]
Over(c) == call' = [call EXCEPT ![c] = NoCall]

\* Steps that follow the one before without an await: no other call of the same
\* object comes in between, though calls of other processes may.
Unawaited == {"bind", "claim", "reserve", "intent", "dispatch", "release", "unlock", "list"}

Alone(c) == \A d \in Calls \ {c} :
    call[d].object = call[c].object => call[d].at \notin Unawaited

\* A call begins when its object is not in the middle of something.
Arrives(c, o) ==
    /\ CallAt(c, "idle")
    /\ \A d \in Calls : call[d].object = o => call[d].at \notin Unawaited

Record(a, e) == ledger' = [ledger EXCEPT ![a] = @ \cup {e}]

Setback == setbacks < MaxSetbacks /\ setbacks' = setbacks + 1

\* appendAuditEvent is awaited: it returns with the event recorded, or throws
\* with or without it; good and bad are what follows.
Appends(c, e, good, bad) ==
    \/ Record(call[c].action, e) /\ good /\ UNCHANGED setbacks
    \/ /\ Setback
       /\ ledger' \in {ledger, [ledger EXCEPT ![call[c].action] = @ \cup {e}]}
       /\ bad

IsFresh(time) == time <= now /\ now - time <= Freshness

\* A cleanup names a recovery of the same target that was carried out.
MayClean(t) ==
    \E p \in ActionIds :
        /\ binding[p] = [target |-> t, purpose |-> "recovery"]
        /\ status[p] = "EXECUTED"

\* execute up to its first await: the observation is fresh and describes the
\* object's own fixture, which is ill.
AskExecute(c, o, a, t) ==
    /\ Arrives(c, o)
    /\ fixture[o][t] = "ill"
    /\ \E purpose \in {"recovery", "cleanup"}, time \in 0..now :
        /\ purpose = "cleanup" => MayClean(t)
        /\ IsFresh(time)
        /\ call' = [call EXCEPT ![c] = [at |-> "check", object |-> o, action |-> a,
                       target |-> t, purpose |-> purpose, observed |-> time, todo |-> {}]]
    /\ UNCHANGED <<storeVars, fixture, binding, ledger, setbacks, dispatched, reported>>

\* The ledger does not verify, or the target has an unresolved action.
Check(c) ==
    /\ CallAt(c, "check")
    /\ \/ call[c].target \notin PendingRecoveryTargets /\ Goto(c, "bind")
       \/ Over(c)
    /\ UNCHANGED <<storeVars, fixture, binding, ledger, setbacks, dispatched, reported>>

\* INSERT INTO mock_bindings: the primary key is taken for good.
Bind(c) ==
    LET a == call[c].action
    IN  /\ CallAt(c, "bind")
        /\ \/ /\ binding[a] = NoBinding
              /\ binding' = [binding EXCEPT ![a] =
                    [target |-> call[c].target, purpose |-> call[c].purpose]]
              /\ Goto(c, "claim")
           \/ binding[a] # NoBinding /\ Over(c) /\ UNCHANGED binding
        /\ UNCHANGED <<storeVars, fixture, ledger, setbacks, dispatched, reported>>

ClaimBound(c) ==
    /\ CallAt(c, "claim")
    /\ \/ Claim(call[c].action, call[c].target) /\ Goto(c, "reserve")
       \/ IsDuplicate(call[c].action) /\ Over(c) /\ UNCHANGED storeVars
    /\ UNCHANGED <<fixture, binding, ledger, setbacks, dispatched, reported>>

Reserve(c) ==
    LET a == call[c].action
        t == call[c].target
    IN  /\ CallAt(c, "reserve")
        /\ \/ ReserveBudget(a, t) /\ Goto(c, "intent")
           \/ ~CanReserve(a, t) /\ Fail(a) /\ Over(c)
        /\ UNCHANGED <<fixture, binding, ledger, setbacks, dispatched, reported>>

\* The audit append 'mock_reserved'.
RecordReserved(c) ==
    /\ CallAt(c, "intent")
    /\ Appends(c, "reserved", Goto(c, "begin"), Goto(c, "fail"))
    /\ UNCHANGED <<storeVars, fixture, binding, dispatched, reported>>

\* Mutant: grant and observation are not looked at again.
BeginUnchecked(c) ==
    /\ CallAt(c, "begin")
    /\ BeginExecution(call[c].action)
    /\ Goto(c, "dispatch")
    /\ UNCHANGED <<fixture, binding, ledger, setbacks, dispatched, reported>>

\* The observation must still be fresh and the grant valid (it may have
\* lapsed); then beginExecution.
Begin(c) ==
    /\ CallAt(c, "begin")
    /\ \/ /\ IsFresh(call[c].observed)
          /\ BeginExecution(call[c].action)
          /\ Goto(c, "dispatch")
          /\ UNCHANGED setbacks
       \/ /\ IF IsFresh(call[c].observed) THEN Setback ELSE UNCHANGED setbacks
          /\ Goto(c, "fail") /\ UNCHANGED storeVars
    /\ UNCHANGED <<fixture, binding, ledger, dispatched, reported>>

\* The effect, the only one there is; the caller may ask for a failure after it.
Dispatch(c) ==
    LET k == call[c]
    IN  /\ CallAt(c, "dispatch")
        /\ fixture' = [fixture EXCEPT ![k.object][k.target] = "healthy"]
        /\ dispatched' = dispatched \cup {k.action}
        /\ \/ Goto(c, "outcome") /\ UNCHANGED setbacks
           \/ Goto(c, "uncertain") /\ Setback
        /\ UNCHANGED <<storeVars, binding, ledger, reported>>

\* The audit append 'mock_executed'.
RecordExecuted(c) ==
    /\ CallAt(c, "outcome")
    /\ Appends(c, "executed", Goto(c, "complete"), Goto(c, "uncertain"))
    /\ UNCHANGED <<storeVars, fixture, binding, dispatched, reported>>

\* Mutant: the caller is told of success although complete threw.
CompleteAndReport(c) ==
    LET a == call[c].action
    IN  /\ CallAt(c, "complete")
        /\ \/ Complete(a) /\ Goto(c, "release") /\ UNCHANGED reported
           \/ /\ status[a] # "EXECUTING"
              /\ reported' = reported \cup {a}
              /\ Over(c) /\ UNCHANGED storeVars
        /\ UNCHANGED <<fixture, binding, ledger, setbacks, dispatched>>

\* complete throws when reconcile took the action away during the append.
CompleteCall(c) ==
    /\ CallAt(c, "complete")
    /\ \/ Complete(call[c].action) /\ Goto(c, "release")
       \/ /\ status[call[c].action] # "EXECUTING"
          /\ Goto(c, "uncertain") /\ UNCHANGED storeVars
    /\ UNCHANGED <<fixture, binding, ledger, setbacks, dispatched, reported>>

ReleaseCall(c) ==
    /\ CallAt(c, "release")
    /\ ReleaseBudget(call[c].action)
    /\ reported' = reported \cup {call[c].action}
    /\ Over(c)
    /\ UNCHANGED <<fixture, binding, ledger, setbacks, dispatched>>

\* The catch after the effect: needsReconciliation, whose own error is ignored.
Uncertain(c) ==
    /\ CallAt(c, "uncertain")
    /\ \/ NeedsReconciliation(call[c].action)
       \/ status[call[c].action] # "EXECUTING" /\ UNCHANGED storeVars
    /\ Over(c)
    /\ UNCHANGED <<fixture, binding, ledger, setbacks, dispatched, reported>>

\* The catch before it: fail, then releaseBudget.
FailCall(c) ==
    LET a == call[c].action
    IN  /\ \/ CallAt(c, "fail") /\ Fail(a) /\ Goto(c, "unlock")
           \/ CallAt(c, "unlock") /\ ReleaseBudget(a) /\ Over(c)
        /\ UNCHANGED <<fixture, binding, ledger, setbacks, dispatched, reported>>

ExecuteStep(c) ==
    \/ Check(c) \/ Bind(c) \/ ClaimBound(c) \/ Reserve(c) \/ RecordReserved(c)
    \/ Begin(c) \/ Dispatch(c) \/ RecordExecuted(c) \/ CompleteCall(c)
    \/ ReleaseCall(c) \/ Uncertain(c) \/ FailCall(c)

------------------------------------------------------------------------------
(* Reconciliation.                                                          *)

\* reconcile up to its first await: the id is bound, the observation and the
\* object's own fixture are healthy.
AskReconcile(c, o, a) ==
    /\ Arrives(c, o)
    /\ binding[a] # NoBinding
    /\ fixture[o][binding[a].target] = "healthy"
    /\ call' = [call EXCEPT ![c] = [NoCall EXCEPT !.at = "verify", !.object = o, !.action = a]]
    /\ UNCHANGED <<storeVars, fixture, binding, ledger, setbacks, dispatched, reported>>

\* verifyAuditLedger returned; "An EXECUTING crash is uncertain".
TakeAway(c) ==
    LET a == call[c].action
    IN  /\ CallAt(c, "verify")
        /\ \/ NeedsReconciliation(a) /\ Goto(c, "verified")
           \/ status[a] = "NEEDS_RECONCILIATION" /\ Goto(c, "verified") /\ UNCHANGED storeVars
           \/ Over(c) /\ UNCHANGED storeVars
        /\ UNCHANGED <<fixture, binding, ledger, setbacks, dispatched, reported>>

RecordIntent(c) ==
    /\ CallAt(c, "verified")
    /\ Appends(c, "intent", Goto(c, "resolve"), Over(c))
    /\ UNCHANGED <<storeVars, fixture, binding, dispatched, reported>>

Resolve(c) ==
    LET a == call[c].action
    IN  /\ CallAt(c, "resolve")
        /\ \/ ResolveReconciliation(a) /\ Goto(c, "list")
           \/ /\ status[a] # "NEEDS_RECONCILIATION" \/ ~HoldsLock(a)
              /\ Over(c) /\ UNCHANGED storeVars
        /\ UNCHANGED <<fixture, binding, ledger, setbacks, dispatched, reported>>

AskRecover(c, o) ==
    /\ Arrives(c, o)
    /\ call' = [call EXCEPT ![c] = [NoCall EXCEPT !.at = "list", !.object = o]]
    /\ UNCHANGED <<storeVars, fixture, binding, ledger, setbacks, dispatched, reported>>

\* getPendingReconciliationAudits is read once.
ListPending(c) ==
    /\ CallAt(c, "list")
    /\ call' = [call EXCEPT ![c].at = "next", ![c].todo = PendingAudits]
    /\ UNCHANGED <<storeVars, fixture, binding, ledger, setbacks, dispatched, reported>>

\* Each is published and then marked; an error leaves the rest.
PublishNext(c) ==
    /\ CallAt(c, "next")
    /\ \/ call[c].todo = {} /\ Over(c) /\ UNCHANGED <<ledger, setbacks>>
       \/ \E a \in call[c].todo :
             \/ /\ Record(a, "reconciled") /\ UNCHANGED setbacks
                /\ call' = [call EXCEPT ![c].at = "mark", ![c].action = a,
                                        ![c].todo = @ \ {a}]
             \/ /\ Setback
                /\ ledger' \in {ledger, [ledger EXCEPT ![a] = @ \cup {"reconciled"}]}
                /\ Over(c)
    /\ UNCHANGED <<storeVars, fixture, binding, dispatched, reported>>

MarkPublished(c) ==
    LET a == call[c].action
    IN  /\ CallAt(c, "mark")
        /\ \/ MarkReconciliationAuditDelivered(a) /\ Goto(c, "next")
           \/ outbox[a] # "pending" /\ Over(c) /\ UNCHANGED storeVars
        /\ UNCHANGED <<fixture, binding, ledger, setbacks, dispatched, reported>>

ReconcileStep(c) ==
    \/ TakeAway(c) \/ RecordIntent(c) \/ Resolve(c) \/ ListPending(c)
    \/ PublishNext(c) \/ MarkPublished(c)

------------------------------------------------------------------------------
(* Crashes, new objects and time.                                           *)

\* The object's process ends and another takes fixtures as they are then.
NewObject(o) ==
    /\ Setback
    /\ call' = [c \in Calls |-> IF call[c].object = o THEN NoCall ELSE call[c]]
    /\ \E rows \in [Targets -> Conditions] : fixture' = [fixture EXCEPT ![o] = rows]
    /\ UNCHANGED <<storeVars, binding, ledger, dispatched, reported>>

\* No time passes between the last look at the clock and the effect: nothing
\* is awaited in between.
TimePasses ==
    /\ now < MaxTime
    /\ \A c \in Calls : ~CallAt(c, "dispatch")
    /\ now' = now + 1
    /\ UNCHANGED <<claimVars, budgetVars, outbox, fixture, binding, call, ledger, setbacks,
                   dispatched, reported>>

RecoveryNext ==
    \/ \E c \in Calls, o \in Objects, a \in ActionIds, t \in Targets : AskExecute(c, o, a, t)
    \/ \E c \in Calls, o \in Objects, a \in ActionIds : AskReconcile(c, o, a)
    \/ \E c \in Calls, o \in Objects : AskRecover(c, o)
    \/ \E c \in Calls : Alone(c) /\ (ExecuteStep(c) \/ ReconcileStep(c))
    \/ \E o \in Objects : NewObject(o)
    \/ TimePasses

RecoverySpec == RecoveryInit /\ [][RecoveryNext]_recoveryVars

------------------------------------------------------------------------------
(* Properties.                                                              *)

\* When the effect takes place, what the observation said of the fixture is
\* still true, though the ledger was verified and appended to in between and
\* another call may have changed it: the cooldown of the target is longer than
\* two observations are good for (lines 131, 136-137).
EvidenceStillHolds ==
    \A c \in Calls : CallAt(c, "dispatch") => fixture[call[c].object][call[c].target] = "ill"

\* An action has one effect and one outcome, whatever crashes and however the
\* call that owns it races a reconciliation (lines 139-150, 172-177): it is not
\* carried out twice; a caller told MOCK_EXECUTED is not contradicted by a
\* "reconciled"; what is reconciled had its intent recorded.
OneOutcome ==
    /\ \A c \in Calls : CallAt(c, "dispatch") => call[c].action \notin dispatched
    /\ \A a \in ActionIds :
        /\ a \in reported =>
              /\ status[a] = "EXECUTED"
              /\ a \in dispatched
              /\ "executed" \in ledger[a] /\ "reconciled" \notin ledger[a]
        /\ status[a] = "RECONCILED" => "intent" \in ledger[a]
        /\ outbox[a] = "delivered" => "reconciled" \in ledger[a]
==============================================================================

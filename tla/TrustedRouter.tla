---------------------------- MODULE TrustedRouter ----------------------------
(***************************************************************************)
(* Trusted router processes (router/src/trusted-router.ts) and operator    *)
(* reconciliations (router/src/recovery/reconciliation.ts) that share one  *)
(* action store, one audit ledger and one backend.                         *)
(*                                                                         *)
(* TrustedRouter.execute is a sequence of store calls, ledger appends and  *)
(* one backend call.  Other processes run between any two of them, and a   *)
(* process may die there, so each is a step with its own program counter.  *)
(* A store call may throw without effect (SQLITE_BUSY after busy_timeout), *)
(* an append may fail before or after the record is in the file, and a     *)
(* verification may fail while another writer is half way through a record *)
(* (module AuditLedger has that detail).                                   *)
(***************************************************************************)
EXTENDS ActionStore

CONSTANTS
    Procs,   \* router processes
    Calls,   \* concurrent TrustedRouter.execute calls
    ProcOf,  \* the process each call runs in
    Recons,  \* operator processes, each running ReconciliationService.reconcile
    NoAction \* the action of a call or service that has none

ASSUME RouterAssumption ==
    /\ ProcOf \in [Calls -> Procs]
    /\ Procs \cap Recons = {}
    /\ NoAction \notin ActionIds

VARIABLES
    pc,         \* where each execute call is
    job,        \* its idempotency key
    goal,       \* the target of its payload
    spc,        \* where each service is: a process starting up, or an operator
    subject,    \* the action a service works on
    todo,       \* pending completions a starting process still has to publish
    ledger,     \* <<eventType, actionId>> of the records in the audit ledger
    ledgerOK,   \* no torn record: verifyAuditLedger can succeed
    op,         \* backend.scaleService per action: "none", "running", "finished"
    dispatches  \* how often the backend was called for an action (history)

callVars    == <<pc, job, goal>>
serviceVars == <<spc, subject, todo>>
ledgerVars  == <<ledger, ledgerOK>>
backendVars == <<op, dispatches>>
vars == <<storeVars, callVars, serviceVars, ledgerVars, backendVars>>

Services == Procs \cup Recons

EventTypes == {"tier_used", "executed", "reconciliation_intent", "reconciled"}

CallSteps == {"idle", "verify", "check", "claim", "reserve", "tier", "begin",
              "dispatch", "await", "executed", "complete", "release",
              "uncertain", "fail", "failReserved", "unreserve"}

\* A process is "down", reads the ledger and the outbox ("starting"),
\* publishes what is pending, and is "ready"; an operator is "down" when idle.
ServiceSteps == {"down", "starting", "publishing", "ready",
                 "verify", "inspect", "intent", "resolve",
                 "pubVerify", "pubAppend", "pubMark"}

TypeOK ==
    /\ StoreTypeOK
    /\ pc \in [Calls -> CallSteps]
    /\ job \in [Calls -> ActionIds \cup {NoAction}]
    /\ goal \in [Calls -> Targets \cup {NoTarget}]
    /\ spc \in [Services -> ServiceSteps]
    /\ subject \in [Services -> ActionIds \cup {NoAction}]
    /\ todo \in [Services -> SUBSET ActionIds]
    /\ ledger \subseteq EventTypes \X ActionIds
    /\ ledgerOK \in BOOLEAN
    /\ op \in [ActionIds -> {"none", "running", "finished"}]
    /\ dispatches \in [ActionIds -> Nat]

Init ==
    /\ StoreInit
    /\ pc = [c \in Calls |-> "idle"]
    /\ job = [c \in Calls |-> NoAction]
    /\ goal = [c \in Calls |-> NoTarget]
    /\ spc = [s \in Services |-> "down"]
    /\ subject = [s \in Services |-> NoAction]
    /\ todo = [s \in Services |-> {}]
    /\ ledger = {}
    /\ ledgerOK = TRUE
    /\ op = [a \in ActionIds |-> "none"]
    /\ dispatches = [a \in ActionIds |-> 0]

-----------------------------------------------------------------------------
(* The audit ledger, as its callers see it.                                *)

\* appendAuditEvent returned: the record is durable.  The ledger refuses to
\* grow once it is damaged.
AppendReturns(type, a) ==
    /\ ledgerOK
    /\ ledger' = ledger \cup {<<type, a>>}
    /\ UNCHANGED ledgerOK

\* appendAuditEvent threw: nothing was written (lock timeout, damaged
\* ledger), the record was written (fsync, close or unlink failed), or part
\* of it was, which damages the ledger for good.
AppendThrows(type, a) ==
    \/ UNCHANGED ledgerVars
    \/ AppendReturns(type, a)
    \/ ledgerOK /\ ledgerOK' = FALSE /\ UNCHANGED ledger

-----------------------------------------------------------------------------
(* TrustedRouter.execute.                                                  *)

Goto(c, step) ==
    /\ pc' = [pc EXCEPT ![c] = step]
    /\ UNCHANGED <<job, goal>>

Return(c) ==
    /\ pc' = [pc EXCEPT ![c] = "idle"]
    /\ job' = [job EXCEPT ![c] = NoAction]
    /\ goal' = [goal EXCEPT ![c] = NoTarget]

AtStep(c, step) == pc[c] = step /\ UNCHANGED serviceVars

\* A payload that passes the schema, staleness and coherence gates; one that
\* does not is rejected before any state is touched.
BeginCall(c) ==
    /\ AtStep(c, "idle")
    /\ spc[ProcOf[c]] = "ready"
    /\ \E a \in ActionIds, t \in Targets :
         /\ job' = [job EXCEPT ![c] = a]
         /\ goal' = [goal EXCEPT ![c] = t]
    /\ pc' = [pc EXCEPT ![c] = "verify"]
    /\ UNCHANGED <<storeVars, ledgerVars, backendVars>>

VerifyLedger(c) ==
    /\ AtStep(c, "verify")
    /\ (ledgerOK /\ Goto(c, "check")) \/ Return(c)
    /\ UNCHANGED <<storeVars, ledgerVars, backendVars>>

CheckPending(c) ==
    /\ AtStep(c, "check")
    /\ (goal[c] \notin PendingRecoveryTargets /\ Goto(c, "claim")) \/ Return(c)
    /\ UNCHANGED <<storeVars, ledgerVars, backendVars>>

ClaimAction(c) ==
    /\ AtStep(c, "claim")
    /\ \/ Claim(job[c], goal[c]) /\ Goto(c, "reserve")
       \/ UNCHANGED storeVars /\ Return(c)  \* a duplicate, or the store failed
    /\ UNCHANGED <<ledgerVars, backendVars>>

Reserve(c) ==
    /\ AtStep(c, "reserve")
    /\ \/ ReserveBudget(job[c], goal[c]) /\ Goto(c, "tier")
       \/ UNCHANGED storeVars /\ Goto(c, "fail")
    /\ UNCHANGED <<ledgerVars, backendVars>>

\* Mutant: auditing is best effort, a failed append is swallowed.
AppendTierUsedOrNot(c) ==
    /\ AtStep(c, "tier")
    /\ AppendReturns("tier_used", job[c]) \/ AppendThrows("tier_used", job[c])
    /\ Goto(c, "begin")
    /\ UNCHANGED <<storeVars, backendVars>>

AppendTierUsed(c) ==
    /\ AtStep(c, "tier")
    /\ \/ AppendReturns("tier_used", job[c]) /\ Goto(c, "begin")
       \/ AppendThrows("tier_used", job[c]) /\ Goto(c, "failReserved")
    /\ UNCHANGED <<storeVars, backendVars>>

Begin(c) ==
    /\ AtStep(c, "begin")
    /\ \/ BeginExecution(job[c]) /\ Goto(c, "dispatch")
       \/ UNCHANGED storeVars /\ Goto(c, "failReserved")
    /\ UNCHANGED <<ledgerVars, backendVars>>

Dispatch(c) ==
    /\ AtStep(c, "dispatch")
    /\ op' = [op EXCEPT ![job[c]] = "running"]
    /\ dispatches' = [dispatches EXCEPT ![job[c]] = @ + 1]
    /\ Goto(c, "await")
    /\ UNCHANGED <<storeVars, ledgerVars>>

\* Mutant: a backend call that rejects is tried again.
AwaitOrRetry(c) ==
    /\ AtStep(c, "await")
    /\ \/ op[job[c]] = "finished" /\ Goto(c, "executed")
       \/ Goto(c, "dispatch")
    /\ UNCHANGED <<storeVars, ledgerVars, backendVars>>

\* Mutant: the call resolves when the request is accepted.
AwaitAcceptance(c) ==
    /\ AtStep(c, "await")
    /\ Goto(c, "executed") \/ Goto(c, "uncertain")
    /\ UNCHANGED <<storeVars, ledgerVars, backendVars>>

\* Mutant: a rejected call is handled as one that was never made.
AwaitOrUnreserve(c) ==
    /\ AtStep(c, "await")
    /\ \/ op[job[c]] = "finished" /\ Goto(c, "executed")
       \/ Goto(c, "failReserved")
    /\ UNCHANGED <<storeVars, ledgerVars, backendVars>>

\* The backend resolves only once it has observed the new replica count; it
\* rejects at any time, and the operation may then still be under way.
AwaitBackend(c) ==
    /\ AtStep(c, "await")
    /\ \/ op[job[c]] = "finished" /\ Goto(c, "executed")
       \/ Goto(c, "uncertain")
    /\ UNCHANGED <<storeVars, ledgerVars, backendVars>>

AppendExecuted(c) ==
    /\ AtStep(c, "executed")
    /\ \/ AppendReturns("executed", job[c]) /\ Goto(c, "complete")
       \/ AppendThrows("executed", job[c]) /\ Goto(c, "uncertain")
    /\ UNCHANGED <<storeVars, backendVars>>

CompleteAction(c) ==
    /\ AtStep(c, "complete")
    /\ \/ Complete(job[c]) /\ Goto(c, "release")
       \/ UNCHANGED storeVars /\ Goto(c, "uncertain")
    /\ UNCHANGED <<ledgerVars, backendVars>>

Release(c) ==
    /\ AtStep(c, "release")
    /\ \/ ReleaseBudget(job[c]) /\ Return(c)
       \/ UNCHANGED storeVars /\ Goto(c, "uncertain")
    /\ UNCHANGED <<ledgerVars, backendVars>>

\* The catch block once the backend was started; an exception is swallowed.
MarkUncertain(c) ==
    /\ AtStep(c, "uncertain")
    /\ NeedsReconciliation(job[c]) \/ UNCHANGED storeVars
    /\ Return(c)
    /\ UNCHANGED <<ledgerVars, backendVars>>

\* The catch block before the backend was started.
FailAction(c) ==
    /\ \/ AtStep(c, "fail") /\ Return(c)
       \/ AtStep(c, "failReserved") /\ Goto(c, "unreserve")
    /\ Fail(job[c]) \/ UNCHANGED storeVars
    /\ UNCHANGED <<ledgerVars, backendVars>>

Unreserve(c) ==
    /\ AtStep(c, "unreserve")
    /\ ReleaseBudget(job[c]) \/ UNCHANGED storeVars
    /\ Return(c)
    /\ UNCHANGED <<ledgerVars, backendVars>>

CallStep(c) ==
    \/ VerifyLedger(c) \/ CheckPending(c) \/ ClaimAction(c) \/ Reserve(c)
    \/ AppendTierUsed(c) \/ Begin(c) \/ Dispatch(c) \/ AwaitBackend(c)
    \/ AppendExecuted(c) \/ CompleteAction(c) \/ Release(c)
    \/ MarkUncertain(c) \/ FailAction(c) \/ Unreserve(c)

-----------------------------------------------------------------------------
(* Startup recovery and operator reconciliation.                           *)

InService(s, step) == spc[s] = step /\ UNCHANGED <<callVars, backendVars>>

\* A service turns to action a, or to none.
Serve(s, step, a) ==
    /\ spc' = [spc EXCEPT ![s] = step]
    /\ subject' = [subject EXCEPT ![s] = a]

GotoService(s, step) == Serve(s, step, subject[s]) /\ UNCHANGED todo

\* The exception leaves initialize (which may be called again) or reconcile.
GiveUp(s) == Serve(s, "down", NoAction) /\ todo' = [todo EXCEPT ![s] = {}]

StartUp(p) ==
    /\ InService(p, "down")
    /\ GotoService(p, "starting")
    /\ UNCHANGED <<storeVars, ledgerVars>>

\* Mutant: a process is ready without publishing what is pending.
SkipOutbox(p) ==
    /\ InService(p, "starting")
    /\ (ledgerOK /\ GotoService(p, "ready")) \/ GiveUp(p)
    /\ UNCHANGED <<storeVars, ledgerVars>>

\* verifyAuditLedger, then recoverPendingCompletions reads the outbox once.
ReadOutbox(p) ==
    /\ InService(p, "starting")
    /\ \/ /\ ledgerOK
          /\ spc' = [spc EXCEPT ![p] = "publishing"]
          /\ todo' = [todo EXCEPT ![p] = PendingAudits]
          /\ UNCHANGED subject
       \/ GiveUp(p)
    /\ UNCHANGED <<storeVars, ledgerVars>>

\* publishPendingCompletion of the next one; after the last one a process is
\* initialized and an operator is done.
NextPending(s) ==
    /\ InService(s, "publishing")
    /\ \/ todo[s] = {} /\ GotoService(s, IF s \in Procs THEN "ready" ELSE "down")
       \/ \E a \in todo[s] :
            /\ a \in PendingAudits
            /\ Serve(s, "pubVerify", a)
            /\ todo' = [todo EXCEPT ![s] = @ \ {a}]
       \/ todo[s] # {} /\ GiveUp(s)
    /\ UNCHANGED <<storeVars, ledgerVars>>

\* Mutant: an action still executing may be reconciled as well.
AuthorizeExecuting(r) ==
    /\ InService(r, "down")
    /\ \E a \in ActionIds :
         /\ status[a] \in {"EXECUTING", "NEEDS_RECONCILIATION"}
         /\ Serve(r, "verify", a)
    /\ UNCHANGED <<storeVars, ledgerVars, todo>>

\* The operator is authorized and the action is in NEEDS_RECONCILIATION.
Authorize(r) ==
    /\ InService(r, "down")
    /\ \E a \in ActionIds :
         status[a] = "NEEDS_RECONCILIATION" /\ Serve(r, "verify", a)
    /\ UNCHANGED <<storeVars, ledgerVars, todo>>

VerifyForOperator(r) ==
    /\ InService(r, "verify")
    /\ (ledgerOK /\ GotoService(r, "inspect")) \/ GiveUp(r)
    /\ UNCHANGED <<storeVars, ledgerVars>>

\* Mutant: the inspector's observation may be of a change under way.
InspectWithoutWaiting(r) ==
    /\ InService(r, "inspect")
    /\ GotoService(r, "intent") \/ GiveUp(r)
    /\ UNCHANGED <<storeVars, ledgerVars>>

\* The inspector vouches for a target only when nothing is under way on it.
InspectBackend(r) ==
    /\ InService(r, "inspect")
    /\ (op[subject[r]] # "running" /\ GotoService(r, "intent")) \/ GiveUp(r)
    /\ UNCHANGED <<storeVars, ledgerVars>>

AppendIntent(r) ==
    /\ InService(r, "intent")
    /\ \/ AppendReturns("reconciliation_intent", subject[r]) /\ GotoService(r, "resolve")
       \/ AppendThrows("reconciliation_intent", subject[r]) /\ GiveUp(r)
    /\ UNCHANGED storeVars

\* resolveReconciliation, then publishPendingCompletion for this action only.
Resolve(r) ==
    /\ InService(r, "resolve")
    /\ \/ /\ ResolveReconciliation(subject[r])
          /\ Serve(r, "publishing", NoAction)
          /\ todo' = [todo EXCEPT ![r] = {subject[r]}]
       \/ UNCHANGED storeVars /\ GiveUp(r)
    /\ UNCHANGED ledgerVars

PublishVerify(s) ==
    /\ InService(s, "pubVerify")
    /\ (ledgerOK /\ GotoService(s, "pubAppend")) \/ GiveUp(s)
    /\ UNCHANGED <<storeVars, ledgerVars>>

PublishAppend(s) ==
    /\ InService(s, "pubAppend")
    /\ \/ AppendReturns("reconciled", subject[s]) /\ GotoService(s, "pubMark")
       \/ AppendThrows("reconciled", subject[s]) /\ GiveUp(s)
    /\ UNCHANGED storeVars

PublishMark(s) ==
    /\ InService(s, "pubMark")
    /\ \/ /\ MarkReconciliationAuditDelivered(subject[s])
          /\ Serve(s, "publishing", NoAction)
          /\ UNCHANGED todo
       \/ UNCHANGED storeVars /\ GiveUp(s)
    /\ UNCHANGED ledgerVars

ServiceStep(s) ==
    \/ NextPending(s) \/ PublishVerify(s) \/ PublishAppend(s) \/ PublishMark(s)

StartupStep(p) == StartUp(p) \/ ReadOutbox(p) \/ ServiceStep(p)

OperatorStep(r) ==
    \/ VerifyForOperator(r) \/ InspectBackend(r) \/ AppendIntent(r)
    \/ Resolve(r) \/ ServiceStep(r)

-----------------------------------------------------------------------------
(* The backend and crashes.                                                *)

BackendFinishes(a) ==
    /\ op[a] = "running"
    /\ op' = [op EXCEPT ![a] = "finished"]
    /\ UNCHANGED <<storeVars, callVars, serviceVars, ledgerVars, dispatches>>

\* A router process dies with every call in it; the store, the ledger and an
\* operation already handed to the backend remain.
Crash(p) ==
    /\ GiveUp(p)
    /\ pc' = [c \in Calls |-> IF ProcOf[c] = p THEN "idle" ELSE pc[c]]
    /\ job' = [c \in Calls |-> IF ProcOf[c] = p THEN NoAction ELSE job[c]]
    /\ goal' = [c \in Calls |-> IF ProcOf[c] = p THEN NoTarget ELSE goal[c]]
    /\ UNCHANGED <<storeVars, ledgerVars, backendVars>>

OperatorCrash(r) ==
    /\ GiveUp(r)
    /\ UNCHANGED <<storeVars, callVars, ledgerVars, backendVars>>

ClockTicks ==
    /\ ClockMoves
    /\ UNCHANGED <<callVars, serviceVars, ledgerVars, backendVars>>

Next ==
    \/ \E c \in Calls : BeginCall(c)
    \/ \E c \in Calls : CallStep(c)
    \/ \E p \in Procs : StartupStep(p)
    \/ \E r \in Recons : Authorize(r)
    \/ \E r \in Recons : OperatorStep(r)
    \/ \E a \in ActionIds : BackendFinishes(a)
    \/ \E p \in Procs : Crash(p)
    \/ \E r \in Recons : OperatorCrash(r)
    \/ ClockTicks

Spec == Init /\ [][Next]_vars

\* A process that is down is started again and, tried often enough, gets each
\* step of its recovery through: the premise of the liveness property only.
Recovery(p) ==
    /\ SF_vars(StartUp(p))
    /\ SF_vars(ReadOutbox(p) /\ spc'[p] # "down")
    /\ SF_vars(NextPending(p) /\ spc'[p] # "down")
    /\ SF_vars(PublishVerify(p) /\ spc'[p] # "down")
    /\ SF_vars(PublishAppend(p) /\ spc'[p] # "down")
    /\ SF_vars(PublishMark(p) /\ spc'[p] # "down")

FairSpec == Spec /\ \A p \in Procs : Recovery(p)

-----------------------------------------------------------------------------
(* Safety.                                                                 *)

\* No action id is ever dispatched to the backend twice, whatever replays,
\* concurrent calls, crashes and reconciliations happen (the claim of
\* execute, lines 167-181, and "must not be retried" of line 222).
AtMostOnceDispatch == \A a \in ActionIds : dispatches[a] <= 1

\* Two actions never change one service at the same time, although the pending
\* check, the claim and the reservation are three transactions, a rejected
\* backend call may still be under way and reconciliation frees the target.
TargetExclusive ==
    \A a, b \in ActionIds :
        (op[a] = "running" /\ op[b] = "running" /\ target[a] = target[b]) => a = b

\* Nothing is done to a service before the intent to do it is in the ledger,
\* and what the store calls settled has its closing record there: an executed
\* action its "executed", a reconciled one its intent, a delivered one its
\* "reconciled" (execute, lines 187-211; reconcile, lines 63-91).
Audited(a) ==
    /\ dispatches[a] > 0 => <<"tier_used", a>> \in ledger
    /\ status[a] = "EXECUTED" => <<"executed", a>> \in ledger
    /\ status[a] = "RECONCILED" => <<"reconciliation_intent", a>> \in ledger
    /\ outbox[a] = "delivered" => <<"reconciled", a>> \in ledger

AuditTrail == \A a \in ActionIds : Audited(a)

\* A status that says the action is over is true of the backend: a failed
\* action never reached it, an executed one finished, and nothing of a
\* reconciled one is still under way.
TrulySettled(a) ==
    /\ status[a] = "FAILED" => dispatches[a] = 0
    /\ status[a] = "EXECUTED" => op[a] = "finished"
    /\ status[a] = "RECONCILED" => op[a] # "running"

SettledIsTrue == \A a \in ActionIds : TrulySettled(a)

\* Until its completion audit is delivered, a reconciled action keeps its
\* target locked (markReconciliationAuditDelivered is the only release).
UndeliveredKeepsLock ==
    \A a \in ActionIds :
        outbox[a] = "pending" => status[a] = "RECONCILED" /\ HoldsLock(a)

\* A target is unlocked only by an action that never reached the backend or
\* whose end is in the ledger, and never while its change is under way.
ReleaseIsSafe ==
    [][\A a \in ActionIds :
          (lock[a] = "active" /\ lock'[a] # "active") =>
             /\ op[a] # "running"
             /\ \/ dispatches[a] = 0
                \/ {<<"executed", a>>, <<"reconciled", a>>} \cap ledger # {}]_vars

\* The router implements the abstract exclusive hold of a target.
Phase(a) ==
    CASE lock[a] = "none" -> "new"
      [] lock[a] = "released" -> "closed"
      [] lock[a] = "active" -> IF dispatches[a] = 0 THEN "holding" ELSE "dispatched"

Abstract == INSTANCE ExclusiveRemediation WITH
    phase <- [a \in ActionIds |-> Phase(a)], on <- lockTarget, effect <- op

\* Every behaviour of the router, its crashes and reconciliations included, is
\* a behaviour of ExclusiveRemediation under the mapping above.
ImplementsExclusiveRemediation == Abstract!Spec

-----------------------------------------------------------------------------
(* Why it holds: who may touch an action, and what is then true of it.     *)

\* A call is known by its action from the start, and owns it once its claim
\* has succeeded.
Owning   == CallSteps \ {"idle", "verify", "check", "claim"}
Owns(c)  == pc[c] \in Owning
Serving(s) == spc[s] \in ServiceSteps \ {"down", "starting", "publishing", "ready"}

InHand ==
    /\ \A c \in Calls : pc[c] # "idle" => job[c] \in ActionIds /\ goal[c] \in Targets
    /\ \A s \in Services : Serving(s) => subject[s] \in ActionIds

OneOwner ==
    \A c, d \in Calls : (Owns(c) /\ Owns(d) /\ job[c] = job[d]) => c = d

\* What the store says of an action while a call owns it.
StatusAt(step) ==
    CASE step \in {"reserve", "tier", "begin", "fail", "failReserved"} -> {"CLAIMED"}
      [] step \in {"dispatch", "await", "executed", "complete"} -> {"EXECUTING"}
      [] step = "release" -> {"EXECUTED"}
      [] step = "uncertain" -> {"EXECUTING", "EXECUTED"}
      [] step = "unreserve" -> {"CLAIMED", "FAILED"}

OwnedAsAt(c) ==
    Owns(c) =>
        /\ status[job[c]] \in StatusAt(pc[c])
        /\ target[job[c]] = goal[c]
        /\ lock[job[c]] = IF pc[c] \in {"reserve", "fail"} THEN "none" ELSE "active"
        /\ pc[c] \in {"begin", "dispatch"} => <<"tier_used", job[c]>> \in ledger
        /\ pc[c] = "dispatch" => dispatches[job[c]] = 0
        /\ pc[c] \in {"executed", "complete"} => op[job[c]] = "finished"
        /\ pc[c] = "complete" => <<"executed", job[c]>> \in ledger

\* What an operator has established about the action it reconciles, and what
\* a publisher about the one it is about to mark delivered.
ServedAsAt(s) ==
    /\ spc[s] \in {"verify", "inspect", "intent", "resolve"} =>
         status[subject[s]] \in {"NEEDS_RECONCILIATION", "RECONCILED"}
    /\ spc[s] \in {"intent", "resolve"} => op[subject[s]] # "running"
    /\ spc[s] = "resolve" => <<"reconciliation_intent", subject[s]>> \in ledger
    /\ spc[s] = "pubMark" => <<"reconciled", subject[s]>> \in ledger

OneLock ==
    \A a, b \in ActionIds :
        (lock[a] = "active" /\ lock[b] = "active" /\ lockTarget[a] = lockTarget[b]) => a = b

\* The claim, the reservation and the backend agree about an action.
Agreed(a) ==
    /\ lock[a] # "none" => status[a] # "NONE" /\ lockTarget[a] = target[a]
    /\ status[a] \in {"NONE", "CLAIMED", "FAILED"} => dispatches[a] = 0
    /\ dispatches[a] <= 1
    /\ dispatches[a] = 0 => op[a] = "none"
    /\ op[a] = "running" =>
         status[a] \in {"EXECUTING", "NEEDS_RECONCILIATION"} /\ lock[a] = "active"
    /\ outbox[a] = "pending" => status[a] = "RECONCILED" /\ HoldsLock(a)

Sound(a) == Agreed(a) /\ Audited(a) /\ TrulySettled(a)

\* The three tables of the store, the calls, the operators, the ledger and the
\* backend agree at every moment: the strengthening from which the safety
\* properties above follow and which every step preserves.
Coordination ==
    /\ InHand /\ OneOwner /\ OneLock
    /\ \A c \in Calls : OwnedAsAt(c)
    /\ \A s \in Services : ServedAsAt(s)
    /\ \A a \in ActionIds : Sound(a)

-----------------------------------------------------------------------------
(* Liveness, and a claim of the documentation.                             *)

\* An approved reconciliation whose audit was not delivered is delivered once
\* a router process restarts, however often it fails or crashes on the way
\* (initialize, lines 53-92), unless the ledger itself is damaged.
RestartDelivers ==
    \A p \in Procs, a \in ActionIds :
        (outbox[a] = "pending" /\ spc[p] = "down")
            ~> (outbox[a] = "delivered" \/ ~ledgerOK)

\* "Existing fail-closed pending states and reconciliation outbox must cover
\* every gap" (docs/design/benchmark-recovery-contract.md): a locked target
\* is in the hands of a running call or is reported as pending.
EveryLockCovered ==
    \A a \in ActionIds :
        lock[a] = "active" =>
            \/ \E c \in Calls : job[c] = a
            \/ lockTarget[a] \in PendingRecoveryTargets
=============================================================================

----------------------------- MODULE ActionStore -----------------------------
(***************************************************************************)
(* The SQLite action store shared by every trusted-router process          *)
(* (router/src/storage/action-store.ts).  Its three tables are functions   *)
(* of the action id: action_claims (status, target), budget_reservations   *)
(* (lock, lockTarget, reservedAt) and reconciliation_outbox (outbox).      *)
(*                                                                         *)
(* One operator per method.  A method is a single statement or one BEGIN   *)
(* IMMEDIATE transaction, so it is one atomic step; its enabling condition *)
(* is the condition under which the method returns instead of throwing.    *)
(* Callers that handle the exception do so in their own modules.           *)
(* StoreNext lets any caller call any method in any order: what holds of   *)
(* StoreSpec holds whatever the callers do.                                *)
(***************************************************************************)
EXTENDS Integers, FiniteSets

CONSTANTS
    ActionIds,    \* idempotency keys
    Targets,      \* services an action may scale
    NoTarget,     \* the target column of a row that does not exist
    Window,       \* 15 minutes: the sliding budget window
    Cooldown,     \* 90 seconds: spacing of two reservations of one target
    TargetLimit,  \* 3: reservations of one target in a window
    GlobalLimit,  \* 8: reservations of all targets in a window
    MaxTime       \* bound of the model on Date.now()

ASSUME StoreAssumption ==
    /\ NoTarget \notin Targets
    /\ IsFiniteSet(ActionIds)
    /\ Window \in Nat \ {0}
    /\ Cooldown \in Nat
    /\ TargetLimit \in Nat \ {0}
    /\ GlobalLimit \in Nat \ {0}
    /\ MaxTime \in Nat

VARIABLES
    status,      \* action_claims.status, "NONE" when there is no row
    target,      \* action_claims.target
    lock,        \* budget_reservations: "none", "active" (1), "released" (0)
    lockTarget,  \* budget_reservations.target
    reservedAt,  \* budget_reservations.reserved_at
    outbox,      \* reconciliation_outbox: "none", "pending" (0), "delivered" (1)
    now          \* Date.now(), the wall clock all processes share

claimVars  == <<status, target>>
budgetVars == <<lock, lockTarget, reservedAt>>
storeVars  == <<status, target, lock, lockTarget, reservedAt, outbox, now>>

Statuses == {"NONE", "CLAIMED", "EXECUTING", "EXECUTED", "FAILED",
             "NEEDS_RECONCILIATION", "RECONCILED"}

StoreTypeOK ==
    /\ status \in [ActionIds -> Statuses]
    /\ target \in [ActionIds -> Targets \cup {NoTarget}]
    /\ lock \in [ActionIds -> {"none", "active", "released"}]
    /\ lockTarget \in [ActionIds -> Targets \cup {NoTarget}]
    /\ reservedAt \in [ActionIds -> Nat]
    /\ outbox \in [ActionIds -> {"none", "pending", "delivered"}]
    /\ now \in Nat

StoreInit ==
    /\ status = [a \in ActionIds |-> "NONE"]
    /\ target = [a \in ActionIds |-> NoTarget]
    /\ lock = [a \in ActionIds |-> "none"]
    /\ lockTarget = [a \in ActionIds |-> NoTarget]
    /\ reservedAt = [a \in ActionIds |-> 0]
    /\ outbox = [a \in ActionIds |-> "none"]
    /\ now = 0

-----------------------------------------------------------------------------
(* Queries.                                                                *)

Reserved == {a \in ActionIds : lock[a] # "none"}

\* Rows of one target that the idx_budget_active_target index allows once.
LockedBy(t) == {a \in ActionIds : lock[a] = "active" /\ lockTarget[a] = t}

RecentAt(time) == {a \in Reserved : reservedAt[a] > time - Window}
RecentOn(t)    == {a \in RecentAt(now) : lockTarget[a] = t}

PendingAudits == {a \in ActionIds : outbox[a] = "pending"}

PendingRecoveryTargets ==
    {target[a] : a \in {b \in ActionIds :
        \/ status[b] \in {"CLAIMED", "EXECUTING", "NEEDS_RECONCILIATION"}
        \/ status[b] = "RECONCILED" /\ outbox[b] = "pending"}}

-----------------------------------------------------------------------------
(* Claims.                                                                 *)

SetStatus(a, from, to) ==
    /\ status[a] = from
    /\ status' = [status EXCEPT ![a] = to]
    /\ UNCHANGED <<target, budgetVars, outbox, now>>

\* Mutant: the claim of a failed action may be taken again.
IsDuplicateUnlessFailed(a) == status[a] \notin {"NONE", "FAILED"}

\* INSERT ... ON CONFLICT DO NOTHING: a second claim of the id is a duplicate.
IsDuplicate(a) == status[a] # "NONE"

Claim(a, t) ==
    /\ ~IsDuplicate(a)
    /\ status' = [status EXCEPT ![a] = "CLAIMED"]
    /\ target' = [target EXCEPT ![a] = t]
    /\ UNCHANGED <<budgetVars, outbox, now>>

BeginExecution(a)      == SetStatus(a, "CLAIMED", "EXECUTING")
Complete(a)            == SetStatus(a, "EXECUTING", "EXECUTED")
Fail(a)                == SetStatus(a, "CLAIMED", "FAILED")
NeedsReconciliation(a) == SetStatus(a, "EXECUTING", "NEEDS_RECONCILIATION")

-----------------------------------------------------------------------------
(* Budget reservations.                                                    *)

\* The trigger block_pending_audit_reservation.
AuditPendingOn(t) == \E a \in PendingAudits : target[a] = t

CooledDown(t) ==
    \A a \in Reserved : lockTarget[a] = t => now - reservedAt[a] >= Cooldown

\* Mutant: the limits are exceeded by one.
CanReserveOneMore(a, t) ==
    /\ LockedBy(t) = {}
    /\ Cardinality(RecentOn(t)) <= TargetLimit
    /\ Cardinality(RecentAt(now)) <= GlobalLimit
    /\ CooledDown(t)
    /\ lock[a] = "none"
    /\ ~AuditPendingOn(t)

\* Mutant: no unique index on the active reservations of a target.
CanReserveUnindexed(a, t) ==
    /\ Cardinality(RecentOn(t)) < TargetLimit
    /\ Cardinality(RecentAt(now)) < GlobalLimit
    /\ CooledDown(t)
    /\ lock[a] = "none"
    /\ ~AuditPendingOn(t)

CanReserve(a, t) ==
    /\ LockedBy(t) = {}
    /\ Cardinality(RecentOn(t)) < TargetLimit
    /\ Cardinality(RecentAt(now)) < GlobalLimit
    /\ CooledDown(t)
    /\ lock[a] = "none"
    /\ ~AuditPendingOn(t)

ReserveBudget(a, t) ==
    /\ CanReserve(a, t)
    /\ lock' = [lock EXCEPT ![a] = "active"]
    /\ lockTarget' = [lockTarget EXCEPT ![a] = t]
    /\ reservedAt' = [reservedAt EXCEPT ![a] = now]
    /\ UNCHANGED <<claimVars, outbox, now>>

ReleaseBudget(a) ==
    /\ lock[a] = "active"
    /\ lock' = [lock EXCEPT ![a] = "released"]
    /\ UNCHANGED <<claimVars, lockTarget, reservedAt, outbox, now>>

-----------------------------------------------------------------------------
(* Reconciliation.                                                         *)

HoldsLock(a) == lock[a] = "active" /\ lockTarget[a] = target[a]

\* Mutant: the target is released before the audit is delivered.
ResolveAndRelease(a) ==
    /\ status[a] = "NEEDS_RECONCILIATION"
    /\ HoldsLock(a)
    /\ outbox[a] = "none"
    /\ status' = [status EXCEPT ![a] = "RECONCILED"]
    /\ outbox' = [outbox EXCEPT ![a] = "pending"]
    /\ lock' = [lock EXCEPT ![a] = "released"]
    /\ UNCHANGED <<target, lockTarget, reservedAt, now>>

ResolveReconciliation(a) ==
    /\ status[a] = "NEEDS_RECONCILIATION"
    /\ HoldsLock(a)
    /\ outbox[a] = "none"
    /\ status' = [status EXCEPT ![a] = "RECONCILED"]
    /\ outbox' = [outbox EXCEPT ![a] = "pending"]
    /\ UNCHANGED <<target, budgetVars, now>>

MarkReconciliationAuditDelivered(a) ==
    /\ status[a] = "RECONCILED"
    /\ HoldsLock(a)
    /\ outbox[a] = "pending"
    /\ outbox' = [outbox EXCEPT ![a] = "delivered"]
    /\ lock' = [lock EXCEPT ![a] = "released"]
    /\ UNCHANGED <<claimVars, lockTarget, reservedAt, now>>

-----------------------------------------------------------------------------
(* The clock, and the store called in any order.                           *)

\* Date.now() is wall-clock time: it advances, and an adjustment may set it back.
ClockMoves ==
    /\ \E time \in 0..MaxTime : now' = time
    /\ UNCHANGED <<claimVars, budgetVars, outbox>>

BudgetNext ==
    \/ \E a \in ActionIds, t \in Targets : ReserveBudget(a, t)
    \/ \E a \in ActionIds : ReleaseBudget(a)
    \/ ClockMoves

StoreNext ==
    \/ \E a \in ActionIds, t \in Targets : Claim(a, t)
    \/ \E a \in ActionIds : BeginExecution(a)
    \/ \E a \in ActionIds : Complete(a)
    \/ \E a \in ActionIds : Fail(a)
    \/ \E a \in ActionIds : NeedsReconciliation(a)
    \/ \E a \in ActionIds : ResolveReconciliation(a)
    \/ \E a \in ActionIds : MarkReconciliationAuditDelivered(a)
    \/ BudgetNext

StoreSpec == StoreInit /\ [][StoreNext]_storeVars

-----------------------------------------------------------------------------
(* What the store promises whatever its callers do.                        *)

\* No sliding window of length Window, wherever it ends, ever holds more than
\* TargetLimit reservations of one target nor more than GlobalLimit in all.
\* reserveBudget counts backwards from the moment of one reservation only, an
\* id released early still counts, and the clock may have been set back since.
WindowBudget ==
    \A end \in 0..MaxTime :
        LET inWindow == {a \in RecentAt(end) : reservedAt[a] <= end}
        IN  /\ Cardinality(inWindow) <= GlobalLimit
            /\ \A t \in Targets :
                 Cardinality({a \in inWindow : lockTarget[a] = t}) <= TargetLimit

\* Two reservations of one target are at least Cooldown apart on the clock,
\* even when the first was released at once or the clock was set back between
\* them (the cooldown check of reserveBudget).
CooldownSpacing ==
    \A a, b \in Reserved :
        (a # b /\ lockTarget[a] = lockTarget[b]) =>
            \/ reservedAt[a] - reservedAt[b] >= Cooldown
            \/ reservedAt[b] - reservedAt[a] >= Cooldown

\* A settled action is never claimed again or revived: no sequence of calls
\* leads out of EXECUTED, FAILED or RECONCILED, and an action id never returns
\* to having no row, so a replayed id stays blocked for good.
SettledForever ==
    [][\A a \in ActionIds :
          /\ status[a] \in {"EXECUTED", "FAILED", "RECONCILED"} => status'[a] = status[a]
          /\ status[a] # "NONE" => status'[a] # "NONE" /\ target'[a] = target[a]
          /\ outbox[a] = "delivered" => outbox'[a] = "delivered"
          /\ lock[a] = "released" => lock'[a] = "released"]_storeVars
=============================================================================

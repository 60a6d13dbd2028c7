-------------------------- MODULE ActionStoreProofs --------------------------
(***************************************************************************)
(* Theorems about the action store, whatever its callers do: the limits of *)
(* reserveBudget hold in every window and settled rows stay settled.       *)
(***************************************************************************)
EXTENDS ActionStore, FiniteSetTheorems, TLAPS

LEMMA StoreStepTyped == StoreTypeOK /\ [StoreNext]_storeVars => StoreTypeOK'
<1> SUFFICES ASSUME StoreTypeOK, [StoreNext]_storeVars PROVE StoreTypeOK'
  OBVIOUS
<1> USE DEF StoreTypeOK, Statuses, claimVars, budgetVars
<1>1. ASSUME NEW a \in ActionIds, NEW t \in Targets, Claim(a, t) PROVE StoreTypeOK'
  BY <1>1 DEF Claim
<1>2. ASSUME NEW a \in ActionIds,
             BeginExecution(a) \/ Complete(a) \/ Fail(a) \/ NeedsReconciliation(a)
      PROVE  StoreTypeOK'
  BY <1>2 DEF BeginExecution, Complete, Fail, NeedsReconciliation, SetStatus
<1>3. ASSUME NEW a \in ActionIds, ResolveReconciliation(a) PROVE StoreTypeOK'
  BY <1>3 DEF ResolveReconciliation
<1>4. ASSUME NEW a \in ActionIds, MarkReconciliationAuditDelivered(a) PROVE StoreTypeOK'
  BY <1>4 DEF MarkReconciliationAuditDelivered
<1>5. ASSUME NEW a \in ActionIds, NEW t \in Targets, ReserveBudget(a, t) PROVE StoreTypeOK'
  BY <1>5 DEF ReserveBudget
<1>6. ASSUME NEW a \in ActionIds, ReleaseBudget(a) PROVE StoreTypeOK'
  BY <1>6 DEF ReleaseBudget
<1>7. CASE ClockMoves \/ UNCHANGED storeVars
  BY <1>7, StoreAssumption DEF ClockMoves, storeVars
<1> QED
  BY <1>1, <1>2, <1>3, <1>4, <1>5, <1>6, <1>7 DEF StoreNext, BudgetNext

\* Every column of the store keeps its type.
THEOREM StoreTypeCorrect == StoreSpec => []StoreTypeOK
<1>1. StoreInit => StoreTypeOK
  BY DEF StoreInit, StoreTypeOK, Statuses
<1> QED
  BY <1>1, StoreStepTyped, PTL DEF StoreSpec

\* Reservations are never removed or changed: a step of the store leaves them
\* as they are or adds the one that reserveBudget has just allowed.
LEMMA ReservationStep ==
  ASSUME StoreTypeOK, [StoreNext]_storeVars
  PROVE  \/ UNCHANGED <<lockTarget, reservedAt, Reserved>>
         \/ \E a \in ActionIds, t \in Targets : ReserveBudget(a, t)
<1>1. ASSUME NEW a \in ActionIds, ReleaseBudget(a) PROVE UNCHANGED <<lockTarget, reservedAt,
             Reserved>>
  BY <1>1 DEF ReleaseBudget, Reserved, StoreTypeOK
<1>2. ASSUME NEW a \in ActionIds, MarkReconciliationAuditDelivered(a)
      PROVE  UNCHANGED <<lockTarget, reservedAt, Reserved>>
  BY <1>2 DEF MarkReconciliationAuditDelivered, HoldsLock, Reserved, StoreTypeOK
<1>3. ASSUME \/ \E a \in ActionIds, t \in Targets : Claim(a, t)
             \/ \E a \in ActionIds :
                  BeginExecution(a) \/ Complete(a) \/ Fail(a) \/ NeedsReconciliation(a)
             \/ \E a \in ActionIds : ResolveReconciliation(a)
             \/ ClockMoves
             \/ UNCHANGED storeVars
      PROVE  UNCHANGED <<lockTarget, reservedAt, Reserved>>
  BY <1>3 DEF Claim, BeginExecution, Complete, Fail, NeedsReconciliation, SetStatus,
     ResolveReconciliation, ClockMoves, storeVars, budgetVars, Reserved
<1> QED
  BY <1>1, <1>2, <1>3 DEF StoreNext, BudgetNext

\* Two reservations of a target are a cooldown apart.
THEOREM Spacing == StoreSpec => []CooldownSpacing
<1>1. StoreInit => CooldownSpacing
  BY DEF StoreInit, CooldownSpacing, Reserved
<1>2. ASSUME StoreTypeOK, CooldownSpacing, [StoreNext]_storeVars PROVE CooldownSpacing'
  <2>1. CASE UNCHANGED <<lockTarget, reservedAt, Reserved>>
    BY <1>2, <2>1 DEF CooldownSpacing
  <2>2. ASSUME NEW a \in ActionIds, NEW t \in Targets, ReserveBudget(a, t)
        PROVE CooldownSpacing'
    <3>1. /\ Reserved' = Reserved \cup {a} /\ a \notin Reserved
          /\ lockTarget' = [lockTarget EXCEPT ![a] = t]
          /\ reservedAt' = [reservedAt EXCEPT ![a] = now]
      BY <1>2, <2>2 DEF ReserveBudget, CanReserve, Reserved, StoreTypeOK
    <3>2. \A b \in Reserved : lockTarget[b] = t => now - reservedAt[b] >= Cooldown
      BY <2>2 DEF ReserveBudget, CanReserve, CooledDown
    <3> QED
      BY <1>2, <3>1, <3>2 DEF CooldownSpacing, StoreTypeOK, Reserved
  <2> QED
    BY <1>2, <2>1, <2>2, ReservationStep
<1> QED
  BY <1>1, <1>2, StoreStepTyped, StoreTypeCorrect, PTL DEF StoreSpec

\* A set that gains at most one element of a set below its limit keeps to it.
LEMMA AtMostOneMore ==
  ASSUME NEW S, NEW T, NEW U, NEW x, NEW n \in Nat,
         IsFiniteSet(U), T \subseteq U, Cardinality(U) < n, S \subseteq T \cup {x}
  PROVE  Cardinality(S) <= n
<1>1. IsFiniteSet(T) /\ Cardinality(T) <= Cardinality(U) /\ Cardinality(U) \in Nat
  BY FS_Subset, FS_CardinalityType
<1>2. IsFiniteSet(T \cup {x}) /\ Cardinality(T \cup {x}) \in {Cardinality(T),
      Cardinality(T) + 1}
  BY <1>1, FS_AddElement
<1>3. IsFiniteSet(S) /\ Cardinality(S) <= Cardinality(T \cup {x})
  BY <1>2, FS_Subset
<1>4. Cardinality(S) \in Nat /\ Cardinality(T) \in Nat
  BY <1>1, <1>3, FS_CardinalityType
<1> QED
  BY <1>1, <1>2, <1>3, <1>4

\* The reservations in the window that ends at e: what WindowBudget counts.
InWindow(e)      == {a \in RecentAt(e) : reservedAt[a] <= e}
InWindowOn(e, t) == {a \in InWindow(e) : lockTarget[a] = t}

\* No window, wherever it ends, holds more reservations than the limits.
THEOREM Windows == StoreSpec => []WindowBudget
<1> DEFINE Within == \A e \in 0..MaxTime :
               /\ Cardinality(InWindow(e)) <= GlobalLimit
               /\ \A t \in Targets : Cardinality(InWindowOn(e, t)) <= TargetLimit
<1>0. WindowBudget <=> Within
  BY DEF WindowBudget, InWindow, InWindowOn
<1>1. StoreInit => Within
  <2>1. StoreInit => \A e, t : InWindow(e) = {} /\ InWindowOn(e, t) = {}
    BY DEF StoreInit, InWindow, InWindowOn, RecentAt, Reserved
  <2> QED
    BY <2>1, FS_EmptySet, StoreAssumption
<1>2. ASSUME StoreTypeOK, Within, [StoreNext]_storeVars PROVE Within'
  <2>1. CASE UNCHANGED <<lockTarget, reservedAt, Reserved>>
    BY <1>2, <2>1 DEF InWindow, InWindowOn, RecentAt
  <2>2. ASSUME NEW x \in ActionIds, NEW u \in Targets, ReserveBudget(x, u),
               NEW e \in 0..MaxTime, NEW t \in Targets
        PROVE  /\ Cardinality(InWindow(e)') <= GlobalLimit
               /\ Cardinality(InWindowOn(e, t)') <= TargetLimit
    <3>0. /\ Reserved' = Reserved \cup {x} /\ x \notin Reserved
          /\ lockTarget' = [lockTarget EXCEPT ![x] = u]
          /\ reservedAt' = [reservedAt EXCEPT ![x] = now]
      BY <1>2, <2>2 DEF ReserveBudget, CanReserve, Reserved, StoreTypeOK
    <3>1. IsFiniteSet(RecentAt(now)) /\ IsFiniteSet(RecentOn(u))
      BY FS_Subset, StoreAssumption DEF RecentAt, RecentOn, Reserved
    <3>2. Cardinality(RecentAt(now)) < GlobalLimit /\ Cardinality(RecentOn(u)) < TargetLimit
      BY <2>2 DEF ReserveBudget, CanReserve
    <3>3. CASE now > e - Window /\ now <= e
      <4>1. InWindow(e) \subseteq RecentAt(now) /\ InWindowOn(e, u) \subseteq RecentOn(u)
        BY <1>2, <3>3, StoreAssumption DEF InWindow, InWindowOn, RecentAt, RecentOn, Reserved,
           StoreTypeOK
      <4>2. /\ InWindow(e)' \subseteq InWindow(e) \cup {x}
            /\ InWindowOn(e, u)' \subseteq InWindowOn(e, u) \cup {x}
            /\ t # u => InWindowOn(e, t)' = InWindowOn(e, t)
        BY <1>2, <3>0 DEF InWindow, InWindowOn, RecentAt, Reserved, StoreTypeOK
      <4>3. Cardinality(InWindow(e)') <= GlobalLimit
        BY <3>1, <3>2, <4>1, <4>2, AtMostOneMore, StoreAssumption
      <4>4. Cardinality(InWindowOn(e, u)') <= TargetLimit
        BY <3>1, <3>2, <4>1, <4>2, AtMostOneMore, StoreAssumption
      <4> QED
        BY <1>2, <4>2, <4>3, <4>4
    <3>4. CASE ~(now > e - Window /\ now <= e)
      <4>1. InWindow(e)' = InWindow(e) /\ InWindowOn(e, t)' = InWindowOn(e, t)
        BY <1>2, <3>0, <3>4 DEF InWindow, InWindowOn, RecentAt, Reserved, StoreTypeOK
      <4> QED
        BY <1>2, <4>1
    <3> QED
      BY <3>3, <3>4
  <2> QED
    BY <1>2, <2>1, <2>2, ReservationStep
<1> QED
  BY <1>0, <1>1, <1>2, StoreStepTyped, StoreTypeCorrect, PTL DEF StoreSpec

\* What is settled stays settled.
THEOREM Settled == StoreSpec => SettledForever
<1> DEFINE Keeps == \A a \in ActionIds :
               /\ status[a] \in {"EXECUTED", "FAILED", "RECONCILED"} => status'[a] = status[a]
               /\ status[a] # "NONE" => status'[a] # "NONE" /\ target'[a] = target[a]
               /\ outbox[a] = "delivered" => outbox'[a] = "delivered"
               /\ lock[a] = "released" => lock'[a] = "released"
<1>1. ASSUME StoreTypeOK, StoreNext PROVE Keeps
  <2> USE <1>1 DEF StoreTypeOK, claimVars, budgetVars
  <2>1. ASSUME NEW a \in ActionIds, NEW t \in Targets, Claim(a, t) PROVE Keeps
    BY <2>1 DEF Claim, IsDuplicate
  <2>2. ASSUME NEW a \in ActionIds,
               BeginExecution(a) \/ Complete(a) \/ Fail(a) \/ NeedsReconciliation(a)
        PROVE  Keeps
    BY <2>2 DEF BeginExecution, Complete, Fail, NeedsReconciliation, SetStatus
  <2>3. ASSUME NEW a \in ActionIds, ResolveReconciliation(a)
               \/ MarkReconciliationAuditDelivered(a)
        PROVE  Keeps
    BY <2>3 DEF ResolveReconciliation, MarkReconciliationAuditDelivered, HoldsLock
  <2>4. ASSUME NEW a \in ActionIds, NEW t \in Targets, ReserveBudget(a, t) PROVE Keeps
    BY <2>4 DEF ReserveBudget, CanReserve
  <2>5. ASSUME NEW a \in ActionIds, ReleaseBudget(a) PROVE Keeps
    BY <2>5 DEF ReleaseBudget
  <2>6. CASE ClockMoves
    BY <2>6 DEF ClockMoves
  <2> QED
    BY <2>1, <2>2, <2>3, <2>4, <2>5, <2>6 DEF StoreNext, BudgetNext
<1>2. StoreTypeOK /\ [StoreNext]_storeVars => [Keeps]_storeVars
  BY <1>1
<1> QED
  BY <1>2, StoreTypeCorrect, PTL DEF StoreSpec, SettledForever
=============================================================================

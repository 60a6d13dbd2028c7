------------------------- MODULE TrustedRouterProofs -------------------------
(***************************************************************************)
(* Theorems about the trusted router, for any number of processes, calls,  *)
(* operators, actions and targets.                                         *)
(***************************************************************************)
EXTENDS TrustedRouter, ActionStoreProofs

\* What every variable is, and that a call or service that works on an action
\* has one: neither half is inductive without the other.
Typed == TypeOK /\ InHand

LEMMA InitTyped == Init => Typed
  BY DEF Init, StoreInit, Typed, TypeOK, StoreTypeOK, InHand, Serving, Services,
      Statuses, CallSteps, ServiceSteps, EventTypes

\* The ledger only grows, by nothing but the record at hand.
LEMMA Appending ==
  ASSUME TypeOK, NEW type \in EventTypes, NEW a \in ActionIds,
         AppendReturns(type, a) \/ AppendThrows(type, a)
  PROVE  /\ ledger \subseteq ledger'
         /\ ledger' \subseteq EventTypes \X ActionIds
         /\ ledgerOK' \in BOOLEAN
         /\ AppendReturns(type, a) => <<type, a>> \in ledger'
<1>1. CASE AppendReturns(type, a)
  BY <1>1 DEF TypeOK, AppendReturns
<1>2. CASE AppendThrows(type, a) /\ ~AppendReturns(type, a)
  BY <1>2 DEF TypeOK, AppendReturns, AppendThrows, ledgerVars
<1> QED
  BY <1>1, <1>2

LEMMA CallTyped ==
  ASSUME Typed, NEW c \in Calls, CallStep(c) \/ BeginCall(c)
  PROVE  Typed'
<1> USE DEF Typed, TypeOK, StoreTypeOK, InHand, Serving, Services, AtStep, Goto, Return,
        CallSteps, Statuses, storeVars, claimVars, budgetVars, serviceVars, ledgerVars, backendVars
<1>1. CASE BeginCall(c)
  BY <1>1 DEF BeginCall
<1>2. CASE VerifyLedger(c)
  BY <1>2 DEF VerifyLedger
<1>3. CASE CheckPending(c)
  BY <1>3 DEF CheckPending
<1>4. CASE ClaimAction(c)
  BY <1>4 DEF ClaimAction, Claim
<1>5. CASE Reserve(c)
  BY <1>5 DEF Reserve, ReserveBudget
<1>6. CASE AppendTierUsed(c)
  <2>1. job[c] \in ActionIds
    BY <1>6 DEF AppendTierUsed
  <2>2. ledger' \subseteq EventTypes \X ActionIds /\ ledgerOK' \in BOOLEAN
    BY <1>6, <2>1, Appending DEF AppendTierUsed, EventTypes
  <2> QED
    BY <1>6, <2>1, <2>2 DEF AppendTierUsed
<1>7. CASE Begin(c)
  BY <1>7 DEF Begin, BeginExecution, SetStatus
<1>8. CASE Dispatch(c)
  BY <1>8 DEF Dispatch
<1>9. CASE AwaitBackend(c)
  BY <1>9 DEF AwaitBackend
<1>10. CASE AppendExecuted(c)
  <2>1. job[c] \in ActionIds
    BY <1>10 DEF AppendExecuted
  <2>2. ledger' \subseteq EventTypes \X ActionIds /\ ledgerOK' \in BOOLEAN
    BY <1>10, <2>1, Appending DEF AppendExecuted, EventTypes
  <2> QED
    BY <1>10, <2>1, <2>2 DEF AppendExecuted
<1>11. CASE CompleteAction(c)
  BY <1>11 DEF CompleteAction, Complete, SetStatus
<1>12. CASE Release(c)
  BY <1>12 DEF Release, ReleaseBudget
<1>13. CASE MarkUncertain(c)
  BY <1>13 DEF MarkUncertain, NeedsReconciliation, SetStatus
<1>14. CASE FailAction(c)
  BY <1>14 DEF FailAction, Fail, SetStatus
<1>15. CASE Unreserve(c)
  BY <1>15 DEF Unreserve, ReleaseBudget
<1> QED
  BY <1>1, <1>2, <1>3, <1>4, <1>5, <1>6, <1>7, <1>8, <1>9, <1>10, <1>11, <1>12,
     <1>13, <1>14, <1>15 DEF CallStep

LEMMA ServiceTyped ==
  ASSUME Typed, NEW s \in Services,
         \/ ServiceStep(s)
         \/ s \in Procs /\ (StartUp(s) \/ ReadOutbox(s))
         \/ s \in Recons /\ (Authorize(s) \/ OperatorStep(s))
  PROVE  Typed'
<1> USE DEF Typed, TypeOK, StoreTypeOK, InHand, Serving, InService, Serve, GotoService, GiveUp,
        ServiceSteps, Statuses, storeVars, claimVars, budgetVars, callVars, ledgerVars, backendVars
<1>1. CASE StartUp(s)
  BY <1>1 DEF StartUp
<1>2. CASE ReadOutbox(s)
  BY <1>2 DEF ReadOutbox, PendingAudits
<1>3. CASE NextPending(s)
  BY <1>3 DEF NextPending
<1>4. CASE PublishVerify(s)
  BY <1>4 DEF PublishVerify
<1>5. CASE PublishAppend(s)
  <2>1. subject[s] \in ActionIds
    BY <1>5 DEF PublishAppend
  <2>2. ledger' \subseteq EventTypes \X ActionIds /\ ledgerOK' \in BOOLEAN
    BY <1>5, <2>1, Appending DEF PublishAppend, EventTypes
  <2> QED
    BY <1>5, <2>1, <2>2 DEF PublishAppend
<1>6. CASE PublishMark(s)
  BY <1>6 DEF PublishMark, MarkReconciliationAuditDelivered
<1>7. CASE Authorize(s)
  BY <1>7 DEF Authorize
<1>8. CASE VerifyForOperator(s)
  BY <1>8 DEF VerifyForOperator
<1>9. CASE InspectBackend(s)
  BY <1>9 DEF InspectBackend
<1>10. CASE AppendIntent(s)
  <2>1. subject[s] \in ActionIds
    BY <1>10 DEF AppendIntent
  <2>2. ledger' \subseteq EventTypes \X ActionIds /\ ledgerOK' \in BOOLEAN
    BY <1>10, <2>1, Appending DEF AppendIntent, EventTypes
  <2> QED
    BY <1>10, <2>1, <2>2 DEF AppendIntent
<1>11. CASE Resolve(s)
  BY <1>11 DEF Resolve, ResolveReconciliation
<1> QED
  BY <1>1, <1>2, <1>3, <1>4, <1>5, <1>6, <1>7, <1>8, <1>9, <1>10, <1>11
  DEF ServiceStep, OperatorStep

LEMMA NextTyped == Typed /\ [Next]_vars => Typed'
<1> SUFFICES ASSUME Typed, [Next]_vars PROVE Typed'
  OBVIOUS
<1>1. ASSUME NEW c \in Calls, BeginCall(c) \/ CallStep(c) PROVE Typed'
  BY <1>1, CallTyped
<1>2. ASSUME NEW p \in Procs, StartupStep(p) PROVE Typed'
  BY <1>2, ServiceTyped DEF StartupStep, Services
<1>3. ASSUME NEW r \in Recons, Authorize(r) \/ OperatorStep(r) PROVE Typed'
  BY <1>3, ServiceTyped DEF Services
<1> USE DEF Typed, TypeOK, StoreTypeOK, InHand, Serving, storeVars, claimVars, budgetVars,
        callVars, serviceVars, ledgerVars, backendVars
<1>4. ASSUME NEW a \in ActionIds, BackendFinishes(a) PROVE Typed'
  BY <1>4 DEF BackendFinishes
<1>5. ASSUME NEW p \in Procs, Crash(p) PROVE Typed'
  BY <1>5 DEF Crash, GiveUp, Serve, CallSteps, ServiceSteps
<1>6. ASSUME NEW r \in Recons, OperatorCrash(r) PROVE Typed'
  BY <1>6 DEF OperatorCrash, GiveUp, Serve, ServiceSteps
<1>7. CASE ClockTicks
  BY <1>7, StoreAssumption DEF ClockTicks, ClockMoves
<1>8. CASE UNCHANGED vars
  BY <1>8 DEF vars
<1> QED
  BY <1>1, <1>2, <1>3, <1>4, <1>5, <1>6, <1>7, <1>8 DEF Next

LEMMA AlwaysTyped == Spec => []Typed
  BY InitTyped, NextTyped, PTL DEF Spec

\* Every variable of the router, the store, the ledger and the backend keeps
\* its type.
THEOREM TypeCorrect == Spec => []TypeOK
<1>1. Typed => TypeOK
  BY DEF Typed
<1> QED
  BY <1>1, AlwaysTyped, PTL

-----------------------------------------------------------------------------
(* Coordination is inductive.                                              *)

LEMMA InitCoordinated == Init => Coordination
<1> SUFFICES ASSUME Init PROVE Coordination
  OBVIOUS
<1>1. InHand
  BY InitTyped DEF Typed
<1> QED
  BY <1>1 DEF Init, StoreInit, Coordination, OneOwner, OneLock, OwnedAsAt, Owns, Owning,
     ServedAsAt, Services, Sound, Agreed, Audited, TrulySettled

\* An owned action has been claimed, and nobody reconciles it yet.
LEMMA OwnedAction ==
  ASSUME Typed, Coordination, NEW c \in Calls, Owns(c)
  PROVE  /\ job[c] \in ActionIds
         /\ status[job[c]] \in {"CLAIMED", "EXECUTING", "EXECUTED", "FAILED"}
         /\ OwnedAsAt(c)
  BY DEF Typed, TypeOK, InHand, Coordination, OwnedAsAt, StatusAt, Owns, Owning, CallSteps

\* The rest of the world as a step on action x leaves it.
Frame(x) ==
    /\ \A a \in ActionIds \ {x} :
         /\ status'[a] = status[a] /\ target'[a] = target[a]
         /\ lock'[a] = lock[a] /\ lockTarget'[a] = lockTarget[a]
         /\ outbox'[a] = outbox[a]
         /\ op'[a] = op[a] /\ dispatches'[a] = dispatches[a]
    /\ ledger \subseteq ledger'

LEMMA FrameSound ==
  ASSUME Coordination, NEW x, Frame(x)
  PROVE  \A a \in ActionIds \ {x} : Sound(a)'
<1> SUFFICES ASSUME NEW a \in ActionIds \ {x} PROVE Sound(a)'
  OBVIOUS
<1>0. Sound(a)
  BY DEF Coordination
<1> USE <1>0 DEF Frame, Sound
<1>1. Agreed(a)'
  BY DEF Agreed, HoldsLock
<1>2. Audited(a)'
  BY DEF Audited
<1>3. TrulySettled(a)'
  BY DEF TrulySettled
<1> QED
  BY <1>1, <1>2, <1>3

LEMMA FrameOneLock ==
  ASSUME Coordination, NEW x \in ActionIds, Frame(x),
         lock'[x] = "active" => lock[x] = "active" /\ lockTarget'[x] = lockTarget[x]
  PROVE  OneLock'
  BY DEF Coordination, Frame, OneLock

\* Other calls own other actions, so they do not notice.
LEMMA FrameOwned ==
  ASSUME Typed, Coordination, NEW x, Frame(x), NEW d \in Calls,
         pc'[d] = pc[d], job'[d] = job[d], goal'[d] = goal[d], Owns(d) => job[d] # x
  PROVE  OwnedAsAt(d)'
<1>1. CASE Owns(d)
  BY <1>1, OwnedAction DEF Frame, OwnedAsAt, Owns
<1>2. CASE ~Owns(d)
  BY <1>2 DEF OwnedAsAt, Owns
<1> QED
  BY <1>1, <1>2

\* Nor do services that work on another action, or on one nobody owns.
LEMMA FrameServed ==
  ASSUME Typed, Coordination, NEW x, Frame(x), NEW s \in Services,
         spc'[s] = spc[s], subject'[s] = subject[s],
         status[x] \notin {"NEEDS_RECONCILIATION", "RECONCILED"} \/ subject[s] # x
  PROVE  ServedAsAt(s)'
<1>1. Serving(s) => subject[s] \in ActionIds
  BY DEF Typed, InHand
<1>2. ServedAsAt(s)
  BY DEF Coordination
<1> QED
  BY <1>1, <1>2 DEF ServedAsAt, Frame, Serving, ServiceSteps

\* A step of an owner that stays one, or returns: what it has to establish.
LEMMA OwnerSteps ==
  ASSUME Typed, Coordination, NEW c \in Calls, Owns(c), NEW x, x = job[c], Frame(x), InHand',
         \A d \in Calls \ {c} : pc'[d] = pc[d] /\ job'[d] = job[d] /\ goal'[d] = goal[d],
         Owns(c)' => job'[c] = x,
         UNCHANGED serviceVars,
         OwnedAsAt(c)', Sound(x)',
         \/ lock'[x] = "active" => lock[x] = "active" /\ lockTarget'[x] = lockTarget[x]
         \/ OneLock'
  PROVE  Coordination'
<1>1. OneOwner'
  BY DEF Coordination, OneOwner, Owns
<1>2. OneLock'
  BY OwnedAction, FrameOneLock
<1>3. \A d \in Calls : OwnedAsAt(d)'
  <2>1. ASSUME NEW d \in Calls \ {c}, Owns(d) PROVE job[d] # job[c]
    BY <2>1 DEF Coordination, OneOwner
  <2> QED
    BY <2>1, FrameOwned
<1>4. \A s \in Services : ServedAsAt(s)'
  BY OwnedAction, FrameServed DEF serviceVars
<1>5. \A a \in ActionIds : Sound(a)'
  BY FrameSound
<1> QED
  BY <1>1, <1>2, <1>3, <1>4, <1>5 DEF Coordination, Services

\* A step of a call that touches no row at all.
LEMMA CallMovesOnly ==
  ASSUME Typed, Coordination, NEW c \in Calls, InHand',
         \A d \in Calls \ {c} : pc'[d] = pc[d] /\ job'[d] = job[d] /\ goal'[d] = goal[d],
         Owns(c)' => Owns(c) /\ job'[c] = job[c],
         ledger \subseteq ledger', UNCHANGED <<storeVars, serviceVars, backendVars>>,
         OwnedAsAt(c)'
  PROVE  Coordination'
<1>1. Frame(NoAction)
  BY DEF Frame, storeVars, backendVars
<1>2. OneOwner'
  BY DEF Coordination, OneOwner, Owns
<1>3. OneLock'
  BY DEF Coordination, OneLock, storeVars
<1>4. \A d \in Calls : OwnedAsAt(d)'
  BY <1>1, OwnedAction, FrameOwned, RouterAssumption
<1>5. \A s \in Services : ServedAsAt(s)'
  <2> SUFFICES ASSUME NEW s \in Services PROVE ServedAsAt(s)'
    OBVIOUS
  <2> QED
    BY DEF Coordination, ServedAsAt, serviceVars, storeVars, backendVars
<1>6. \A a \in ActionIds : Sound(a)'
  BY <1>1, FrameSound, RouterAssumption
<1> QED
  BY <1>2, <1>3, <1>4, <1>5, <1>6 DEF Coordination, Services

\* The calls alone: what each step of execute preserves.
LEMMA CallCoordinated ==
  ASSUME Typed, Coordination, NEW c \in Calls, CallStep(c) \/ BeginCall(c)
  PROVE  Coordination'
<1>0. InHand'
  BY CallTyped DEF Typed
<1> PICK a : a = job[c]
  OBVIOUS
<1>1. CASE BeginCall(c) \/ VerifyLedger(c) \/ CheckPending(c) \/ AwaitBackend(c)
  <2> USE DEF BeginCall, VerifyLedger, CheckPending, AwaitBackend, AtStep, Goto, Return, ledgerVars
  <2>1. OwnedAsAt(c)'
    BY <1>1 DEF Typed, TypeOK, Coordination, OwnedAsAt, StatusAt, Owns, Owning, CallSteps,
       storeVars, backendVars
  <2> QED
    BY <1>0, <1>1, <2>1, CallMovesOnly DEF Typed, TypeOK, Owns, Owning, CallSteps
<1>2. CASE AppendTierUsed(c) \/ AppendExecuted(c)
  <2> USE DEF AppendTierUsed, AppendExecuted, AtStep, Goto
  <2>1. job[c] \in ActionIds
    BY <1>2 DEF Typed, InHand
  <2>2. ledger \subseteq ledger'
    BY <1>2, <2>1, Appending DEF EventTypes, Typed
  <2>3. OwnedAsAt(c)'
    BY <1>2, <2>1, <2>2, Appending DEF EventTypes, Typed, TypeOK, Coordination, OwnedAsAt,
       StatusAt,
         Owns, Owning, CallSteps, storeVars, backendVars
  <2> QED
    BY <1>0, <1>2, <2>2, <2>3, CallMovesOnly DEF Typed, TypeOK, Owns, Owning, CallSteps
<1>3. CASE ClaimAction(c)
  <2> USE DEF ClaimAction, AtStep, Goto, Return
  <2>0. a \in ActionIds /\ goal[c] \in Targets /\ ~Owns(c) /\ Sound(a)
    BY <1>3 DEF Typed, InHand, Coordination, Owns, Owning
  <2>1. CASE UNCHANGED storeVars /\ Return(c)
    <3>1. OwnedAsAt(c)'
      BY <2>1 DEF Typed, TypeOK, OwnedAsAt, Owns, Owning
    <3> QED
      BY <1>0, <1>3, <2>1, <3>1, CallMovesOnly DEF Typed, TypeOK, Owns, Owning, ledgerVars
  <2>2. CASE Claim(a, goal[c]) /\ Goto(c, "reserve")
    <3> USE DEF Claim, IsDuplicate, budgetVars
    <3>1. Frame(a)
      BY <1>3, <2>0, <2>2 DEF Typed, TypeOK, StoreTypeOK, Frame, ledgerVars, backendVars
    <3>2. \A d \in Calls : Owns(d) => job[d] # a
      BY <2>2, OwnedAction
    <3>3. OwnedAsAt(c)'
      BY <2>0, <2>2 DEF Typed, TypeOK, StoreTypeOK, OwnedAsAt, StatusAt, Owns, Sound, Agreed
    <3>4. Sound(a)'
      BY <1>3, <2>0, <2>2 DEF Typed, TypeOK, StoreTypeOK, Sound, Agreed, Audited, TrulySettled,
           HoldsLock, ledgerVars, backendVars
    <3>5. OneOwner'
      BY <2>2, <3>2 DEF Typed, TypeOK, Coordination, OneOwner, Owns
    <3>6. OneLock'
      BY <2>2 DEF Coordination, OneLock
    <3>7. \A d \in Calls : OwnedAsAt(d)'
      BY <2>2, <3>1, <3>2, <3>3, FrameOwned DEF Typed, TypeOK
    <3>8. \A s \in Services : ServedAsAt(s)'
      BY <1>3, <2>2, <3>1, FrameServed DEF serviceVars
    <3>9. \A b \in ActionIds : Sound(b)'
      BY <3>1, <3>4, FrameSound
    <3> QED
      BY <1>0, <1>3, <3>5, <3>6, <3>7, <3>8, <3>9 DEF Coordination, Services
  <2> QED
    BY <1>3, <2>1, <2>2
<1>4. CASE Reserve(c)
  <2> USE DEF Reserve, AtStep, Goto, Return
  <2>0. a \in ActionIds /\ Owns(c) /\ OwnedAsAt(c) /\ Sound(a) /\ pc[c] \in {"reserve"}
    BY <1>4 DEF Typed, InHand, Coordination, Owns, Owning, CallSteps
  <2>1. CASE UNCHANGED storeVars /\ Goto(c, "fail")
    <3>1. OwnedAsAt(c)'
      BY <1>4, <2>0, <2>1 DEF Typed, TypeOK, OwnedAsAt, StatusAt, Owns, Owning, storeVars,
         backendVars, ledgerVars
    <3> QED
      BY <1>0, <1>4, <2>0, <2>1, <3>1, CallMovesOnly DEF Typed, TypeOK, Owns, Owning, ledgerVars
  <2>2. CASE ReserveBudget(a, goal[c]) /\ Goto(c, "tier")
    <3> USE DEF ReserveBudget, CanReserve, LockedBy, claimVars
    <3>1. Frame(a)
      BY <1>4, <2>0, <2>2 DEF Typed, TypeOK, StoreTypeOK, Frame, ledgerVars, backendVars
    <3>2. OwnedAsAt(c)'
      BY <1>4, <2>0, <2>2 DEF Typed, TypeOK, StoreTypeOK, OwnedAsAt, StatusAt, Owns, Owning,
         Sound, Agreed, ledgerVars, backendVars
    <3>3. Sound(a)'
      BY <1>4, <2>0, <2>2 DEF Typed, TypeOK, StoreTypeOK, OwnedAsAt, StatusAt, Sound, Agreed,
         Audited, TrulySettled, HoldsLock, ledgerVars, backendVars
    <3>4. \/ lock'[a] = "active" => lock[a] = "active" /\ lockTarget'[a] = lockTarget[a]
          \/ OneLock'
      BY <1>4, <2>0, <2>2 DEF Typed, TypeOK, StoreTypeOK, Coordination, OneLock
    <3> QED
      BY <1>0, <1>4, <2>0, <2>2, <3>1, <3>2, <3>3, <3>4, OwnerSteps DEF Typed, TypeOK, Owns,
         Owning
  <2> QED
    BY <1>4, <2>1, <2>2
<1>5. CASE Begin(c)
  <2> USE DEF Begin, AtStep, Goto, Return
  <2>0. a \in ActionIds /\ Owns(c) /\ OwnedAsAt(c) /\ Sound(a) /\ pc[c] \in {"begin"}
    BY <1>5 DEF Typed, InHand, Coordination, Owns, Owning, CallSteps
  <2>1. CASE UNCHANGED storeVars /\ Goto(c, "failReserved")
    <3>1. OwnedAsAt(c)'
      BY <1>5, <2>0, <2>1 DEF Typed, TypeOK, OwnedAsAt, StatusAt, Owns, Owning, storeVars,
         backendVars, ledgerVars
    <3> QED
      BY <1>0, <1>5, <2>0, <2>1, <3>1, CallMovesOnly DEF Typed, TypeOK, Owns, Owning, ledgerVars
  <2>2. CASE BeginExecution(a) /\ Goto(c, "dispatch")
    <3> USE DEF BeginExecution, SetStatus, budgetVars
    <3>1. Frame(a)
      BY <1>5, <2>0, <2>2 DEF Typed, TypeOK, StoreTypeOK, Frame, ledgerVars, backendVars
    <3>2. OwnedAsAt(c)'
      BY <1>5, <2>0, <2>2 DEF Typed, TypeOK, StoreTypeOK, OwnedAsAt, StatusAt, Owns, Owning,
         Sound, Agreed, ledgerVars, backendVars
    <3>3. Sound(a)'
      BY <1>5, <2>0, <2>2 DEF Typed, TypeOK, StoreTypeOK, OwnedAsAt, StatusAt, Sound, Agreed,
         Audited, TrulySettled, HoldsLock, ledgerVars, backendVars
    <3>4. \/ lock'[a] = "active" => lock[a] = "active" /\ lockTarget'[a] = lockTarget[a]
          \/ OneLock'
      BY <1>5, <2>0, <2>2 DEF Typed, TypeOK, StoreTypeOK
    <3> QED
      BY <1>0, <1>5, <2>0, <2>2, <3>1, <3>2, <3>3, <3>4, OwnerSteps DEF Typed, TypeOK, Owns,
         Owning
  <2> QED
    BY <1>5, <2>1, <2>2
<1>6. CASE Dispatch(c)
  <2> USE DEF Dispatch, AtStep, Goto, Return
  <2>0. a \in ActionIds /\ Owns(c) /\ OwnedAsAt(c) /\ Sound(a) /\ pc[c] \in {"dispatch"}
    BY <1>6 DEF Typed, InHand, Coordination, Owns, Owning, CallSteps
  <2>1. CASE Dispatch(c)
    <3> USE DEF storeVars
    <3>1. Frame(a)
      BY <1>6, <2>0, <2>1 DEF Typed, TypeOK, StoreTypeOK, Frame, ledgerVars, backendVars
    <3>2. OwnedAsAt(c)'
      BY <1>6, <2>0, <2>1 DEF Typed, TypeOK, StoreTypeOK, OwnedAsAt, StatusAt, Owns, Owning,
         Sound, Agreed, ledgerVars, backendVars
    <3>3. Sound(a)'
      BY <1>6, <2>0, <2>1 DEF Typed, TypeOK, StoreTypeOK, OwnedAsAt, StatusAt, Sound, Agreed,
         Audited, TrulySettled, HoldsLock, ledgerVars, backendVars
    <3>4. \/ lock'[a] = "active" => lock[a] = "active" /\ lockTarget'[a] = lockTarget[a]
          \/ OneLock'
      BY <1>6, <2>0, <2>1 DEF Typed, TypeOK, StoreTypeOK
    <3> QED
      BY <1>0, <1>6, <2>0, <2>1, <3>1, <3>2, <3>3, <3>4, OwnerSteps DEF Typed, TypeOK, Owns,
         Owning
  <2> QED
    BY <1>6, <2>1
<1>7. CASE CompleteAction(c)
  <2> USE DEF CompleteAction, AtStep, Goto, Return
  <2>0. a \in ActionIds /\ Owns(c) /\ OwnedAsAt(c) /\ Sound(a) /\ pc[c] \in {"complete"}
    BY <1>7 DEF Typed, InHand, Coordination, Owns, Owning, CallSteps
  <2>1. CASE UNCHANGED storeVars /\ Goto(c, "uncertain")
    <3>1. OwnedAsAt(c)'
      BY <1>7, <2>0, <2>1 DEF Typed, TypeOK, OwnedAsAt, StatusAt, Owns, Owning, storeVars,
         backendVars, ledgerVars
    <3> QED
      BY <1>0, <1>7, <2>0, <2>1, <3>1, CallMovesOnly DEF Typed, TypeOK, Owns, Owning, ledgerVars
  <2>2. CASE Complete(a) /\ Goto(c, "release")
    <3> USE DEF Complete, SetStatus, budgetVars
    <3>1. Frame(a)
      BY <1>7, <2>0, <2>2 DEF Typed, TypeOK, StoreTypeOK, Frame, ledgerVars, backendVars
    <3>2. OwnedAsAt(c)'
      BY <1>7, <2>0, <2>2 DEF Typed, TypeOK, StoreTypeOK, OwnedAsAt, StatusAt, Owns, Owning,
         Sound, Agreed, ledgerVars, backendVars
    <3>3. Sound(a)'
      BY <1>7, <2>0, <2>2 DEF Typed, TypeOK, StoreTypeOK, OwnedAsAt, StatusAt, Sound, Agreed,
         Audited, TrulySettled, HoldsLock, ledgerVars, backendVars
    <3>4. \/ lock'[a] = "active" => lock[a] = "active" /\ lockTarget'[a] = lockTarget[a]
          \/ OneLock'
      BY <1>7, <2>0, <2>2 DEF Typed, TypeOK, StoreTypeOK
    <3> QED
      BY <1>0, <1>7, <2>0, <2>2, <3>1, <3>2, <3>3, <3>4, OwnerSteps DEF Typed, TypeOK, Owns,
         Owning
  <2> QED
    BY <1>7, <2>1, <2>2
<1>8. CASE Release(c)
  <2> USE DEF Release, AtStep, Goto, Return
  <2>0. a \in ActionIds /\ Owns(c) /\ OwnedAsAt(c) /\ Sound(a) /\ pc[c] \in {"release"}
    BY <1>8 DEF Typed, InHand, Coordination, Owns, Owning, CallSteps
  <2>1. CASE UNCHANGED storeVars /\ Goto(c, "uncertain")
    <3>1. OwnedAsAt(c)'
      BY <1>8, <2>0, <2>1 DEF Typed, TypeOK, OwnedAsAt, StatusAt, Owns, Owning, storeVars,
         backendVars, ledgerVars
    <3> QED
      BY <1>0, <1>8, <2>0, <2>1, <3>1, CallMovesOnly DEF Typed, TypeOK, Owns, Owning, ledgerVars
  <2>2. CASE ReleaseBudget(a) /\ Return(c)
    <3> USE DEF ReleaseBudget, claimVars
    <3>1. Frame(a)
      BY <1>8, <2>0, <2>2 DEF Typed, TypeOK, StoreTypeOK, Frame, ledgerVars, backendVars
    <3>2. OwnedAsAt(c)'
      BY <1>8, <2>0, <2>2 DEF Typed, TypeOK, StoreTypeOK, OwnedAsAt, StatusAt, Owns, Owning,
         Sound, Agreed, ledgerVars, backendVars
    <3>3. Sound(a)'
      BY <1>8, <2>0, <2>2 DEF Typed, TypeOK, StoreTypeOK, OwnedAsAt, StatusAt, Sound, Agreed,
         Audited, TrulySettled, HoldsLock, ledgerVars, backendVars
    <3>4. \/ lock'[a] = "active" => lock[a] = "active" /\ lockTarget'[a] = lockTarget[a]
          \/ OneLock'
      BY <1>8, <2>0, <2>2 DEF Typed, TypeOK, StoreTypeOK
    <3> QED
      BY <1>0, <1>8, <2>0, <2>2, <3>1, <3>2, <3>3, <3>4, OwnerSteps DEF Typed, TypeOK, Owns,
         Owning
  <2> QED
    BY <1>8, <2>1, <2>2
<1>9. CASE MarkUncertain(c)
  <2> USE DEF MarkUncertain, AtStep, Goto, Return
  <2>0. a \in ActionIds /\ Owns(c) /\ OwnedAsAt(c) /\ Sound(a) /\ pc[c] \in {"uncertain"}
    BY <1>9 DEF Typed, InHand, Coordination, Owns, Owning, CallSteps
  <2>1. CASE UNCHANGED storeVars
    <3>1. OwnedAsAt(c)'
      BY <1>9, <2>0, <2>1 DEF Typed, TypeOK, OwnedAsAt, StatusAt, Owns, Owning, storeVars,
         backendVars, ledgerVars
    <3> QED
      BY <1>0, <1>9, <2>0, <2>1, <3>1, CallMovesOnly DEF Typed, TypeOK, Owns, Owning, ledgerVars
  <2>2. CASE NeedsReconciliation(a)
    <3> USE DEF NeedsReconciliation, SetStatus, budgetVars
    <3>1. Frame(a)
      BY <1>9, <2>0, <2>2 DEF Typed, TypeOK, StoreTypeOK, Frame, ledgerVars, backendVars
    <3>2. OwnedAsAt(c)'
      BY <1>9, <2>0, <2>2 DEF Typed, TypeOK, StoreTypeOK, OwnedAsAt, StatusAt, Owns, Owning,
         Sound, Agreed, ledgerVars, backendVars
    <3>3. Sound(a)'
      BY <1>9, <2>0, <2>2 DEF Typed, TypeOK, StoreTypeOK, OwnedAsAt, StatusAt, Sound, Agreed,
         Audited, TrulySettled, HoldsLock, ledgerVars, backendVars
    <3>4. \/ lock'[a] = "active" => lock[a] = "active" /\ lockTarget'[a] = lockTarget[a]
          \/ OneLock'
      BY <1>9, <2>0, <2>2 DEF Typed, TypeOK, StoreTypeOK
    <3> QED
      BY <1>0, <1>9, <2>0, <2>2, <3>1, <3>2, <3>3, <3>4, OwnerSteps DEF Typed, TypeOK, Owns,
         Owning
  <2> QED
    BY <1>9, <2>1, <2>2
<1>10. CASE FailAction(c)
  <2> USE DEF FailAction, AtStep, Goto, Return
  <2>0. a \in ActionIds /\ Owns(c) /\ OwnedAsAt(c) /\ Sound(a)
        /\ pc[c] \in {"fail", "failReserved"}
    BY <1>10 DEF Typed, InHand, Coordination, Owns, Owning, CallSteps
  <2>1. CASE UNCHANGED storeVars
    <3>1. OwnedAsAt(c)'
      BY <1>10, <2>0, <2>1 DEF Typed, TypeOK, OwnedAsAt, StatusAt, Owns, Owning, storeVars,
         backendVars, ledgerVars
    <3> QED
      BY <1>0, <1>10, <2>0, <2>1, <3>1, CallMovesOnly DEF Typed, TypeOK, Owns, Owning,
         ledgerVars
  <2>2. CASE Fail(a)
    <3> USE DEF Fail, SetStatus, budgetVars
    <3>1. Frame(a)
      BY <1>10, <2>0, <2>2 DEF Typed, TypeOK, StoreTypeOK, Frame, ledgerVars, backendVars
    <3>2. OwnedAsAt(c)'
      BY <1>10, <2>0, <2>2 DEF Typed, TypeOK, StoreTypeOK, OwnedAsAt, StatusAt, Owns, Owning,
         Sound, Agreed, ledgerVars, backendVars
    <3>3. Sound(a)'
      BY <1>10, <2>0, <2>2 DEF Typed, TypeOK, StoreTypeOK, OwnedAsAt, StatusAt, Sound, Agreed,
         Audited, TrulySettled, HoldsLock, ledgerVars, backendVars
    <3>4. \/ lock'[a] = "active" => lock[a] = "active" /\ lockTarget'[a] = lockTarget[a]
          \/ OneLock'
      BY <1>10, <2>0, <2>2 DEF Typed, TypeOK, StoreTypeOK
    <3> QED
      BY <1>0, <1>10, <2>0, <2>2, <3>1, <3>2, <3>3, <3>4, OwnerSteps DEF Typed, TypeOK, Owns,
         Owning
  <2> QED
    BY <1>10, <2>1, <2>2
<1>11. CASE Unreserve(c)
  <2> USE DEF Unreserve, AtStep, Goto, Return
  <2>0. a \in ActionIds /\ Owns(c) /\ OwnedAsAt(c) /\ Sound(a) /\ pc[c] \in {"unreserve"}
    BY <1>11 DEF Typed, InHand, Coordination, Owns, Owning, CallSteps
  <2>1. CASE UNCHANGED storeVars
    <3>1. OwnedAsAt(c)'
      BY <1>11, <2>0, <2>1 DEF Typed, TypeOK, OwnedAsAt, StatusAt, Owns, Owning, storeVars,
         backendVars, ledgerVars
    <3> QED
      BY <1>0, <1>11, <2>0, <2>1, <3>1, CallMovesOnly DEF Typed, TypeOK, Owns, Owning,
         ledgerVars
  <2>2. CASE ReleaseBudget(a)
    <3> USE DEF ReleaseBudget, claimVars
    <3>1. Frame(a)
      BY <1>11, <2>0, <2>2 DEF Typed, TypeOK, StoreTypeOK, Frame, ledgerVars, backendVars
    <3>2. OwnedAsAt(c)'
      BY <1>11, <2>0, <2>2 DEF Typed, TypeOK, StoreTypeOK, OwnedAsAt, StatusAt, Owns, Owning,
         Sound, Agreed, ledgerVars, backendVars
    <3>3. Sound(a)'
      BY <1>11, <2>0, <2>2 DEF Typed, TypeOK, StoreTypeOK, OwnedAsAt, StatusAt, Sound, Agreed,
         Audited, TrulySettled, HoldsLock, ledgerVars, backendVars
    <3>4. \/ lock'[a] = "active" => lock[a] = "active" /\ lockTarget'[a] = lockTarget[a]
          \/ OneLock'
      BY <1>11, <2>0, <2>2 DEF Typed, TypeOK, StoreTypeOK
    <3> QED
      BY <1>0, <1>11, <2>0, <2>2, <3>1, <3>2, <3>3, <3>4, OwnerSteps DEF Typed, TypeOK, Owns,
         Owning
  <2> QED
    BY <1>11, <2>1, <2>2
<1> QED
  BY <1>1, <1>2, <1>3, <1>4, <1>5, <1>6, <1>7, <1>8, <1>9, <1>10, <1>11 DEF CallStep

\* A step of a service that changes nothing but its own place and subject and,
\* perhaps, the ledger.
LEMMA ServiceMovesOnly ==
  ASSUME Typed, Coordination, NEW s \in Services, InHand',
         \A r \in Services \ {s} : spc'[r] = spc[r] /\ subject'[r] = subject[r],
         ledger \subseteq ledger', UNCHANGED <<storeVars, callVars, backendVars>>,
         ServedAsAt(s)'
  PROVE  Coordination'
<1>1. Frame(NoAction)
  BY DEF Frame, storeVars, backendVars
<1>2. OneOwner' /\ OneLock'
  BY DEF Coordination, OneOwner, OneLock, Owns, callVars, storeVars
<1>3. \A d \in Calls : OwnedAsAt(d)'
  BY <1>1, OwnedAction, FrameOwned, RouterAssumption DEF callVars
<1>4. \A r \in Services : ServedAsAt(r)'
  <2> SUFFICES ASSUME NEW r \in Services \ {s} PROVE ServedAsAt(r)'
    OBVIOUS
  <2> QED
    BY DEF Coordination, ServedAsAt, storeVars, backendVars
<1>5. \A a \in ActionIds : Sound(a)'
  BY <1>1, FrameSound, RouterAssumption
<1> QED
  BY <1>2, <1>3, <1>4, <1>5 DEF Coordination, Services

\* A step of a service that changes the rows of an action nobody owns.
LEMMA ServiceResolves ==
  ASSUME Typed, Coordination, NEW s \in Services, InHand', NEW x \in ActionIds, Frame(x),
         status[x] \in {"NEEDS_RECONCILIATION", "RECONCILED"},
         status'[x] = "RECONCILED", op'[x] = op[x],
         \A r \in Services \ {s} : spc'[r] = spc[r] /\ subject'[r] = subject[r],
         UNCHANGED callVars, ServedAsAt(s)', Sound(x)',
         lock'[x] = "active" => lock[x] = "active" /\ lockTarget'[x] = lockTarget[x]
  PROVE  Coordination'
<1>1. OneOwner' /\ OneLock'
  BY FrameOneLock DEF Coordination, OneOwner, Owns, callVars
<1>2. \A d \in Calls : OwnedAsAt(d)'
  BY OwnedAction, FrameOwned DEF callVars
<1>3. \A r \in Services : ServedAsAt(r)'
  <2> SUFFICES ASSUME NEW r \in Services \ {s} PROVE ServedAsAt(r)'
    OBVIOUS
  <2>1. CASE subject[r] = x
    BY <2>1 DEF Coordination, ServedAsAt, Frame
  <2>2. CASE subject[r] # x
    BY <2>2, FrameServed
  <2> QED
    BY <2>1, <2>2
<1>4. \A a \in ActionIds : Sound(a)'
  BY FrameSound
<1> QED
  BY <1>1, <1>2, <1>3, <1>4 DEF Coordination, Services

\* Start-up recovery and reconciliation: what each step preserves.
LEMMA ServiceCoordinated ==
  ASSUME Typed, Coordination, NEW s \in Services,
         \/ ServiceStep(s)
         \/ s \in Procs /\ (StartUp(s) \/ ReadOutbox(s))
         \/ s \in Recons /\ (Authorize(s) \/ OperatorStep(s))
  PROVE  Coordination'
<1>0. InHand' /\ ServedAsAt(s)
  BY ServiceTyped DEF Typed, Coordination
<1> PICK a : a = subject[s]
  OBVIOUS
<1> USE DEF InService, Serve, GotoService, GiveUp
<1>1. CASE \/ StartUp(s) \/ ReadOutbox(s) \/ NextPending(s) \/ PublishVerify(s)
           \/ Authorize(s) \/ VerifyForOperator(s) \/ InspectBackend(s)
  <2> USE DEF StartUp, ReadOutbox, NextPending, PublishVerify, Authorize, VerifyForOperator,
              InspectBackend, ledgerVars
  <2>1. ServedAsAt(s)'
    BY <1>0, <1>1 DEF Typed, TypeOK, ServedAsAt, Services, storeVars, backendVars
  <2>2. /\ \A r \in Services \ {s} : spc'[r] = spc[r] /\ subject'[r] = subject[r]
        /\ ledger \subseteq ledger' /\ UNCHANGED <<storeVars, callVars, backendVars>>
    BY <1>1 DEF Typed, TypeOK
  <2> QED
    BY <1>0, <2>1, <2>2, ServiceMovesOnly
<1>2. CASE AppendIntent(s) \/ PublishAppend(s)
  <2> USE DEF AppendIntent, PublishAppend
  <2>1. subject[s] \in ActionIds
    BY <1>2 DEF Typed, InHand, Serving, ServiceSteps
  <2>2. ledger \subseteq ledger'
    BY <1>2, <2>1, Appending DEF EventTypes, Typed
  <2>3. ServedAsAt(s)'
    BY <1>0, <1>2, <2>1, Appending DEF EventTypes, Typed, TypeOK, ServedAsAt, storeVars,
       backendVars
  <2>4. /\ \A r \in Services \ {s} : spc'[r] = spc[r] /\ subject'[r] = subject[r]
        /\ UNCHANGED <<storeVars, callVars, backendVars>>
    BY <1>2 DEF Typed, TypeOK
  <2> QED
    BY <1>0, <2>2, <2>3, <2>4, ServiceMovesOnly
<1>3. CASE Resolve(s) \/ PublishMark(s)
  <2> USE DEF Resolve, PublishMark, ledgerVars
  <2>0. /\ a \in ActionIds /\ Sound(a)
        /\ \A r \in Services \ {s} : spc'[r] = spc[r] /\ subject'[r] = subject[r]
    BY <1>3 DEF Typed, TypeOK, InHand, Coordination, Serving, ServiceSteps
  <2>1. ServedAsAt(s)'
    BY <1>3 DEF Typed, TypeOK, ServedAsAt
  <2>2. CASE UNCHANGED storeVars
    BY <1>0, <1>3, <2>0, <2>1, <2>2, ServiceMovesOnly
  <2>3. CASE Resolve(s) /\ ResolveReconciliation(a)
    <3> USE <1>0, <2>0, <2>3 DEF ResolveReconciliation, budgetVars, callVars, backendVars
    <3>1. Frame(a)
      BY DEF Typed, TypeOK, StoreTypeOK, Frame
    <3>2. Sound(a)'
      BY DEF Typed, TypeOK, StoreTypeOK, ServedAsAt, Sound, Agreed, Audited, TrulySettled,
             HoldsLock
    <3> QED
      BY <2>1, <3>1, <3>2, ServiceResolves DEF Typed, TypeOK, StoreTypeOK
  <2>4. CASE PublishMark(s) /\ MarkReconciliationAuditDelivered(a)
    <3> USE <1>0, <2>0, <2>4 DEF MarkReconciliationAuditDelivered, claimVars, callVars, backendVars
    <3>1. Frame(a)
      BY DEF Typed, TypeOK, StoreTypeOK, Frame
    <3>2. Sound(a)'
      BY DEF Typed, TypeOK, StoreTypeOK, ServedAsAt, Sound, Agreed, Audited, TrulySettled,
             HoldsLock
    <3> QED
      BY <2>1, <3>1, <3>2, ServiceResolves DEF Typed, TypeOK, StoreTypeOK
  <2> QED
    BY <1>3, <2>2, <2>3, <2>4
<1> QED
  BY <1>1, <1>2, <1>3 DEF ServiceStep, OperatorStep

\* Every step of the system.
LEMMA NextCoordinated == Typed /\ Coordination /\ [Next]_vars => Coordination'
<1> SUFFICES ASSUME Typed, Coordination, [Next]_vars PROVE Coordination'
  OBVIOUS
<1>0. InHand'
  BY NextTyped DEF Typed
<1>1. ASSUME NEW c \in Calls, BeginCall(c) \/ CallStep(c) PROVE Coordination'
  BY <1>1, CallCoordinated
<1>2. ASSUME NEW p \in Procs, StartupStep(p) PROVE Coordination'
  BY <1>2, ServiceCoordinated DEF StartupStep, Services
<1>3. ASSUME NEW r \in Recons, Authorize(r) \/ OperatorStep(r) PROVE Coordination'
  BY <1>3, ServiceCoordinated DEF Services
<1>4. ASSUME NEW a \in ActionIds, BackendFinishes(a) PROVE Coordination'
  <2> USE <1>0, <1>4 DEF BackendFinishes, storeVars, callVars, serviceVars, ledgerVars
  <2>0. Sound(a)
    BY DEF Coordination
  <2>1. Frame(a)
    BY DEF Typed, TypeOK, Frame
  <2>2. Sound(a)'
    BY <2>0 DEF Typed, TypeOK, Sound, Agreed, Audited, TrulySettled, HoldsLock
  <2>3. OneOwner' /\ OneLock'
    BY DEF Coordination, OneOwner, OneLock, Owns
  <2>4. \A c \in Calls : OwnedAsAt(c)'
    BY OwnedAction, <2>0 DEF Typed, TypeOK, Coordination, OwnedAsAt, Owns
  <2>5. \A s \in Services : ServedAsAt(s)'
    BY DEF Typed, TypeOK, Coordination, ServedAsAt
  <2> QED
    BY <2>1, <2>2, <2>3, <2>4, <2>5, FrameSound DEF Coordination, Services
<1>5. ASSUME NEW p \in Procs, Crash(p) PROVE Coordination'
  <2> USE <1>0, <1>5 DEF Crash, GiveUp, Serve, storeVars, ledgerVars, backendVars
  <2>1. Frame(NoAction)
    BY DEF Frame
  <2>2. \A c \in Calls : Owns(c)' => pc'[c] = pc[c] /\ job'[c] = job[c] /\ goal'[c] = goal[c]
    BY DEF Typed, TypeOK, Owns, Owning
  <2>3. OneOwner' /\ OneLock'
    BY <2>2 DEF Coordination, OneOwner, OneLock, Owns
  <2>4. \A c \in Calls : OwnedAsAt(c)'
    BY <2>2 DEF Coordination, OwnedAsAt, Owns
  <2>5. \A s \in Services : ServedAsAt(s)'
    BY DEF Typed, TypeOK, Coordination, ServedAsAt
  <2>6. \A a \in ActionIds : Sound(a)'
    BY <2>1, FrameSound, RouterAssumption
  <2> QED
    BY <2>3, <2>4, <2>5, <2>6 DEF Coordination, Services
<1>6. ASSUME NEW r \in Recons, OperatorCrash(r) PROVE Coordination'
  <2> USE <1>0, <1>6 DEF OperatorCrash, GiveUp, Serve, ledgerVars
  <2>1. r \in Services /\ ServedAsAt(r)'
    BY DEF Typed, TypeOK, ServedAsAt, Services
  <2> QED
    BY <2>1, ServiceMovesOnly DEF Typed, TypeOK
<1>7. CASE ClockTicks \/ UNCHANGED vars
  <2> USE <1>0, <1>7 DEF ClockTicks, ClockMoves, vars, storeVars, claimVars, budgetVars, callVars,
                         serviceVars, ledgerVars, backendVars
  <2>1. Frame(NoAction)
    BY DEF Frame
  <2>2. OneOwner' /\ OneLock'
    BY DEF Coordination, OneOwner, OneLock, Owns
  <2>3. \A c \in Calls : OwnedAsAt(c)'
    BY DEF Coordination, OwnedAsAt, Owns
  <2>4. \A s \in Services : ServedAsAt(s)'
    BY DEF Coordination, ServedAsAt
  <2>5. \A a \in ActionIds : Sound(a)'
    BY <2>1, FrameSound, RouterAssumption
  <2> QED
    BY <2>2, <2>3, <2>4, <2>5 DEF Coordination, Services
<1> QED
  BY <1>1, <1>2, <1>3, <1>4, <1>5, <1>6, <1>7 DEF Next

-----------------------------------------------------------------------------
(* The theorems.                                                           *)

\* Store, calls, operators, ledger and backend agree at every moment.
THEOREM AlwaysCoordinated == Spec => []Coordination
  BY InitTyped, InitCoordinated, NextTyped, NextCoordinated, PTL DEF Spec

\* No action id reaches the backend twice, whatever replays, concurrent calls,
\* crashes and reconciliations happen.
THEOREM AtMostOnce == Spec => []AtMostOnceDispatch
<1>1. Coordination => AtMostOnceDispatch
  BY DEF Coordination, Sound, Agreed, AtMostOnceDispatch
<1> QED
  BY <1>1, AlwaysCoordinated, PTL

\* Two actions never change one service at the same time.
THEOREM Exclusive == Spec => []TargetExclusive
<1>1. Coordination => TargetExclusive
  BY DEF Coordination, OneLock, Sound, Agreed, TargetExclusive
<1> QED
  BY <1>1, AlwaysCoordinated, PTL

\* Intent precedes effect in the ledger, and what is settled in the store is
\* closed there.
THEOREM Auditable == Spec => []AuditTrail
<1>1. Coordination => AuditTrail
  BY DEF Coordination, Sound, AuditTrail
<1> QED
  BY <1>1, AlwaysCoordinated, PTL

\* What the store calls over is over in the backend.
THEOREM Truthful == Spec => []SettledIsTrue
<1>1. Coordination => SettledIsTrue
  BY DEF Coordination, Sound, SettledIsTrue
<1> QED
  BY <1>1, AlwaysCoordinated, PTL

\* A reconciled action keeps its target until its audit is delivered.
THEOREM KeptUntilDelivered == Spec => []UndeliveredKeepsLock
<1>1. Coordination => UndeliveredKeepsLock
  BY DEF Coordination, Sound, Agreed, UndeliveredKeepsLock
<1> QED
  BY <1>1, AlwaysCoordinated, PTL

-----------------------------------------------------------------------------
(* Releases and the refinement.                                            *)

\* Action a gives its target back, and may.
Closes(a) ==
    /\ lock[a] = "active" /\ lock' = [lock EXCEPT ![a] = "released"]
    /\ UNCHANGED <<lockTarget, backendVars>>
    /\ op[a] # "running"
    /\ dispatches[a] = 0 \/ {<<"executed", a>>, <<"reconciled", a>>} \cap ledger # {}

\* The steps that matter to the hold of a target: all others leave the locks
\* and the backend alone.
LEMMA CallHolds ==
  ASSUME Typed, Coordination, NEW c \in Calls, CallStep(c) \/ BeginCall(c)
  PROVE  \/ UNCHANGED <<lock, lockTarget, backendVars>>
         \/ ReserveBudget(job[c], goal[c]) /\ Owns(c) /\ UNCHANGED backendVars
         \/ Dispatch(c)
         \/ job[c] \in ActionIds /\ Closes(job[c])
<1>1. CASE \/ BeginCall(c) \/ VerifyLedger(c) \/ CheckPending(c) \/ AppendTierUsed(c)
           \/ AwaitBackend(c) \/ AppendExecuted(c)
  BY <1>1 DEF BeginCall, VerifyLedger, CheckPending, AppendTierUsed, AwaitBackend,
     AppendExecuted, storeVars
<1>2. CASE \/ ClaimAction(c) \/ Begin(c) \/ CompleteAction(c) \/ MarkUncertain(c)
      \/ FailAction(c)
  BY <1>2 DEF ClaimAction, Claim, Begin, BeginExecution, CompleteAction, Complete,
     MarkUncertain,
     NeedsReconciliation, FailAction, Fail, SetStatus, storeVars, budgetVars
<1>3. CASE Reserve(c)
  BY <1>3 DEF Reserve, AtStep, storeVars, Owns, Owning, CallSteps
<1>4. CASE Release(c) \/ Unreserve(c)
  <2> USE DEF Release, Unreserve, AtStep
  <2>1. OwnedAsAt(c) /\ Owns(c) /\ job[c] \in ActionIds /\ Sound(job[c])
    BY <1>4 DEF Typed, InHand, Coordination, Owns, Owning, CallSteps
  <2>2. CASE UNCHANGED storeVars
    BY <1>4, <2>2 DEF storeVars
  <2>3. CASE ReleaseBudget(job[c])
    BY <1>4, <2>1, <2>3
    DEF ReleaseBudget, Closes, OwnedAsAt, StatusAt, Sound, Agreed, Audited, TrulySettled
  <2> QED
    BY <1>4, <2>2, <2>3
<1> QED
  BY <1>1, <1>2, <1>3, <1>4 DEF CallStep

LEMMA ServiceHolds ==
  ASSUME Typed, Coordination, NEW s \in Services,
         \/ ServiceStep(s)
         \/ s \in Procs /\ (StartUp(s) \/ ReadOutbox(s))
         \/ s \in Recons /\ (Authorize(s) \/ OperatorStep(s))
  PROVE  \/ UNCHANGED <<lock, lockTarget, backendVars>>
         \/ subject[s] \in ActionIds /\ Closes(subject[s])
<1> USE DEF InService
<1>1. CASE \/ StartUp(s) \/ ReadOutbox(s) \/ NextPending(s) \/ PublishVerify(s)
      \/ PublishAppend(s)
           \/ Authorize(s) \/ VerifyForOperator(s) \/ InspectBackend(s) \/ AppendIntent(s)
  BY <1>1 DEF StartUp, ReadOutbox, NextPending, PublishVerify, PublishAppend, Authorize,
     VerifyForOperator, InspectBackend, AppendIntent, storeVars
<1>2. CASE Resolve(s)
  BY <1>2 DEF Resolve, ResolveReconciliation, storeVars, budgetVars
<1>3. CASE PublishMark(s)
  <2>1. ServedAsAt(s) /\ spc[s] = "pubMark" /\ subject[s] \in ActionIds /\ Sound(subject[s])
    BY <1>3 DEF PublishMark, Typed, InHand, Serving, ServiceSteps, Coordination
  <2>2. CASE UNCHANGED storeVars
    BY <1>3, <2>2 DEF PublishMark, storeVars
  <2>3. CASE MarkReconciliationAuditDelivered(subject[s])
    BY <1>3, <2>1, <2>3 DEF PublishMark, MarkReconciliationAuditDelivered, HoldsLock, Closes,
       ServedAsAt, Sound, TrulySettled
  <2> QED
    BY <1>3, <2>2, <2>3 DEF PublishMark
<1> QED
  BY <1>1, <1>2, <1>3 DEF ServiceStep, OperatorStep

LEMMA NextHolds ==
  ASSUME Typed, Coordination, [Next]_vars
  PROVE  \/ UNCHANGED <<lock, lockTarget, backendVars>>
         \/ \E c \in Calls : Owns(c) /\ ReserveBudget(job[c], goal[c]) /\ UNCHANGED backendVars
         \/ \E c \in Calls : Dispatch(c)
         \/ \E a \in ActionIds : BackendFinishes(a)
         \/ \E a \in ActionIds : Closes(a)
<1>1. ASSUME NEW p \in Procs, StartupStep(p)
      PROVE  UNCHANGED <<lock, lockTarget, backendVars>> \/ \E a \in ActionIds : Closes(a)
  BY <1>1, ServiceHolds DEF StartupStep, Services
<1>2. ASSUME NEW r \in Recons, Authorize(r) \/ OperatorStep(r)
      PROVE  UNCHANGED <<lock, lockTarget, backendVars>> \/ \E a \in ActionIds : Closes(a)
  BY <1>2, ServiceHolds DEF Services
<1>3. ASSUME \/ \E p \in Procs : Crash(p)
             \/ \E r \in Recons : OperatorCrash(r)
             \/ ClockTicks
             \/ UNCHANGED vars
      PROVE  UNCHANGED <<lock, lockTarget, backendVars>>
  BY <1>3 DEF Crash, OperatorCrash, ClockTicks, ClockMoves, vars, storeVars, budgetVars
<1> QED
  BY <1>1, <1>2, <1>3, CallHolds DEF Next

\* A target is given back only by an action that never reached the backend or
\* whose end is in the ledger, and never while its change is under way.
THEOREM SafeRelease == Spec => ReleaseIsSafe
<1> DEFINE Safe == \A a \in ActionIds :
                     (lock[a] = "active" /\ lock'[a] # "active") =>
                        /\ op[a] # "running"
                        /\ \/ dispatches[a] = 0
                           \/ {<<"executed", a>>, <<"reconciled", a>>} \cap ledger # {}
<1>1. ASSUME Typed, Coordination, [Next]_vars PROVE Safe
  <2>1. ASSUME NEW a \in ActionIds, Closes(a) PROVE Safe
    BY <1>1, <2>1 DEF Closes, Typed, TypeOK, StoreTypeOK
  <2>2. ASSUME NEW c \in Calls, ReserveBudget(job[c], goal[c]) PROVE Safe
    BY <1>1, <2>2 DEF ReserveBudget, Typed, TypeOK, StoreTypeOK
  <2>3. ASSUME UNCHANGED lock PROVE Safe
    BY <2>3
  <2> QED
    BY <1>1, <2>1, <2>2, <2>3, NextHolds DEF Dispatch, BackendFinishes, storeVars
<1>2. Typed /\ Coordination /\ [Next]_vars => [Safe]_vars
  BY <1>1
<1> QED
  BY <1>2, AlwaysTyped, AlwaysCoordinated, PTL DEF Spec, ReleaseIsSafe

LEMMA InitRefines == Init => Abstract!Init
  BY DEF Init, StoreInit, Abstract!Init, Phase

LEMMA NextRefines ==
  ASSUME Typed, Typed', Coordination, Coordination', [Next]_vars
  PROVE  [Abstract!Next]_(Abstract!vars)
<1>1. CASE UNCHANGED <<lock, lockTarget, backendVars>>
  BY <1>1 DEF Abstract!vars, Phase, backendVars
<1>2. ASSUME NEW c \in Calls, Owns(c), ReserveBudget(job[c], goal[c]), UNCHANGED backendVars
      PROVE  Abstract!Next
  <2> DEFINE a == job[c]
             t == goal[c]
  <2> USE <1>2 DEF ReserveBudget, CanReserve, backendVars
  <2>1. a \in ActionIds /\ t \in Targets /\ OwnedAsAt(c) /\ Sound(a)
    BY OwnedAction DEF Typed, InHand, Coordination, Owns, Owning
  <2>2. lock[a] = "none" /\ dispatches[a] = 0
    BY <2>1 DEF OwnedAsAt, StatusAt, Sound, Agreed
  <2>3. Abstract!Holders(t) = {}
    <3>1. \A x \in ActionIds : Phase(x) \in {"holding", "dispatched"} => lock[x] = "active"
      BY DEF Phase, Typed, TypeOK, StoreTypeOK
    <3> QED
      BY <3>1 DEF Abstract!Holders, LockedBy
  <2>4. [x \in ActionIds |-> Phase(x)]' = [[x \in ActionIds |-> Phase(x)] EXCEPT ![a] = "holding"]
    BY <2>1, <2>2 DEF Phase, Typed, TypeOK, StoreTypeOK
  <2>5. Abstract!Hold(a, t)
    BY <2>1, <2>2, <2>3, <2>4 DEF Abstract!Hold, Phase
  <2> QED
    BY <2>1, <2>5 DEF Abstract!Next
<1>3. ASSUME NEW c \in Calls, Dispatch(c) PROVE Abstract!Next
  <2> PICK a : a = job[c]
    OBVIOUS
  <2> USE <1>3 DEF Dispatch, AtStep
  <2>1. a \in ActionIds /\ OwnedAsAt(c) /\ Owns(c) /\ pc[c] = "dispatch"
    BY DEF Typed, InHand, Coordination, Owns, Owning, CallSteps
  <2>2. lock[a] = "active" /\ dispatches[a] = 0
    BY <2>1 DEF OwnedAsAt
  <2>3. Phase(a)' = "dispatched"
    BY <2>1, <2>2 DEF Phase, storeVars, Typed, TypeOK
  <2>4. \A x \in ActionIds \ {a} : Phase(x)' = Phase(x)
    BY DEF Phase, storeVars, Typed, TypeOK
  <2>5. [x \in ActionIds |-> Phase(x)]'
          = [[x \in ActionIds |-> Phase(x)] EXCEPT ![a] = "dispatched"]
    BY <2>1, <2>3, <2>4
  <2>6. Abstract!Dispatch(a)
    BY <2>1, <2>2, <2>5 DEF Abstract!Dispatch, Phase, storeVars
  <2> QED
    BY <2>1, <2>6 DEF Abstract!Next
<1>4. ASSUME NEW a \in ActionIds, BackendFinishes(a) PROVE Abstract!Next
  <2> USE <1>4 DEF BackendFinishes
  <2>1. [x \in ActionIds |-> Phase(x)]' = [x \in ActionIds |-> Phase(x)]
    BY DEF Phase, storeVars
  <2>2. Abstract!Finish(a)
    BY <2>1 DEF Abstract!Finish, storeVars
  <2> QED
    BY <2>2 DEF Abstract!Next
<1>5. ASSUME NEW a \in ActionIds, Closes(a) PROVE Abstract!Next
  <2> USE <1>5 DEF Closes, backendVars
  <2>1. [x \in ActionIds |-> Phase(x)]' = [[x \in ActionIds |-> Phase(x)] EXCEPT ![a] = "closed"]
    BY DEF Phase, Typed, TypeOK, StoreTypeOK
  <2>2. Abstract!Close(a)
    BY <2>1 DEF Abstract!Close, Phase
  <2> QED
    BY <2>2 DEF Abstract!Next
<1> QED
  BY <1>1, <1>2, <1>3, <1>4, <1>5, NextHolds

\* The router implements ExclusiveRemediation.
THEOREM Refinement == Spec => ImplementsExclusiveRemediation
  BY InitRefines, NextRefines, AlwaysTyped, AlwaysCoordinated, PTL
  DEF Spec, ImplementsExclusiveRemediation, Abstract!Spec

-----------------------------------------------------------------------------
(* The store under the router.                                             *)

\* Every step of the router is a call of one method of the store, or none.
LEMMA NextUsesStore == Typed /\ [Next]_vars => [StoreNext]_storeVars
<1> SUFFICES ASSUME Typed, Next PROVE [StoreNext]_storeVars
  BY DEF vars, storeVars
<1> USE DEF StoreNext, BudgetNext
<1>2. ASSUME NEW c \in Calls, BeginCall(c) \/ CallStep(c) PROVE [StoreNext]_storeVars
  <2>1. CASE \/ BeginCall(c) \/ VerifyLedger(c) \/ CheckPending(c) \/ AppendTierUsed(c)
             \/ Dispatch(c) \/ AwaitBackend(c) \/ AppendExecuted(c)
    BY <2>1 DEF BeginCall, VerifyLedger, CheckPending, AppendTierUsed, Dispatch, AwaitBackend,
       AppendExecuted
  <2>2. CASE \/ ClaimAction(c) \/ Reserve(c) \/ Begin(c) \/ CompleteAction(c) \/ Release(c)
             \/ MarkUncertain(c) \/ FailAction(c) \/ Unreserve(c)
    <3>1. job[c] \in ActionIds /\ goal[c] \in Targets
      BY <2>2 DEF Typed, InHand, ClaimAction, Reserve, Begin, CompleteAction, Release,
         MarkUncertain, FailAction, Unreserve, AtStep
    <3> QED
      BY <2>2, <3>1 DEF ClaimAction, Reserve, Begin, CompleteAction, Release, MarkUncertain,
         FailAction, Unreserve
  <2> QED
    BY <1>2, <2>1, <2>2 DEF CallStep
<1>3. ASSUME NEW s \in Services,
             \/ ServiceStep(s)
             \/ s \in Procs /\ (StartUp(s) \/ ReadOutbox(s))
             \/ s \in Recons /\ (Authorize(s) \/ OperatorStep(s))
      PROVE  [StoreNext]_storeVars
  <2>1. CASE Resolve(s) \/ PublishMark(s)
    <3>1. subject[s] \in ActionIds
      BY <2>1 DEF Typed, InHand, Serving, ServiceSteps, Resolve, PublishMark, InService
    <3> QED
      BY <2>1, <3>1 DEF Resolve, PublishMark
  <2> QED
    BY <1>3, <2>1 DEF ServiceStep, OperatorStep, StartUp, ReadOutbox, NextPending,
       PublishVerify,
       PublishAppend, Authorize, VerifyForOperator, InspectBackend, AppendIntent
<1>4. ASSUME \/ \E p \in Procs : Crash(p)
             \/ \E r \in Recons : OperatorCrash(r)
             \/ \E a \in ActionIds : BackendFinishes(a)
             \/ ClockTicks
      PROVE  [StoreNext]_storeVars
  BY <1>4 DEF Crash, OperatorCrash, BackendFinishes, ClockTicks
<1> QED
  BY <1>2, <1>3, <1>4 DEF Next, StartupStep, OperatorStep, Services

\* So whatever is true of the store in any order of calls is true of it here.
THEOREM UsesStore == Spec => StoreSpec
<1>1. Init => StoreInit
  BY DEF Init
<1> QED
  BY <1>1, AlwaysTyped, NextUsesStore, PTL DEF Spec, StoreSpec

\* The router keeps the limits of every window and the cooldown, with any
\* number of processes, and never revives what is settled.
THEOREM RouterWithinBudget == Spec => [](WindowBudget /\ CooldownSpacing) /\ SettledForever
  BY UsesStore, Windows, Spacing, Settled, PTL

-----------------------------------------------------------------------------
(* Where a locked target is out of sight.                                  *)

\* A call is settled at these steps, and its target is not given back yet.
Closing == {"release", "unreserve"}

\* The last store call of an execute does not throw, and no process dies in front of it.
EndsWell ==
    /\ \A c \in Calls : Release(c) \/ Unreserve(c) => ReleaseBudget(job[c])
    /\ \A p \in Procs :
         Crash(p) => \A c \in Calls : ProcOf[c] = p => pc[c] \notin Closing

\* A locked target is reported as pending, or its call is about to give it back.
CoveredAt(a) ==
    lock[a] = "active" =>
        \/ status[a] \in {"CLAIMED", "EXECUTING", "NEEDS_RECONCILIATION"}
        \/ status[a] = "RECONCILED" /\ outbox[a] = "pending"
        \/ \E c \in Calls : pc[c] \in Closing /\ job[c] = a

\* A call whose outcome is uncertain can still say so in the store.
Covered ==
    /\ \A c \in Calls : pc[c] = "uncertain" => status[job[c]] = "EXECUTING"
    /\ \A a \in ActionIds : CoveredAt(a)

\* A step of calls C on action x: what it has to establish.
LEMMA FrameCovered ==
  ASSUME Typed, Covered, NEW x, Frame(x), NEW C \in SUBSET Calls,
         \A d \in Calls \ C : pc'[d] = pc[d] /\ job'[d] = job[d],
         \A c \in C : pc[c] \in Closing => job[c] = x,
         \A c \in C : pc'[c] = "uncertain" => status'[job'[c]] = "EXECUTING",
         \A d \in Calls \ C : pc[d] = "uncertain" => job[d] # x,
         x \in ActionIds => CoveredAt(x)'
  PROVE  Covered'
<1>1. ASSUME NEW d \in Calls, pc'[d] = "uncertain" PROVE status'[job'[d]] = "EXECUTING"
  <2>1. CASE d \in C
    BY <1>1, <2>1
  <2>2. CASE d \notin C
    <3>1. job'[d] = job[d] /\ pc[d] = "uncertain" /\ job[d] \in ActionIds \ {x}
      BY <1>1, <2>2 DEF Typed, InHand
    <3> QED
      BY <3>1 DEF Covered, Frame
  <2> QED
    BY <2>1, <2>2
<1>2. ASSUME NEW a \in ActionIds \ {x} PROVE CoveredAt(a)'
  <2>1. CoveredAt(a)
    BY DEF Covered
  <2>2. \A c \in Calls : pc[c] \in Closing /\ job[c] = a => pc'[c] = pc[c] /\ job'[c] = job[c]
    OBVIOUS
  <2> QED
    BY <2>1, <2>2 DEF CoveredAt, Frame
<1> QED
  BY <1>1, <1>2 DEF Covered

\* A step that touches no row, of a call that is not about to give its target back.
LEMMA MovesCovered ==
  ASSUME Typed, Covered, NEW C \in SUBSET Calls,
         UNCHANGED <<storeVars, backendVars>>, ledger \subseteq ledger',
         \A d \in Calls \ C : pc'[d] = pc[d] /\ job'[d] = job[d],
         \A c \in C : pc[c] \notin Closing,
         \A c \in C : pc'[c] = "uncertain" => status'[job'[c]] = "EXECUTING"
  PROVE  Covered'
<1>1. Frame(NoAction)
  BY DEF Frame, storeVars, backendVars
<1>2. \A d \in Calls : pc[d] = "uncertain" => job[d] # NoAction
  BY RouterAssumption DEF Typed, InHand
<1> QED
  BY <1>1, <1>2, FrameCovered, RouterAssumption

\* A step of the owner of an action on its rows.
LEMMA OwnerCovered ==
  ASSUME Typed, Coordination, Covered, NEW c \in Calls, Owns(c), NEW x, x = job[c], Frame(x),
         \A d \in Calls \ {c} : pc'[d] = pc[d] /\ job'[d] = job[d],
         pc'[c] = "uncertain" => status'[job'[c]] = "EXECUTING",
         CoveredAt(x)'
  PROVE  Covered'
<1>1. ASSUME NEW d \in Calls \ {c}, pc[d] = "uncertain" PROVE job[d] # x
  BY <1>1 DEF Coordination, OneOwner, Owns, Owning, CallSteps
<1> DEFINE C == {c}
<1>2. /\ C \in SUBSET Calls /\ \A d \in Calls \ C : pc'[d] = pc[d] /\ job'[d] = job[d]
      /\ \A d \in C : pc[d] \in Closing => job[d] = x
      /\ \A d \in C : pc'[d] = "uncertain" => status'[job'[d]] = "EXECUTING"
      /\ \A d \in Calls \ C : pc[d] = "uncertain" => job[d] # x
  BY <1>1
<1> HIDE DEF C
<1> QED
  BY <1>2, FrameCovered

\* A step of a call that touches no row, away from the end of an execute.
LEMMA QuietCovered ==
  ASSUME Typed, Covered, NEW c \in Calls,
         UNCHANGED <<storeVars, backendVars>>, ledger \subseteq ledger',
         \A d \in Calls \ {c} : pc'[d] = pc[d] /\ job'[d] = job[d],
         pc[c] \notin Closing, pc'[c] = "uncertain" => status'[job'[c]] = "EXECUTING"
  PROVE  Covered'
<1> DEFINE C == {c}
<1>1. /\ C \in SUBSET Calls /\ \A d \in Calls \ C : pc'[d] = pc[d] /\ job'[d] = job[d]
      /\ \A d \in C : pc[d] \notin Closing
      /\ \A d \in C : pc'[d] = "uncertain" => status'[job'[d]] = "EXECUTING"
  OBVIOUS
<1> HIDE DEF C
<1> QED
  BY <1>1, MovesCovered

\* The calls.
LEMMA CallCovered ==
  ASSUME Typed, Coordination, Covered, NEW c \in Calls, BeginCall(c) \/ CallStep(c),
         Release(c) \/ Unreserve(c) => ReleaseBudget(job[c])
  PROVE  Covered'
<1> PICK x : x = job[c]
  OBVIOUS
<1> USE DEF AtStep, Goto, Return
<1>0. /\ \A d \in Calls \ {c} : pc'[d] = pc[d] /\ job'[d] = job[d]
      /\ pc \in [Calls -> CallSteps] /\ job \in [Calls -> ActionIds \cup {NoAction}]
  BY DEF BeginCall, CallStep, VerifyLedger, CheckPending, ClaimAction, Reserve,
     AppendTierUsed, Begin, Dispatch, AwaitBackend, AppendExecuted, CompleteAction, Release,
     MarkUncertain, FailAction, Unreserve, Typed, TypeOK
<1>1. ASSUME Owns(c)
      PROVE  x \in ActionIds /\ OwnedAsAt(c) /\ StoreTypeOK
  BY <1>1, OwnedAction DEF Typed, TypeOK
<1>2. CASE BeginCall(c) \/ VerifyLedger(c) \/ CheckPending(c)
  <2>1. /\ UNCHANGED <<storeVars, ledgerVars, backendVars>>
        /\ pc[c] \notin Closing /\ pc'[c] # "uncertain"
    BY <1>0, <1>2 DEF BeginCall, VerifyLedger, CheckPending, Closing
  <2> QED
    BY <1>0, <2>1, QuietCovered DEF ledgerVars
<1>3. CASE AppendTierUsed(c) \/ AppendExecuted(c) \/ AwaitBackend(c)
  <2>1. /\ Owns(c) /\ UNCHANGED <<storeVars, backendVars>> /\ pc[c] \notin Closing
        /\ pc'[c] = "uncertain" => pc[c] \in {"executed", "await"}
    BY <1>0, <1>3 DEF AppendTierUsed, AppendExecuted, AwaitBackend, Owns, Owning, CallSteps,
       Closing
  <2>2. ledger \subseteq ledger'
    BY <1>1, <1>3, <2>1, Appending
    DEF AppendTierUsed, AppendExecuted, AwaitBackend, EventTypes, Typed, ledgerVars
  <2>3. pc'[c] = "uncertain" => status[job[c]] = "EXECUTING"
    BY <1>1, <2>1 DEF OwnedAsAt, StatusAt
  <2>4. job' = job
    BY <1>3 DEF AppendTierUsed, AppendExecuted, AwaitBackend
  <2> QED
    BY <1>0, <2>1, <2>2, <2>3, <2>4, QuietCovered DEF storeVars, claimVars
<1>4. CASE Dispatch(c)
  <2>1. /\ Owns(c) /\ UNCHANGED <<storeVars, ledgerVars>> /\ pc[c] = "dispatch"
        /\ op' = [op EXCEPT ![x] = "running"] /\ pc'[c] # "uncertain"
        /\ dispatches' = [dispatches EXCEPT ![x] = @ + 1]
    BY <1>0, <1>4 DEF Dispatch, Owns, Owning, CallSteps
  <2>2. Frame(x)
    BY <2>1 DEF Frame, storeVars, claimVars, budgetVars, ledgerVars, Typed, TypeOK
  <2>3. CoveredAt(x)'
    BY <1>1, <2>1 DEF CoveredAt, OwnedAsAt, StatusAt, storeVars
  <2> QED
    BY <1>0, <2>1, <2>2, <2>3, OwnerCovered
<1>5. CASE ClaimAction(c)
  <2>1. x \in ActionIds /\ pc[c] = "claim" /\ pc'[c] # "uncertain"
    BY <1>0, <1>5 DEF ClaimAction, Typed, InHand
  <2>2. CASE UNCHANGED storeVars
    BY <1>0, <1>5, <2>1, <2>2, QuietCovered DEF ClaimAction, ledgerVars, Closing
  <2>3. CASE Claim(x, goal[c])
    <3>1. status[x] = "NONE" /\ status' = [status EXCEPT ![x] = "CLAIMED"]
          /\ target' = [target EXCEPT ![x] = goal[c]] /\ UNCHANGED <<budgetVars, outbox>>
      BY <2>1, <2>3 DEF Claim, IsDuplicate
    <3>2. Frame(x) /\ CoveredAt(x)'
      BY <1>5, <2>1, <3>1 DEF ClaimAction, Frame, CoveredAt, budgetVars, ledgerVars,
         backendVars, Typed, TypeOK, StoreTypeOK
    <3>3. \A d \in Calls : pc[d] = "uncertain" => job[d] # x
      BY <3>1 DEF Covered
    <3> DEFINE C == {c}
    <3>4. /\ C \in SUBSET Calls /\ \A d \in Calls \ C : pc'[d] = pc[d] /\ job'[d] = job[d]
          /\ \A d \in C : pc[d] \in Closing => job[d] = x
          /\ \A d \in C : pc'[d] = "uncertain" => status'[job'[d]] = "EXECUTING"
      BY <1>0, <2>1
    <3> HIDE DEF C
    <3> QED
      BY <3>2, <3>3, <3>4, FrameCovered
  <2> QED
    BY <1>5, <2>2, <2>3 DEF ClaimAction
<1>6. CASE \/ Reserve(c) \/ Begin(c) \/ CompleteAction(c) \/ Release(c)
           \/ MarkUncertain(c) \/ FailAction(c) \/ Unreserve(c)
  <2>1. Owns(c) /\ x \in ActionIds /\ OwnedAsAt(c) /\ StoreTypeOK
    BY <1>1, <1>6 DEF Reserve, Begin, CompleteAction, Release, MarkUncertain, FailAction,
       Unreserve, Owns, Owning, CallSteps
  <2> DEFINE Moves(step, other) == pc[c] = step /\ pc'[c] = other
             Settles(from, to)  == /\ status[x] = from /\ status' = [status EXCEPT ![x] = to]
                                   /\ UNCHANGED <<target, budgetVars, outbox>>
             Frees              == /\ lock' = [lock EXCEPT ![x] = "released"]
                                   /\ UNCHANGED <<claimVars, lockTarget, outbox>>
             Locks              == /\ lock' = [lock EXCEPT ![x] = "active"]
                                   /\ lockTarget' = [lockTarget EXCEPT ![x] = goal[c]]
                                   /\ UNCHANGED <<claimVars, outbox>>
  <2>2. \/ Moves("reserve", "tier") /\ Locks
        \/ Moves("reserve", "fail") /\ UNCHANGED storeVars
        \/ Moves("begin", "dispatch") /\ Settles("CLAIMED", "EXECUTING")
        \/ Moves("begin", "failReserved") /\ UNCHANGED storeVars
        \/ Moves("complete", "release") /\ Settles("EXECUTING", "EXECUTED") /\ UNCHANGED job
        \/ Moves("complete", "uncertain") /\ UNCHANGED <<storeVars, job>>
        \/ pc[c] \in Closing /\ pc'[c] = "idle" /\ Frees
        \/ Moves("uncertain", "idle") /\ Settles("EXECUTING", "NEEDS_RECONCILIATION")
        \/ Moves("uncertain", "idle") /\ UNCHANGED storeVars
        \/ Moves("fail", "idle") /\ Settles("CLAIMED", "FAILED")
        \/ Moves("fail", "idle") /\ UNCHANGED storeVars
        \/ /\ Moves("failReserved", "unreserve") /\ UNCHANGED job
           /\ Settles("CLAIMED", "FAILED") \/ UNCHANGED storeVars
    <3>1. CASE Reserve(c)
      BY <1>0, <3>1 DEF Reserve, ReserveBudget
    <3>2. CASE Begin(c)
      BY <1>0, <3>2 DEF Begin, BeginExecution, SetStatus
    <3>3. CASE CompleteAction(c)
      BY <1>0, <3>3 DEF CompleteAction, Complete, SetStatus
    <3>4. CASE Release(c) \/ Unreserve(c)
      <4>1. ReleaseBudget(x) /\ Frees
        BY <3>4 DEF ReleaseBudget
      <4>2. lock'[x] # lock[x]
        BY <2>1, <4>1 DEF ReleaseBudget, StoreTypeOK
      <4>3. ~UNCHANGED storeVars
        BY <4>2 DEF storeVars, budgetVars
      <4> QED
        BY <1>0, <3>4, <4>1, <4>3 DEF Release, Unreserve, Closing
    <3>5. CASE MarkUncertain(c)
      BY <1>0, <3>5 DEF MarkUncertain, NeedsReconciliation, SetStatus
    <3>6. CASE FailAction(c)
      BY <1>0, <3>6 DEF FailAction, Fail, SetStatus
    <3> QED
      BY <1>6, <3>1, <3>2, <3>3, <3>4, <3>5, <3>6
  <2>3. UNCHANGED <<backendVars, ledgerVars>>
    BY <1>6 DEF Reserve, Begin, CompleteAction, Release, MarkUncertain, FailAction, Unreserve
  <2>4. /\ status \in [ActionIds -> Statuses]
        /\ DOMAIN lock = ActionIds /\ DOMAIN lockTarget = ActionIds
    BY <2>1 DEF StoreTypeOK
  <2>5. Frame(x)
    BY <2>1, <2>2, <2>3, <2>4
    DEF Frame, storeVars, claimVars, budgetVars, backendVars, ledgerVars
  <2>6. CoveredAt(x)'
    <3>1. CASE lock'[x] # "active"
      BY <3>1 DEF CoveredAt
    <3>2. CASE pc'[c] \in Closing
      <4>1. job'[c] = x
        BY <2>2, <3>2 DEF Closing
      <4> QED
        BY <3>2, <4>1 DEF CoveredAt
    <3>3. CASE lock'[x] = "active" /\ pc'[c] \notin Closing
      <4>1. status'[x] \in {"CLAIMED", "EXECUTING", "NEEDS_RECONCILIATION"}
        <5>1. /\ pc[c] \in {"reserve", "begin"} => status[x] = "CLAIMED"
              /\ pc[c] \in {"complete", "dispatch"} => status[x] = "EXECUTING"
              /\ pc[c] = "uncertain" => status[x] = "EXECUTING"
              /\ pc[c] = "fail" => lock[x] = "none"
          BY <2>1 DEF OwnedAsAt, StatusAt, Covered
        <5>2. \/ pc[c] \in {"reserve", "begin", "complete", "uncertain"}
              \/ pc[c] = "fail" /\ UNCHANGED lock
              \/ lock'[x] = "released"
          BY <2>1, <2>2, <2>4, <3>3 DEF Closing, budgetVars, storeVars
        <5>3. pc[c] \in {"reserve", "begin", "complete", "uncertain"}
          BY <3>3, <5>1, <5>2
        <5>4. \/ UNCHANGED status
              \/ status' = [status EXCEPT ![x] = "EXECUTING"]
              \/ status' = [status EXCEPT ![x] = "NEEDS_RECONCILIATION"]
          BY <2>2, <3>3, <5>3 DEF Closing, storeVars, claimVars
        <5> QED
          BY <2>1, <2>4, <5>1, <5>3, <5>4
      <4> QED
        BY <4>1 DEF CoveredAt
    <3> QED
      BY <3>1, <3>2, <3>3
  <2>7. pc'[c] = "uncertain" => status'[job'[c]] = "EXECUTING"
    BY <2>1, <2>2 DEF OwnedAsAt, StatusAt, storeVars, claimVars
  <2> QED
    BY <1>0, <2>1, <2>5, <2>6, <2>7, OwnerCovered
<1> QED
  BY <1>2, <1>3, <1>4, <1>5, <1>6 DEF CallStep

\* Start-up recovery and reconciliation keep a target locked only while they report it.
LEMMA ServiceCovered ==
  ASSUME Typed, Coordination, Covered, NEW s \in Services,
         \/ ServiceStep(s)
         \/ s \in Procs /\ (StartUp(s) \/ ReadOutbox(s))
         \/ s \in Recons /\ (Authorize(s) \/ OperatorStep(s))
  PROVE  Covered'
<1> PICK x : x = subject[s]
  OBVIOUS
<1>1. UNCHANGED <<callVars, backendVars>>
  BY DEF ServiceStep, OperatorStep, StartUp, ReadOutbox, NextPending, PublishVerify,
     PublishAppend, PublishMark, Authorize, VerifyForOperator, InspectBackend, AppendIntent,
     Resolve, InService
<1>2. CASE UNCHANGED storeVars
  BY <1>1, <1>2 DEF Covered, CoveredAt, storeVars, claimVars, budgetVars, callVars
<1>3. CASE \/ Resolve(s) /\ ResolveReconciliation(x)
           \/ PublishMark(s) /\ MarkReconciliationAuditDelivered(x)
  <2>1. x \in ActionIds /\ StoreTypeOK
    BY <1>3 DEF Resolve, PublishMark, InService, Typed, TypeOK, InHand, Serving, ServiceSteps
  <2>2. /\ status[x] \in {"NEEDS_RECONCILIATION", "RECONCILED"}
        /\ \/ /\ status' = [status EXCEPT ![x] = "RECONCILED"]
              /\ outbox' = [outbox EXCEPT ![x] = "pending"]
              /\ UNCHANGED <<target, lock, lockTarget>>
           \/ /\ lock' = [lock EXCEPT ![x] = "released"]
              /\ outbox' = [outbox EXCEPT ![x] = "delivered"]
              /\ UNCHANGED <<target, status, lockTarget>>
    BY <1>3 DEF ResolveReconciliation, MarkReconciliationAuditDelivered, claimVars, budgetVars
  <2>3. ledger \subseteq ledger'
    BY <1>3 DEF Resolve, PublishMark, ledgerVars
  <2>4. Frame(x) /\ CoveredAt(x)'
    BY <1>1, <2>1, <2>2, <2>3 DEF Frame, CoveredAt, StoreTypeOK, backendVars
  <2>5. \A d \in Calls : pc[d] = "uncertain" => job[d] # x
    BY <2>2 DEF Covered
  <2> DEFINE C == {}
  <2>6. C \in SUBSET Calls /\ C = {} /\ pc' = pc /\ job' = job
    BY <1>1 DEF callVars
  <2> HIDE DEF C
  <2> QED
    BY <2>4, <2>5, <2>6, FrameCovered
<1>4. \/ UNCHANGED storeVars
      \/ Resolve(s) /\ ResolveReconciliation(x)
      \/ PublishMark(s) /\ MarkReconciliationAuditDelivered(x)
  BY DEF ServiceStep, OperatorStep, StartUp, ReadOutbox, NextPending, PublishVerify,
     PublishAppend, PublishMark, Authorize, VerifyForOperator, InspectBackend, AppendIntent,
     Resolve
<1> QED
  BY <1>2, <1>3, <1>4

LEMMA NextCovered ==
  ASSUME Typed, Coordination, Covered, [Next]_vars, EndsWell
  PROVE  Covered'
<1>1. ASSUME NEW c \in Calls, BeginCall(c) \/ CallStep(c) PROVE Covered'
  BY <1>1, CallCovered DEF EndsWell
<1>2. ASSUME NEW p \in Procs, StartupStep(p) PROVE Covered'
  BY <1>2, ServiceCovered DEF StartupStep, Services
<1>3. ASSUME NEW r \in Recons, Authorize(r) \/ OperatorStep(r) PROVE Covered'
  BY <1>3, ServiceCovered DEF Services
<1>4. ASSUME NEW p \in Procs, Crash(p) PROVE Covered'
  <2> DEFINE C == {c \in Calls : ProcOf[c] = p}
  <2>1. /\ \A d \in Calls \ C : pc'[d] = pc[d] /\ job'[d] = job[d]
        /\ \A c \in C : pc'[c] = "idle"
        /\ UNCHANGED <<storeVars, ledgerVars, backendVars>>
    BY <1>4 DEF Crash
  <2>2. C \in SUBSET Calls /\ \A c \in C : pc[c] \notin Closing
    BY <1>4 DEF EndsWell
  <2> HIDE DEF C
  <2> QED
    BY <2>1, <2>2, MovesCovered DEF ledgerVars
<1>5. CASE \/ \E r \in Recons : OperatorCrash(r)
           \/ \E a \in ActionIds : BackendFinishes(a)
           \/ ClockTicks
           \/ UNCHANGED vars
  <2>1. UNCHANGED <<status, outbox, lock, pc, job>>
    BY <1>5 DEF OperatorCrash, BackendFinishes, ClockTicks, ClockMoves, vars, storeVars,
       claimVars, budgetVars, callVars
  <2> QED
    BY <2>1 DEF Covered, CoveredAt
<1> QED
  BY <1>1, <1>2, <1>3, <1>4, <1>5 DEF Next

\* Every locked target is in the hands of a running call or reported as pending, as long
\* as the store call that gives it back neither throws nor is cut off by a crash: lines
\* 210-211 and 229-236 are the only places where the claim of the documentation fails.
THEOREM CoveredUnlessCutOff == Spec /\ [][EndsWell]_vars => []EveryLockCovered
<1>1. Init => Covered
  BY DEF Init, StoreInit, Covered, CoveredAt
<1>2. Typed /\ Coordination /\ Covered /\ [Next]_vars /\ [EndsWell]_vars => Covered'
  <2>1. CASE UNCHANGED vars
    BY <2>1 DEF Covered, CoveredAt, vars, storeVars, claimVars, budgetVars, callVars
  <2> QED
    BY <2>1, NextCovered
<1>3. Typed /\ Coordination /\ Covered => EveryLockCovered
  <2> SUFFICES ASSUME Typed, Coordination, Covered, NEW a \in ActionIds, lock[a] = "active"
               PROVE  \/ \E c \in Calls : job[c] = a
                      \/ lockTarget[a] \in PendingRecoveryTargets
    BY DEF EveryLockCovered
  <2>1. lockTarget[a] = target[a]
    BY DEF Coordination, Sound, Agreed
  <2> QED
    BY <2>1 DEF Covered, CoveredAt, PendingRecoveryTargets
<1> QED
  BY <1>1, <1>2, <1>3, AlwaysTyped, AlwaysCoordinated, PTL DEF Spec
=============================================================================

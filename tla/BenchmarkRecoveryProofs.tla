----------------------- MODULE BenchmarkRecoveryProofs -----------------------
(***************************************************************************)
(* Theorems about the offline benchmark recovery, for any number of        *)
(* objects, calls, actions and targets and for every cooldown longer than  *)
(* two observations are good for.                                          *)
(*                                                                         *)
(* Recovering is the inductive invariant.  Its heart is Evidence: a call   *)
(* whose fixture has become healthy since it looked has been overtaken by  *)
(* a reservation of the same target, made no earlier than Freshness before *)
(* it looked.  Once the call holds a reservation of its own, a cooldown    *)
(* later, what it saw is too old to begin.                                 *)
(***************************************************************************)
EXTENDS BenchmarkRecovery, ActionStoreProofs

Steps == {"idle", "check", "bind", "claim", "reserve", "intent", "begin", "dispatch",
          "outcome", "complete", "release", "uncertain", "fail", "unlock",
          "verify", "verified", "resolve", "list", "next", "mark"}

\* The steps of execute, and those of a call that has claimed its action.
Executing == {"check", "bind", "claim", "reserve", "intent", "begin", "dispatch",
              "outcome", "complete", "release", "uncertain", "fail", "unlock"}
Owners == {"reserve", "intent", "begin", "dispatch", "outcome", "complete", "release",
           "uncertain", "fail", "unlock"}

CallType ==
    [at : Steps, object : Objects \cup {Nobody}, action : ActionIds \cup {Nobody},
     target : Targets \cup {NoTarget}, purpose : {"none", "recovery", "cleanup"},
     observed : Nat, todo : SUBSET ActionIds]

RecoveryTypeOK ==
    /\ StoreTypeOK
    /\ fixture \in [Objects -> [Targets -> Conditions]]
    /\ call \in [Calls -> CallType]
    /\ ledger \in [ActionIds -> SUBSET {"reserved", "executed", "intent", "reconciled"}]
    /\ dispatched \subseteq ActionIds
    /\ reported \subseteq ActionIds

\* A running call knows whom it acts for.
Acting ==
    \A c \in Calls :
        /\ call[c].at \in Executing =>
              /\ call[c].object \in Objects
              /\ call[c].action \in ActionIds
              /\ call[c].target \in Targets
              /\ call[c].observed <= now
        /\ call[c].at \in {"verify", "verified", "resolve", "mark"} =>
              call[c].action \in ActionIds

\* What a call that has claimed its action relies on.
Owning ==
    \A c \in Calls :
        LET k == call[c]
            a == call[c].action
        IN  /\ k.at \in {"reserve", "intent", "begin", "fail"} => status[a] = "CLAIMED"
            /\ k.at = "unlock" => status[a] = "FAILED"
            /\ k.at \in {"dispatch", "outcome", "complete", "uncertain"} =>
                  status[a] \in {"EXECUTING", "NEEDS_RECONCILIATION", "RECONCILED"}
            /\ k.at = "release" => status[a] = "EXECUTED"
            /\ k.at \in {"reserve", "intent", "begin", "dispatch", "fail"} => a \notin dispatched
            /\ k.at \in {"outcome", "complete", "release"} => a \in dispatched
            /\ k.at \in {"complete", "release"} => "executed" \in ledger[a]
            /\ k.at \in {"intent", "begin"} =>
                  lock[a] = "active" /\ lockTarget[a] = k.target
            /\ k.at \in {"intent", "begin"} => k.observed <= reservedAt[a]
            /\ k.at = "dispatch" =>
                  /\ lock[a] # "none" /\ lockTarget[a] = k.target
                  /\ k.observed <= reservedAt[a]
                  /\ now <= k.observed + Freshness

OwnersDiffer ==
    \A c, d \in Calls :
        (c # d /\ call[c].at \in Owners /\ call[d].at \in Owners)
            => call[c].action # call[d].action

\* What the tables, the ledger and the histories say of each other.
StoreAgrees ==
    \A a \in ActionIds :
        /\ a \in dispatched => status[a] \notin {"NONE", "CLAIMED"}
        /\ outbox[a] # "none" => status[a] = "RECONCILED"
        /\ "reconciled" \in ledger[a] => status[a] = "RECONCILED"
        /\ status[a] = "RECONCILED" => "intent" \in ledger[a]
        /\ outbox[a] = "delivered" => "reconciled" \in ledger[a]
        /\ a \in reported =>
              status[a] = "EXECUTED" /\ a \in dispatched /\ "executed" \in ledger[a]

Reconciling ==
    \A c \in Calls :
        /\ call[c].at = "resolve" => "intent" \in ledger[call[c].action]
        /\ call[c].at = "mark" => "reconciled" \in ledger[call[c].action]
        /\ \A a \in call[c].todo : status[a] = "RECONCILED"

\* No reservation lies in the future.
Past == \A a \in ActionIds : reservedAt[a] <= now

\* The reservation that holds the lock of a target came a cooldown after all others.
ActiveIsLatest ==
    \A a, b \in ActionIds :
        (/\ a # b /\ lock[a] = "active" /\ lock[b] # "none"
         /\ lockTarget[a] = lockTarget[b]) => reservedAt[b] + Cooldown <= reservedAt[a]

\* b's reservation shows that the fixture of k may have changed since k looked.
Overtakes(b, k) ==
    /\ lock[b] # "none"
    /\ lockTarget[b] = k.target
    /\ k.observed <= reservedAt[b] + Freshness

Evidence ==
    \A c \in Calls :
        LET k == call[c]
        IN  /\ k.at \in {"check", "bind", "claim", "reserve"} =>
                  \/ fixture[k.object][k.target] = "ill"
                  \/ \E b \in ActionIds : Overtakes(b, k)
            /\ k.at \in {"intent", "begin"} =>
                  \/ fixture[k.object][k.target] = "ill"
                  \/ \E b \in ActionIds \ {k.action} : Overtakes(b, k)
            /\ k.at = "dispatch" => fixture[k.object][k.target] = "ill"

Recovering ==
    /\ RecoveryTypeOK /\ Acting /\ Owning /\ OwnersDiffer /\ StoreAgrees
    /\ Reconciling /\ Past /\ ActiveIsLatest /\ Evidence

------------------------------------------------------------------------------
(* What a step does to the calls.                                           *)

Moves(c, s) ==
    /\ call'[c].at = s
    /\ call'[c].object = call[c].object
    /\ call'[c].action = call[c].action
    /\ call'[c].target = call[c].target
    /\ call'[c].observed = call[c].observed
    /\ call'[c].todo = call[c].todo
    /\ \A d \in Calls : d # c => call'[d] = call[d]

Ended(c) ==
    /\ call'[c] = NoCall
    /\ \A d \in Calls : d # c => call'[d] = call[d]

\* The publication of a's audit goes on to marking it.
Marks(c, a) ==
    /\ call'[c].at = "mark"
    /\ call'[c].action = a
    /\ call'[c].todo = call[c].todo \ {a}
    /\ \A d \in Calls : d # c => call'[d] = call[d]

LEMMA GotoFrame ==
  ASSUME call \in [Calls -> CallType], NEW c \in Calls, NEW s \in Steps, Goto(c, s)
  PROVE  call' \in [Calls -> CallType] /\ Moves(c, s)
  BY DEF Goto, Moves, CallType

LEMMA OverFrame ==
  ASSUME call \in [Calls -> CallType], NEW c \in Calls, Over(c)
  PROVE  call' \in [Calls -> CallType] /\ Ended(c)
<1>1. NoCall \in CallType
  BY DEF NoCall, CallType, Steps
<1> QED
  BY <1>1 DEF Over, Ended

------------------------------------------------------------------------------
(* The store is used through its methods only.                              *)

\* A step of a running call is a step of the store or leaves it alone.
LEMMA CallUsesStore ==
  ASSUME Recovering, NEW c \in Calls, ExecuteStep(c) \/ ReconcileStep(c)
  PROVE  [StoreNext]_storeVars
<1> USE DEF CallAt, Recovering, Acting, Executing
<1>1. ASSUME Check(c) \/ Bind(c) \/ RecordReserved(c) \/ Dispatch(c) \/ RecordExecuted(c)
             \/ RecordIntent(c) \/ ListPending(c) \/ PublishNext(c)
      PROVE  UNCHANGED storeVars
  BY <1>1 DEF Check, Bind, RecordReserved, Dispatch, RecordExecuted, RecordIntent, ListPending,
     PublishNext
<1>2. ASSUME ClaimBound(c) PROVE [StoreNext]_storeVars
  BY <1>2 DEF ClaimBound, StoreNext
<1>3. ASSUME Reserve(c) PROVE [StoreNext]_storeVars
  BY <1>3 DEF Reserve, StoreNext, BudgetNext
<1>4. ASSUME Begin(c) PROVE [StoreNext]_storeVars
  BY <1>4 DEF Begin, StoreNext
<1>5. ASSUME CompleteCall(c) PROVE [StoreNext]_storeVars
  BY <1>5 DEF CompleteCall, StoreNext
<1>6. ASSUME ReleaseCall(c) PROVE [StoreNext]_storeVars
  BY <1>6 DEF ReleaseCall, StoreNext, BudgetNext
<1>7. ASSUME Uncertain(c) PROVE [StoreNext]_storeVars
  BY <1>7 DEF Uncertain, StoreNext
<1>8. ASSUME FailCall(c) PROVE [StoreNext]_storeVars
  BY <1>8 DEF FailCall, StoreNext, BudgetNext
<1>9. ASSUME TakeAway(c) PROVE [StoreNext]_storeVars
  BY <1>9 DEF TakeAway, StoreNext
<1>10. ASSUME Resolve(c) PROVE [StoreNext]_storeVars
  BY <1>10 DEF Resolve, StoreNext
<1>11. ASSUME MarkPublished(c) PROVE [StoreNext]_storeVars
  BY <1>11 DEF MarkPublished, StoreNext
<1> QED
  BY <1>1, <1>2, <1>3, <1>4, <1>5, <1>6, <1>7, <1>8, <1>9, <1>10, <1>11 DEF ExecuteStep,
     ReconcileStep

LEMMA StepUsesStore == Recovering /\ [RecoveryNext]_recoveryVars => [StoreNext]_storeVars
<1> SUFFICES ASSUME Recovering, [RecoveryNext]_recoveryVars PROVE [StoreNext]_storeVars
  OBVIOUS
<1>1. CASE \E c \in Calls, o \in Objects, a \in ActionIds, t \in Targets : AskExecute(c, o, a,
      t)
  BY <1>1 DEF AskExecute
<1>2. CASE \E c \in Calls, o \in Objects, a \in ActionIds : AskReconcile(c, o, a)
  BY <1>2 DEF AskReconcile
<1>3. CASE \E c \in Calls, o \in Objects : AskRecover(c, o)
  BY <1>3 DEF AskRecover
<1>4. CASE \E c \in Calls : Alone(c) /\ (ExecuteStep(c) \/ ReconcileStep(c))
  BY <1>4, CallUsesStore
<1>5. CASE \E o \in Objects : NewObject(o)
  BY <1>5 DEF NewObject
<1>6. CASE TimePasses
  <2>1. now + 1 \in 0..MaxTime
    BY <1>6, StoreAssumption DEF TimePasses, Recovering, RecoveryTypeOK, StoreTypeOK
  <2> QED
    BY <1>6, <2>1 DEF TimePasses, ClockMoves, StoreNext, BudgetNext
<1>7. CASE UNCHANGED recoveryVars
  BY <1>7 DEF recoveryVars
<1> QED
  BY <1>1, <1>2, <1>3, <1>4, <1>5, <1>6, <1>7 DEF RecoveryNext

------------------------------------------------------------------------------
(* Types.                                                                   *)

LEMMA CallTyped ==
  ASSUME Recovering, NEW c \in Calls, ExecuteStep(c) \/ ReconcileStep(c)
  PROVE  call' \in [Calls -> CallType]
<1> USE DEF Recovering, RecoveryTypeOK
<1>1. ASSUME NEW s \in Steps, Goto(c, s) PROVE call' \in [Calls -> CallType]
  BY <1>1, GotoFrame
<1>2. ASSUME Over(c) PROVE call' \in [Calls -> CallType]
  BY <1>2, OverFrame
<1>3. (\E s \in Steps : Goto(c, s)) \/ Over(c) \/ ListPending(c) \/ PublishNext(c)
  BY DEF ExecuteStep, ReconcileStep, Check, Bind, ClaimBound, Reserve, RecordReserved, Begin,
     Dispatch, RecordExecuted, CompleteCall, ReleaseCall, Uncertain, FailCall, TakeAway,
     RecordIntent, Resolve, MarkPublished, Appends, Steps
<1>4. CASE ListPending(c)
  <2>1. call[c] \in CallType /\ PendingAudits \subseteq ActionIds
    BY DEF PendingAudits
  <2>2. [call[c] EXCEPT !.at = "next", !.todo = PendingAudits] \in CallType
    BY <2>1 DEF CallType, Steps
  <2> QED
    BY <1>4, <2>2 DEF ListPending
<1>5. CASE PublishNext(c)
  <2>1. call[c] \in CallType
    OBVIOUS
  <2>2. ASSUME NEW a \in call[c].todo
        PROVE  [call[c] EXCEPT !.at = "mark", !.action = a, !.todo = @ \ {a}] \in CallType
    BY <2>1 DEF CallType, Steps
  <2> QED
    BY <1>2, <1>5, <2>2 DEF PublishNext
<1> QED
  BY <1>1, <1>2, <1>3, <1>4, <1>5

LEMMA RestTyped ==
  ASSUME Recovering, NEW c \in Calls, ExecuteStep(c) \/ ReconcileStep(c)
  PROVE  /\ fixture' \in [Objects -> [Targets -> Conditions]]
         /\ ledger' \in [ActionIds -> SUBSET {"reserved", "executed", "intent", "reconciled"}]
         /\ dispatched' \subseteq ActionIds
         /\ reported' \subseteq ActionIds
<1> USE DEF Recovering, RecoveryTypeOK, Acting, Executing, CallAt
<1>1. CASE Check(c) \/ Bind(c) \/ ClaimBound(c) \/ Reserve(c) \/ Begin(c) \/ CompleteCall(c)
           \/ Uncertain(c) \/ FailCall(c) \/ TakeAway(c) \/ Resolve(c) \/ ListPending(c)
           \/ MarkPublished(c)
  BY <1>1 DEF Check, Bind, ClaimBound, Reserve, Begin, CompleteCall, Uncertain, FailCall,
     TakeAway, Resolve, ListPending, MarkPublished
<1>2. CASE Dispatch(c)
  BY <1>2 DEF Dispatch, Conditions
<1>3. CASE ReleaseCall(c)
  BY <1>3 DEF ReleaseCall
<1>4. CASE RecordReserved(c)
  BY <1>4 DEF RecordReserved, Appends, Record
<1>5. CASE RecordExecuted(c)
  BY <1>5 DEF RecordExecuted, Appends, Record
<1>6. CASE RecordIntent(c)
  BY <1>6 DEF RecordIntent, Appends, Record
<1>7. CASE PublishNext(c)
  <2>1. call[c].todo \subseteq ActionIds
    BY DEF CallType
  <2>2. /\ UNCHANGED <<fixture, dispatched, reported>>
        /\ \/ ledger' = ledger
           \/ \E a \in call[c].todo : ledger' = [ledger EXCEPT ![a] = @ \cup {"reconciled"}]
    BY <1>7 DEF PublishNext, Record
  <2> QED
    BY <2>1, <2>2
<1> QED
  BY <1>1, <1>2, <1>3, <1>4, <1>5, <1>6, <1>7 DEF ExecuteStep, ReconcileStep

LEMMA TypeStep == Recovering /\ [RecoveryNext]_recoveryVars => RecoveryTypeOK'
<1> SUFFICES ASSUME Recovering, [RecoveryNext]_recoveryVars PROVE RecoveryTypeOK'
  OBVIOUS
<1>0. StoreTypeOK'
  BY StepUsesStore, StoreStepTyped DEF Recovering, RecoveryTypeOK
<1> USE DEF Recovering
<1>1. ASSUME NEW c \in Calls, NEW o \in Objects, NEW a \in ActionIds, NEW t \in Targets,
             AskExecute(c, o, a, t)
      PROVE  RecoveryTypeOK'
  BY <1>0, <1>1 DEF RecoveryTypeOK, AskExecute, CallType, Steps, StoreTypeOK
<1>2. ASSUME NEW c \in Calls, NEW o \in Objects, NEW a \in ActionIds, AskReconcile(c, o, a)
      PROVE  RecoveryTypeOK'
  BY <1>0, <1>2 DEF RecoveryTypeOK, AskReconcile, NoCall, CallType, Steps
<1>3. ASSUME NEW c \in Calls, NEW o \in Objects, AskRecover(c, o) PROVE RecoveryTypeOK'
  BY <1>0, <1>3 DEF RecoveryTypeOK, AskRecover, NoCall, CallType, Steps
<1>4. ASSUME NEW c \in Calls, ExecuteStep(c) \/ ReconcileStep(c) PROVE RecoveryTypeOK'
  BY <1>0, <1>4, CallTyped, RestTyped DEF RecoveryTypeOK
<1>5. ASSUME NEW o \in Objects, NewObject(o) PROVE RecoveryTypeOK'
  <2>1. NoCall \in CallType
    BY DEF NoCall, CallType, Steps
  <2> QED
    BY <1>0, <1>5, <2>1 DEF RecoveryTypeOK, NewObject
<1>6. CASE TimePasses
  BY <1>0, <1>6 DEF RecoveryTypeOK, TimePasses
<1>7. CASE UNCHANGED recoveryVars
  BY <1>0, <1>7 DEF RecoveryTypeOK, recoveryVars
<1> QED
  BY <1>1, <1>2, <1>3, <1>4, <1>5, <1>6, <1>7 DEF RecoveryNext

------------------------------------------------------------------------------
(* The steps, one by one.                                                   *)

LEMMA AskExecuteStep ==
  ASSUME Recovering, RecoveryTypeOK', NEW c \in Calls, NEW o \in Objects, NEW a \in ActionIds,
         NEW t \in Targets, AskExecute(c, o, a, t)
  PROVE  Recovering'
<1> USE DEF Recovering, AskExecute
<1>1. Acting'
  BY DEF Acting, storeVars, CallType, Statuses
<1>2. Owning'
  BY DEF Owning, storeVars, CallType, Statuses
<1>3. OwnersDiffer'
  BY DEF OwnersDiffer, Owners, Owning, Arrives, CallAt, IsFresh, CallType
<1>4. StoreAgrees'
  BY DEF StoreAgrees, IsFresh, storeVars, CallType, Statuses
<1>5. Reconciling'
  BY DEF Reconciling, IsFresh, storeVars, CallType
<1>6. Past'
  BY DEF Past, storeVars, CallType
<1>7. ActiveIsLatest'
  BY DEF ActiveIsLatest, storeVars, CallType
<1>8. Evidence'
  BY DEF Evidence, Overtakes, Owning, OwnersDiffer, Owners, ActiveIsLatest, Past, Conditions,
         Arrives, CallAt, IsFresh, storeVars, CallType
<1> QED
  BY <1>1, <1>2, <1>3, <1>4, <1>5, <1>6, <1>7, <1>8

LEMMA AskReconcileStep ==
  ASSUME Recovering, RecoveryTypeOK', NEW c \in Calls, NEW o \in Objects, NEW a \in ActionIds,
         AskReconcile(c, o, a)
  PROVE  Recovering'
<1> USE DEF Recovering, AskReconcile
<1>1. Acting'
  BY DEF Acting, Executing, Arrives, CallAt, NoCall, storeVars, CallType, Statuses
<1>2. Owning'
  BY DEF Owning, storeVars, CallType, Statuses
<1>3. OwnersDiffer'
  BY DEF OwnersDiffer, Owners, Owning, Arrives, CallAt, NoCall, CallType
<1>4. StoreAgrees'
  BY DEF StoreAgrees, NoCall, storeVars, CallType, Statuses
<1>5. Reconciling'
  BY DEF Reconciling, NoCall, storeVars, CallType
<1>6. Past'
  BY DEF Past, storeVars, CallType
<1>7. ActiveIsLatest'
  BY DEF ActiveIsLatest, storeVars, CallType
<1>8. Evidence'
  BY DEF Evidence, Overtakes, Owning, OwnersDiffer, Owners, ActiveIsLatest, Past, Conditions,
         Arrives, CallAt, NoCall, storeVars, CallType
<1> QED
  BY <1>1, <1>2, <1>3, <1>4, <1>5, <1>6, <1>7, <1>8

LEMMA AskRecoverStep ==
  ASSUME Recovering, RecoveryTypeOK', NEW c \in Calls, NEW o \in Objects, AskRecover(c, o)
  PROVE  Recovering'
<1> USE DEF Recovering, AskRecover
<1>1. Acting'
  BY DEF Acting, Executing, Arrives, CallAt, NoCall, storeVars, CallType, Statuses
<1>2. Owning'
  BY DEF Owning, storeVars, CallType, Statuses
<1>3. OwnersDiffer'
  BY DEF OwnersDiffer, Owners, Owning, Arrives, CallAt, NoCall, CallType
<1>4. StoreAgrees'
  BY DEF StoreAgrees, NoCall, storeVars, CallType, Statuses
<1>5. Reconciling'
  BY DEF Reconciling, NoCall, storeVars, CallType
<1>6. Past'
  BY DEF Past, storeVars, CallType
<1>7. ActiveIsLatest'
  BY DEF ActiveIsLatest, storeVars, CallType
<1>8. Evidence'
  BY DEF Evidence, Overtakes, Owning, OwnersDiffer, Owners, ActiveIsLatest, Past, Conditions,
         Arrives, CallAt, NoCall, storeVars, CallType
<1> QED
  BY <1>1, <1>2, <1>3, <1>4, <1>5, <1>6, <1>7, <1>8

LEMMA CheckStep ==
  ASSUME Recovering, RecoveryTypeOK', NEW c \in Calls, Alone(c), Check(c)
  PROVE  Recovering'
<1> USE DEF Recovering, Check
<1>0. /\ Goto(c, "bind") => Moves(c, "bind")
      /\ Over(c) => Ended(c)
  BY GotoFrame, OverFrame DEF RecoveryTypeOK, Steps
<1>1. Acting'
  BY <1>0 DEF Acting, Executing, CallAt, storeVars, Moves, Ended, NoCall
<1>2. Owning'
  BY <1>0 DEF Owning, storeVars, Moves, Ended, NoCall
<1>3. OwnersDiffer'
  BY <1>0 DEF OwnersDiffer, Owners, Moves, Ended, NoCall
<1>4. StoreAgrees'
  BY <1>0 DEF StoreAgrees, storeVars
<1>5. Reconciling'
  BY <1>0 DEF Reconciling, storeVars, Moves, Ended, NoCall
<1>6. Past'
  BY <1>0 DEF Past, storeVars
<1>7. ActiveIsLatest'
  BY <1>0 DEF ActiveIsLatest, storeVars
<1>8. Evidence'
  BY <1>0 DEF Evidence, Overtakes, CallAt, storeVars, Moves, Ended, NoCall
<1> QED
  BY <1>1, <1>2, <1>3, <1>4, <1>5, <1>6, <1>7, <1>8

LEMMA BindStep ==
  ASSUME Recovering, RecoveryTypeOK', NEW c \in Calls, Alone(c), Bind(c)
  PROVE  Recovering'
<1> USE DEF Recovering, Bind
<1>0. /\ Goto(c, "claim") => Moves(c, "claim")
      /\ Over(c) => Ended(c)
  BY GotoFrame, OverFrame DEF RecoveryTypeOK, Steps
<1>1. Acting'
  BY <1>0 DEF Acting, Executing, CallAt, storeVars, Moves, Ended, NoCall
<1>2. Owning'
  BY <1>0 DEF Owning, storeVars, Moves, Ended, NoCall
<1>3. OwnersDiffer'
  BY <1>0 DEF OwnersDiffer, Owners, Moves, Ended, NoCall
<1>4. StoreAgrees'
  BY <1>0 DEF StoreAgrees, storeVars
<1>5. Reconciling'
  BY <1>0 DEF Reconciling, storeVars, Moves, Ended, NoCall
<1>6. Past'
  BY <1>0 DEF Past, storeVars
<1>7. ActiveIsLatest'
  BY <1>0 DEF ActiveIsLatest, storeVars
<1>8. Evidence'
  BY <1>0 DEF Evidence, Overtakes, CallAt, storeVars, Moves, Ended, NoCall
<1> QED
  BY <1>1, <1>2, <1>3, <1>4, <1>5, <1>6, <1>7, <1>8

LEMMA ClaimBoundStep ==
  ASSUME Recovering, RecoveryTypeOK', NEW c \in Calls, Alone(c), ClaimBound(c)
  PROVE  Recovering'
<1> USE DEF Recovering, ClaimBound
<1>0. /\ Goto(c, "reserve") => Moves(c, "reserve")
      /\ Over(c) => Ended(c)
  BY GotoFrame, OverFrame DEF RecoveryTypeOK, Steps
<1>1. Acting'
  BY <1>0 DEF Acting, Executing, CallAt, Claim, storeVars, Moves, Ended, NoCall
<1>2. Owning'
  BY <1>0 DEF Owning, Executing, StoreAgrees, Acting, CallAt, Claim, IsDuplicate,
     RecoveryTypeOK, StoreTypeOK, storeVars, budgetVars, Moves, Ended, NoCall,
     Statuses
<1>3. OwnersDiffer'
  BY <1>0 DEF OwnersDiffer, Owners, Owning, Claim, IsDuplicate, Moves, Ended, NoCall
<1>4. StoreAgrees'
  BY <1>0 DEF StoreAgrees, Claim, IsDuplicate, RecoveryTypeOK, StoreTypeOK, storeVars
<1>5. Reconciling'
  <2>1. \A x \in ActionIds : status[x] = "RECONCILED" => status'[x] = "RECONCILED"
    BY DEF ClaimBound, Claim, IsDuplicate, RecoveryTypeOK, StoreTypeOK, storeVars
  <2>2. (Moves(c, "reserve") \/ Ended(c)) /\ ledger' = ledger
    BY <1>0
  <2> QED
    BY <2>1, <2>2 DEF Reconciling, Moves, Ended, NoCall, RecoveryTypeOK, CallType
<1>6. Past'
  BY <1>0 DEF Past, Claim, storeVars, budgetVars
<1>7. ActiveIsLatest'
  BY <1>0 DEF ActiveIsLatest, Claim, storeVars, budgetVars
<1>8. Evidence'
  BY <1>0 DEF Evidence, Overtakes, CallAt, Claim, storeVars, budgetVars, Moves, Ended, NoCall
<1> QED
  BY <1>1, <1>2, <1>3, <1>4, <1>5, <1>6, <1>7, <1>8

LEMMA ReserveStep ==
  ASSUME Recovering, RecoveryTypeOK', NEW c \in Calls, Alone(c), Reserve(c)
  PROVE  Recovering'
<1> USE DEF Recovering, Reserve
<1>0. /\ Goto(c, "intent") => Moves(c, "intent")
      /\ Over(c) => Ended(c)
  BY GotoFrame, OverFrame DEF RecoveryTypeOK, Steps
<1>1. Acting'
  BY <1>0 DEF Acting, Executing, CallAt, ReserveBudget, Fail, SetStatus, Moves, Ended, NoCall
<1>2. Owning'
  BY <1>0 DEF Owning, Executing, OwnersDiffer, Owners, Acting, CallAt, ReserveBudget, Fail,
     SetStatus, RecoveryTypeOK, StoreTypeOK, claimVars, budgetVars, Moves, Ended, NoCall,
     Statuses
<1>3. OwnersDiffer'
  BY <1>0 DEF OwnersDiffer, Owners, CallAt, Moves, Ended, NoCall
<1>4. StoreAgrees'
  BY <1>0 DEF StoreAgrees, ReserveBudget, Fail, SetStatus, RecoveryTypeOK, StoreTypeOK,
     claimVars
<1>5. Reconciling'
  <2>1. \A x \in ActionIds : status[x] = "RECONCILED" => status'[x] = "RECONCILED"
    BY DEF Reserve, ReserveBudget, Fail, SetStatus, claimVars, RecoveryTypeOK, StoreTypeOK,
           storeVars
  <2>2. (Moves(c, "intent") \/ Ended(c)) /\ ledger' = ledger
    BY <1>0
  <2> QED
    BY <2>1, <2>2 DEF Reconciling, Moves, Ended, NoCall, RecoveryTypeOK, CallType
<1>6. Past'
  BY <1>0 DEF Past, ReserveBudget, Fail, SetStatus, RecoveryTypeOK, StoreTypeOK, budgetVars
<1>7. ActiveIsLatest'
  BY <1>0, StoreAssumption DEF ActiveIsLatest, ReserveBudget, CanReserve, LockedBy, CooledDown,
     Reserved, Fail, SetStatus, RecoveryTypeOK, StoreTypeOK, budgetVars
<1>8. Evidence'
  <2>1. CASE ReserveBudget(call[c].action, call[c].target) /\ Goto(c, "intent")
    <3> DEFINE a == call[c].action
    <3>1. /\ a \in ActionIds /\ lock[a] = "none"
          /\ lock' = [lock EXCEPT ![a] = "active"]
          /\ lockTarget' = [lockTarget EXCEPT ![a] = call[c].target]
          /\ reservedAt' = [reservedAt EXCEPT ![a] = now]
      BY <2>1 DEF ReserveBudget, CanReserve, Acting, Executing, CallAt
    <3>2. \A b \in ActionIds : lock[b] # "none" =>
              /\ b # a /\ lock'[b] # "none"
              /\ lockTarget'[b] = lockTarget[b] /\ reservedAt'[b] = reservedAt[b]
      BY <3>1 DEF RecoveryTypeOK, StoreTypeOK
    <3> QED
      BY <1>0, <2>1, <3>2 DEF Evidence, Overtakes, Moves, CallAt, RecoveryTypeOK, CallType
  <2>2. CASE Fail(call[c].action) /\ Over(c)
    BY <1>0, <2>2 DEF Evidence, Overtakes, Ended, NoCall, Fail, SetStatus, budgetVars
  <2> QED
    BY <2>1, <2>2
<1> QED
  BY <1>1, <1>2, <1>3, <1>4, <1>5, <1>6, <1>7, <1>8

LEMMA RecordReservedStep ==
  ASSUME Recovering, RecoveryTypeOK', NEW c \in Calls, Alone(c), RecordReserved(c)
  PROVE  Recovering'
<1> USE DEF Recovering, RecordReserved
<1>0. /\ Goto(c, "begin") => Moves(c, "begin")
      /\ Goto(c, "fail") => Moves(c, "fail")
  BY GotoFrame, OverFrame DEF RecoveryTypeOK, Steps
<1>1. Acting'
  BY <1>0 DEF Acting, Executing, CallAt, Appends, storeVars, Moves
<1>2. Owning'
  BY <1>0 DEF Owning, CallAt, Appends, Record, RecoveryTypeOK, storeVars, Moves
<1>3. OwnersDiffer'
  BY <1>0 DEF OwnersDiffer, Owners, CallAt, Appends, Moves
<1>4. StoreAgrees'
  BY <1>0 DEF StoreAgrees, Appends, Record, RecoveryTypeOK, storeVars
<1>5. Reconciling'
  BY <1>0 DEF Reconciling, Acting, Appends, Record, RecoveryTypeOK, storeVars, Moves
<1>6. Past'
  BY <1>0 DEF Past, storeVars
<1>7. ActiveIsLatest'
  BY <1>0 DEF ActiveIsLatest, storeVars
<1>8. Evidence'
  BY <1>0 DEF Evidence, Overtakes, CallAt, Appends, storeVars, Moves
<1> QED
  BY <1>1, <1>2, <1>3, <1>4, <1>5, <1>6, <1>7, <1>8

LEMMA BeginStep ==
  ASSUME Recovering, RecoveryTypeOK', NEW c \in Calls, Alone(c), Begin(c)
  PROVE  Recovering'
<1> USE DEF Recovering, Begin
<1>0. /\ Goto(c, "dispatch") => Moves(c, "dispatch")
      /\ Goto(c, "fail") => Moves(c, "fail")
  BY GotoFrame, OverFrame DEF RecoveryTypeOK, Steps
<1>1. Acting'
  BY <1>0 DEF Acting, Executing, CallAt, BeginExecution, SetStatus, storeVars, Moves
<1>2. Owning'
  <2>1. CASE IsFresh(call[c].observed) /\ BeginExecution(call[c].action) /\ Goto(c, "dispatch")
    <3> DEFINE a == call[c].action
    <3>1. /\ call[c].at = "begin" /\ a \in ActionIds /\ now <= call[c].observed + Freshness
          /\ call[c].observed <= reservedAt[a]
          /\ lock[a] = "active" /\ lockTarget[a] = call[c].target /\ a \notin dispatched
      BY <2>1, RecoveryAssumption DEF CallAt, Acting, Executing, Owning, IsFresh,
         RecoveryTypeOK,
         StoreTypeOK, CallType
    <3>2. /\ status[a] = "CLAIMED" /\ status' = [status EXCEPT ![a] = "EXECUTING"]
          /\ UNCHANGED <<lock, lockTarget, reservedAt, now, dispatched, ledger>>
      BY <2>1 DEF BeginExecution, SetStatus, budgetVars
    <3>3. status'[a] = "EXECUTING" /\ \A b \in ActionIds \ {a} : status'[b] = status[b]
      BY <3>1, <3>2 DEF RecoveryTypeOK, StoreTypeOK
    <3>4. \A d \in Calls \ {c} : call[d].at \in Owners => call[d].action \in ActionIds \ {a}
      BY <3>1 DEF OwnersDiffer, Owners, Acting, Executing
    <3> HIDE DEF Begin
    <3> QED
      BY <1>0, <2>1, <3>1, <3>2, <3>3, <3>4 DEF Owning, Owners, Moves
  <2>2. CASE Goto(c, "fail") /\ UNCHANGED storeVars
    BY <1>0, <2>2 DEF Owning, CallAt, RecoveryTypeOK, CallType, Moves, storeVars
  <2> QED
    BY <2>1, <2>2
<1>3. OwnersDiffer'
  BY <1>0 DEF OwnersDiffer, Owners, CallAt, Moves
<1>4. StoreAgrees'
  BY <1>0 DEF StoreAgrees, BeginExecution, SetStatus, RecoveryTypeOK, StoreTypeOK, storeVars
<1>5. Reconciling'
  <2>1. \A x \in ActionIds : status[x] = "RECONCILED" => status'[x] = "RECONCILED"
    BY DEF Begin, BeginExecution, SetStatus, RecoveryTypeOK, StoreTypeOK, storeVars
  <2>2. (Moves(c, "dispatch") \/ Moves(c, "fail")) /\ ledger' = ledger
    BY <1>0
  <2> QED
    BY <2>1, <2>2 DEF Reconciling, Moves, Ended, NoCall, RecoveryTypeOK, CallType
<1>6. Past'
  BY <1>0 DEF Past, BeginExecution, SetStatus, storeVars, budgetVars
<1>7. ActiveIsLatest'
  BY <1>0 DEF ActiveIsLatest, BeginExecution, SetStatus, storeVars, budgetVars
<1>8. Evidence'
  <2>1. /\ \A d \in Calls \ {c} : call'[d] = call[d]
        /\ UNCHANGED <<fixture, lock, lockTarget, reservedAt>>
    BY <1>0 DEF Moves, BeginExecution, SetStatus, budgetVars, storeVars
  <2>2. CASE Goto(c, "fail")
    BY <1>0, <2>1, <2>2 DEF Evidence, Overtakes, Moves, RecoveryTypeOK, CallType
  <2>3. CASE IsFresh(call[c].observed) /\ Goto(c, "dispatch")
    <3> DEFINE k == call[c]
    <3>1. /\ k.at = "begin" /\ k.action \in ActionIds /\ k.observed \in Nat /\ now \in Nat
          /\ reservedAt \in [ActionIds -> Nat]
          /\ lock[k.action] = "active" /\ lockTarget[k.action] = k.target
      BY DEF CallAt, Acting, Executing, Owning, RecoveryTypeOK, StoreTypeOK, CallType
    <3>2. ASSUME NEW b \in ActionIds \ {k.action}, Overtakes(b, k) PROVE FALSE
      <4>1. /\ reservedAt[b] + Cooldown <= reservedAt[k.action]
            /\ k.observed <= reservedAt[b] + Freshness
        BY <3>1, <3>2 DEF ActiveIsLatest, Overtakes
      <4>2. reservedAt[k.action] <= now /\ now - k.observed <= Freshness
        BY <2>3, <3>1 DEF Past, IsFresh
      <4> QED
        BY <3>1, <4>1, <4>2, RecoveryAssumption, StoreAssumption
    <3>3. fixture[k.object][k.target] = "ill"
      BY <3>1, <3>2 DEF Evidence
    <3> QED
      BY <1>0, <2>1, <2>3, <3>3 DEF Evidence, Overtakes, Moves
  <2> QED
    BY <2>2, <2>3
<1> QED
  BY <1>1, <1>2, <1>3, <1>4, <1>5, <1>6, <1>7, <1>8

LEMMA DispatchStep ==
  ASSUME Recovering, RecoveryTypeOK', NEW c \in Calls, Alone(c), Dispatch(c)
  PROVE  Recovering'
<1> USE DEF Recovering, Dispatch
<1>0. /\ Goto(c, "outcome") => Moves(c, "outcome")
      /\ Goto(c, "uncertain") => Moves(c, "uncertain")
  BY GotoFrame, OverFrame DEF RecoveryTypeOK, Steps
<1>1. Acting'
  BY <1>0 DEF Acting, Executing, CallAt, storeVars, Moves
<1>2. Owning'
  BY <1>0 DEF Owning, OwnersDiffer, Owners, CallAt, storeVars, Moves
<1>3. OwnersDiffer'
  BY <1>0 DEF OwnersDiffer, Owners, CallAt, Moves
<1>4. StoreAgrees'
  BY <1>0 DEF StoreAgrees, Owning, CallAt, storeVars
<1>5. Reconciling'
  BY <1>0 DEF Reconciling, storeVars, Moves
<1>6. Past'
  BY <1>0 DEF Past, storeVars
<1>7. ActiveIsLatest'
  BY <1>0 DEF ActiveIsLatest, storeVars
<1>8. Evidence'
  <2> DEFINE k == call[c]
  <2>1. /\ k.at = "dispatch" /\ k.action \in ActionIds /\ k.observed \in Nat /\ now \in Nat
        /\ k.object \in Objects /\ k.target \in Targets
        /\ reservedAt \in [ActionIds -> Nat]
        /\ lock[k.action] # "none" /\ lockTarget[k.action] = k.target
        /\ k.observed <= reservedAt[k.action] /\ now <= k.observed + Freshness
    BY DEF CallAt, Acting, Executing, Owning, RecoveryTypeOK, StoreTypeOK, CallType
  <2>2. /\ UNCHANGED <<lock, lockTarget, reservedAt>>
        /\ fixture' = [fixture EXCEPT ![k.object][k.target] = "healthy"]
    BY DEF storeVars
  <2>3. ASSUME NEW d \in Calls \ {c}, call[d].at \in Executing,
               call[d].object = k.object, call[d].target = k.target
        PROVE  /\ Overtakes(k.action, call[d])
               /\ call[d].at \notin {"reserve", "intent", "dispatch"}
               /\ call[d].at = "begin" => call[d].action # k.action
    <3>1. call[d].observed <= now /\ call[d].observed \in Nat
      BY <2>3 DEF Acting, RecoveryTypeOK, CallType
    <3>2. Overtakes(k.action, call[d])
      BY <2>1, <2>3, <3>1, RecoveryAssumption DEF Overtakes
    <3> QED
      BY <2>1, <2>3, <3>2 DEF Alone, Unawaited, OwnersDiffer, Owners
  <2>4. \A d \in Calls \ {c} : call'[d] = call[d]
    BY <1>0 DEF Moves
  <2>5. call'[c].at \in {"outcome", "uncertain"}
    BY <1>0 DEF Moves
  <2>6. ASSUME NEW d \in Calls \ {c}, call[d].at \in Executing,
               ~ (call[d].object = k.object /\ call[d].target = k.target)
        PROVE  fixture'[call[d].object][call[d].target] = fixture[call[d].object][call[d].target]
    BY <2>1, <2>2, <2>6 DEF Acting, RecoveryTypeOK
  <2> QED
    BY <2>1, <2>2, <2>3, <2>4, <2>5, <2>6 DEF Evidence, Overtakes, Executing
<1> QED
  BY <1>1, <1>2, <1>3, <1>4, <1>5, <1>6, <1>7, <1>8

LEMMA RecordExecutedStep ==
  ASSUME Recovering, RecoveryTypeOK', NEW c \in Calls, Alone(c), RecordExecuted(c)
  PROVE  Recovering'
<1> USE DEF Recovering, RecordExecuted
<1>0. /\ Goto(c, "complete") => Moves(c, "complete")
      /\ Goto(c, "uncertain") => Moves(c, "uncertain")
  BY GotoFrame, OverFrame DEF RecoveryTypeOK, Steps
<1>1. Acting'
  BY <1>0 DEF Acting, Executing, CallAt, Appends, storeVars, Moves
<1>2. Owning'
  BY <1>0 DEF Owning, CallAt, Appends, Record, RecoveryTypeOK, storeVars, Moves
<1>3. OwnersDiffer'
  BY <1>0 DEF OwnersDiffer, Owners, CallAt, Appends, Moves
<1>4. StoreAgrees'
  BY <1>0 DEF StoreAgrees, Appends, Record, RecoveryTypeOK, storeVars
<1>5. Reconciling'
  BY <1>0 DEF Reconciling, Acting, Appends, Record, RecoveryTypeOK, storeVars, Moves
<1>6. Past'
  BY <1>0 DEF Past, storeVars
<1>7. ActiveIsLatest'
  BY <1>0 DEF ActiveIsLatest, storeVars
<1>8. Evidence'
  BY <1>0 DEF Evidence, Overtakes, Appends, storeVars, Moves
<1> QED
  BY <1>1, <1>2, <1>3, <1>4, <1>5, <1>6, <1>7, <1>8

LEMMA CompleteCallStep ==
  ASSUME Recovering, RecoveryTypeOK', NEW c \in Calls, Alone(c), CompleteCall(c)
  PROVE  Recovering'
<1> USE DEF Recovering, CompleteCall
<1>0. /\ Goto(c, "release") => Moves(c, "release")
      /\ Goto(c, "uncertain") => Moves(c, "uncertain")
  BY GotoFrame, OverFrame DEF RecoveryTypeOK, Steps
<1>1. Acting'
  BY <1>0 DEF Acting, Executing, CallAt, Complete, SetStatus, storeVars, Moves
<1>2. Owning'
  BY <1>0 DEF Owning, Executing, OwnersDiffer, Owners, Acting, CallAt, Complete, SetStatus,
     RecoveryTypeOK, StoreTypeOK, storeVars, budgetVars, Moves, NoCall, Statuses
<1>3. OwnersDiffer'
  BY <1>0 DEF OwnersDiffer, Owners, CallAt, Moves
<1>4. StoreAgrees'
  BY <1>0 DEF StoreAgrees, Complete, SetStatus, RecoveryTypeOK, StoreTypeOK, storeVars
<1>5. Reconciling'
  <2>1. \A x \in ActionIds : status[x] = "RECONCILED" => status'[x] = "RECONCILED"
    BY DEF CompleteCall, Complete, SetStatus, RecoveryTypeOK, StoreTypeOK, storeVars
  <2>2. (Moves(c, "release") \/ Moves(c, "uncertain")) /\ ledger' = ledger
    BY <1>0
  <2> QED
    BY <2>1, <2>2 DEF Reconciling, Moves, Ended, NoCall, RecoveryTypeOK, CallType
<1>6. Past'
  BY <1>0 DEF Past, Complete, SetStatus, storeVars, budgetVars
<1>7. ActiveIsLatest'
  BY <1>0 DEF ActiveIsLatest, Complete, SetStatus, storeVars, budgetVars
<1>8. Evidence'
  BY <1>0 DEF Evidence, Overtakes, Complete, SetStatus, storeVars, budgetVars, Moves
<1> QED
  BY <1>1, <1>2, <1>3, <1>4, <1>5, <1>6, <1>7, <1>8

LEMMA ReleaseCallStep ==
  ASSUME Recovering, RecoveryTypeOK', NEW c \in Calls, Alone(c), ReleaseCall(c)
  PROVE  Recovering'
<1> USE DEF Recovering, ReleaseCall
<1>0. Over(c) => Ended(c)
  BY GotoFrame, OverFrame DEF RecoveryTypeOK, Steps
<1>1. Acting'
  BY <1>0 DEF Acting, Executing, ReleaseBudget, Ended, NoCall
<1>2. Owning'
  BY <1>0 DEF Owning, CallAt, ReleaseBudget, claimVars, Ended, NoCall
<1>3. OwnersDiffer'
  BY <1>0 DEF OwnersDiffer, Owners, Ended, NoCall
<1>4. StoreAgrees'
  BY <1>0 DEF StoreAgrees, Owning, CallAt, ReleaseBudget, claimVars
<1>5. Reconciling'
  BY <1>0 DEF Reconciling, ReleaseBudget, claimVars, Ended, NoCall
<1>6. Past'
  BY <1>0 DEF Past, ReleaseBudget
<1>7. ActiveIsLatest'
  BY <1>0 DEF ActiveIsLatest, ReleaseBudget
<1>8. Evidence'
  <2>1. /\ \A b \in ActionIds : lock[b] # "none" => lock'[b] # "none"
        /\ lockTarget' = lockTarget /\ reservedAt' = reservedAt /\ fixture' = fixture
    BY DEF ReleaseBudget, RecoveryTypeOK, StoreTypeOK
  <2> QED
    BY <1>0, <2>1 DEF Evidence, Overtakes, Ended, NoCall, RecoveryTypeOK, CallType
<1> QED
  BY <1>1, <1>2, <1>3, <1>4, <1>5, <1>6, <1>7, <1>8

LEMMA UncertainStep ==
  ASSUME Recovering, RecoveryTypeOK', NEW c \in Calls, Alone(c), Uncertain(c)
  PROVE  Recovering'
<1> USE DEF Recovering, Uncertain
<1>0. Over(c) => Ended(c)
  BY GotoFrame, OverFrame DEF RecoveryTypeOK, Steps
<1>1. Acting'
  BY <1>0 DEF Acting, Executing, NeedsReconciliation, SetStatus, storeVars, Ended, NoCall
<1>2. Owning'
  BY <1>0 DEF Owning, Executing, Acting, NeedsReconciliation, SetStatus, RecoveryTypeOK,
     StoreTypeOK, storeVars, budgetVars, Ended, NoCall,
     Statuses
<1>3. OwnersDiffer'
  BY <1>0 DEF OwnersDiffer, Owners, Ended, NoCall
<1>4. StoreAgrees'
  BY <1>0 DEF StoreAgrees, NeedsReconciliation, SetStatus, RecoveryTypeOK, StoreTypeOK,
     storeVars
<1>5. Reconciling'
  <2>1. \A x \in ActionIds : status[x] = "RECONCILED" => status'[x] = "RECONCILED"
    BY DEF Uncertain, NeedsReconciliation, SetStatus, RecoveryTypeOK, StoreTypeOK, storeVars
  <2>2. (Ended(c)) /\ ledger' = ledger
    BY <1>0
  <2> QED
    BY <2>1, <2>2 DEF Reconciling, Moves, Ended, NoCall, RecoveryTypeOK, CallType
<1>6. Past'
  BY <1>0 DEF Past, NeedsReconciliation, SetStatus, storeVars, budgetVars
<1>7. ActiveIsLatest'
  BY <1>0 DEF ActiveIsLatest, NeedsReconciliation, SetStatus, storeVars, budgetVars
<1>8. Evidence'
  BY <1>0 DEF Evidence, Overtakes, NeedsReconciliation, SetStatus, storeVars, budgetVars, Ended,
     NoCall
<1> QED
  BY <1>1, <1>2, <1>3, <1>4, <1>5, <1>6, <1>7, <1>8

LEMMA FailCallStep ==
  ASSUME Recovering, RecoveryTypeOK', NEW c \in Calls, Alone(c), FailCall(c)
  PROVE  Recovering'
<1> USE DEF Recovering, FailCall
<1>0. /\ Goto(c, "unlock") => Moves(c, "unlock")
      /\ Over(c) => Ended(c)
  BY GotoFrame, OverFrame DEF RecoveryTypeOK, Steps
<1>1. Acting'
  BY <1>0 DEF Acting, Executing, CallAt, Fail, SetStatus, ReleaseBudget, Moves, Ended, NoCall
<1>2. Owning'
  BY <1>0 DEF Owning, Executing, OwnersDiffer, Owners, Acting, CallAt, Fail, SetStatus,
     ReleaseBudget, RecoveryTypeOK, StoreTypeOK, claimVars, budgetVars, Moves, Ended, NoCall,
     Statuses
<1>3. OwnersDiffer'
  BY <1>0 DEF OwnersDiffer, Owners, CallAt, Moves, Ended, NoCall
<1>4. StoreAgrees'
  BY <1>0 DEF StoreAgrees, Fail, SetStatus, ReleaseBudget, RecoveryTypeOK, StoreTypeOK,
     claimVars
<1>5. Reconciling'
  <2>1. \A x \in ActionIds : status[x] = "RECONCILED" => status'[x] = "RECONCILED"
    BY DEF FailCall, Fail, SetStatus, ReleaseBudget, claimVars, RecoveryTypeOK, StoreTypeOK,
           storeVars
  <2>2. (Moves(c, "unlock") \/ Ended(c)) /\ ledger' = ledger
    BY <1>0
  <2> QED
    BY <2>1, <2>2 DEF Reconciling, Moves, Ended, NoCall, RecoveryTypeOK, CallType
<1>6. Past'
  BY <1>0 DEF Past, Fail, SetStatus, ReleaseBudget, budgetVars
<1>7. ActiveIsLatest'
  BY <1>0 DEF ActiveIsLatest, Fail, SetStatus, ReleaseBudget, RecoveryTypeOK, StoreTypeOK,
     budgetVars
<1>8. Evidence'
  BY <1>0 DEF Evidence, Overtakes, Fail, SetStatus, ReleaseBudget, RecoveryTypeOK, StoreTypeOK,
     budgetVars, Moves, Ended, NoCall, Alone, Unawaited
<1> QED
  BY <1>1, <1>2, <1>3, <1>4, <1>5, <1>6, <1>7, <1>8

LEMMA TakeAwayStep ==
  ASSUME Recovering, RecoveryTypeOK', NEW c \in Calls, Alone(c), TakeAway(c)
  PROVE  Recovering'
<1> USE DEF Recovering, TakeAway
<1>0. /\ Goto(c, "verified") => Moves(c, "verified")
      /\ Over(c) => Ended(c)
  BY GotoFrame, OverFrame DEF RecoveryTypeOK, Steps
<1>1. Acting'
  BY <1>0 DEF Acting, Executing, CallAt, NeedsReconciliation, SetStatus, storeVars, Moves,
     Ended, NoCall
<1>2. Owning'
  BY <1>0 DEF Owning, Executing, Acting, NeedsReconciliation, SetStatus, RecoveryTypeOK,
     StoreTypeOK, storeVars, budgetVars, Moves, Ended, NoCall,
     Statuses
<1>3. OwnersDiffer'
  BY <1>0 DEF OwnersDiffer, Owners, Moves, Ended, NoCall
<1>4. StoreAgrees'
  BY <1>0 DEF StoreAgrees, NeedsReconciliation, SetStatus, RecoveryTypeOK, StoreTypeOK,
     storeVars
<1>5. Reconciling'
  <2>1. \A x \in ActionIds : status[x] = "RECONCILED" => status'[x] = "RECONCILED"
    BY DEF TakeAway, NeedsReconciliation, SetStatus, RecoveryTypeOK, StoreTypeOK, storeVars
  <2>2. (Moves(c, "verified") \/ Ended(c)) /\ ledger' = ledger
    BY <1>0
  <2> QED
    BY <2>1, <2>2 DEF Reconciling, Moves, Ended, NoCall, RecoveryTypeOK, CallType
<1>6. Past'
  BY <1>0 DEF Past, NeedsReconciliation, SetStatus, storeVars, budgetVars
<1>7. ActiveIsLatest'
  BY <1>0 DEF ActiveIsLatest, NeedsReconciliation, SetStatus, storeVars, budgetVars
<1>8. Evidence'
  BY <1>0 DEF Evidence, Overtakes, NeedsReconciliation, SetStatus, storeVars, budgetVars, Moves,
     Ended, NoCall
<1> QED
  BY <1>1, <1>2, <1>3, <1>4, <1>5, <1>6, <1>7, <1>8

LEMMA RecordIntentStep ==
  ASSUME Recovering, RecoveryTypeOK', NEW c \in Calls, Alone(c), RecordIntent(c)
  PROVE  Recovering'
<1> USE DEF Recovering, RecordIntent
<1>0. /\ Goto(c, "resolve") => Moves(c, "resolve")
      /\ Over(c) => Ended(c)
  BY GotoFrame, OverFrame DEF RecoveryTypeOK, Steps
<1>1. Acting'
  BY <1>0 DEF Acting, Executing, CallAt, Appends, storeVars, Moves, Ended, NoCall
<1>2. Owning'
  BY <1>0 DEF Owning, CallAt, Appends, Record, RecoveryTypeOK, storeVars, Moves, Ended, NoCall
<1>3. OwnersDiffer'
  BY <1>0 DEF OwnersDiffer, Owners, Appends, Moves, Ended, NoCall
<1>4. StoreAgrees'
  BY <1>0 DEF StoreAgrees, Appends, Record, RecoveryTypeOK, storeVars
<1>5. Reconciling'
  BY <1>0 DEF Reconciling, Acting, CallAt, Appends, Record, RecoveryTypeOK, storeVars, Moves,
     Ended, NoCall
<1>6. Past'
  BY <1>0 DEF Past, storeVars
<1>7. ActiveIsLatest'
  BY <1>0 DEF ActiveIsLatest, storeVars
<1>8. Evidence'
  BY <1>0 DEF Evidence, Overtakes, Appends, storeVars, Moves, Ended, NoCall
<1> QED
  BY <1>1, <1>2, <1>3, <1>4, <1>5, <1>6, <1>7, <1>8

LEMMA ResolveStep ==
  ASSUME Recovering, RecoveryTypeOK', NEW c \in Calls, Alone(c), Resolve(c)
  PROVE  Recovering'
<1> USE DEF Recovering, Resolve
<1>0. /\ Goto(c, "list") => Moves(c, "list")
      /\ Over(c) => Ended(c)
  BY GotoFrame, OverFrame DEF RecoveryTypeOK, Steps
<1>1. Acting'
  BY <1>0 DEF Acting, Executing, ResolveReconciliation, storeVars, Moves, Ended, NoCall
<1>2. Owning'
  BY <1>0 DEF Owning, Executing, Acting, ResolveReconciliation, RecoveryTypeOK, StoreTypeOK,
     storeVars, budgetVars, Moves, Ended, NoCall,
     Statuses
<1>3. OwnersDiffer'
  BY <1>0 DEF OwnersDiffer, Owners, Moves, Ended, NoCall
<1>4. StoreAgrees'
  BY <1>0 DEF StoreAgrees, Reconciling, CallAt, ResolveReconciliation, RecoveryTypeOK,
     StoreTypeOK, storeVars
<1>5. Reconciling'
  <2>1. \A x \in ActionIds : status[x] = "RECONCILED" => status'[x] = "RECONCILED"
    BY DEF Resolve, ResolveReconciliation, RecoveryTypeOK, StoreTypeOK, storeVars
  <2>2. (Moves(c, "list") \/ Ended(c)) /\ ledger' = ledger
    BY <1>0
  <2> QED
    BY <2>1, <2>2 DEF Reconciling, Moves, Ended, NoCall, RecoveryTypeOK, CallType
<1>6. Past'
  BY <1>0 DEF Past, ResolveReconciliation, storeVars, budgetVars
<1>7. ActiveIsLatest'
  BY <1>0 DEF ActiveIsLatest, ResolveReconciliation, storeVars, budgetVars
<1>8. Evidence'
  BY <1>0 DEF Evidence, Overtakes, ResolveReconciliation, storeVars, budgetVars, Moves, Ended,
     NoCall
<1> QED
  BY <1>1, <1>2, <1>3, <1>4, <1>5, <1>6, <1>7, <1>8

LEMMA ListPendingStep ==
  ASSUME Recovering, RecoveryTypeOK', NEW c \in Calls, Alone(c), ListPending(c)
  PROVE  Recovering'
<1> USE DEF Recovering
<1>0. /\ call[c].at = "list"
      /\ call'[c].at = "next"
      /\ call'[c].todo = PendingAudits
      /\ \A d \in Calls : d # c => call'[d] = call[d]
      /\ UNCHANGED <<storeVars, fixture, ledger, dispatched, reported>>
  BY DEF ListPending, CallAt, RecoveryTypeOK, CallType
<1>1. Acting'
  BY <1>0 DEF Acting, Executing, storeVars
<1>2. Owning'
  BY <1>0 DEF Owning, storeVars
<1>3. OwnersDiffer'
  BY <1>0 DEF OwnersDiffer, Owners
<1>4. StoreAgrees'
  BY <1>0 DEF StoreAgrees, storeVars
<1>5. Reconciling'
  BY <1>0 DEF Reconciling, StoreAgrees, storeVars, PendingAudits
<1>6. Past'
  BY <1>0 DEF Past, storeVars
<1>7. ActiveIsLatest'
  BY <1>0 DEF ActiveIsLatest, storeVars
<1>8. Evidence'
  BY <1>0 DEF Evidence, Overtakes, storeVars
<1> QED
  BY <1>1, <1>2, <1>3, <1>4, <1>5, <1>6, <1>7, <1>8

LEMMA PublishNextStep ==
  ASSUME Recovering, RecoveryTypeOK', NEW c \in Calls, Alone(c), PublishNext(c)
  PROVE  Recovering'
<1> USE DEF Recovering
<1>a. /\ call[c].at = "next"
      /\ UNCHANGED <<storeVars, fixture, dispatched, reported>>
      /\ \/ Over(c) /\ ledger' = ledger
         \/ \E a \in call[c].todo :
              \/ /\ call' = [call EXCEPT ![c].at = "mark", ![c].action = a, ![c].todo = @ \ {a}]
                 /\ ledger' = [ledger EXCEPT ![a] = @ \cup {"reconciled"}]
              \/ Over(c) /\ ledger' \in {ledger, [ledger EXCEPT ![a] = @ \cup {"reconciled"}]}
  BY DEF PublishNext, CallAt, Record
<1>b. ASSUME NEW a \in call[c].todo,
             call' = [call EXCEPT ![c].at = "mark", ![c].action = a, ![c].todo = @ \ {a}]
      PROVE  Marks(c, a)
  BY <1>b DEF RecoveryTypeOK, CallType, Marks
<1>c. Over(c) => Ended(c)
  BY OverFrame DEF RecoveryTypeOK
<1>d. \A a \in call[c].todo : a \in ActionIds /\ status[a] = "RECONCILED"
  BY DEF RecoveryTypeOK, CallType, Reconciling
<1>0. /\ call[c].at = "next"
      /\ UNCHANGED <<storeVars, fixture, dispatched, reported>>
      /\ \/ Ended(c)
         \/ \E a \in ActionIds : Marks(c, a) /\ a \in call[c].todo /\ "reconciled" \in ledger'[a]
      /\ \A a \in ActionIds :
            \/ ledger'[a] = ledger[a]
            \/ ledger'[a] = ledger[a] \cup {"reconciled"} /\ status[a] = "RECONCILED"
  BY <1>a, <1>b, <1>c, <1>d DEF RecoveryTypeOK
<1>1. Acting'
  BY <1>0 DEF Acting, Executing, storeVars, Ended, NoCall, Marks
<1>2. Owning'
  BY <1>0 DEF Owning, RecoveryTypeOK, StoreTypeOK, storeVars, Ended, NoCall, Marks
<1>3. OwnersDiffer'
  BY <1>0 DEF OwnersDiffer, Owners, Ended, NoCall, Marks
<1>4. StoreAgrees'
  BY <1>0 DEF StoreAgrees, storeVars
<1>5. Reconciling'
  BY <1>0 DEF Reconciling, Acting, storeVars, Ended, NoCall, Marks
<1>6. Past'
  BY <1>0 DEF Past, storeVars
<1>7. ActiveIsLatest'
  BY <1>0 DEF ActiveIsLatest, storeVars
<1>8. Evidence'
  BY <1>0 DEF Evidence, Overtakes, storeVars, Ended, NoCall, Marks
<1> QED
  BY <1>1, <1>2, <1>3, <1>4, <1>5, <1>6, <1>7, <1>8

LEMMA MarkPublishedStep ==
  ASSUME Recovering, RecoveryTypeOK', NEW c \in Calls, Alone(c), MarkPublished(c)
  PROVE  Recovering'
<1> USE DEF Recovering, MarkPublished
<1>0. /\ Goto(c, "next") => Moves(c, "next")
      /\ Over(c) => Ended(c)
  BY GotoFrame, OverFrame DEF RecoveryTypeOK, Steps
<1>1. Acting'
  BY <1>0 DEF Acting, Executing, MarkReconciliationAuditDelivered, storeVars, Moves, Ended,
     NoCall
<1>2. Owning'
  BY <1>0 DEF Owning, Executing, Acting, MarkReconciliationAuditDelivered, RecoveryTypeOK,
     StoreTypeOK, storeVars, claimVars, Moves, Ended, NoCall,
     Statuses
<1>3. OwnersDiffer'
  BY <1>0 DEF OwnersDiffer, Owners, Moves, Ended, NoCall
<1>4. StoreAgrees'
  BY <1>0 DEF StoreAgrees, Reconciling, CallAt, MarkReconciliationAuditDelivered,
     RecoveryTypeOK, StoreTypeOK, storeVars, claimVars
<1>5. Reconciling'
  BY <1>0 DEF Reconciling, MarkReconciliationAuditDelivered, storeVars, claimVars, Moves, Ended,
     NoCall
<1>6. Past'
  BY <1>0 DEF Past, MarkReconciliationAuditDelivered, storeVars
<1>7. ActiveIsLatest'
  BY <1>0 DEF ActiveIsLatest, MarkReconciliationAuditDelivered, HoldsLock, RecoveryTypeOK,
     StoreTypeOK, storeVars
<1>8. Evidence'
  BY <1>0 DEF Evidence, Overtakes, OwnersDiffer, MarkReconciliationAuditDelivered,
     RecoveryTypeOK, StoreTypeOK, storeVars, Moves, Ended, NoCall, Alone, Unawaited
<1> QED
  BY <1>1, <1>2, <1>3, <1>4, <1>5, <1>6, <1>7, <1>8

LEMMA NewObjectStep ==
  ASSUME Recovering, RecoveryTypeOK', NEW o \in Objects, NewObject(o)
  PROVE  Recovering'
<1> USE DEF Recovering
<1>1. /\ \A c \in Calls : call'[c] = NoCall \/ (call'[c] = call[c] /\ call[c].object # o)
      /\ \A x \in Objects \ {o} : fixture'[x] = fixture[x]
      /\ UNCHANGED <<storeVars, ledger, dispatched, reported>>
  BY DEF NewObject, RecoveryTypeOK
<1>2. Acting'
  BY <1>1 DEF Acting, Executing, NoCall, storeVars
<1>3. Owning'
  BY <1>1 DEF Owning, NoCall, storeVars
<1>4. OwnersDiffer'
  BY <1>1 DEF OwnersDiffer, Owners, NoCall
<1>5. StoreAgrees' /\ Past' /\ ActiveIsLatest'
  BY <1>1 DEF StoreAgrees, Past, ActiveIsLatest, storeVars
<1>6. Reconciling'
  BY <1>1 DEF Reconciling, NoCall, storeVars
<1>7. Evidence'
  BY <1>1 DEF Evidence, Overtakes, Acting, Executing, NoCall, storeVars
<1> QED
  BY <1>2, <1>3, <1>4, <1>5, <1>6, <1>7

LEMMA TimePassesStep ==
  ASSUME Recovering, RecoveryTypeOK', TimePasses
  PROVE  Recovering'
<1> USE DEF Recovering
<1>1. /\ now' = now + 1 /\ now \in Nat
      /\ \A c \in Calls : call[c].at # "dispatch"
      /\ UNCHANGED <<status, target, lock, lockTarget, reservedAt, outbox, fixture, call, ledger,
                     dispatched, reported>>
  BY DEF TimePasses, CallAt, RecoveryTypeOK, StoreTypeOK, claimVars, budgetVars
<1>2. Acting' /\ Past'
  BY <1>1 DEF Acting, Executing, Past, RecoveryTypeOK, StoreTypeOK, CallType
<1>3. Owning'
  BY <1>1 DEF Owning
<1>4. OwnersDiffer' /\ StoreAgrees' /\ Reconciling' /\ ActiveIsLatest' /\ Evidence'
  BY <1>1 DEF OwnersDiffer, StoreAgrees, Reconciling, ActiveIsLatest, Evidence, Overtakes
<1> QED
  BY <1>2, <1>3, <1>4

LEMMA RecoveryStep == Recovering /\ [RecoveryNext]_recoveryVars => Recovering'
<1> SUFFICES ASSUME Recovering, [RecoveryNext]_recoveryVars PROVE Recovering'
  OBVIOUS
<1>0. RecoveryTypeOK'
  BY TypeStep
<1>1. CASE \E c \in Calls, o \in Objects, a \in ActionIds, t \in Targets : AskExecute(c, o, a,
      t)
  BY <1>0, <1>1, AskExecuteStep
<1>2. CASE \E c \in Calls, o \in Objects, a \in ActionIds : AskReconcile(c, o, a)
  BY <1>0, <1>2, AskReconcileStep
<1>3. CASE \E c \in Calls, o \in Objects : AskRecover(c, o)
  BY <1>0, <1>3, AskRecoverStep
<1>4. ASSUME NEW c \in Calls, Alone(c), ExecuteStep(c) PROVE Recovering'
  BY <1>0, <1>4, CheckStep, BindStep, ClaimBoundStep, ReserveStep, RecordReservedStep,
     BeginStep,
     DispatchStep, RecordExecutedStep, CompleteCallStep, ReleaseCallStep, UncertainStep,
     FailCallStep DEF ExecuteStep
<1>5. ASSUME NEW c \in Calls, Alone(c), ReconcileStep(c) PROVE Recovering'
  BY <1>0, <1>5, TakeAwayStep, RecordIntentStep, ResolveStep, ListPendingStep, PublishNextStep,
     MarkPublishedStep DEF ReconcileStep
<1>6. CASE \E o \in Objects : NewObject(o)
  BY <1>0, <1>6, NewObjectStep
<1>7. CASE TimePasses
  BY <1>0, <1>7, TimePassesStep
<1>8. CASE UNCHANGED recoveryVars
  BY <1>0, <1>8 DEF Recovering, Acting, Owning, OwnersDiffer, StoreAgrees, Reconciling, Past,
     ActiveIsLatest, Evidence, Overtakes, recoveryVars, storeVars
<1> QED
  BY <1>1, <1>2, <1>3, <1>4, <1>5, <1>6, <1>7, <1>8 DEF RecoveryNext

------------------------------------------------------------------------------
(* Theorems.                                                                *)

\* The inductive invariant: calls, tables, ledger, clock and fixtures agree at
\* every moment, whatever crashes.
THEOREM AlwaysRecovering == RecoverySpec => []Recovering
<1>1. RecoveryInit => Recovering
  <2> SUFFICES ASSUME RecoveryInit PROVE Recovering
    OBVIOUS
  <2>1. StoreTypeOK
    BY DEF RecoveryInit, StoreInit, StoreTypeOK, Statuses
  <2>2. RecoveryTypeOK
    BY <2>1 DEF RecoveryInit, RecoveryTypeOK, NoCall, CallType, Steps
  <2>3. \A c \in Calls : call[c].at = "idle" /\ call[c].todo = {}
    BY DEF RecoveryInit, NoCall
  <2>4. Acting /\ Owning /\ OwnersDiffer /\ Reconciling /\ Evidence
    BY <2>3 DEF Acting, Executing, Owning, OwnersDiffer, Owners, Reconciling, Evidence
  <2>5. StoreAgrees /\ Past /\ ActiveIsLatest
    BY DEF RecoveryInit, StoreInit, StoreAgrees, Past, ActiveIsLatest
  <2> QED
    BY <2>2, <2>4, <2>5 DEF Recovering
<1> QED
  BY <1>1, RecoveryStep, PTL DEF RecoverySpec

\* The effect of execute finds what the observation said, although execute
\* awaits the ledger twice between looking and acting and reconcile may have
\* freed the target meanwhile.
THEOREM EvidenceHolds == RecoverySpec => []EvidenceStillHolds
<1>1. Recovering => EvidenceStillHolds
  BY DEF Recovering, Evidence, EvidenceStillHolds, CallAt
<1> QED
  BY <1>1, AlwaysRecovering, PTL

\* One effect and one outcome for each action, for any number of calls,
\* reconciliations and crashes.
THEOREM OutcomeUnique == RecoverySpec => []OneOutcome
<1>1. Recovering => OneOutcome
  BY DEF Recovering, Owning, StoreAgrees, OneOutcome, CallAt
<1> QED
  BY <1>1, AlwaysRecovering, PTL

\* The prototype uses the store through its methods only, so what holds of the
\* store in every use holds here: the limits of reserveBudget, and that no
\* settled action is revived.
THEOREM RecoveryUsesStore == RecoverySpec => StoreSpec
<1>1. RecoveryInit => StoreInit
  BY DEF RecoveryInit
<1> QED
  BY <1>1, StepUsesStore, AlwaysRecovering, PTL DEF RecoverySpec, StoreSpec

COROLLARY RecoveryWithinBudget == RecoverySpec => []WindowBudget /\ SettledForever
  BY RecoveryUsesStore, Windows, Settled, PTL
====

-------------------------- MODULE SessionClaimsProofs -------------------------
(***************************************************************************)
(* Proofs about SessionClaims for any hosts and any bounds.  TypeCorrect   *)
(* gives the types.  Ownership is the inductive invariant: it ties the     *)
(* wake, the registered runtime and the late releases of every host to the *)
(* claim row.  That one supervisor owns the session, that a closed gateway *)
(* has stopped what it supervises except what was adopted across the       *)
(* closure, and that the claim row implements the abstract SessionLease    *)
(* all follow from it.                                                     *)
(***************************************************************************)
EXTENDS SessionClaims, TLAPS

Early == {"list", "orphan", "read", "cas", "ensure", "network", "prepare", "abort"}

\* A process that does not run keeps nothing in memory, and its lease row is
\* live from its start on unless it has lapsed.
Process(h) ==
    /\ ~Works(h) => wake[h] = Idle /\ run[h] = NoRun /\ tail[h] = {}
    /\ proc[h] # "off" /\ h \notin lapsed => lease[h] = "live"

\* A wake registers a runtime only at its end and carries the incarnation it
\* has taken from the claim to that moment.
Carries(h) ==
    /\ wake[h].pc \in Early => run[h] = NoRun
    /\ wake[h].pc \in {"network", "prepare", "abort"} => wake[h].inc # 0
    /\ wake[h].pc = "ensure" => (wake[h].inc = 0 <=> wake[h].kind = "spawn")
    /\ run[h] # NoRun => run[h].inc # 0

\* No host knows an incarnation the claim row has not reached, and what it has
\* finished is older than what it owns.
Behind(h) ==
    /\ wake[h].seen <= claim.inc /\ wake[h].inc <= claim.inc /\ run[h].inc <= claim.inc
    /\ \A t \in tail[h] : t.inc <= claim.inc /\ (Owned(h) # 0 => t.inc < Owned(h))

\* Between reading the claim and writing it, nobody but the writer and hosts
\* whose lease has lapsed can hold the incarnation that was read.
Takeover(h) ==
    wake[h].pc = "cas" /\ claim.inc = wake[h].seen => claim.by \in {NoHost, h} \cup lapsed

\* The parts of OwnerIsClaimed and ClosedMeansStopped that concern one host.
Claims(h) == h \notin lapsed /\ Owned(h) # 0 => claim = [inc |-> Owned(h), by |-> h]
Closed(h) ==
    ~gate[h] /\ Registered(h) => run[h].stop \/ wake[h].pc = "start" \/ run[h].late

HostInv(h) ==
    Process(h) /\ Carries(h) /\ Behind(h) /\ Takeover(h) /\ Claims(h) /\ Closed(h)

\* The claim is held by a host that has been started.
Holder == claim.by # NoHost => proc[claim.by] # "off"

Ownership == SessionTypeOK /\ Holder /\ \A h \in Hosts : HostInv(h)

-----------------------------------------------------------------------------
(* Types.                                                                  *)

\* The records the code starts from.
LEMMA First == Idle \in WakeType /\ NoRun \in RunType
<1>1. 0 \in 0..MaxInc
  BY SessionAssumption
<1>2. "idle" \in WakeSteps /\ "spawn" \in Kinds /\ FALSE \in BOOLEAN
  BY DEF WakeSteps, Kinds
<1>3. "no" \in FinSteps
  BY DEF FinSteps
<1>4. QED
  BY <1>1, <1>2, <1>3 DEF WakeType, RunType, Idle, NoRun

WakeOK == wake \in [Hosts -> WakeType]
RunOK  == run \in [Hosts -> RunType]
TailOK == tail \in [Hosts -> SUBSET TailType]
TaskOK == tasks \in [Hosts -> SUBSET TaskType]
ProcOK == proc \in [Hosts -> {"off", "adopt", "honor", "up", "gone"}]

LEMMA SettleType ==
  ASSUME WakeOK, TaskOK, NEW h \in Hosts, NEW woke, Settle(h, woke)
  PROVE  WakeOK' /\ TaskOK'
<1>1. WakeOK'
  BY First DEF Settle, WakeOK
<1>2. {[kind |-> t.kind, phase |-> "clear"] :
         t \in {x \in tasks[h] : x.phase = "wait" /\ (woke \/ x.kind = "restart")}}
      \subseteq TaskType
  BY DEF TaskOK, TaskType
<1>3. TaskOK'
  BY <1>2 DEF Settle, TaskOK
<1> QED
  BY <1>1, <1>3

LEMMA AdoptionEndsType ==
  ASSUME WakeOK, TaskOK, ProcOK, NEW h \in Hosts, AdoptionEnds(h)
  PROVE  WakeOK' /\ TaskOK' /\ ProcOK' /\ gate' = gate
  BY First DEF AdoptionEnds, WakeOK, TaskOK, ProcOK

LEMMA GivesUpType ==
  ASSUME WakeOK, TaskOK, ProcOK, NEW h \in Hosts, GivesUp(h)
  PROVE  WakeOK' /\ TaskOK' /\ ProcOK' /\ gate' = gate
<1>1. CASE AdoptionEnds(h)
  BY <1>1, AdoptionEndsType DEF AdoptionEnds
<1>2. CASE Settle(h, FALSE) /\ UNCHANGED <<proc, gate>>
  BY <1>2, SettleType DEF ProcOK
<1> QED
  BY <1>1, <1>2 DEF GivesUp

LEMMA GoToType ==
  ASSUME WakeOK, NEW h \in Hosts, NEW p \in WakeSteps, GoTo(h, p)
  PROVE  WakeOK'
<1>1. [wake[h] EXCEPT !.pc = p] \in WakeType
  BY DEF WakeOK, WakeType
<1> QED
  BY <1>1 DEF GoTo, WakeOK

LEMMA BeginWakeType ==
  ASSUME WakeOK, NEW h \in Hosts, BeginWake(h)
  PROVE  WakeOK'
<1>1. "list" \in WakeSteps /\ "ensure" \in WakeSteps /\ "spawn" \in Kinds /\ "retry" \in Kinds
  BY DEF WakeSteps, Kinds
<1>2. \A p \in WakeSteps, k \in Kinds : [Idle EXCEPT !.pc = p, !.kind = k] \in WakeType
  BY First DEF WakeType
<1> QED
  BY <1>1, <1>2 DEF BeginWake, WakeOK

LEMMA RegisterType ==
  ASSUME WakeOK, RunOK, NEW h \in Hosts, NEW late \in BOOLEAN, Register(h, late)
  PROVE  RunOK'
<1>1. wake[h].inc \in 0..MaxInc
  BY DEF WakeOK, WakeType
<1>2. [NoRun EXCEPT !.inc = wake[h].inc, !.late = late] \in RunType
  BY <1>1, First DEF RunType
<1> QED
  BY <1>2 DEF Register, RunOK

LEMMA KillType ==
  ASSUME RunOK, cont \in {"absent", "created", "running"},
         NEW h \in Hosts, NEW c \in SUBSET Respawns, Kill(h, c)
  PROVE  RunOK' /\ cont' \in {"absent", "created", "running"}
<1>1. run[h] \in RunType /\ run[h].fin \in FinSteps /\ "fence" \in FinSteps
  BY DEF RunOK, RunType, FinSteps
<1>2. run[h].cb \cup c \in SUBSET Respawns
  BY <1>1 DEF RunType
<1>3. [run[h] EXCEPT !.stop = TRUE, !.cb = @ \cup c,
                     !.fin = IF @ = "no" THEN "fence" ELSE @] \in RunType
  BY <1>1, <1>2 DEF RunType
<1>4. RunOK'
  BY <1>3 DEF Kill, RunOK
<1> QED
  BY <1>4 DEF Kill

LEMMA StartFailedType ==
  ASSUME WakeOK, RunOK, cont \in {"absent", "created", "running"},
         NEW h \in Hosts, StartFailed(h)
  PROVE  WakeOK' /\ RunOK' /\ cont' \in {"absent", "created", "running"}
<1>1. run[h] \in RunType /\ run[h].fin \in FinSteps /\ "fence" \in FinSteps
  BY DEF RunOK, RunType, FinSteps
<1>2. [run[h] EXCEPT !.stop = TRUE, !.fin = IF @ = "no" THEN "fence" ELSE @] \in RunType
  BY <1>1 DEF RunType
<1>3. RunOK'
  BY <1>2 DEF StartFailed, RunOK
<1>4. "failing" \in WakeSteps
  BY DEF WakeSteps
<1>5. WakeOK'
  BY <1>4, GoToType DEF StartFailed
<1> QED
  BY <1>3, <1>5 DEF StartFailed

LEMMA ReleaseType ==
  ASSUME claim \in ClaimType, NEW h \in Hosts, NEW i, ReleaseWrite(h, i)
  PROVE  claim' \in ClaimType
  BY DEF ReleaseWrite, Released, ClaimType

LEMMA GoneType ==
  ASSUME WakeOK, RunOK, TailOK, TaskOK, ProcOK,
         pend \in [Hosts -> BOOLEAN], plan \in [Hosts -> BOOLEAN],
         NEW h \in Hosts, Gone(h)
  PROVE  /\ WakeOK' /\ RunOK' /\ TailOK' /\ TaskOK' /\ ProcOK'
         /\ pend' \in [Hosts -> BOOLEAN] /\ plan' \in [Hosts -> BOOLEAN]
         /\ UNCHANGED <<claim, intent, open, shown, cont, gate>>
  BY First DEF Gone, rowVars, WakeOK, RunOK, TailOK, TaskOK, ProcOK

LEMMA TypeStep == SessionTypeOK /\ SessionNext => SessionTypeOK'
<1> SUFFICES ASSUME SessionTypeOK, SessionNext PROVE SessionTypeOK'
  OBVIOUS
<1> USE DEF SessionTypeOK, rowVars, peerVars, hostVars
<1>a. events' \in 0..MaxEvents
  BY SessionAssumption DEF SessionNext
<1>1. ASSUME NEW h \in Hosts, RequestWake(h) PROVE SessionTypeOK'
  BY <1>1, <1>a, BeginWakeType DEF RequestWake, ProcOK, WakeOK, RunOK, TailOK, TaskOK
<1>2. ASSUME NEW h \in Hosts, ListSessions(h) PROVE SessionTypeOK'
  <2>1. [Idle EXCEPT !.pc = "ensure"] \in WakeType /\ {"read", "orphan"} \subseteq WakeSteps
    BY First DEF WakeType, WakeSteps
  <2> QED
    BY <1>2, <1>a, <2>1, AdoptionEndsType, GoToType DEF ListSessions, ProcOK, WakeOK, TaskOK
<1>3. ASSUME NEW h \in Hosts, StopOrphan(h) PROVE SessionTypeOK'
  BY <1>3, <1>a, AdoptionEndsType DEF StopOrphan, ProcOK, WakeOK, RunOK, TailOK, TaskOK
<1>4. ASSUME NEW h \in Hosts, ReadClaim(h) PROVE SessionTypeOK'
  <2>0. claim.inc \in 0..MaxInc /\ "cas" \in WakeSteps
    BY DEF ClaimType, WakeSteps
  <2>1. [wake[h] EXCEPT !.pc = "cas", !.seen = claim.inc] \in WakeType
    BY <2>0 DEF WakeType
  <2> QED
    BY <1>4, <1>a, <2>1, GivesUpType DEF ReadClaim, ProcOK, WakeOK, TaskOK
<1>5. ASSUME NEW h \in Hosts, TryClaim(h) PROVE SessionTypeOK'
  <2>1. claim.inc < MaxInc => claim.inc + 1 \in 0..MaxInc
    BY SessionAssumption DEF ClaimType
  <2>2. {"prepare", "ensure"} \subseteq WakeSteps
    BY DEF WakeSteps
  <2>3. ASSUME NEW i \in 0..MaxInc, NEW q \in WakeSteps
        PROVE  [wake[h] EXCEPT !.inc = i, !.pc = q] \in WakeType
    BY DEF WakeType
  <2>4. CASE claim.inc = wake[h].seen
    <3>1. claim' \in ClaimType
      BY <1>5, <2>1, <2>4 DEF TryClaim, ClaimType
    <3>2. wake' \in [Hosts -> WakeType]
      <4>1. PICK q \in {"prepare", "ensure"} :
              wake' = [wake EXCEPT ![h].inc = claim.inc + 1, ![h].pc = q]
        BY <1>5, <2>4 DEF TryClaim
      <4>2. [wake[h] EXCEPT !.inc = claim.inc + 1, !.pc = q] \in WakeType
        BY <1>5, <2>1, <2>2, <2>3, <2>4 DEF TryClaim
      <4> QED
        BY <4>1, <4>2
    <3> QED
      BY <1>5, <1>a, <2>4, <3>1, <3>2 DEF TryClaim
  <2>5. CASE claim.inc # wake[h].seen
    BY <1>5, <1>a, <2>5, GivesUpType DEF TryClaim, ProcOK, WakeOK, TaskOK
  <2> QED
    BY <2>4, <2>5
<1>6. ASSUME NEW h \in Hosts, EnsureForSpawn(h) PROVE SessionTypeOK'
  <2>1. [wake[h] EXCEPT !.pc = "read", !.admitted = TRUE] \in WakeType
    BY DEF WakeType, WakeSteps
  <2> QED
    BY <1>6, <1>a, <2>1, SettleType DEF EnsureForSpawn, WakeOK, TaskOK
<1>7. ASSUME NEW h \in Hosts, EnsureForAdoption(h) PROVE SessionTypeOK'
  <2>1. "network" \in WakeSteps /\ "abort" \in WakeSteps
    BY DEF WakeSteps
  <2>2. WakeOK'
    BY <1>7, <2>1, GoToType DEF EnsureForAdoption, RefuseAdoption, WakeOK
  <2> QED
    BY <1>7, <1>a, <2>2 DEF EnsureForAdoption, RefuseAdoption, WakeOK
<1>38. ASSUME NEW h \in Hosts, AdoptRuntime(h) PROVE SessionTypeOK'
  <2>1. "mark" \in WakeSteps /\ "abort" \in WakeSteps
    BY DEF WakeSteps
  <2>2. WakeOK'
    BY <1>38, <2>1, GoToType DEF AdoptRuntime, RefuseAdoption, WakeOK
  <2>3. RunOK'
    <3>1. PICK late \in BOOLEAN : late = ~gate[h]
      OBVIOUS
    <3> QED
      BY <1>38, <3>1, RegisterType DEF AdoptRuntime, RefuseAdoption, WakeOK, RunOK
  <2> QED
    BY <1>38, <1>a, <2>2, <2>3 DEF AdoptRuntime, RefuseAdoption, WakeOK, RunOK
<1>8. ASSUME NEW h \in Hosts, Prepare(h) PROVE SessionTypeOK'
  BY <1>8, <1>a, RegisterType, GoToType DEF Prepare, ProcOK, WakeOK, RunOK, TailOK, TaskOK,
     WakeSteps
<1>9. ASSUME NEW h \in Hosts, Abort(h) PROVE SessionTypeOK'
  BY <1>9, <1>a, GivesUpType, ReleaseType DEF Abort, ProcOK, WakeOK, RunOK, TailOK, TaskOK
<1>10. ASSUME NEW h \in Hosts, Start(h) PROVE SessionTypeOK'
  BY <1>10, <1>a, GoToType DEF Start, ProcOK, WakeOK, RunOK, TailOK, TaskOK, WakeSteps
<1>11. ASSUME NEW h \in Hosts, MarkContainerRunning(h) PROVE SessionTypeOK'
  BY <1>11, <1>a, AdoptionEndsType, SettleType DEF MarkContainerRunning, ProcOK, WakeOK,
     RunOK, TailOK, TaskOK
<1>12. ASSUME NEW h \in Hosts, StartFailureEnds(h) PROVE SessionTypeOK'
  BY <1>12, <1>a, SettleType DEF StartFailureEnds, ProcOK, WakeOK, RunOK, TailOK, TaskOK
<1>13. ASSUME NEW h \in Hosts, Terminal(h) PROVE SessionTypeOK'
  <2>1. [run[h] EXCEPT !.fin = "fence"] \in RunType
    BY DEF RunType, FinSteps
  <2> QED
    BY <1>13, <1>a, <2>1, First DEF Terminal, RunOK
<1>14. ASSUME NEW h \in Hosts, CheckFence(h) PROVE SessionTypeOK'
  <2>1. [run[h] EXCEPT !.fin = "stop"] \in RunType
    BY DEF RunType, FinSteps
  <2> QED
    BY <1>14, <1>a, <2>1, First DEF CheckFence, RunOK
<1>15. ASSUME NEW h \in Hosts, DeferredFinish(h) PROVE SessionTypeOK'
  <2>1. [run[h] EXCEPT !.fin = "fence"] \in RunType
    BY DEF RunType, FinSteps
  <2> QED
    BY <1>15, <1>a, <2>1, First DEF DeferredFinish, RunOK
<1>16. ASSUME NEW h \in Hosts, TearDown(h) PROVE SessionTypeOK'
  <2>1. [run[h] EXCEPT !.fin = "status", !.stop = TRUE] \in RunType
    BY DEF RunType, FinSteps
  <2> QED
    BY <1>16, <1>a, <2>1, First DEF TearDown, RunOK
<1>17. ASSUME NEW h \in Hosts, MarkContainerStopped(h) PROVE SessionTypeOK'
  <2>1. [inc |-> run[h].inc, cb |-> run[h].cb] \in TailType
    BY DEF RunType, TailType
  <2> QED
    BY <1>17, <1>a, <2>1, First DEF MarkContainerStopped
<1>18. ASSUME NEW h \in Hosts, ReleaseClaim(h) PROVE SessionTypeOK'
  <2>1. PICK t \in tail[h] :
          /\ ReleaseWrite(h, t.inc)
          /\ tail' = [tail EXCEPT ![h] = @ \ {t}]
          /\ tasks' = [tasks EXCEPT ![h] = @ \cup [kind : t.cb, phase : {"ask"}]]
    BY <1>18 DEF ReleaseClaim
  <2>2. [kind : t.cb, phase : {"ask"}] \subseteq TaskType
    BY DEF TailType, TaskType
  <2>3. tasks' \in [Hosts -> SUBSET TaskType] /\ tail' \in [Hosts -> SUBSET TailType]
    BY <2>1, <2>2
  <2>4. claim' \in ClaimType
    BY <2>1, ReleaseType
  <2> QED
    BY <1>18, <1>a, <2>3, <2>4 DEF ReleaseClaim
<1>19. ASSUME NEW h \in Hosts, RestartContainer(h) PROVE SessionTypeOK'
  BY <1>19, <1>a, KillType DEF RestartContainer, ProcOK, WakeOK, RunOK, TailOK, TaskOK, Respawns
<1>20. ASSUME NEW h \in Hosts, HonorStopIntents(h) PROVE SessionTypeOK'
  <2>1. {[kind |-> "honor", phase |-> "ask"]} \in SUBSET TaskType
    BY DEF TaskType, Respawns
  <2>2. tasks' \in [Hosts -> SUBSET TaskType]
    BY <1>20, <2>1 DEF HonorStopIntents
  <2>3. run' \in [Hosts -> RunType] /\ cont' \in {"absent", "created", "running"}
    BY <1>20, KillType DEF HonorStopIntents, RunOK, Respawns
  <2> QED
    BY <1>20, <1>a, <2>2, <2>3 DEF HonorStopIntents
<1>21. ASSUME NEW h \in Hosts, Boot(h) PROVE SessionTypeOK'
  <2>1. [Idle EXCEPT !.pc = "list", !.kind = "adopt"] \in WakeType
    BY First DEF WakeType, WakeSteps, Kinds
  <2> QED
    BY <1>21, <1>a, <2>1 DEF Boot
<1>22. ASSUME NEW h \in Hosts, RenewLease(h) PROVE SessionTypeOK'
  BY <1>22, <1>a DEF RenewLease, ProcOK, WakeOK, RunOK, TailOK, TaskOK
<1>23. ASSUME NEW h \in Hosts, GatewayAvailable(h) PROVE SessionTypeOK'
  <2>1. [run[h] EXCEPT !.late = FALSE] \in RunType
    BY DEF RunType
  <2>2. run' \in [Hosts -> RunType]
    BY <1>23, <2>1 DEF GatewayAvailable
  <2> QED
    BY <1>23, <1>a, <2>2 DEF GatewayAvailable
<1>24. ASSUME NEW h \in Hosts, ListFails(h) PROVE SessionTypeOK'
  <2>1. wake' \in [Hosts -> WakeType] /\ tasks' \in [Hosts -> SUBSET TaskType]
    BY <1>24, SettleType, First DEF ListFails, WakeOK, TaskOK
  <2> QED
    BY <1>24, <1>a, <2>1 DEF ListFails
<1>25. ASSUME NEW h \in Hosts, ClaimThrows(h) PROVE SessionTypeOK'
  BY <1>25, <1>a, GivesUpType DEF ClaimThrows, ProcOK, WakeOK, RunOK, TailOK, TaskOK
<1>26. ASSUME NEW h \in Hosts, StartThrows(h) PROVE SessionTypeOK'
  BY <1>26, <1>a, StartFailedType DEF StartThrows, ProcOK, WakeOK, RunOK, TailOK, TaskOK
<1>27. ASSUME NEW h \in Hosts, MarkThrows(h) PROVE SessionTypeOK'
  BY <1>27, <1>a, StartFailedType, SettleType DEF MarkThrows, ProcOK, WakeOK, RunOK, TailOK,
     TaskOK
<1>28. ASSUME NEW h \in Hosts, Defer(h) PROVE SessionTypeOK'
  <2>1. [run[h] EXCEPT !.fin = "deferred"] \in RunType
    BY DEF RunType, FinSteps
  <2> QED
    BY <1>28, <1>a, <2>1, First DEF Defer, RunOK
<1>29. ASSUME NEW h \in Hosts, KillContainer(h) PROVE SessionTypeOK'
  BY <1>29, <1>a, KillType DEF KillContainer, ProcOK, WakeOK, RunOK, TailOK, TaskOK, Respawns
<1>30. ASSUME NEW h \in Hosts, PlanRestart(h) PROVE SessionTypeOK'
  BY <1>30, <1>a DEF PlanRestart, ProcOK, WakeOK, RunOK, TailOK, TaskOK
<1>31. ASSUME NEW h \in Hosts, Crash(h) PROVE SessionTypeOK'
  BY <1>31, <1>a, GoneType DEF Crash, ProcOK, WakeOK, RunOK, TailOK, TaskOK
<1>32. ASSUME NEW h \in Hosts, Shutdown(h) PROVE SessionTypeOK'
  BY <1>32, <1>a, GoneType DEF Shutdown, ProcOK, WakeOK, RunOK, TailOK, TaskOK
<1>33. ASSUME NEW h \in Hosts, LeaseExpires(h) PROVE SessionTypeOK'
  BY <1>33, <1>a DEF LeaseExpires, ProcOK, WakeOK, RunOK, TailOK, TaskOK
<1>34. ASSUME NEW h \in Hosts, GatewayUnavailable(h) PROVE SessionTypeOK'
  <2>1. [wake[h] EXCEPT !.admitted = FALSE] \in WakeType
    BY DEF WakeType
  <2>2. run' \in [Hosts -> RunType] /\ cont' \in {"absent", "created", "running"}
    BY <1>34, KillType DEF GatewayUnavailable, RunOK
  <2> QED
    BY <1>34, <1>a, <2>1, <2>2 DEF GatewayUnavailable
<1>35. ASSUME NEW h \in Hosts, NEW t \in tasks[h], AskWake(h, t) PROVE SessionTypeOK'
  <2>1. \A p \in {"clear", "wait"} : [t EXCEPT !.phase = p] \in TaskType
    BY DEF TaskType
  <2>2. tasks' \in [Hosts -> SUBSET TaskType]
    BY <1>35, <2>1 DEF AskWake
  <2>3. wake' \in [Hosts -> WakeType]
    BY <1>35, BeginWakeType DEF AskWake, WakeOK
  <2> QED
    BY <1>35, <1>a, <2>2, <2>3 DEF AskWake
<1>36. ASSUME NEW h \in Hosts, NEW t \in tasks[h], ClearIntent(h, t) PROVE SessionTypeOK'
  BY <1>36, <1>a DEF ClearIntent
<1>37. ASSUME ContainerExits \/ CloseSession PROVE SessionTypeOK'
  BY <1>37, <1>a DEF ContainerExits, CloseSession
<1> QED
  BY <1>1, <1>2, <1>3, <1>4, <1>5, <1>6, <1>7, <1>8, <1>9, <1>10, <1>11, <1>12, <1>13, <1>14,
     <1>15, <1>16, <1>17, <1>18, <1>19, <1>20, <1>21, <1>22, <1>23, <1>24, <1>25, <1>26,
     <1>27, <1>28, <1>29, <1>30, <1>31, <1>32, <1>33, <1>34, <1>35, <1>36, <1>37, <1>38 DEF
     SessionNext, HostStep, Disturbance

-----------------------------------------------------------------------------
(* What a step of host h leaves alone.                                     *)

Kept(h) ==
    /\ \A g \in Hosts \ {h} :
         /\ wake'[g] = wake[g] /\ run'[g] = run[g] /\ tail'[g] = tail[g]
         /\ proc'[g] = proc[g] /\ gate'[g] = gate[g] /\ lease'[g] = lease[g]
    /\ proc'[h] = "off" => proc[h] = "off"
    /\ lapsed \subseteq lapsed'

LEMMA Elsewhere ==
  ASSUME Ownership, NEW h \in Hosts, Kept(h), claim' = claim, HostInv(h)'
  PROVE  Holder' /\ \A g \in Hosts : HostInv(g)'
<1>1. Holder'
  BY DEF Ownership, Holder, Kept, SessionTypeOK, ClaimType
<1>2. ASSUME NEW g \in Hosts \ {h} PROVE HostInv(g)'
  <2>1. HostInv(g)
    BY DEF Ownership
  <2> QED
    BY <2>1 DEF HostInv, Kept, Process, Carries, Behind, Takeover, Claims, Closed,
                Owned, Works, Registered
<1> QED
  BY <1>1, <1>2

\* The wake of h is over and what it has registered stays.
LEMMA Rests ==
  ASSUME Ownership, SessionTypeOK', NEW h \in Hosts,
         wake'[h] = Idle, run'[h] = run[h], tail'[h] = tail[h], gate'[h] = gate[h],
         claim' = claim, lapsed' = lapsed, lease' = lease,
         Works(h), proc'[h] \notin {"off", "gone"}, wake[h].pc # "start"
  PROVE  HostInv(h)'
<1>1. HostInv(h) /\ claim.inc \in Nat
  BY SessionAssumption DEF Ownership, SessionTypeOK, ClaimType
<1>2. Owned(h)' = 0 \/ Owned(h)' = Owned(h)
  BY <1>1 DEF HostInv, Carries, Owned, Idle, NoRun, Early
<1> QED
  BY <1>1, <1>2 DEF HostInv, Process, Carries, Behind, Takeover, Claims, Closed,
     Works, Registered, Idle, Early

\* What has been stopped stays so, and so does what was adopted too late.
Lasts(h) == (run[h].stop => run'[h].stop) /\ (run[h].late => run'[h].late)

\* The runtime of h is gone or goes on under its incarnation.
LEMMA RunGoesOn ==
  ASSUME Ownership, SessionTypeOK', NEW h \in Hosts,
         \A f \in {"pc", "kind", "seen", "inc"} : wake'[h][f] = wake[h][f],
         \/ run'[h] = NoRun
         \/ run[h] # NoRun /\ run'[h].inc = run[h].inc /\ Lasts(h),
         gate'[h] = gate[h] \/ run'[h] = NoRun \/ run'[h].stop,
         tail'[h] = tail[h],
         claim' = claim, lapsed' = lapsed, lease' = lease,
         Works(h), proc'[h] \notin {"off", "gone"}
  PROVE  HostInv(h)'
<1>1. HostInv(h) /\ claim.inc \in Nat
  BY SessionAssumption DEF Ownership, SessionTypeOK, ClaimType
<1>2. /\ wake'[h].pc = wake[h].pc /\ wake'[h].inc = wake[h].inc
      /\ wake'[h].kind = wake[h].kind /\ wake'[h].seen = wake[h].seen
  OBVIOUS
<1>3. Owned(h)' = 0 \/ Owned(h)' = Owned(h)
  BY <1>1, <1>2 DEF HostInv, Carries, Owned, NoRun, Early
<1>4. run'[h].inc \in {0, run[h].inc}
  BY DEF NoRun
<1> QED
  BY <1>1, <1>2, <1>3, <1>4 DEF HostInv, Process, Carries, Behind, Takeover, Claims, Closed,
     Works, Registered, Early, Lasts

LEMMA SettleRests ==
  ASSUME SessionTypeOK, NEW h \in Hosts, Works(h),
         \/ Settle(h, TRUE) /\ proc' = proc
         \/ Settle(h, FALSE) /\ proc' = proc
         \/ AdoptionEnds(h)
         \/ GivesUp(h)
  PROVE  /\ wake' = [wake EXCEPT ![h] = Idle] /\ wake'[h] = Idle
         /\ \A g \in Hosts \ {h} : wake'[g] = wake[g] /\ proc'[g] = proc[g]
         /\ proc'[h] \notin {"off", "gone"}
         /\ AdoptionEnds(h) \/ GivesUp(h) => gate' = gate
  BY DEF Settle, AdoptionEnds, GivesUp, SessionTypeOK, Works

\* onFailure leaves the entry of activeContainers, stopped, or none at all.
LEMMA FailedStart ==
  ASSUME SessionTypeOK, NEW h \in Hosts, StartFailed(h)
  PROVE  /\ wake'[h].pc = "failing"
         /\ wake'[h].inc = wake[h].inc /\ wake'[h].seen = wake[h].seen
         /\ run'[h].inc = run[h].inc
         /\ run[h] = NoRun => run'[h] = NoRun
         /\ run[h] # NoRun => run'[h].stop
         /\ \A g \in Hosts \ {h} : wake'[g] = wake[g] /\ run'[g] = run[g]
<1>1. wake[h] \in WakeType /\ wake' = [wake EXCEPT ![h].pc = "failing"]
  BY DEF StartFailed, GoTo, SessionTypeOK
<1>2. run[h] \in RunType
  BY DEF SessionTypeOK
<1>3. CASE run[h] = NoRun
  BY <1>1, <1>3 DEF StartFailed, Registered, SessionTypeOK, WakeType
<1>4. CASE run[h] # NoRun
  <2>1. run' = [run EXCEPT ![h].stop = TRUE, ![h].fin = IF @ = "no" THEN "fence" ELSE @]
    BY <1>4 DEF StartFailed, Registered
  <2> QED
    BY <1>1, <1>2, <1>4, <2>1 DEF SessionTypeOK, WakeType, RunType
<1> QED
  BY <1>3, <1>4

\* A runtime enters activeContainers under the incarnation of its wake.
LEMMA Registers ==
  ASSUME SessionTypeOK, NEW h \in Hosts, NEW late \in BOOLEAN, Register(h, late)
  PROVE  /\ run'[h].inc = wake[h].inc /\ run'[h].late = late
         /\ \A g \in Hosts \ {h} : run'[g] = run[g]
  BY DEF Register, NoRun, SessionTypeOK, WakeType, RunType

\* A wake that only moves on from an early step, before anything is owned.
LEMMA MovesOn ==
  ASSUME Ownership, SessionTypeOK', NEW h \in Hosts,
         wake'[h].pc \in {"list", "orphan", "read", "cas", "ensure"},
         wake'[h].inc <= claim.inc,
         wake'[h].pc = "ensure" => wake'[h].kind = "spawn" /\ wake'[h].inc = 0,
         wake'[h].seen <= claim.inc,
         wake'[h].pc = "cas" => claim.by \in {NoHost, h} \cup lapsed,
         run[h] = NoRun, UNCHANGED <<run, tail, proc, gate, lease, lapsed, claim>>,
         Works(h)
  PROVE  HostInv(h)'
<1>1. HostInv(h) /\ claim.inc \in Nat
  BY SessionAssumption DEF Ownership, SessionTypeOK, ClaimType
<1>2. Owned(h)' = 0
  BY DEF Owned, NoRun
<1> QED
  BY <1>1, <1>2 DEF HostInv, Process, Carries, Behind, Takeover, Claims, Closed,
     Works, Registered, Early

\* A release keeps the incarnation, frees nothing but the releaser's claim,
\* and so disturbs no other host.
LEMMA ReleaseKeeps ==
  ASSUME SessionTypeOK, NEW h \in Hosts, NEW i, ReleaseWrite(h, i)
  PROVE  /\ claim'.inc = claim.inc
         /\ claim'.by \in {NoHost, claim.by}
         /\ claim.by # h => claim' = claim
  BY DEF ReleaseWrite, Released, SessionTypeOK, ClaimType

LEMMA ReleaseElsewhere ==
  ASSUME Ownership, NEW h \in Hosts, NEW i, ReleaseWrite(h, i), Works(h), HostInv(h)',
         \A g \in Hosts \ {h} :
           wake'[g] = wake[g] /\ run'[g] = run[g] /\ tail'[g] = tail[g] /\ proc'[g] = proc[g],
         proc'[h] # "off", UNCHANGED <<gate, lease, lapsed>>
  PROVE  Holder' /\ \A g \in Hosts : HostInv(g)'
<1>1. /\ claim'.inc = claim.inc /\ claim'.by \in {NoHost, claim.by}
      /\ claim.by # h => claim' = claim
  BY ReleaseKeeps DEF Ownership
<1>2. Holder'
  BY <1>1 DEF Ownership, Holder, SessionTypeOK, ClaimType
<1>3. ASSUME NEW g \in Hosts \ {h} PROVE HostInv(g)'
  <2>1. HostInv(g) /\ Owned(g)' = Owned(g)
    BY DEF Ownership, Owned
  <2> QED
    BY <1>1, <2>1 DEF HostInv, Process, Carries, Behind, Takeover, Claims, Closed, Works,
       Registered
<1> QED
  BY <1>2, <1>3

LEMMA OwnershipStep == Ownership /\ SessionTypeOK' /\ SessionNext => Ownership'
<1> SUFFICES ASSUME Ownership, SessionTypeOK', SessionNext
             PROVE  Holder' /\ \A h \in Hosts : HostInv(h)'
  BY DEF Ownership
<1> USE DEF rowVars, peerVars, hostVars
<1>t. SessionTypeOK
  BY DEF Ownership
<1>i. \A h \in Hosts : HostInv(h)
  BY DEF Ownership
<1> DEFINE Goal == Holder' /\ \A h \in Hosts : HostInv(h)'
<1>1. ASSUME NEW h \in Hosts, StopOrphan(h) PROVE Goal
  <2>1. Kept(h) /\ claim' = claim
    BY <1>1, <1>t, SettleRests DEF StopOrphan, Kept, At, Works
  <2>2. HostInv(h)'
    BY <1>1, <1>t, SettleRests, Rests DEF StopOrphan, At, Works
  <2> QED
    BY <2>1, <2>2, Elsewhere
<1>2. ASSUME NEW h \in Hosts, MarkContainerRunning(h) PROVE Goal
  <2>1. Kept(h) /\ claim' = claim
    BY <1>2, <1>t, SettleRests DEF MarkContainerRunning, Kept, At, Works
  <2>2. HostInv(h)'
    BY <1>2, <1>t, SettleRests, Rests DEF MarkContainerRunning, At, Works
  <2> QED
    BY <2>1, <2>2, Elsewhere
<1>3. ASSUME NEW h \in Hosts, StartFailureEnds(h) PROVE Goal
  <2>1. Kept(h) /\ claim' = claim
    BY <1>3, <1>t, SettleRests DEF StartFailureEnds, Kept, At, Works
  <2>2. HostInv(h)'
    BY <1>3, <1>t, SettleRests, Rests DEF StartFailureEnds, At, Works
  <2> QED
    BY <2>1, <2>2, Elsewhere
<1>4. ASSUME NEW h \in Hosts, ClaimThrows(h) PROVE Goal
  <2>1. Kept(h) /\ claim' = claim
    BY <1>4, <1>t, SettleRests DEF ClaimThrows, Kept, At, Works
  <2>2. HostInv(h)'
    BY <1>4, <1>t, SettleRests, Rests DEF ClaimThrows, At, Works
  <2> QED
    BY <2>1, <2>2, Elsewhere
<1>5. ASSUME NEW h \in Hosts, Terminal(h) PROVE Goal
  <2>1. Kept(h) /\ claim' = claim
    BY <1>5, <1>t DEF Terminal, Kept, Works, SessionTypeOK, WakeType, RunType, TailType
  <2>2. /\ \A f \in {"pc", "kind", "seen", "inc"} : wake'[h][f] = wake[h][f]
        /\ \/ run'[h] = NoRun
           \/ run[h] # NoRun /\ run'[h].inc = run[h].inc /\ Lasts(h)
    BY <1>5, <1>t DEF Terminal, Registered, NoRun, Lasts, SessionTypeOK, WakeType, RunType, TailType
  <2>3. gate'[h] = gate[h] \/ run'[h] = NoRun \/ run'[h].stop
    BY <1>5, <1>t DEF Terminal, Registered, SessionTypeOK, WakeType, RunType, TailType
  <2>4. HostInv(h)'
    BY <1>5, <1>t, <2>2, <2>3, RunGoesOn DEF Terminal, Works
  <2> QED
    BY <2>1, <2>4, Elsewhere
<1>6. ASSUME NEW h \in Hosts, CheckFence(h) PROVE Goal
  <2>1. Kept(h) /\ claim' = claim
    BY <1>6, <1>t DEF CheckFence, Kept, Works, SessionTypeOK, WakeType, RunType, TailType
  <2>2. /\ \A f \in {"pc", "kind", "seen", "inc"} : wake'[h][f] = wake[h][f]
        /\ \/ run'[h] = NoRun
           \/ run[h] # NoRun /\ run'[h].inc = run[h].inc /\ Lasts(h)
    BY <1>6, <1>t DEF CheckFence, Registered, NoRun, Lasts, SessionTypeOK, WakeType, RunType,
       TailType
  <2>3. gate'[h] = gate[h] \/ run'[h] = NoRun \/ run'[h].stop
    BY <1>6, <1>t DEF CheckFence, Registered, SessionTypeOK, WakeType, RunType, TailType
  <2>4. HostInv(h)'
    BY <1>6, <1>t, <2>2, <2>3, RunGoesOn DEF CheckFence, Works
  <2> QED
    BY <2>1, <2>4, Elsewhere
<1>7. ASSUME NEW h \in Hosts, DeferredFinish(h) PROVE Goal
  <2>1. Kept(h) /\ claim' = claim
    BY <1>7, <1>t DEF DeferredFinish, Kept, Works, SessionTypeOK, WakeType, RunType, TailType
  <2>2. /\ \A f \in {"pc", "kind", "seen", "inc"} : wake'[h][f] = wake[h][f]
        /\ \/ run'[h] = NoRun
           \/ run[h] # NoRun /\ run'[h].inc = run[h].inc /\ Lasts(h)
    BY <1>7, <1>t DEF DeferredFinish, Registered, NoRun, Lasts, SessionTypeOK, WakeType, RunType,
       TailType
  <2>3. gate'[h] = gate[h] \/ run'[h] = NoRun \/ run'[h].stop
    BY <1>7, <1>t DEF DeferredFinish, Registered, SessionTypeOK, WakeType, RunType, TailType
  <2>4. HostInv(h)'
    BY <1>7, <1>t, <2>2, <2>3, RunGoesOn DEF DeferredFinish, Works
  <2> QED
    BY <2>1, <2>4, Elsewhere
<1>8. ASSUME NEW h \in Hosts, TearDown(h) PROVE Goal
  <2>1. Kept(h) /\ claim' = claim
    BY <1>8, <1>t DEF TearDown, Kept, Works, SessionTypeOK, WakeType, RunType, TailType
  <2>2. /\ \A f \in {"pc", "kind", "seen", "inc"} : wake'[h][f] = wake[h][f]
        /\ \/ run'[h] = NoRun
           \/ run[h] # NoRun /\ run'[h].inc = run[h].inc /\ Lasts(h)
    BY <1>8, <1>t DEF TearDown, Registered, NoRun, Lasts, SessionTypeOK, WakeType, RunType, TailType
  <2>3. gate'[h] = gate[h] \/ run'[h] = NoRun \/ run'[h].stop
    BY <1>8, <1>t DEF TearDown, Registered, SessionTypeOK, WakeType, RunType, TailType
  <2>4. HostInv(h)'
    BY <1>8, <1>t, <2>2, <2>3, RunGoesOn DEF TearDown, Works
  <2> QED
    BY <2>1, <2>4, Elsewhere
<1>9. ASSUME NEW h \in Hosts, Defer(h) PROVE Goal
  <2>1. Kept(h) /\ claim' = claim
    BY <1>9, <1>t DEF Defer, Kept, Works, SessionTypeOK, WakeType, RunType, TailType
  <2>2. /\ \A f \in {"pc", "kind", "seen", "inc"} : wake'[h][f] = wake[h][f]
        /\ \/ run'[h] = NoRun
           \/ run[h] # NoRun /\ run'[h].inc = run[h].inc /\ Lasts(h)
    BY <1>9, <1>t DEF Defer, Registered, NoRun, Lasts, SessionTypeOK, WakeType, RunType, TailType
  <2>3. gate'[h] = gate[h] \/ run'[h] = NoRun \/ run'[h].stop
    BY <1>9, <1>t DEF Defer, Registered, SessionTypeOK, WakeType, RunType, TailType
  <2>4. HostInv(h)'
    BY <1>9, <1>t, <2>2, <2>3, RunGoesOn DEF Defer, Works
  <2> QED
    BY <2>1, <2>4, Elsewhere
<1>10. ASSUME NEW h \in Hosts, KillContainer(h) PROVE Goal
  <2>1. Kept(h) /\ claim' = claim
    BY <1>10, <1>t DEF KillContainer, Kept, Works, SessionTypeOK, WakeType, RunType, TailType,
       Kill
  <2>2. /\ \A f \in {"pc", "kind", "seen", "inc"} : wake'[h][f] = wake[h][f]
        /\ \/ run'[h] = NoRun
           \/ run[h] # NoRun /\ run'[h].inc = run[h].inc /\ Lasts(h)
    BY <1>10, <1>t DEF KillContainer, Registered, NoRun, Lasts, SessionTypeOK, WakeType, RunType,
       TailType, Kill
  <2>3. gate'[h] = gate[h] \/ run'[h] = NoRun \/ run'[h].stop
    BY <1>10, <1>t DEF KillContainer, Registered, SessionTypeOK, WakeType, RunType, TailType,
       Kill
  <2>4. HostInv(h)'
    BY <1>10, <1>t, <2>2, <2>3, RunGoesOn DEF KillContainer, Works, Kill
  <2> QED
    BY <2>1, <2>4, Elsewhere
<1>11. ASSUME NEW h \in Hosts, GatewayUnavailable(h) PROVE Goal
  <2>1. Kept(h) /\ claim' = claim
    BY <1>11, <1>t DEF GatewayUnavailable, Kept, Works, SessionTypeOK, WakeType, RunType,
       TailType, Kill
  <2>2. /\ \A f \in {"pc", "kind", "seen", "inc"} : wake'[h][f] = wake[h][f]
        /\ \/ run'[h] = NoRun
           \/ run[h] # NoRun /\ run'[h].inc = run[h].inc /\ Lasts(h)
    BY <1>11, <1>t DEF GatewayUnavailable, Registered, NoRun, Lasts, SessionTypeOK, WakeType,
       RunType, TailType, Kill
  <2>3. gate'[h] = gate[h] \/ run'[h] = NoRun \/ run'[h].stop
    BY <1>11, <1>t DEF GatewayUnavailable, Registered, SessionTypeOK, WakeType, RunType,
       TailType, Kill
  <2>4. HostInv(h)'
    BY <1>11, <1>t, <2>2, <2>3, RunGoesOn DEF GatewayUnavailable, Works, Kill
  <2> QED
    BY <2>1, <2>4, Elsewhere
<1>12. ASSUME NEW h \in Hosts, RestartContainer(h) PROVE Goal
  <2>1. Kept(h) /\ claim' = claim
    BY <1>12, <1>t DEF RestartContainer, Kept, Works, SessionTypeOK, WakeType, RunType,
       TailType, Kill
  <2>2. /\ \A f \in {"pc", "kind", "seen", "inc"} : wake'[h][f] = wake[h][f]
        /\ \/ run'[h] = NoRun
           \/ run[h] # NoRun /\ run'[h].inc = run[h].inc /\ Lasts(h)
    BY <1>12, <1>t DEF RestartContainer, Registered, NoRun, Lasts, SessionTypeOK, WakeType, RunType,
       TailType, Kill
  <2>3. gate'[h] = gate[h] \/ run'[h] = NoRun \/ run'[h].stop
    BY <1>12, <1>t DEF RestartContainer, Registered, SessionTypeOK, WakeType, RunType,
       TailType, Kill
  <2>4. HostInv(h)'
    BY <1>12, <1>t, <2>2, <2>3, RunGoesOn DEF RestartContainer, Works, Kill
  <2> QED
    BY <2>1, <2>4, Elsewhere
<1>13. ASSUME NEW h \in Hosts, HonorStopIntents(h) PROVE Goal
  <2>1. Kept(h) /\ claim' = claim
    BY <1>13, <1>t DEF HonorStopIntents, Kept, Works, SessionTypeOK, WakeType, RunType,
       TailType, Kill
  <2>2. /\ \A f \in {"pc", "kind", "seen", "inc"} : wake'[h][f] = wake[h][f]
        /\ \/ run'[h] = NoRun
           \/ run[h] # NoRun /\ run'[h].inc = run[h].inc /\ Lasts(h)
    BY <1>13, <1>t DEF HonorStopIntents, Registered, NoRun, Lasts, SessionTypeOK, WakeType, RunType,
       TailType, Kill
  <2>3. gate'[h] = gate[h] \/ run'[h] = NoRun \/ run'[h].stop
    BY <1>13, <1>t DEF HonorStopIntents, Registered, SessionTypeOK, WakeType, RunType,
       TailType, Kill
  <2>4. HostInv(h)'
    BY <1>13, <1>t, <2>2, <2>3, RunGoesOn DEF HonorStopIntents, Works, Kill
  <2> QED
    BY <2>1, <2>4, Elsewhere
<1>14. ASSUME NEW h \in Hosts, RenewLease(h) PROVE Goal
  <2>1. Kept(h) /\ claim' = claim
    BY <1>14, <1>t DEF RenewLease, Kept, Works, At, Gone, GoTo, StartFailed, Register,
       SessionTypeOK, WakeType, RunType, TailType
  <2>2. HostInv(h)'
    BY <1>14, <1>t, <1>i, SessionAssumption DEF RenewLease, HostInv, Process, Carries, Behind,
       Takeover, Claims, Closed, Owned, Works, At, Registered, Early, Idle, NoRun, Gone,
       GoTo, StartFailed, Register, ClaimType, SessionTypeOK, WakeType, RunType, TailType
  <2> QED
    BY <2>1, <2>2, Elsewhere
<1>15. ASSUME NEW h \in Hosts, GatewayAvailable(h) PROVE Goal
  <2>1. Kept(h) /\ claim' = claim
    BY <1>15, <1>t DEF GatewayAvailable, Kept, Works, At, Gone, GoTo, StartFailed, Register,
       SessionTypeOK, WakeType, RunType, TailType
  <2>3. /\ gate'[h] /\ Works(h)
        /\ UNCHANGED <<wake, tail, proc, lease, lapsed, claim>>
        /\ run'[h] = [run[h] EXCEPT !.late = FALSE] /\ run[h] \in RunType
    BY <1>15, <1>t DEF GatewayAvailable, SessionTypeOK
  <2>4. run'[h].inc = run[h].inc
    BY <2>3 DEF RunType
  <2>5. run[h] = NoRun => run'[h] = NoRun
    <3> SUFFICES ASSUME run[h] = NoRun PROVE run'[h] = NoRun
      OBVIOUS
    <3>1. NoRun \in RunType /\ NoRun.late = FALSE
      BY First DEF NoRun
    <3>2. run'[h] = [NoRun EXCEPT !.late = NoRun.late]
      BY <2>3, <3>1
    <3> QED
      BY <3>1, <3>2 DEF RunType
  <2>6. Owned(h)' = Owned(h)
    BY <2>3, <2>4 DEF Owned
  <2>7. run'[h] # NoRun => run'[h].inc # 0
    BY <1>i, <2>4, <2>5 DEF HostInv, Carries
  <2>2. HostInv(h)'
    BY <1>i, <2>3, <2>4, <2>5, <2>6, <2>7
    DEF HostInv, Process, Carries, Behind, Takeover, Claims, Closed, Works
  <2> QED
    BY <2>1, <2>2, Elsewhere
<1>16. ASSUME NEW h \in Hosts, PlanRestart(h) PROVE Goal
  <2>1. Kept(h) /\ claim' = claim
    BY <1>16, <1>t DEF PlanRestart, Kept, Works, At, Gone, GoTo, StartFailed, Register,
       SessionTypeOK, WakeType, RunType, TailType
  <2>2. HostInv(h)'
    BY <1>16, <1>t, <1>i, SessionAssumption DEF PlanRestart, HostInv, Process, Carries,
       Behind, Takeover, Claims, Closed, Owned, Works, At, Registered, Early, Idle, NoRun,
       Gone, GoTo, StartFailed, Register, ClaimType, SessionTypeOK, WakeType, RunType,
       TailType
  <2> QED
    BY <2>1, <2>2, Elsewhere
<1>17. ASSUME NEW h \in Hosts, LeaseExpires(h) PROVE Goal
  <2>1. Kept(h) /\ claim' = claim
    BY <1>17, <1>t DEF LeaseExpires, Kept, Works, At, Gone, GoTo, StartFailed, Register,
       SessionTypeOK, WakeType, RunType, TailType
  <2>2. HostInv(h)'
    BY <1>17, <1>t, <1>i, SessionAssumption DEF LeaseExpires, HostInv, Process, Carries,
       Behind, Takeover, Claims, Closed, Owned, Works, At, Registered, Early, Idle, NoRun,
       Gone, GoTo, StartFailed, Register, ClaimType, SessionTypeOK, WakeType, RunType,
       TailType
  <2> QED
    BY <2>1, <2>2, Elsewhere
<1>18. ASSUME NEW h \in Hosts, Crash(h) PROVE Goal
  <2>1. Kept(h) /\ claim' = claim
    BY <1>18, <1>t DEF Crash, Kept, Works, At, Gone, GoTo, StartFailed, Register,
       SessionTypeOK, WakeType, RunType, TailType
  <2>2. HostInv(h)'
    BY <1>18, <1>t, <1>i, SessionAssumption DEF Crash, HostInv, Process, Carries, Behind,
       Takeover, Claims, Closed, Owned, Works, At, Registered, Early, Idle, NoRun, Gone,
       GoTo, StartFailed, Register, ClaimType, SessionTypeOK, WakeType, RunType, TailType
  <2> QED
    BY <2>1, <2>2, Elsewhere
<1>19. ASSUME NEW h \in Hosts, Shutdown(h) PROVE Goal
  <2>1. Kept(h) /\ claim' = claim
    BY <1>19, <1>t DEF Shutdown, Kept, Works, At, Gone, GoTo, StartFailed, Register,
       SessionTypeOK, WakeType, RunType, TailType
  <2>2. HostInv(h)'
    BY <1>19, <1>t, <1>i, SessionAssumption DEF Shutdown, HostInv, Process, Carries, Behind,
       Takeover, Claims, Closed, Owned, Works, At, Registered, Early, Idle, NoRun, Gone,
       GoTo, StartFailed, Register, ClaimType, SessionTypeOK, WakeType, RunType, TailType
  <2> QED
    BY <2>1, <2>2, Elsewhere
<1>20. ASSUME NEW h \in Hosts, Boot(h) PROVE Goal
  <2>1. Kept(h) /\ claim' = claim
    BY <1>20, <1>t DEF Boot, Kept, Works, At, Gone, GoTo, StartFailed, Register,
       SessionTypeOK, WakeType, RunType, TailType
  <2>2. HostInv(h)'
    BY <1>20, <1>t, <1>i, SessionAssumption DEF Boot, HostInv, Process, Carries, Behind,
       Takeover, Claims, Closed, Owned, Works, At, Registered, Early, Idle, NoRun, Gone,
       GoTo, StartFailed, Register, ClaimType, SessionTypeOK, WakeType, RunType, TailType
  <2> QED
    BY <2>1, <2>2, Elsewhere
<1>21. ASSUME NEW h \in Hosts, StartThrows(h) PROVE Goal
  <2>1. Kept(h) /\ claim' = claim
    BY <1>21, <1>t, FailedStart DEF StartThrows, Kept, Works, At, SessionTypeOK
  <2>3. wake[h].pc = "start" /\ run[h].inc \in Nat /\ Works(h)
    BY <1>21, <1>t, SessionAssumption DEF StartThrows, At, SessionTypeOK, RunType
  <2>4. StartFailed(h) /\ UNCHANGED <<tail, proc, gate, lease, lapsed, claim>>
    BY <1>21 DEF StartThrows
  <2>2. HostInv(h)'
    BY <1>t, <1>i, <2>3, <2>4, FailedStart, SessionAssumption DEF HostInv, Process, Carries,
       Behind, Takeover, Claims, Closed, Owned, Works, At, Registered, Early, Idle, NoRun,
       ClaimType, SessionTypeOK, WakeType, RunType, TailType
  <2> QED
    BY <2>1, <2>2, Elsewhere
<1>22. ASSUME NEW h \in Hosts, Prepare(h) PROVE Goal
  <2>3. wake[h].pc = "prepare" /\ Works(h)
        /\ UNCHANGED <<tail, proc, gate, lease, lapsed, claim>>
    BY <1>22 DEF Prepare, At
  <2>4. wake'[h].inc = wake[h].inc /\ wake'[h].seen = wake[h].seen
        /\ \A g \in Hosts \ {h} : wake'[g] = wake[g]
    BY <1>22, <1>t DEF Prepare, Register, GoTo, SessionTypeOK, WakeType
  <2>0. PICK late \in BOOLEAN : late = FALSE
    OBVIOUS
  <2>5. \/ wake'[h].pc = "start" /\ Register(h, late)
        \/ wake'[h].pc = "abort" /\ run' = run
    <3>1. CASE Register(h, FALSE) /\ GoTo(h, "start")
      <4>1. Register(h, late)
        BY <2>0, <3>1 DEF Register
      <4> QED
        BY <1>t, <3>1, <4>1 DEF GoTo, SessionTypeOK, WakeType
    <3>2. CASE GoTo(h, "abort") /\ run' = run
      BY <1>t, <3>2 DEF GoTo, SessionTypeOK, WakeType
    <3> QED
      BY <1>22, <3>1, <3>2 DEF Prepare, Register
  <2>1. Kept(h) /\ claim' = claim
    BY <1>t, <2>3, <2>4, <2>5, Registers DEF Kept
  <2>2. HostInv(h)'
    <3>1. CASE wake'[h].pc = "start" /\ Register(h, late)
      <4>1. run'[h].inc = wake[h].inc
        BY <1>t, <3>1, Registers
      <4>2. wake[h].inc # 0 /\ Owned(h)' = Owned(h)
        BY <1>i, <2>3, <3>1, <4>1 DEF HostInv, Carries, Owned
      <4> QED
        BY <1>i, <2>3, <2>4, <3>1, <4>1, <4>2 DEF HostInv, Process, Carries, Behind,
           Takeover, Claims, Closed, Works, Registered, Early
    <3>2. CASE wake'[h].pc = "abort" /\ run' = run
      BY <1>i, <2>3, <2>4, <3>2 DEF HostInv, Process, Carries, Behind, Takeover, Claims,
         Closed, Owned, Works, Registered, Early
    <3> QED
      BY <2>5, <3>1, <3>2
  <2> QED
    BY <2>1, <2>2, Elsewhere
<1>23. ASSUME NEW h \in Hosts, EnsureForAdoption(h) PROVE Goal
  <2>1. Kept(h) /\ claim' = claim
    BY <1>23, <1>t DEF EnsureForAdoption, RefuseAdoption, Kept, Works, At, SessionTypeOK, GoTo
  <2>3. wake[h].pc = "ensure" /\ wake[h].kind # "spawn" /\ Works(h)
        /\ UNCHANGED <<run, tail, proc, gate, lease, lapsed, claim>>
    BY <1>23 DEF EnsureForAdoption, RefuseAdoption, At
  <2>4. /\ wake'[h].pc \in {"network", "abort"}
        /\ wake'[h].inc = wake[h].inc /\ wake'[h].seen = wake[h].seen
    BY <1>23, <1>t DEF EnsureForAdoption, RefuseAdoption, GoTo, SessionTypeOK, WakeType
  <2>2. HostInv(h)'
    BY <1>i, <2>3, <2>4 DEF HostInv, Process, Carries, Behind, Takeover, Claims, Closed,
       Owned, Works, Registered, Early
  <2> QED
    BY <2>1, <2>2, Elsewhere
<1>41. ASSUME NEW h \in Hosts, AdoptRuntime(h) PROVE Goal
  <2>0. PICK late \in BOOLEAN : late = ~gate[h]
    OBVIOUS
  <2>3. wake[h].pc = "network" /\ Works(h)
        /\ UNCHANGED <<tail, proc, gate, lease, lapsed, claim>>
    BY <1>41 DEF AdoptRuntime, At
  <2>4. wake'[h].inc = wake[h].inc /\ wake'[h].seen = wake[h].seen
        /\ \A g \in Hosts \ {h} : wake'[g] = wake[g]
    BY <1>41, <1>t DEF AdoptRuntime, RefuseAdoption, GoTo, SessionTypeOK, WakeType
  <2>5. \/ wake'[h].pc = "mark" /\ Register(h, late)
        \/ wake'[h].pc = "abort" /\ run' = run
    BY <1>41, <1>t, <2>0 DEF AdoptRuntime, RefuseAdoption, GoTo, SessionTypeOK, WakeType
  <2>1. Kept(h) /\ claim' = claim
    BY <1>t, <2>3, <2>4, <2>5, Registers DEF Kept
  <2>2. HostInv(h)'
    <3>1. CASE wake'[h].pc = "mark" /\ Register(h, late)
      <4>1. run'[h].inc = wake[h].inc /\ run'[h].late = ~gate[h]
        BY <1>t, <2>0, <3>1, Registers
      <4>2. wake[h].inc # 0 /\ Owned(h)' = Owned(h)
        BY <1>i, <2>3, <3>1, <4>1 DEF HostInv, Carries, Owned
      <4> QED
        BY <1>i, <2>3, <2>4, <3>1, <4>1, <4>2 DEF HostInv, Process, Carries, Behind,
           Takeover, Claims, Closed, Works, Registered, Early
    <3>2. CASE wake'[h].pc = "abort" /\ run' = run
      BY <1>i, <2>3, <2>4, <3>2 DEF HostInv, Process, Carries, Behind, Takeover, Claims,
         Closed, Owned, Works, Registered, Early
    <3> QED
      BY <2>5, <3>1, <3>2
  <2> QED
    BY <2>1, <2>2, Elsewhere
<1>24. ASSUME NEW h \in Hosts, RequestWake(h) PROVE Goal
  <2>1. Kept(h) /\ claim' = claim
    BY <1>24, <1>t DEF RequestWake, Kept, Works, At, SessionTypeOK, BeginWake
  <2>3. /\ wake'[h].pc \in {"list", "ensure"} /\ wake'[h].inc = 0 /\ wake'[h].seen = 0
        /\ wake'[h].pc = "ensure" => wake'[h].kind = "spawn"
    BY <1>24, <1>t DEF RequestWake, BeginWake, Idle, SessionTypeOK
  <2>2. HostInv(h)'
    BY <1>24, <1>t, <2>3, MovesOn, SessionAssumption DEF RequestWake, Works, Registered,
       SessionTypeOK, ClaimType
  <2> QED
    BY <2>1, <2>2, Elsewhere
<1>25. ASSUME NEW h \in Hosts, EnsureForSpawn(h) PROVE Goal
  <2>1. Kept(h) /\ claim' = claim
    BY <1>25, <1>t, SettleRests DEF EnsureForSpawn, Kept, Works, At, SessionTypeOK
  <2>5. /\ UNCHANGED <<run, tail, proc, gate, lease, lapsed, claim>>
        /\ wake[h].pc = "ensure" /\ Works(h) /\ claim.inc \in Nat
    BY <1>25, <1>t, SessionAssumption DEF EnsureForSpawn, At, SessionTypeOK, ClaimType
  <2>3. CASE wake'[h] = [wake[h] EXCEPT !.pc = "read", !.admitted = TRUE] /\ tasks' = tasks
    <3>1. wake'[h].pc = "read" /\ wake'[h].inc = wake[h].inc /\ wake'[h].seen = wake[h].seen
      BY <1>t, <2>3 DEF SessionTypeOK, WakeType
    <3>2. wake[h].inc = 0 /\ run[h] = NoRun /\ wake[h].seen <= claim.inc
          /\ wake[h].inc <= claim.inc
      BY <1>25, <1>i DEF EnsureForSpawn, At, HostInv, Carries, Behind, Early
    <3> QED
      BY <1>25, <2>5, <2>1, <3>1, <3>2, MovesOn, Elsewhere
  <2>4. CASE Settle(h, FALSE)
    <3>1. wake'[h] = Idle /\ proc'[h] \notin {"off", "gone"}
      BY <1>25, <1>t, <2>4, SettleRests DEF EnsureForSpawn, At
    <3> QED
      BY <1>25, <2>5, <2>1, <3>1, Rests, Elsewhere
  <2> QED
    BY <1>25, <1>t, <2>3, <2>4 DEF EnsureForSpawn, SessionTypeOK
<1>26. ASSUME NEW h \in Hosts, ListSessions(h) PROVE Goal
  <2>1. Kept(h) /\ claim' = claim
    BY <1>26, <1>t, <1>i DEF ListSessions, Kept, Works, At, SessionTypeOK, GoTo, AdoptionEnds
  <2>3. run[h] = NoRun /\ wake[h].inc <= claim.inc /\ wake[h].seen <= claim.inc
        /\ Works(h) /\ claim.inc \in Nat
    BY <1>26, <1>t, <1>i, SessionAssumption DEF ListSessions, At, HostInv, Carries, Behind,
       Early, SessionTypeOK, WakeType, ClaimType
  <2>7. UNCHANGED <<run, tail, lease, lapsed, claim>> /\ wake[h].pc = "list"
    BY <1>26 DEF ListSessions, At
  <2>4. CASE AdoptionEnds(h)
    <3>1. wake'[h] = Idle /\ proc'[h] \notin {"off", "gone"} /\ gate' = gate
      BY <1>26, <1>t, <2>4, SettleRests DEF ListSessions, At
    <3> QED
      BY <1>26, <2>3, <2>7, <2>1, <3>1, Rests, Elsewhere
  <2>5. CASE (GoTo(h, "read") \/ GoTo(h, "orphan")) /\ UNCHANGED <<proc, gate>>
    <3>1. wake'[h].pc \in {"read", "orphan"} /\ wake'[h].inc = wake[h].inc
          /\ wake'[h].seen = wake[h].seen
      BY <1>t, <2>5 DEF GoTo, SessionTypeOK, WakeType
    <3> QED
      BY <1>26, <2>3, <2>5, <2>7, <2>1, <3>1, MovesOn, Elsewhere
  <2>6. CASE wake' = [wake EXCEPT ![h] = [Idle EXCEPT !.pc = "ensure"]] /\ UNCHANGED <<proc,
        gate>>
    <3>1. wake'[h].pc = "ensure" /\ wake'[h].inc = 0 /\ wake'[h].seen = 0
          /\ wake'[h].kind = "spawn"
      BY <1>t, <2>6 DEF Idle, SessionTypeOK
    <3> QED
      BY <1>26, <2>3, <2>6, <2>7, <2>1, <3>1, MovesOn, Elsewhere
  <2> QED
    BY <1>26, <2>4, <2>5, <2>6 DEF ListSessions
<1>27. ASSUME NEW h \in Hosts, ListFails(h) PROVE Goal
  <2>1. Kept(h) /\ claim' = claim
    BY <1>27, <1>t DEF ListFails, Settle, Kept, At, Works, SessionTypeOK
  <2>2. wake'[h] = Idle /\ proc'[h] \notin {"off", "gone"}
    BY <1>27, <1>t DEF ListFails, Settle, At, Works, SessionTypeOK
  <2>3. HostInv(h)'
    BY <1>27, <2>2, Rests DEF ListFails, At
  <2> QED
    BY <2>1, <2>3, Elsewhere
<1>28. ASSUME NEW h \in Hosts, ReadClaim(h) PROVE Goal
  <2>1. CASE HeldByPeer(h)
    <3>1. Kept(h) /\ claim' = claim
      BY <1>28, <1>t, <2>1, SettleRests DEF ReadClaim, Kept, At, Works
    <3>2. wake'[h] = Idle /\ proc'[h] \notin {"off", "gone"} /\ gate' = gate
      BY <1>28, <1>t, <2>1, SettleRests DEF ReadClaim, At
    <3>3. HostInv(h)'
      BY <1>28, <3>2, <2>1, Rests DEF ReadClaim, At
    <3> QED
      BY <3>1, <3>3, Elsewhere
  <2>2. CASE ~HeldByPeer(h)
    <3>1. Kept(h) /\ claim' = claim
      BY <1>28, <1>t, <2>2 DEF ReadClaim, Kept, At, Works, SessionTypeOK
    <3>2. wake'[h].pc = "cas" /\ wake'[h].seen = claim.inc /\ wake'[h].inc = wake[h].inc
      BY <1>28, <1>t, <2>2 DEF ReadClaim, SessionTypeOK, WakeType
    <3>3. run[h] = NoRun /\ wake[h].inc <= claim.inc /\ Works(h) /\ claim.inc \in Nat
      BY <1>28, <1>t, <1>i, SessionAssumption
      DEF ReadClaim, At, HostInv, Carries, Behind, Early, SessionTypeOK, ClaimType
    <3>4. claim.by \in {NoHost, h} \cup lapsed
      <4>1. CASE claim.by \in Hosts /\ claim.by # h
        <5>1. proc[claim.by] # "off"
          BY <4>1, SessionAssumption DEF Ownership, Holder
        <5> QED
          BY <2>2, <4>1, <5>1, <1>i DEF HeldByPeer, HostInv, Process
      <4> QED
        BY <1>t, <4>1 DEF SessionTypeOK, ClaimType
    <3>5. HostInv(h)'
      BY <1>28, <2>2, <3>2, <3>3, <3>4, MovesOn DEF ReadClaim
    <3> QED
      BY <3>1, <3>5, Elsewhere
  <2> QED
    BY <2>1, <2>2
<1>29. ASSUME NEW h \in Hosts, MarkThrows(h) PROVE Goal
  <2>1. CASE StartFailed(h) /\ UNCHANGED tasks
    <3>1. Kept(h) /\ claim' = claim
      BY <1>29, <1>t, <2>1, FailedStart DEF MarkThrows, Kept
    <3>2. wake[h].pc = "mark" /\ Works(h) /\ run[h].inc \in Nat
      BY <1>29, <1>t, SessionAssumption DEF MarkThrows, At, SessionTypeOK, RunType
    <3>3. UNCHANGED <<tail, proc, gate, lease, lapsed, claim>>
      BY <1>29 DEF MarkThrows
    <3>4. HostInv(h)'
      BY <1>t, <1>i, <2>1, <3>2, <3>3, FailedStart, SessionAssumption
      DEF HostInv, Process, Carries, Behind, Takeover, Claims, Closed, Owned, Works,
          Registered, Early, NoRun, SessionTypeOK, ClaimType, WakeType
    <3> QED
      BY <3>1, <3>4, Elsewhere
  <2>2. CASE Settle(h, FALSE) /\ UNCHANGED <<cont, run>>
    <3>1. Kept(h) /\ claim' = claim
      BY <1>29, <1>t, <2>2, SettleRests DEF MarkThrows, Kept, At, Works
    <3>2. wake'[h] = Idle /\ proc'[h] \notin {"off", "gone"}
      BY <1>29, <1>t, <2>2, SettleRests DEF MarkThrows, At
    <3>3. HostInv(h)'
      BY <1>29, <2>2, <3>2, Rests DEF MarkThrows, At
    <3> QED
      BY <3>1, <3>3, Elsewhere
  <2> QED
    BY <1>29, <2>1, <2>2 DEF MarkThrows
<1>30. ASSUME NEW h \in Hosts, MarkContainerStopped(h) PROVE Goal
  <2>1. Kept(h) /\ claim' = claim
    BY <1>30, <1>t DEF MarkContainerStopped, Kept, Works, SessionTypeOK
  <2>2. run[h] # NoRun /\ run'[h] = NoRun /\ wake[h].pc \notin Early
    BY <1>30, <1>t, <1>i DEF MarkContainerStopped, NoRun, HostInv, Carries, SessionTypeOK
  <2>3. tail'[h] = tail[h] \cup {[inc |-> run[h].inc, cb |-> run[h].cb]}
    BY <1>30, <1>t DEF MarkContainerStopped, SessionTypeOK
  <2>4. Owned(h)' = 0
    BY <1>30, <2>2 DEF MarkContainerStopped, Owned, NoRun, Early
  <2>5. HostInv(h)'
    BY <1>30, <1>t, <1>i, <2>2, <2>3, <2>4, SessionAssumption
    DEF MarkContainerStopped, HostInv, Process, Carries, Behind, Takeover, Claims, Closed,
        Works, Registered, Early, NoRun, SessionTypeOK, ClaimType
  <2> QED
    BY <2>1, <2>5, Elsewhere
<1>31. ASSUME NEW h \in Hosts, NEW t \in tasks[h], AskWake(h, t) PROVE Goal
  <2>1. CASE wake' = wake
    <3>1. Kept(h) /\ claim' = claim
      BY <1>31, <2>1 DEF AskWake, Kept
    <3>2. HostInv(h)'
      BY <1>31, <1>i, <2>1 DEF AskWake, HostInv, Process, Carries, Behind, Takeover, Claims,
         Closed, Owned, Works, Registered
    <3> QED
      BY <3>1, <3>2, Elsewhere
  <2>2. CASE BeginWake(h) /\ ~Registered(h)
    <3>1. Kept(h) /\ claim' = claim
      BY <1>31, <1>t, <2>2 DEF AskWake, BeginWake, Kept, SessionTypeOK
    <3>2. /\ wake'[h].pc \in {"list", "ensure"} /\ wake'[h].inc = 0 /\ wake'[h].seen = 0
          /\ wake'[h].pc = "ensure" => wake'[h].kind = "spawn"
      BY <1>t, <2>2 DEF BeginWake, Idle, SessionTypeOK
    <3>3. HostInv(h)'
      BY <1>31, <1>t, <2>2, <3>2, MovesOn, SessionAssumption
      DEF AskWake, Registered, SessionTypeOK, ClaimType
    <3> QED
      BY <3>1, <3>3, Elsewhere
  <2> QED
    BY <1>31, <2>1, <2>2 DEF AskWake
<1>32. ASSUME NEW h \in Hosts, NEW t \in tasks[h], ClearIntent(h, t) PROVE Goal
  <2>1. Kept(h) /\ claim' = claim
    BY <1>32 DEF ClearIntent, Kept
  <2>2. HostInv(h)'
    BY <1>32, <1>i DEF ClearIntent, HostInv, Process, Carries, Behind, Takeover, Claims,
       Closed, Owned, Works, Registered
  <2> QED
    BY <2>1, <2>2, Elsewhere
<1>33. ASSUME ContainerExits \/ CloseSession PROVE Goal
  BY <1>33, <1>i DEF ContainerExits, CloseSession, Ownership, Holder, HostInv, Process,
     Carries, Behind, Takeover, Claims, Closed, Owned, Works, Registered
<1>34. ASSUME NEW h \in Hosts, TryClaim(h) PROVE Goal
  <2>1. CASE claim.inc = wake[h].seen
    <3>1. claim' = [inc |-> claim.inc + 1, by |-> h] /\ claim.inc \in Nat
      BY <1>34, <1>t, <2>1, SessionAssumption DEF TryClaim, SessionTypeOK, ClaimType
    <3>2. /\ wake'[h].pc = (IF wake[h].kind = "spawn" THEN "prepare" ELSE "ensure")
          /\ wake'[h].inc = claim.inc + 1 /\ wake'[h].seen = wake[h].seen
          /\ wake'[h].kind = wake[h].kind
          /\ \A g \in Hosts \ {h} : wake'[g] = wake[g]
      BY <1>34, <1>t, <2>1 DEF TryClaim, SessionTypeOK, WakeType
    <3>3. UNCHANGED <<run, tail, proc, gate, lease, lapsed>> /\ Works(h) /\ wake[h].pc = "cas"
      BY <1>34, <2>1 DEF TryClaim, At
    <3>4. Holder'
      BY <3>1, <3>3 DEF Holder, Works
    <3>5. HostInv(h)'
      <4>1. run[h] = NoRun
        BY <1>i, <3>3 DEF HostInv, Carries, Early
      <4>2. Owned(h)' = claim.inc + 1
        BY <3>2 DEF Owned
      <4> QED
        BY <1>t, <1>i, <2>1, <3>1, <3>2, <3>3, <4>1, <4>2
        DEF HostInv, Process, Carries, Behind, Takeover, Claims, Closed, Works, Registered,
            NoRun, Early, SessionTypeOK, TailType
    <3>6. ASSUME NEW g \in Hosts \ {h} PROVE HostInv(g)'
      <4>1. claim.by \in {NoHost, h} \cup lapsed
        BY <1>i, <2>1, <3>3 DEF HostInv, Takeover
      <4>2. HostInv(g) /\ Owned(g)' = Owned(g)
        BY <1>i, <3>2, <3>3 DEF Owned
      <4>3. g \notin lapsed => Owned(g) = 0
        BY <4>1, <4>2, SessionAssumption DEF HostInv, Claims
      <4>4. /\ wake[g].seen \in Nat /\ wake[g].inc \in Nat /\ run[g].inc \in Nat
            /\ \A t \in tail[g] : t.inc \in Nat
        BY <1>t, SessionAssumption DEF SessionTypeOK, WakeType, RunType, TailType
      <4> QED
        BY <3>1, <3>2, <3>3, <4>2, <4>3, <4>4
        DEF HostInv, Process, Carries, Behind, Takeover, Claims, Closed, Works, Registered
    <3> QED
      BY <3>4, <3>5, <3>6
  <2>2. CASE claim.inc # wake[h].seen
    <3>1. Kept(h) /\ claim' = claim
      BY <1>34, <1>t, <2>2, SettleRests DEF TryClaim, Kept, At, Works
    <3>2. wake'[h] = Idle /\ proc'[h] \notin {"off", "gone"} /\ gate' = gate
      BY <1>34, <1>t, <2>2, SettleRests DEF TryClaim, At
    <3>3. HostInv(h)'
      BY <1>34, <3>2, <2>2, Rests DEF TryClaim, At
    <3> QED
      BY <3>1, <3>3, Elsewhere
  <2> QED
    BY <2>1, <2>2
<1>35. ASSUME NEW h \in Hosts, Abort(h) PROVE Goal
  <2>1. wake[h].pc = "abort" /\ ReleaseWrite(h, wake[h].inc) /\ GivesUp(h) /\ Works(h)
        /\ UNCHANGED <<run, tail, lease, lapsed>>
    BY <1>35 DEF Abort, At
  <2>2. /\ wake'[h] = Idle /\ proc'[h] \notin {"off", "gone"} /\ gate' = gate
        /\ \A g \in Hosts \ {h} : wake'[g] = wake[g] /\ proc'[g] = proc[g]
    BY <1>t, <2>1, SettleRests
  <2>3. run[h] = NoRun /\ Owned(h)' = 0
    BY <1>i, <2>1, <2>2 DEF HostInv, Carries, Early, Owned, Idle, NoRun
  <2>4. HostInv(h)'
    BY <1>t, <1>i, <2>1, <2>2, <2>3, ReleaseKeeps, SessionAssumption
    DEF HostInv, Process, Carries, Behind, Takeover, Claims, Closed, Works, Registered,
        Idle, NoRun, Early, SessionTypeOK, ClaimType, TailType
  <2> QED
    BY <1>t, <2>1, <2>2, <2>4, ReleaseElsewhere
<1>36. ASSUME NEW h \in Hosts, ReleaseClaim(h) PROVE Goal
  <2>1. PICK t \in tail[h] :
          ReleaseWrite(h, t.inc) /\ tail' = [tail EXCEPT ![h] = @ \ {t}]
    BY <1>36 DEF ReleaseClaim
  <2>2. UNCHANGED <<wake, run, proc, gate, lease, lapsed>> /\ Works(h)
    BY <1>36 DEF ReleaseClaim
  <2>3. HostInv(h) /\ Owned(h)' = Owned(h) /\ tail'[h] \subseteq tail[h]
    BY <1>t, <1>i, <2>1, <2>2 DEF Owned, SessionTypeOK
  <2>4. h \notin lapsed /\ Owned(h) # 0 => claim' = claim
    BY <2>1, <2>3, <1>t, SessionAssumption
    DEF ReleaseWrite, Released, HostInv, Behind, Claims, SessionTypeOK, TailType
  <2>5. HostInv(h)'
    BY <1>36, <1>t, <2>1, <2>2, <2>3, <2>4, ReleaseKeeps
    DEF HostInv, Process, Carries, Behind, Takeover, Claims, Closed, Works, Registered
  <2> QED
    BY <1>36, <1>t, <2>1, <2>2, <2>5, ReleaseElsewhere DEF SessionTypeOK, Works
<1>37. ASSUME NEW h \in Hosts, Start(h) PROVE Goal
  <2>1. Kept(h) /\ claim' = claim
    BY <1>37, <1>t DEF Start, Kept, GoTo, At, Works, SessionTypeOK
  <2>2. wake'[h].pc = "mark" /\ wake'[h].inc = wake[h].inc /\ wake'[h].seen = wake[h].seen
    BY <1>37, <1>t DEF Start, GoTo, SessionTypeOK, WakeType
  <2>3. gate[h] /\ Works(h) /\ wake[h].pc = "start"
        /\ UNCHANGED <<run, tail, proc, gate, lease, lapsed, claim>>
    BY <1>37 DEF Start, At
  <2>4. HostInv(h)'
    BY <1>t, <1>i, <1>37, <2>2, <2>3
    DEF HostInv, Process, Carries, Behind, Takeover, Claims, Closed, Owned, Works, Registered,
        Early
  <2> QED
    BY <2>1, <2>4, Elsewhere
<1> HIDE DEF Goal
<1>38. ASSUME NEW h \in Hosts, HostStep(h) PROVE Goal
  BY <1>38, <1>24, <1>26, <1>1, <1>28, <1>34, <1>25, <1>23, <1>22, <1>35, <1>37, <1>2, <1>3,
     <1>5, <1>6, <1>7, <1>8, <1>30, <1>36, <1>12, <1>13, <1>31, <1>32, <1>20, <1>14, <1>15,
     <1>41 DEF HostStep
<1>39. ASSUME NEW h \in Hosts, Disturbance(h) PROVE Goal
  BY <1>39, <1>27, <1>4, <1>21, <1>29, <1>9, <1>10, <1>16, <1>18, <1>19, <1>17, <1>11 DEF
     Disturbance
<1>40. Goal
  BY <1>33, <1>38, <1>39 DEF SessionNext
<1> QED
  BY <1>40 DEF Goal

-----------------------------------------------------------------------------
(* The theorems.                                                           *)

LEMMA OwnershipInit == SessionInit => Ownership
<1> SUFFICES ASSUME SessionInit PROVE Ownership
  OBVIOUS
<1>1. SessionTypeOK
  <2>1. 0 \in 0..MaxInc /\ 0 \in 0..MaxEvents
    BY SessionAssumption
  <2>2. claim \in ClaimType
    BY <2>1 DEF SessionInit, ClaimType
  <2>3. wake \in [Hosts -> WakeType] /\ run \in [Hosts -> RunType]
    BY First DEF SessionInit
  <2> QED
    BY <2>1, <2>2, <2>3 DEF SessionInit, SessionTypeOK
<1>2. Holder /\ \A h \in Hosts : HostInv(h)
  BY SessionAssumption DEF SessionInit, Holder, HostInv, Process, Carries, Behind, Takeover,
     Claims, Closed, Owned, Works, Registered, Idle, NoRun, Early
<1> QED
  BY <1>1, <1>2 DEF Ownership

\* What stutters keeps the invariant.
LEMMA OwnershipStutters == Ownership /\ UNCHANGED sessionVars => Ownership'
  BY DEF sessionVars, rowVars, peerVars, hostVars, Ownership, SessionTypeOK, Holder, HostInv,
     Process, Carries, Behind, Takeover, Claims, Closed, Owned, Works, Registered

\* The inductive invariant: at every moment the wake, the registered runtime
\* and the pending releases of each host agree with the claim row.
THEOREM AlwaysOwned == SessionSpec => []Ownership
<1>1. Ownership /\ [SessionNext]_sessionVars => Ownership'
  BY TypeStep, OwnershipStep, OwnershipStutters DEF Ownership
<1> QED
  BY <1>1, OwnershipInit, PTL DEF SessionSpec

\* The rows, leases and maps of container-runner.ts keep their types.
THEOREM SessionTypeCorrect == SessionSpec => []SessionTypeOK
<1>1. Ownership => SessionTypeOK
  BY DEF Ownership
<1> QED
  BY <1>1, AlwaysOwned, PTL

\* A host whose lease has never lapsed owns what the claim row says it owns.
THEOREM OwnerClaimed == SessionSpec => []OwnerIsClaimed
<1>1. Ownership => OwnerIsClaimed
  BY DEF Ownership, HostInv, Claims, OwnerIsClaimed
<1> QED
  BY <1>1, AlwaysOwned, PTL

\* Two hosts supervise the session at once only after one has lost its lease.
THEOREM SoleSupervisor == SessionSpec => []OneSupervisor
<1>1. Ownership => OneSupervisor
  <2> SUFFICES ASSUME Ownership, NEW g \in Hosts, NEW h \in Hosts,
                      g # h, Registered(g), Registered(h), g \notin lapsed, h \notin lapsed
               PROVE  FALSE
    BY DEF OneSupervisor
  <2>1. \A x \in {g, h} : Owned(x) # 0
    BY DEF Ownership, HostInv, Carries, Owned, Registered, Early
  <2> QED
    BY <2>1 DEF Ownership, HostInv, Claims
<1> QED
  BY <1>1, AlwaysOwned, PTL

\* Whatever a host supervises while its gateway is closed has been told to
\* stop, still has to pass the last look before the start, or was adopted
\* without another look after the closure: nothing else escapes one.
THEOREM FailsClosed == SessionSpec => []ClosedMeansStopped
<1>1. Ownership => ClosedMeansStopped
  BY DEF Ownership, HostInv, Closed, ClosedMeansStopped
<1> QED
  BY <1>1, AlwaysOwned, PTL

\* The claim row behaves as the abstract ownership: a successful claim begins
\* an incarnation, a release ends it, and an expiry or a shutdown is a lapse.
THEOREM ClaimIsALease == SessionSpec => ImplementsSessionLease
<1>1. SessionInit => Lease!Init
  BY DEF SessionInit, Lease!Init
<1>2. Ownership /\ [SessionNext]_sessionVars => [Lease!Next]_Lease!vars
  <2> SUFFICES ASSUME Ownership, [SessionNext]_sessionVars PROVE [Lease!Next]_Lease!vars
    OBVIOUS
  <2> USE DEF rowVars, peerVars, hostVars
  <2>t. SessionTypeOK
    BY DEF Ownership
  <2>s. ASSUME UNCHANGED <<claim, lapsed>> PROVE [Lease!Next]_Lease!vars
    BY <2>s DEF Lease!vars
  <2>1. ASSUME NEW h \in Hosts, TryClaim(h) PROVE [Lease!Next]_Lease!vars
    <3>1. CASE claim.inc = wake[h].seen
      <4>1. claim.by \in {NoHost, h} \cup lapsed
        BY <2>1, <3>1 DEF TryClaim, At, Ownership, HostInv, Takeover
      <4>2. claim'.inc = claim.inc + 1 /\ claim'.by = h /\ lapsed' = lapsed
        BY <2>1, <3>1 DEF TryClaim
      <4> QED
        BY <2>1, <4>1, <4>2 DEF Lease!Next, Lease!Begin
    <3>2. CASE claim.inc # wake[h].seen
      BY <2>1, <2>s, <3>2 DEF TryClaim
    <3> QED
      BY <3>1, <3>2
  <2>2. ASSUME NEW h \in Hosts, Abort(h) \/ ReleaseClaim(h) PROVE [Lease!Next]_Lease!vars
    <3>1. PICK i : ReleaseWrite(h, i) /\ lapsed' = lapsed
      BY <2>2 DEF Abort, ReleaseClaim
    <3>2. CASE claim' = claim
      BY <2>s, <3>1, <3>2
    <3>3. CASE claim.by = h /\ claim' = [claim EXCEPT !.by = NoHost]
      <4>1. claim'.by = NoHost /\ claim'.inc = claim.inc /\ claim.by # NoHost
        BY <2>2, <2>t, <3>3, SessionAssumption DEF SessionTypeOK, ClaimType
      <4> QED
        BY <3>1, <4>1 DEF Lease!Next, Lease!End
    <3> QED
      BY <3>1, <3>2, <3>3 DEF ReleaseWrite, Released
  <2>3. ASSUME NEW h \in Hosts, LeaseExpires(h) \/ Shutdown(h) PROVE [Lease!Next]_Lease!vars
    <3>1. lapsed' = lapsed \cup {h} /\ claim' = claim
      BY <2>3 DEF LeaseExpires, Shutdown, Gone
    <3> QED
      BY <2>3, <3>1 DEF Lease!Next, Lease!Lapse
  <2>4. ASSUME NEW h \in Hosts, HostStep(h) PROVE [Lease!Next]_Lease!vars
    <3>1. CASE TryClaim(h) \/ Abort(h) \/ ReleaseClaim(h)
      BY <2>1, <2>2, <2>4, <3>1
    <3>2. CASE ~(TryClaim(h) \/ Abort(h) \/ ReleaseClaim(h))
      BY <2>4, <2>s, <3>2 DEF HostStep, RequestWake, ListSessions, StopOrphan, ReadClaim,
         EnsureForSpawn, EnsureForAdoption, RefuseAdoption, AdoptRuntime, Prepare, Start,
         MarkContainerRunning,
         StartFailureEnds, Terminal, CheckFence, DeferredFinish, TearDown,
         MarkContainerStopped, RestartContainer, HonorStopIntents, Boot, RenewLease,
         GatewayAvailable, AskWake, ClearIntent
    <3> QED
      BY <3>1, <3>2
  <2>5. ASSUME NEW h \in Hosts, Disturbance(h) PROVE [Lease!Next]_Lease!vars
    <3>1. CASE LeaseExpires(h) \/ Shutdown(h)
      BY <2>3, <2>5, <3>1
    <3>2. CASE ~(LeaseExpires(h) \/ Shutdown(h))
      BY <2>5, <2>s, <3>2 DEF Disturbance, ListFails, ClaimThrows, StartThrows, MarkThrows,
         Defer, KillContainer, PlanRestart, Crash, GatewayUnavailable, Gone
    <3> QED
      BY <3>1, <3>2
  <2>6. ASSUME ContainerExits \/ CloseSession PROVE [Lease!Next]_Lease!vars
    BY <2>6, <2>s DEF ContainerExits, CloseSession
  <2>7. ASSUME UNCHANGED sessionVars PROVE [Lease!Next]_Lease!vars
    BY <2>7, <2>s DEF sessionVars
  <2> QED
    BY <2>4, <2>5, <2>6, <2>7 DEF SessionNext
<1> QED
  BY <1>1, <1>2, AlwaysOwned, PTL DEF SessionSpec, ImplementsSessionLease, Lease!Spec
===============================================================================

---------------------------- MODULE SessionClaims -----------------------------
(***************************************************************************)
(* Host processes that run the container of one agent session              *)
(* (nanoclaw/src/container-runner.ts, db/coordination.ts,                  *)
(* host-instance.ts, container-restart.ts, drivers/).  All maps and rows   *)
(* of that code are keyed by session, so one session is modelled.          *)
(*                                                                         *)
(* A host is one run of the process: host-instance.ts draws a new instance *)
(* id at every start.  Several hosts overlap when one is restarted while   *)
(* another still runs, or when one dies and its container survives it.     *)
(* The database, the container and the leases outlive a host; its maps     *)
(* (activeContainers, wakePromises, pendingAdoptions) do not.  Each await  *)
(* of the code ends a step.  A gateway lease that is already unavailable   *)
(* when its callback is registered is left out.                            *)
(***************************************************************************)
EXTENDS Naturals, FiniteSets

CONSTANTS
    Hosts,      \* host instances
    NoHost,     \* the holder of a claim nobody holds
    MaxInc,     \* bound: incarnations explored
    MaxEvents,  \* bound: disturbances explored (see Disturbance)
    StoreFaults \* whether calls of the central database may throw

ASSUME SessionAssumption ==
    /\ NoHost \notin Hosts
    /\ MaxInc \in Nat /\ MaxEvents \in Nat
    /\ StoreFaults \in BOOLEAN

VARIABLES
    claim,   \* session_claims row: incarnation and claimed_by
    intent,  \* its stop_intent is respawn_after_stop
    open,    \* the session row exists with status 'active'
    shown,   \* its container_status
    lease,   \* host_instances row of each host
    lapsed,  \* hosts whose lease has ended at some time (history)
    cont,    \* the session's one container; its name is derived from the key
    proc,    \* where each host process is
    gate,    \* whether its gateway admission is open
    pend,    \* pendingAdoptions holds the session
    wake,    \* the wake or adoption in flight (wakePromises)
    run,     \* the entry of activeContainers, with its finalization, and whether it was
             \* adopted across a closure of the admission that lasts (late, history)
    tail,    \* finalizations past the registry that still have to release
    plan,    \* a restart has chosen this session and not yet killed it
    tasks,   \* respawns under way
    events   \* disturbances so far

rowVars  == <<claim, intent, open, shown>>
peerVars == <<lease, lapsed>>
hostVars == <<proc, gate, pend>>
sessionVars == <<rowVars, peerVars, cont, hostVars, wake, run, tail, plan, tasks, events>>

Respawns == {"restart", "honor"}

Idle  == [pc |-> "idle", kind |-> "spawn", seen |-> 0, inc |-> 0, admitted |-> FALSE]
NoRun == [inc |-> 0, fin |-> "no", stop |-> FALSE, cb |-> {}, late |-> FALSE]

WakeSteps == {"idle", "list", "orphan", "read", "cas", "ensure", "network", "prepare",
              "start", "mark", "abort", "failing"}
FinSteps  == {"no", "fence", "stop", "status", "deferred"}

Kinds     == {"spawn", "adopt", "retry"}
ClaimType == [inc : 0..MaxInc, by : Hosts \cup {NoHost}]
WakeType  == [pc : WakeSteps, kind : Kinds, seen : 0..MaxInc, inc : 0..MaxInc,
              admitted : BOOLEAN]
RunType   == [inc : 0..MaxInc, fin : FinSteps, stop : BOOLEAN, cb : SUBSET Respawns,
              late : BOOLEAN]
TailType  == [inc : 0..MaxInc, cb : SUBSET Respawns]
TaskType  == [kind : Respawns, phase : {"ask", "wait", "clear"}]

SessionTypeOK ==
    /\ claim \in ClaimType
    /\ intent \in BOOLEAN /\ open \in BOOLEAN
    /\ shown \in {"stopped", "running"}
    /\ lease \in [Hosts -> {"none", "live", "expired", "stopped"}]
    /\ lapsed \subseteq Hosts
    /\ cont \in {"absent", "created", "running"}
    /\ proc \in [Hosts -> {"off", "adopt", "honor", "up", "gone"}]
    /\ gate \in [Hosts -> BOOLEAN] /\ pend \in [Hosts -> BOOLEAN]
    /\ wake \in [Hosts -> WakeType] /\ run \in [Hosts -> RunType]
    /\ tail \in [Hosts -> SUBSET TailType]
    /\ plan \in [Hosts -> BOOLEAN]
    /\ tasks \in [Hosts -> SUBSET TaskType]
    /\ events \in 0..MaxEvents

SessionInit ==
    /\ claim = [inc |-> 0, by |-> NoHost] /\ intent = FALSE
    /\ open = TRUE /\ shown = "stopped"
    /\ lease = [h \in Hosts |-> "none"] /\ lapsed = {}
    /\ cont = "absent"
    /\ proc = [h \in Hosts |-> "off"] /\ gate = [h \in Hosts |-> TRUE]
    /\ pend = [h \in Hosts |-> FALSE]
    /\ wake = [h \in Hosts |-> Idle] /\ run = [h \in Hosts |-> NoRun]
    /\ tail = [h \in Hosts |-> {}]
    /\ plan = [h \in Hosts |-> FALSE] /\ tasks = [h \in Hosts |-> {}]
    /\ events = 0

Registered(h) == run[h] # NoRun
Works(h)      == proc[h] \notin {"off", "gone"}
At(h, pc)     == Works(h) /\ wake[h].pc = pc

-----------------------------------------------------------------------------
(* The wake promise.                                                       *)

GoTo(h, pc) == wake' = [wake EXCEPT ![h].pc = pc]

\* The wake promise settles: restart callbacks go on to clear the intent
\* either way, startup recovery clears it only after a successful wake.
Settle(h, woke) ==
    /\ wake' = [wake EXCEPT ![h] = Idle]
    /\ tasks' = [tasks EXCEPT ![h] =
         {t \in @ : t.phase # "wait"} \cup
         {[kind |-> t.kind, phase |-> "clear"] :
            t \in {x \in @ : x.phase = "wait" /\ (woke \/ x.kind = "restart")}}]

\* The adoption pass is over for this session, whatever came of it.
AdoptionEnds(h) ==
    /\ wake' = [wake EXCEPT ![h] = Idle]
    /\ proc' = [proc EXCEPT ![h] = "honor"]
    /\ UNCHANGED <<gate, tasks>>

\* A wake that throws, or an adoption that leaves the container alone.
GivesUp(h) ==
    IF wake[h].kind = "adopt" THEN AdoptionEnds(h)
    ELSE Settle(h, FALSE) /\ UNCHANGED <<proc, gate>>

BeginWake(h) ==
    wake' = [wake EXCEPT ![h] =
      [Idle EXCEPT !.pc   = IF pend[h] THEN "list" ELSE "ensure",
                   !.kind = IF pend[h] THEN "retry" ELSE "spawn"]]

RequestWake(h) ==
    /\ proc[h] = "up" /\ open
    /\ wake[h] = Idle /\ ~Registered(h)
    /\ BeginWake(h)
    /\ UNCHANGED <<rowVars, peerVars, cont, hostVars, run, tail, plan, tasks>>

-----------------------------------------------------------------------------
(* Listing surviving containers.                                           *)

\* The driver lists: adoption stops what does not run or has no session, and
\* a retry that finds nothing running falls through to a fresh spawn.
ListSessions(h) ==
    /\ At(h, "list")
    /\ IF wake[h].kind = "retry"
         THEN /\ pend' = [pend EXCEPT ![h] = @ /\ cont = "running"]
              /\ IF cont = "running" THEN GoTo(h, "read")
                 ELSE wake' = [wake EXCEPT ![h] = [Idle EXCEPT !.pc = "ensure"]]
              /\ UNCHANGED <<proc, gate, tasks>>
         ELSE /\ IF cont = "absent" THEN AdoptionEnds(h)
                 ELSE /\ GoTo(h, IF cont = "running" /\ open THEN "read" ELSE "orphan")
                      /\ UNCHANGED <<proc, gate, tasks>>
              /\ UNCHANGED pend
    /\ UNCHANGED <<rowVars, peerVars, cont, run, tail, plan>>

\* A failed listing ends the startup recovery, stop intents included.
ListFails(h) ==
    /\ At(h, "list")
    /\ IF wake[h].kind = "adopt"
         THEN /\ proc' = [proc EXCEPT ![h] = "up"]
              /\ wake' = [wake EXCEPT ![h] = Idle]
              /\ UNCHANGED tasks
         ELSE Settle(h, FALSE) /\ UNCHANGED proc
    /\ UNCHANGED <<rowVars, peerVars, cont, gate, pend, run, tail, plan>>

\* handle.stop('orphan-at-startup'), errors swallowed.
StopOrphan(h) ==
    /\ At(h, "orphan")
    /\ cont' \in {"absent", cont}
    /\ AdoptionEnds(h)
    /\ UNCHANGED <<rowVars, peerVars, pend, run, tail, plan>>

-----------------------------------------------------------------------------
(* claimSessionRun.                                                        *)

\* Mutant: whoever holds the claim, it may be taken over.
HeldByNobody(h) == FALSE

HeldByPeer(h) == claim.by \notin {NoHost, h} /\ lease[claim.by] = "live"

\* The claim row and the holder's lease are read; a live peer is not raided.
ReadClaim(h) ==
    /\ At(h, "read")
    /\ IF HeldByPeer(h)
         THEN /\ GivesUp(h)
              /\ pend' = [pend EXCEPT ![h] = @ /\ wake[h].kind # "retry"]
         ELSE /\ wake' = [wake EXCEPT ![h].pc = "cas", ![h].seen = claim.inc]
              /\ UNCHANGED <<hostVars, tasks>>
    /\ UNCHANGED <<rowVars, peerVars, cont, run, tail, plan>>

\* Mutant: the claim is written whatever the row says by now.
TryClaimBlindly(h) ==
    /\ At(h, "cas")
    /\ claim.inc < MaxInc
    /\ claim' = [inc |-> claim.inc + 1, by |-> h]
    /\ wake' = [wake EXCEPT
         ![h].inc = claim.inc + 1,
         ![h].pc  = IF wake[h].kind = "spawn" THEN "prepare" ELSE "ensure"]
    /\ UNCHANGED <<intent, open, shown, peerVars, cont, hostVars, run, tail, plan, tasks>>

\* tryClaimSession: the incarnation is taken only if it is still the one read.
TryClaim(h) ==
    /\ At(h, "cas")
    /\ IF claim.inc = wake[h].seen
         THEN /\ claim.inc < MaxInc
              /\ claim' = [inc |-> claim.inc + 1, by |-> h]
              /\ wake' = [wake EXCEPT
                   ![h].inc = claim.inc + 1,
                   ![h].pc  = IF wake[h].kind = "spawn" THEN "prepare" ELSE "ensure"]
              /\ pend' = [pend EXCEPT ![h] = @ /\ wake[h].kind # "adopt"]
              /\ UNCHANGED <<proc, gate, tasks>>
         ELSE /\ GivesUp(h)
              /\ pend' = [pend EXCEPT ![h] = @ /\ wake[h].kind # "retry"]
              /\ UNCHANGED claim
    /\ UNCHANGED <<intent, open, shown, peerVars, cont, run, tail, plan>>

\* The claim cannot be read or written: adoption leaves the container for the
\* wake path, which fails in its turn until the store answers.
ClaimThrows(h) ==
    /\ StoreFaults
    /\ At(h, "read") \/ At(h, "cas")
    /\ GivesUp(h)
    /\ pend' = [pend EXCEPT ![h] = @ \/ wake[h].kind = "adopt"]
    /\ UNCHANGED <<rowVars, peerVars, cont, run, tail, plan>>

\* Mutant: a release frees whatever incarnation the host holds.
ReleasedAny(h, inc) ==
    IF claim.by = h THEN [claim EXCEPT !.by = NoHost] ELSE claim

\* releaseSessionClaim, compare-and-set on holder and incarnation.
Released(h, inc) ==
    IF claim.by = h /\ claim.inc = inc THEN [claim EXCEPT !.by = NoHost] ELSE claim

ReleaseWrite(h, inc) ==
    claim' \in {Released(h, inc)} \cup (IF StoreFaults THEN {claim} ELSE {})

-----------------------------------------------------------------------------
(* Spawning and adopting.                                                  *)

\* registerRuntime under the incarnation of the wake.
Register(h, late) ==
    run' = [run EXCEPT ![h] = [NoRun EXCEPT !.inc = wake[h].inc, !.late = late]]

\* ensureGatewaySession before the claim of a spawn.
EnsureForSpawn(h) ==
    /\ At(h, "ensure") /\ wake[h].kind = "spawn"
    /\ \/ /\ gate[h]
          /\ wake' = [wake EXCEPT ![h].pc = "read", ![h].admitted = TRUE]
          /\ UNCHANGED tasks
       \/ Settle(h, FALSE)
    /\ UNCHANGED <<rowVars, peerVars, cont, hostVars, run, tail, plan>>

\* An adoption that the gateway or the driver refuses: startup stops the
\* container, or fails to, a retry leaves it alone; the claim is released.
RefuseAdoption(h) ==
    /\ GoTo(h, "abort")
    /\ cont' \in IF wake[h].kind = "adopt" THEN {"absent", cont} ELSE {cont}
    /\ UNCHANGED run

\* ensureGatewaySession after the claim of a surviving container.
EnsureForAdoption(h) ==
    /\ At(h, "ensure") /\ wake[h].kind # "spawn"
    /\ \/ gate[h] /\ GoTo(h, "network") /\ UNCHANGED <<cont, run>>
       \/ RefuseAdoption(h)
    /\ UNCHANGED <<rowVars, peerVars, hostVars, tail, plan, tasks>>

\* The container becomes this host's without another look at the gateway: at
\* startup after reconcileNetworkAccess, which may fail, in a retry when the await
\* of ensureGatewaySession resumes.
AdoptRuntime(h) ==
    /\ At(h, "network")
    /\ \/ Register(h, ~gate[h]) /\ GoTo(h, "mark") /\ UNCHANGED cont
       \/ wake[h].kind = "adopt" /\ RefuseAdoption(h)
    /\ UNCHANGED <<rowVars, peerVars, hostVars, tail, plan, tasks>>

\* driver.prepare creates the container, or finds the one of this key; then
\* the runtime is registered.
Prepare(h) ==
    /\ At(h, "prepare")
    /\ \/ /\ cont' = IF cont = "absent" THEN "created" ELSE cont
          /\ Register(h, FALSE) /\ GoTo(h, "start")
       \/ GoTo(h, "abort") /\ UNCHANGED <<cont, run>>
    /\ UNCHANGED <<rowVars, peerVars, hostVars, tail, plan, tasks>>

\* A failed spawn or adoption releases its claim.
Abort(h) ==
    /\ At(h, "abort")
    /\ ReleaseWrite(h, wake[h].inc)
    /\ GivesUp(h)
    /\ UNCHANGED <<intent, open, shown, peerVars, cont, pend, run, tail, plan>>

\* Mutant: no last look at the gateway before the start.
StartUnadmitted(h) ==
    /\ At(h, "start")
    /\ cont' = IF cont = "created" THEN "running" ELSE cont
    /\ GoTo(h, "mark")
    /\ UNCHANGED <<rowVars, peerVars, hostVars, run, tail, plan, tasks>>

\* handle.start after the last look at the gateway.  Docker's start of a
\* container that is gone reports nothing here; its exit is a terminal event.
Start(h) ==
    /\ At(h, "start") /\ gate[h] /\ wake[h].admitted
    /\ cont' = IF cont = "created" THEN "running" ELSE cont
    /\ GoTo(h, "mark")
    /\ UNCHANGED <<rowVars, peerVars, hostVars, run, tail, plan, tasks>>

\* onFailure of armSessionLifecycle: unless somebody has stopped it already,
\* stop the container; finalize it unless that has begun.
StartFailed(h) ==
    /\ cont' \in IF run[h].stop \/ ~Registered(h) THEN {cont} ELSE {"absent", cont}
    /\ run' = IF Registered(h)
                THEN [run EXCEPT ![h].stop = TRUE,
                                 ![h].fin  = IF @ = "no" THEN "fence" ELSE @]
                ELSE run
    /\ GoTo(h, "failing")

\* beforeStart finds the admission closed since the lease, or start throws.
StartThrows(h) ==
    /\ At(h, "start")
    /\ StartFailed(h)
    /\ UNCHANGED <<rowVars, peerVars, hostVars, tail, plan, tasks>>

MarkContainerRunning(h) ==
    /\ At(h, "mark")
    /\ shown' = "running"
    /\ pend' = [pend EXCEPT ![h] = @ /\ wake[h].kind # "retry"]
    /\ IF wake[h].kind = "adopt" THEN AdoptionEnds(h)
       ELSE Settle(h, TRUE) /\ UNCHANGED <<proc, gate>>
    /\ UNCHANGED <<claim, intent, open, peerVars, cont, run, tail, plan>>

\* The status write throws: the lifecycle of a spawn fails after the start, a
\* retried adoption stays registered.  At startup the host exits (Crash).
MarkThrows(h) ==
    /\ StoreFaults
    /\ At(h, "mark")
    /\ \/ wake[h].kind = "spawn" /\ StartFailed(h) /\ UNCHANGED tasks
       \/ wake[h].kind = "retry" /\ Settle(h, FALSE) /\ UNCHANGED <<cont, run>>
    /\ UNCHANGED <<rowVars, peerVars, hostVars, tail, plan>>

\* A failed start waits until its runtime is finalized or deferred.
StartFailureEnds(h) ==
    /\ At(h, "failing")
    /\ run[h].fin \in {"no", "deferred"}
    /\ \A t \in tail[h] : t.inc # wake[h].inc
    /\ Settle(h, FALSE)
    /\ UNCHANGED <<rowVars, peerVars, cont, hostVars, run, tail, plan>>

-----------------------------------------------------------------------------
(* Ends.                                                                   *)

\* killContainer: the handle stops the container by name, or fails to, and
\* finalization begins unless it has.
Kill(h, callbacks) ==
    /\ run' = [run EXCEPT ![h].stop = TRUE, ![h].cb = @ \cup callbacks,
                          ![h].fin = IF @ = "no" THEN "fence" ELSE @]
    /\ cont' \in {"absent", cont}

\* The session's SLA is broken, or its row is gone.
KillContainer(h) ==
    /\ proc[h] = "up" /\ Registered(h) /\ ~run[h].stop
    /\ Kill(h, {})
    /\ UNCHANGED <<rowVars, peerVars, hostVars, wake, tail, plan, tasks>>

\* The hub reports an end nobody here asked for, after reading the truth.
Terminal(h) ==
    /\ Works(h) /\ Registered(h)
    /\ run[h].fin = "no" /\ ~run[h].stop
    /\ cont = "absent" /\ wake[h].pc # "start"
    /\ run' = [run EXCEPT ![h].fin = "fence"]
    /\ UNCHANGED <<rowVars, peerVars, cont, hostVars, wake, tail, plan, tasks>>

\* finish: a newer incarnation drops the registry entry and nothing else.
CheckFence(h) ==
    /\ Works(h) /\ run[h].fin = "fence"
    /\ run' = [run EXCEPT ![h] = IF claim.inc = run[h].inc
                                   THEN [@ EXCEPT !.fin = "stop"] ELSE NoRun]
    /\ UNCHANGED <<rowVars, peerVars, cont, hostVars, wake, tail, plan, tasks>>

\* The fence cannot be read, or the teardown fails: finalization is deferred.
Defer(h) ==
    /\ Works(h)
    /\ \/ StoreFaults /\ run[h].fin = "fence"
       \/ run[h].fin = "stop"
    /\ run' = [run EXCEPT ![h].fin = "deferred"]
    /\ UNCHANGED <<rowVars, peerVars, cont, hostVars, wake, tail, plan, tasks>>

DeferredFinish(h) ==
    /\ Works(h) /\ run[h].fin = "deferred"
    /\ run' = [run EXCEPT ![h].fin = "fence"]
    /\ UNCHANGED <<rowVars, peerVars, cont, hostVars, wake, tail, plan, tasks>>

TearDown(h) ==
    /\ Works(h) /\ run[h].fin = "stop"
    /\ cont' = "absent"
    /\ run' = [run EXCEPT ![h].fin = "status", ![h].stop = TRUE]
    /\ UNCHANGED <<rowVars, peerVars, hostVars, wake, tail, plan, tasks>>

\* markContainerStopped, whose failure is logged; then the entry goes.
MarkContainerStopped(h) ==
    /\ Works(h) /\ run[h].fin = "status"
    /\ shown' \in {"stopped"} \cup (IF StoreFaults THEN {shown} ELSE {})
    /\ tail' = [tail EXCEPT ![h] = @ \cup {[inc |-> run[h].inc, cb |-> run[h].cb]}]
    /\ run' = [run EXCEPT ![h] = NoRun]
    /\ UNCHANGED <<claim, intent, open, peerVars, cont, hostVars, wake, plan, tasks>>

\* The claim is released, then the exit callbacks run.
ReleaseClaim(h) ==
    /\ Works(h)
    /\ \E t \in tail[h] :
         /\ ReleaseWrite(h, t.inc)
         /\ tail' = [tail EXCEPT ![h] = @ \ {t}]
         /\ tasks' = [tasks EXCEPT ![h] = @ \cup [kind : t.cb, phase : {"ask"}]]
    /\ UNCHANGED <<intent, open, shown, peerVars, cont, hostVars, wake, run, plan>>

-----------------------------------------------------------------------------
(* Restarts and stop intents.                                              *)

\* restartAgentGroupContainers picks the session because its container runs.
PlanRestart(h) ==
    /\ proc[h] = "up" /\ open /\ Registered(h) /\ ~plan[h]
    /\ plan' = [plan EXCEPT ![h] = TRUE]
    /\ UNCHANGED <<rowVars, peerVars, cont, hostVars, wake, run, tail, tasks>>

\* The intent is written (a failure is swallowed) and the container killed;
\* by now there may be none, and then nobody will respawn it.
RestartContainer(h) ==
    /\ Works(h) /\ plan[h]
    /\ plan' = [plan EXCEPT ![h] = FALSE]
    /\ intent' \in {TRUE} \cup (IF StoreFaults THEN {intent} ELSE {})
    /\ IF Registered(h) THEN Kill(h, {"restart"}) ELSE UNCHANGED <<run, cont>>
    /\ UNCHANGED <<claim, open, shown, peerVars, hostVars, wake, tail, tasks>>

\* A respawn asks for a wake: granted at once when an entry is registered,
\* joined when one is in flight.
AskWake(h, t) ==
    /\ Works(h) /\ t \in tasks[h] /\ t.phase = "ask"
    /\ LET then(phase) == tasks' = [tasks EXCEPT ![h] =
                             (@ \ {t}) \cup {[t EXCEPT !.phase = phase]}]
       IN  \/ Registered(h) /\ then("clear") /\ UNCHANGED wake
           \/ ~Registered(h) /\ wake[h] # Idle /\ then("wait") /\ UNCHANGED wake
           \/ ~Registered(h) /\ wake[h] = Idle /\ then("wait") /\ BeginWake(h)
    /\ UNCHANGED <<rowVars, peerVars, cont, hostVars, run, tail, plan>>

ClearIntent(h, t) ==
    /\ Works(h) /\ t \in tasks[h] /\ t.phase = "clear"
    /\ intent' \in {FALSE} \cup (IF StoreFaults THEN {intent} ELSE {})
    /\ tasks' = [tasks EXCEPT ![h] = @ \ {t}]
    /\ UNCHANGED <<claim, open, shown, peerVars, cont, hostVars, wake, run, tail, plan>>

\* honorPendingStopIntents at the end of the startup recovery.
HonorStopIntents(h) ==
    /\ proc[h] = "honor" /\ wake[h] = Idle /\ tasks[h] = {}
    /\ proc' = [proc EXCEPT ![h] = "up"]
    /\ \/ /\ ~intent \/ pend[h]
          /\ UNCHANGED <<intent, run, cont, tasks>>
       \/ /\ intent /\ ~pend[h] /\ ~open
          /\ intent' = FALSE
          /\ UNCHANGED <<run, cont, tasks>>
       \/ /\ intent /\ ~pend[h] /\ open /\ Registered(h)
          /\ Kill(h, {"honor"})
          /\ UNCHANGED <<intent, tasks>>
       \/ /\ intent /\ ~pend[h] /\ open /\ ~Registered(h)
          /\ tasks' = [tasks EXCEPT ![h] = {[kind |-> "honor", phase |-> "ask"]}]
          /\ UNCHANGED <<intent, run, cont>>
    /\ UNCHANGED <<claim, open, shown, peerVars, gate, pend, wake, tail, plan>>

-----------------------------------------------------------------------------
(* Host processes, leases and the gateway.                                 *)

\* main: the lease is registered, then surviving sessions are adopted.
Boot(h) ==
    /\ proc[h] = "off"
    /\ proc' = [proc EXCEPT ![h] = "adopt"]
    /\ lease' = [lease EXCEPT ![h] = "live"]
    /\ wake' = [wake EXCEPT ![h] = [Idle EXCEPT !.pc = "list", !.kind = "adopt"]]
    /\ UNCHANGED <<rowVars, lapsed, cont, gate, pend, run, tail, plan, tasks>>

\* The process is gone with everything in its memory; its container stays.
Gone(h) ==
    /\ proc' = [proc EXCEPT ![h] = "gone"]
    /\ pend' = [pend EXCEPT ![h] = FALSE]
    /\ wake' = [wake EXCEPT ![h] = Idle]
    /\ run' = [run EXCEPT ![h] = NoRun]
    /\ tail' = [tail EXCEPT ![h] = {}]
    /\ plan' = [plan EXCEPT ![h] = FALSE]
    /\ tasks' = [tasks EXCEPT ![h] = {}]
    /\ UNCHANGED <<rowVars, cont, gate>>

Crash(h) == Works(h) /\ Gone(h) /\ UNCHANGED peerVars

\* shutdown stamps the lease and leaves the container to the next host.
Shutdown(h) ==
    /\ proc[h] = "up" /\ Gone(h)
    /\ lease' = [lease EXCEPT ![h] = "stopped"]
    /\ lapsed' = lapsed \cup {h}

\* Renewals failed, or nobody is left to renew.
LeaseExpires(h) ==
    /\ lease[h] = "live"
    /\ lease' = [lease EXCEPT ![h] = "expired"]
    /\ lapsed' = lapsed \cup {h}
    /\ UNCHANGED <<rowVars, cont, hostVars, wake, run, tail, plan, tasks>>

\* The next renewal gets through and revives the row.
RenewLease(h) ==
    /\ Works(h) /\ lease[h] = "expired"
    /\ lease' = [lease EXCEPT ![h] = "live"]
    /\ UNCHANGED <<rowVars, lapsed, cont, hostVars, wake, run, tail, plan, tasks>>

\* stopGatewaySessionsForUnavailability closes the admission, outdates every
\* lease being acquired and kills what is registered.
GatewayUnavailable(h) ==
    /\ Works(h) /\ gate[h]
    /\ gate' = [gate EXCEPT ![h] = FALSE]
    /\ wake' = [wake EXCEPT ![h].admitted = FALSE]
    /\ IF Registered(h) THEN Kill(h, {}) ELSE UNCHANGED <<run, cont>>
    /\ UNCHANGED <<rowVars, peerVars, proc, pend, tail, plan, tasks>>

GatewayAvailable(h) ==
    /\ Works(h) /\ ~gate[h]
    /\ gate' = [gate EXCEPT ![h] = TRUE]
    /\ run' = [run EXCEPT ![h].late = FALSE]
    /\ UNCHANGED <<rowVars, peerVars, cont, proc, pend, wake, tail, plan, tasks>>

\* External: the agent's process ends by itself (containers run with --rm).
ContainerExits ==
    /\ cont = "running"
    /\ cont' = "absent"
    /\ UNCHANGED <<rowVars, peerVars, hostVars, wake, run, tail, plan, tasks>>

\* The session is closed or deleted (a spent task session, an operator).
CloseSession ==
    /\ open
    /\ open' = FALSE
    /\ UNCHANGED <<claim, intent, shown, peerVars, cont, hostVars, wake, run, tail, plan, tasks>>

\* What the code does by itself, and what it does about a refusal it handles.
HostStep(h) ==
    \/ RequestWake(h) \/ ListSessions(h) \/ StopOrphan(h)
    \/ ReadClaim(h) \/ TryClaim(h)
    \/ EnsureForSpawn(h) \/ EnsureForAdoption(h) \/ AdoptRuntime(h) \/ Prepare(h) \/ Abort(h)
    \/ Start(h) \/ MarkContainerRunning(h) \/ StartFailureEnds(h)
    \/ Terminal(h) \/ CheckFence(h)
    \/ DeferredFinish(h) \/ TearDown(h) \/ MarkContainerStopped(h) \/ ReleaseClaim(h)
    \/ RestartContainer(h) \/ HonorStopIntents(h)
    \/ \E t \in tasks[h] : AskWake(h, t) \/ ClearIntent(h, t)
    \/ Boot(h) \/ RenewLease(h) \/ GatewayAvailable(h)

\* What comes from outside, or goes wrong.
Disturbance(h) ==
    \/ ListFails(h) \/ ClaimThrows(h) \/ StartThrows(h) \/ MarkThrows(h) \/ Defer(h)
    \/ KillContainer(h) \/ PlanRestart(h)
    \/ Crash(h) \/ Shutdown(h) \/ LeaseExpires(h) \/ GatewayUnavailable(h)

SessionNext ==
    \/ UNCHANGED events /\ \E h \in Hosts : HostStep(h)
    \/ /\ events < MaxEvents /\ events' = events + 1
       /\ ContainerExits \/ CloseSession \/ \E h \in Hosts : Disturbance(h)

SessionSpec == SessionInit /\ [][SessionNext]_sessionVars

-----------------------------------------------------------------------------
(* Properties.                                                             *)

\* The incarnation a host owns, 0 for none: the one its wake has taken and
\* neither registered nor released yet, or the one it supervises.
Owned(h) ==
    IF wake[h].pc \in {"ensure", "network", "prepare", "abort"} THEN wake[h].inc ELSE run[h].inc

\* While its lease has never lapsed, the host that owns the session is the
\* one the claim row names, at the incarnation it took: no peer claims over
\* its head and no late release of an older incarnation frees it.
OwnerIsClaimed ==
    \A h \in Hosts \ lapsed :
      Owned(h) # 0 => claim = [inc |-> Owned(h), by |-> h]

\* Two hosts never both supervise the session, unless one of them has lost
\* its lease at some time (claimSessionRun refuses a claim held by a live peer).
OneSupervisor ==
    \A g, h \in Hosts :
      g # h /\ Registered(g) /\ Registered(h) => {g, h} \cap lapsed # {}

\* Fail closed: with the admission closed, whatever this host supervises has been
\* told to stop or has its last look at the gateway still ahead.  The one that
\* escapes is a survivor admitted before the closure and registered after it, whom
\* nobody stops until the admission has been opened and closed again.
ClosedMeansStopped ==
    \A h \in Hosts :
      ~gate[h] /\ Registered(h) => run[h].stop \/ wake[h].pc = "start" \/ run[h].late

\* The claim row implements the abstract ownership of incarnations.
Lease == INSTANCE SessionLease WITH incarnation <- claim.inc, owner <- claim.by
ImplementsSessionLease == Lease!Spec
=============================================================================

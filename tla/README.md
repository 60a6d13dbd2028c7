# Selfheal backend: TLA+ specifications, model checking and proofs

The repository turns a local model's diagnosis of a faulty service into at most one audited
change of that service. The modules here specify the parts that decide *whether, how often and
when* something happens: the trusted router with its SQLite action store and hash-chained
ledger, the offline recovery built on the same store, the file-RPC broker that calls the
models and the agent query that waits for it, and the parts of the embedded nanoclaw host that
own, wake, schedule and answer for sessions. Paths are relative to the repository's `src/`;
`N/` stands for `nanoclaw/src/`.

## 1. Inventory

| Component | State | Operations | Hard part | What makes it correct |
|---|---|---|---|---|
| Action store `router/src/storage/action-store.ts` | tables `action_claims`, `budget_reservations`, `reconciliation_outbox` | claim, beginExecution, complete, fail, needsReconciliation, reserveBudget, releaseBudget, resolveReconciliation, markReconciliationAuditDelivered, queries | several processes, wall clock, transactions that span tables | budgets in every window, spacing, one lock per target, settled stays settled |
| Trusted router `router/src/trusted-router.ts` | `initialized`, per-call flags `backendStarted`, `reserved` | initialize, execute | a call is a dozen store, ledger and backend steps; crash or exception between any two | at most one dispatch per id, one change at a time per target, intent recorded first |
| Reconciliation `router/src/recovery/reconciliation.ts` | outbox rows | reconcile, recoverPendingCompletions | operators race each other and a restarting router | truthful settlement, lock kept until the completion is audited |
| Audit ledger `router/src/audit-ledger.ts` | file, lock file, promise chain per path | appendAuditEvent, verifyAuditLedger | short writes, failing fsync, stale lock, retry of a completion | unbroken chain, one completion per action |
| Offline recovery `router/offline/benchmark-recovery.ts` | `mock_bindings`, fixtures and grants of the object | execute, reconcile, recoverPendingAudits | awaits between evidence and effect; reconcile of an action still executing | the evidence holds at the effect, one outcome |
| Broker `broker/main.py`, `broker/durability.py` | three directories, SQLite journal, flock | the poll loop | crash between taking, claiming, inferring, journaling, publishing | one inference and one verdict per identity |
| Broker budget `broker/budget.py` | counters in memory | can_request, record_request, release_request | lazily reset fixed windows | bounded rate |
| RPC client `rpc_client.py` | request and response files | make_request | timeout, late response | environment of `Broker` |
| Agent query `container/agent-runner/src/poll-loop.ts`, `providers/broker.ts` (both under `nanoclaw/`) | queue of turns, queue of prompts, route | processQuery, query, push, abort | follow-ups, retries and commands arrive while a turn waits | a reply takes the route of its own batch, every turn ends once |
| Session ownership `N/container-runner.ts`, `N/db/coordination.ts`, `N/host-instance.ts`, `N/container-restart.ts` | claims with incarnations, host leases, stop intents, in-process maps | wake, spawn, adopt, kill, finish, restart | compare-and-set after a read, deferred finalization, takeover, gateway closure | one owner and one supervisor while leases hold |
| Reconcile queue `N/reconcile-queue.ts`, `N/host-sweep.ts`, `N/reconcile-feeds.ts` | ready line, running, dirty and delayed keys | add, addAfter, run, sweep, stop | changes during a run, failures, shutdown | nothing owed is lost, no key beside itself |
| Delivery `N/delivery.ts` | outbound rows, in-flight set, attempts | two poll loops, drain | send and mark are two steps | bounded attempts, every message settles, a duplicate has a cause |
| Mailbox `N/reconcile-session.ts`, `N/mailbox/sqlite`, the runner's claims | inbound rows, acknowledgements, heartbeat | write, wake, claim, reset, kill | dead, hung and silent runners | every message ends |
| Task series `N/modules/scheduling`, `N/mailbox/sqlite/tasks.ts`, `N/cli/resources/tasks.ts` | task rows, recurrence | create, run, pause, resume, cancel, update, delete, re-arm, close | commands meet running, retried and finished occurrences | a series is neither lost unnoticed nor doubled |
| Gateway approvals `N/gateway-approval-coordinator.ts` | rows, holds, asks of the bridge | present, click, expire, sweep, deliver | answer, timer, gateway and restart race | one verdict per card, every card ends |
| Gates `router/src/router.ts`, `audited-router.ts`, `schemas/registry.ts`, `security/cause-gate.ts` | none | pure checks of one payload | none beyond their order | not modelled |
| `security/safety-budget.ts` | counters in memory | check, execute | superseded by the store, used by its own tests only | not modelled |
| `backends/docker-backend.ts` | none | scaleService | outlives its caller | external operation of `TrustedRouter` |
| `integration/`, `selfhealbench/`, `broker/protocol.py`, `broker/litellm_client.py` | I/O | scripts, parsing, HTTP | none beyond I/O | not modelled |
| nanoclaw routing, channels, setup, skills, scripts | chat host | routing, adapters, installers | none on the remediation path | not modelled |

How they interact. `execute` calls the store (each method one atomic step), appends to the
ledger (awaited, so other calls run meanwhile) and calls the backend once; an operator process
runs `reconcile` on the same store and ledger. Any process may die; the store, the ledger and a
change already handed to the backend survive. The offline recovery shares the store's code and
rules, not its file. The broker shares nothing with the router; its clients, among them the
agent query, reach it by files only. In the host, feeds and the sweep put keys of sessions on
the reconcile queue; the run of a key reconciles the session's mailbox and its task series,
which wakes containers through session ownership; the container writes outbound rows, which
delivery sends; approvals run beside all this. `PROJECT.json` lists the hazards of this code
with the line where each bites and the properties that cover it.

## 2. Modules

| Module | Models | State and actions |
|---|---|---|
| `ActionStore` | the store | one function of the action id per column (`status`, `target`, `lock`, `lockTarget`, `reservedAt`, `outbox`) and the wall clock `now`; one operator per method, enabled exactly when the method returns. `StoreNext` calls any method in any order |
| `ExclusiveRemediation` | abstract promise of the router | an action holds a target exclusively, changes it at most once, lets go when nothing of it is under way |
| `TrustedRouter` | router processes, operators, backend, on top of `ActionStore` | `pc[c]` is the step of an `execute` call, `spc[s]` of a starting process or an operator; each `await` and each store call is a step of its own, with its failing alternative |
| `AppendLog` | abstract promise of the ledger | add once at the end; damage is final |
| `AuditLedger` | `appendAuditEvent` | file as a sequence of lines (the last possibly torn), lock file, queues, fsync and directory sync positions |
| `BenchmarkRecovery` | `MockBenchmarkRecovery` on top of `ActionStore` | fixtures, bindings and grants per object, a call's step between two awaits |
| `Broker` | broker processes and clients | directories, journal rows, flock owner; one step per effect |
| `BudgetTracker` | the in-memory budget | counters, reset times, monotonic clock, history of grants |
| `AgentTurns` | one query of the agent runner | queued turns, prompts of the provider, `stage` of the provider's generator, route of the loop |
| `SessionLease` | abstract promise of a claim | incarnations only grow, each has one holder, a new holder only when the old one let go or is dead |
| `SessionClaims` | hosts, their leases, one session | `wake[h]` and `tail[h]` are the steps of a host's wake or adoption and of its finish; the container, the gateway, claims and intents |
| `ReconcileQueue` | the queue and the sweep | line, runs, dirty and delayed keys, `owed` as history |
| `Delivery` | poll loops and the outbound file of a session | where each poll is, rows, attempts, what the platform got |
| `Mailbox` | the inbound file of a session | rows, acknowledgements, the runner's batch, silence of the heartbeat |
| `TaskSeries` | one scheduled series in its session | rows with status, recurrence and whether they are ahead, the reconcile's place |
| `GatewayApprovals` | coordinator of a durable gateway | rows, cards, holds, asks and verdicts |
| `MCTrustedRouter`, `MCAuditLedger` | instances for TLC | constants only |
| `MCLimits`, `MCClaims`, `MCServices`, `MCLive`, `MCHost` | several components that share no state | a variable `part` says which one a behaviour is about; the fairness of `MCLive` and `MCHost` is stated in them |
| `ActionStoreProofs`, `TrustedRouterProofs`, `BenchmarkRecoveryProofs`, `AuditLedgerProofs`, `BrokerProofs` (broker and its budget), `SessionClaimsProofs`, `HostProofs` (queue, task series, approvals), `MessageProofs` (agent query, delivery) | theorems | section 5 |

`TrustedRouter` and `BenchmarkRecovery` EXTEND `ActionStore`, so their steps *are* store methods
followed by what the caller does with the result. `TrustedRouter` sees the ledger through
`AppendReturns` and `AppendThrows` (the latter covers nothing written, all written, and a torn
record); `AuditLedger` gives the detail below that view. Its refinement of `AppendLog` shows the
complete lines as the log: a record enters it with the second of a writer's two writes, and the
log is damaged when a torn line stays behind with nobody writing. `BudgetTracker` keeps the
grants it gave, each numbered among those alike, as a history that the counters never read, so
that any sliding hour can be counted. `ReconcileQueue`, `Mailbox` and
`TaskSeries` are three views of one reconcile: the queue says that a session is visited again
and that its visits do not overlap, which `Mailbox` and `TaskSeries` take for granted by having
one visit at a time; in return they leave the queue's keys opaque. `Mailbox` has the tries and
silence of messages, `TaskSeries` their recurrence and the closing of the session.

Correspondence worth knowing when reading the modules:

* `TrustedRouter!BeginCall` stands for lines 94-140: pure checks of the payload; a rejected
  payload touches no state and is not modelled. `"fail"` and `"failReserved"` are the catch
  block with `reserved` false and true, `"uncertain"` the one with `backendStarted` true.
* `AwaitBackend` may give up at any time while `op` goes on running. It succeeds only after the
  observed replica count changed (`docker-backend.ts` reads it back).
* `InspectBackend` lets the operator go on only when nothing of the action is under way. The
  inspector is an interface without an implementation in the repository; this is the weakest
  assumption under which the release after a reconciliation is safe. Without it TLC and the
  proof both fail (the mutant `InspectWithoutWaiting`).
* A verification may fail although the ledger is sound, because `execute` reads the file
  without the lock and can see half of a record; the model allows failure at any time.
* `BenchmarkRecovery`: what the schemas and the comparison with the grant refuse is a call that
  ends before it begins; the two capabilities are one.
* `SessionClaims!StoreFaults` lets every write to the central database throw. Leases expire
  only when their holder stopped renewing, as the code assumes; the properties say "while
  leases hold" where they depend on it.
* `SessionClaims`: an adoption looks at the gateway in `EnsureForAdoption`, awaits its network
  (`"network"`) and registers in `AdoptRuntime`, or is refused and kills in `RefuseAdoption`. The
  history `late` of a run marks a survivor registered after the admission it passed was closed.
* `TaskSeries`: a command reads the list of active sessions before it changes the mailbox, so
  "active" is no guard of its change. The write that arms the next occurrence may throw at any
  visit (`Rearm`); the history `missed` keeps the rows this visit failed to arm.
* `AgentTurns`: a dispatch may throw before or after it has written some of its answer
  (`DispatchThrows`), which ends the query with the turn still in hand; writing a failure notice
  may throw too. The histories `answers`, `notices`, `torn` (answered in part or whole before a write threw) and `unheard`
  (notice not written) tell what each batch got.
* `GatewayApprovals!Sweep` delivers a row's own verdict and leaves a hold that is still pending
  alone, as `deliverDurableDecision` does.

Operators commented `Mutant:` are not part of the specification. Each is a plausible bug in the
definition below it; substituting it must break the property it is listed with.

## 3. Runs

Sizes are distinct states, times with two workers.

| Run | Question | Bounds | Size | Result |
|---|---|---|---|---|
| `limits` | Do budgets, cooldown and settlement hold for any callers and a clock set back? Does a fixed window at most double a sliding hour? Is a recurring series ever lost? | store: 3 ids, 2 targets, window 3, cooldown 1, limits 2 and 2, clock 0..3; budget: hour of 2 ticks, 4 instants, 2 targets; series: 3 occurrences, cap 2, any number of restarts and failed wakes | 1.5 M, 195 s | holds |
| `claims` | Two hosts over one session, one restarted while the other runs; two objects of the offline recovery over one target | sessions: 2 hosts, 2 incarnations, 3 events, failing writes; recovery: 2 ids, 2 calls, window 5, cooldown 3, clock 0..3, 1 setback | 4.1 M, 165 s | holds |
| `services` | Do concurrent calls, an operator, crashes and failures keep the router's safety properties and refine `ExclusiveRemediation`? Does the broker keep one inference, one verdict, journaled first, budget balanced, under faults? | router: 2 processes with a call each, 1 operator, 2 ids, 2 targets; broker: 2 brokers, 2 identities, 2 payloads, 2 sends each | 2.2 M, 160 s | holds |
| `router_live` | Is an approved reconciliation delivered after restarts? | 2 processes, 1 call, 1 operator, 1 id | 4.5 k, 26 s | holds |
| `router_gap` | Is every locked target reported as pending or in the hands of a call? | 1 process, 1 call | | **violated** (finding 1) |
| `live` | Chain, single completion, termination and refinement of `AppendLog`; does every request end when nothing fails; do turns and prompts stay in step and end? | ledger: 3 writers in 2 processes, 2 events, 3 records; broker: 3 identities, batch 2, budget 1; query: 3 batches, 1 command | 125 k, 85 s | holds |
| `ledger_ack` | Is every acknowledged record synchronized? | as the ledger of `live` | | **violated** (finding 2) |
| `ledger_reach` | Is the file reachable when a record is acknowledged? | same | | **violated** (finding 3) |
| `host` | Is anything a feed added lost, does a key run beside itself, is a message sent twice without cause, does a card get two verdicts; does every message and card end? | 2 sessions, 2 duties, concurrency 2; 2 messages, 2 attempts, 1 trouble; 2 mails, 1 try, 1 mishap; 1 card, 2 clicks, 1 upset | 333 k, 200 s | holds |
| `mail_retry` | Is a try charged for every retry? | 1 mail, 1 try, 1 mishap | | **violated** (finding 4) |
| `series_phantom` | Does a series ever recur twice at a time? | 3 occurrences, cap 1 | | **violated** (finding 5) |
| `series_retry` | Is an occurrence whose successor could not be armed retried at the next tick? | 3 occurrences, cap 1 | | **violated** (finding 6) |

Several runs hold more than one component. Their components share no state and no constant
that matters, so a run explores the sum of their state spaces and not the product: `part` is
chosen at the start and never changes. In `services` the two parts also share their model
values, so that one symmetry serves both.

Why the bounds are enough. Every conflict in the router is between two actions, two calls, a
call and an operator, or a call and its own restart, and the router instance has each of them
(two ids over two targets gives both the contended and the uncontended case). Its clock is
fixed and the cooldown zero, because budgets only ever refuse a reservation; they have their
own run, and the theorems cover every clock. In `limits` the global limit binds across targets,
the cooldown binds within one, and the window slides; the per-target limit is reached but, with
three ids, never before the global one, which is why `Windows` is proved for all limits. In the
ledger three writers give a queue of two in one process and a rival in another; three records
give a chain with a middle. Two sends of two payloads per identity give the equal and the
conflicting resend, two brokers the takeover after a crash. In `claims` two incarnations give a
takeover and a return, two objects with two calls a reconcile that overtakes an execute of the
same and of another object. In `host` two keys beside two duties give a key that waits while
another runs with the concurrency exhausted; two messages give one that fails beside one that
does not; one card suffices because rows, holds and asks of different cards meet nowhere but in
the limit of pending holds, which is left out. In a series three occurrences give one that has
ended, one run on demand and one armed; what does not fit is an insertion that does not happen,
which only makes behaviours end earlier. Symmetry is used only in runs without liveness
properties and over model values no definition distinguishes. `CHECK_DEADLOCK FALSE` is set
where everything may be done: bounded sends, messages, cards, events or occurrences used up and
nothing left to do. No result rests on the deadlock check of the other runs: a crash, a restart
or a tick of the clock is nearly always possible there, so it says little. Waiting for ever is
what the liveness properties exclude.

### Fairness

* `TrustedRouter!FairSpec`: a process that is down is started again, and each recovery step,
  tried again and again, gets through once in a while (strong fairness of the successful
  outcome). This is the premise "the store and the disk are not broken for ever and the
  supervisor restarts the process"; calls, operators and the backend get no fairness.
* `MCLive!LedgerFairness`: weak fairness of each pending append: the event loop resumes it, the
  retry loop has a deadline of 10 s, file operations return. The operator gets none, so
  `EveryAppendEnds` holds with a lock that stays stale.
* `MCLive!BrokerFairness`: weak fairness of each broker's poll loop; clients get none.
* `MCLive!TurnsFairness`: an answer comes or the provider times out, a dispatch and a
  follow-up's scripts end. New messages and commands need not arrive.
* `MCHost!DeliveryFairness`: each poll loop goes on: every call it awaits answers, well or badly.
* `MCHost!MailboxFairness`: the queue visits the session again and again (`TickIsDone` and
  `OwedIsScheduled` are what that rests on) and a visit ends; a container told to stop does; a
  turn ends; time passes. The kill of a silent container gets strong fairness, for the check
  comes round while the heartbeat may be seen fresh in between.
* `MCHost!ApprovalsFairness`: awaited calls answer, timers fire, the sweep comes round (strong
  fairness, as a bridge failure may disable it in between), deadlines pass.

### Findings

1. `router_gap`: `docs/design/benchmark-recovery-contract.md:36` claims that pending states and
   the outbox cover every gap. Between `complete` (`trusted-router.ts:210`) and `releaseBudget`
   (211), and when `releaseBudget` throws after `fail` (236), the target stays locked while the
   action is EXECUTED or FAILED: it is not reported as pending, cannot be reconciled and is
   never released. The failure is closed (nothing unsafe happens) but permanent.
2. `ledger_ack`: the comment at `audit-ledger.ts:349` promises acknowledgement only after
   synchronization; a retried `reconciled` event returns the record an earlier attempt wrote,
   which may never have been synchronized.
3. `ledger_reach`: the directory is synchronized only by an append that found no file. After a
   first append that failed or died before that, later ones acknowledge records in a file whose
   directory entry may be lost.
4. `mail_retry`: `nanoclaw/docs/architecture.md:526,535` says that each retry, and a container
   that exits with an error, increments `tries`. A container that dies with a message claimed is
   replaced by the wake of the next reconcile before the maintenance that would charge the try,
   and the new runner drops the claim: a message that ends its container is retried without
   limit and without backoff.
5. `series_phantom`: `N/cli/resources/tasks.ts:401-402` says a row made by `tasks run` must not
   be re-armed into a phantom series. `updateTask` sets the recurrence of every row of the
   series that is paused or not yet due: a run-now row that was paused with the series, or put
   off by a retry, gets it too, and the series then fires twice at every time.
6. `series_retry`: `N/mailbox/sqlite/arm-next-task.test.ts:6-7,83` says that after a failed arm
   the recurrence is intact "so the next tick simply retries" and the series is "retryable, not
   dead". The row is intact, but `handleRecurrence` swallows the error
   (`N/modules/scheduling/recurrence.ts:113-119`) and the same visit goes on to
   `N/reconcile-session.ts:184-189`, where an occurrence that is done is no live task: with no
   container the session is closed as spent, a closed session has no tick, and the series is
   over. `SeriesSurvives` shows that this is the only way a series is lost.

### Observed

Met while modelling; they have no run of their own, because no document, comment or test says
otherwise in so many words, because the model leaves the part out, or because a property that
is checked and proved already names them as its only exception.

1. `README.md:60` gives hourly limits, but the counters are fixed windows (`HourlyWithinTwice`
   is the bound that holds); `docs/spec/03_broker_code_read.md:54-55` speaks of two DEEP lanes
   and one CODER lane, while the code limits only their sum.
2. A broker that dies between taking and claiming a request (`broker/main.py:98`) loses it
   silently.
3. Offline recovery: a crash between claim and beginExecution leaves CLAIMED and the target
   blocked for good; the ledger can hold both `executed` and `reconciled` for an action that was
   taken away while its owner awaited the append.
4. `docker-driver.ts:688-691` says that a container in `created` is no corpse, while
   `adoptRunningSessions` stops every snapshot whose phase is not `running`, unfenced. The stop
   and the status write of a finish are unfenced after its fence read.
5. A stop intent (`db/coordination.ts:205`) is best effort: a failed write is only logged, the
   clear of another restart may erase it, and a stale one restarts a session that is well.
6. An adoption looks at the gateway for the last time before `await reconcileNetworkAccess`
   (`container-runner.ts:851`). A closure during that await stops only what is registered, and
   line 859 then registers a survivor that nobody stops until the gateway has been opened and
   closed again. This is against `container-runner.ts:235` ("Fail closed") and
   `nanoclaw/docs/gateway-seam.md:207-208` ("a session whose credentials cannot be authorized
   must not run"). `SessionClaims` has the await; `ClosedMeansStopped` names such a survivor
   (`late`) as its one exception, and `FailsClosed` proves that there is no other.
7. `N/mailbox/sqlite/session-db.ts:183` calls a write to the outbound file safe "because the
   host only writes to outbound.db when no container is running"; the stuck path writes while
   the container it killed still runs.
8. `poll-loop.ts:525-526` leaves claims of an ended query to the host's sweep; a later heartbeat
   of the same container makes such a claim never look stuck until the container ends.
9. Follow-ups are acknowledged as completed when they are pushed, so a kill in the middle of the
   turn or an abort loses them, though `poll-loop.ts:452-454` says they are kept.
10. `delivery.ts` says exactly one row per session carries `firstDelivery`; if the first row
    fails for good none does. A message whose `markDelivered` keeps failing is sent up to
    MAX_DELIVERY_ATTEMPTS times and then recorded as failed. Undelivered rows of a closed session
    whose container has stopped are in neither poll's list (`EveryMessageSettles` excludes them).
11. `nanoclaw/docs/architecture.md` describes an output-sent protection the code does not have.
12. A tick of the sweep is held open as long as feeds keep adding keys.
13. Approvals: a hold armed after its row was decided or ended is settled by nothing but a bridge
    failure or a restart and keeps its place among the pending holds
    (`gateway-approval-coordinator.ts:497`); a request presented late can be asked again after
    its row was delivered and deleted; a click that comes before its message id is bound is
    ignored.
14. The provider never unlinks response files; an answer after a time-out stays unread.
15. A pause while an occurrence runs has no effect: the acknowledgement completes the paused row,
    and the next occurrence is armed pending. A cancel that finds only a run-now row live, while
    the row that recurs has ended and is not yet re-armed, leaves the series alive. A `run`
    inserted into a session that is being closed is not delivered by "the next sweep".
16. A dispatch that throws after it wrote some of the answer (`poll-loop.ts:612,690,1136`) finds
    its turn still in hand in the catch block (709-731), which also writes the failure notice: the
    user gets part of an answer and an apology. `OneConclusion` names these batches (`torn`); a
    notice that cannot be written is lost (`unheard`, the exception of `EveryTurnEnds`).

## 4. What each property says

The comment above each property in the modules names the code it is about. They are chosen for
the hazards, and each has a mutant that breaks it. The ones that take several actors to break:

* `TargetExclusive` (check, claim and reservation are three transactions), `ReleaseIsSafe` and
  `SettledIsTrue` (a rejected call is still running), `AuditTrail` (an append may throw after it
  wrote), `UndeliveredKeepsLock` and `ReconciledOnce` (a completion is published by an operator
  and by a restart), `WindowBudget` (a clock set back).
* `OneVerdict`, `SeenIsJournaled`, `BudgetBalanced` (resends, leftovers, failing publications).
* `EvidenceStillHolds`, `OneOutcome` (a reconcile overtakes an execute that awaits).
* `OwnerIsClaimed`, `OneSupervisor`, `ClosedMeansStopped` (takeovers, deferred finalization, a
  gateway that closes between admission and start; an adoption overtaken by the closure is the
  one exception, Observed 6).
* `OwedIsScheduled`, `RunsAlone`, `TickIsDone` (changes during a run, retry timers, shutdown);
  `DuplicateHasCause`, `AttemptsBounded` (two polls, restarts); `OneVerdictPerCard` (click,
  timer, gateway, restart); `SeriesSurvives` (commands against ended, running and retried
  occurrences: the row that recurs is never gone, and its session is closed under it only by a
  visit that itself failed to arm that row, finding 6).
* `RepliesGoHome`, `OneConclusion` (follow-ups, retries, commands and failing dispatches while a
  turn waits: no batch is answered twice or told of a failure twice, and both only if its answer
  was torn).

## 5. Proofs

`tlapm` checks the eight proof modules to the last leaf. The only assumptions are the named
assumptions on the constants (`StoreAssumption`, `RouterAssumption` and their like), which TLC
also evaluates on the runs that extend those modules. There is no bound on processes, hosts,
calls, operators, brokers, targets, keys, batches, occurrences or time, except where a model
itself caps a counter (named in its CONSTANTS). The theorems are listed in `PROJECT.json`.

| Proof module | Inductive invariant | Why the properties alone are not inductive |
|---|---|---|
| `ActionStoreProofs` | types; a window gains at most one row, by a reservation that saw it below the limit | `Windows` needs that every row of a window that contains `now` is one the reservation counted. This also covers a clock set back, because the code's cutoff has no upper end |
| `TrustedRouterProofs` | `Coordination` | `TargetExclusive` speaks of `op` and `target` only; it is kept because a running change implies an active lock (`Agreed`), locks of one target are unique (`OneLock`), and the call about to dispatch owns its lock (`OwnedAsAt`), which needs that no two calls own one action (`OneOwner`) |
| `BenchmarkRecoveryProofs` | `Recovering` | the evidence of a call holds until its effect because the only calls that may change the fixture own it, and owners of one target differ (`Owning`, `OwnersDiffer`, `StoreAgrees`, `ActiveIsLatest`) |
| `AuditLedgerProofs` | `Appending` | the chain is kept because whoever writes holds the lock and prepared its line from the file as it is now (`Prepared`) |
| `AuditLedgerProofs` | `Syncing`, `Reaching` | what is true of an acknowledged record has to be known of the call about to acknowledge it, and a file that exists is reachable or in the hands of the call that made it |
| `BrokerProofs` | `Serving` | one inference needs that a broker in front of the model holds a row CLAIMED by itself with nothing seen of it, and that the journal has one owner |
| `BrokerProofs` | `Budgeted` | a counter says nothing of the hour before its reset; the invariant keeps that what was granted in the hour before it was within the limit too, and that no grant is recorded twice (`Numbered`) |
| `SessionClaimsProofs` | `Ownership` | the claim's incarnation bounds those every host remembers, and a host between reading and writing still finds what it read or fails its compare-and-set |
| `HostProofs` | `Scheduled` | a line without repetition, apart from the runs |
| `HostProofs` | `CarriedOn`, `OnlyOnce` | a pass that arms occurrences has read every row that ended and still recurs, and keeps those it failed to arm in `missed` (so none is lost without a trace), and is the only row it takes the recurrence from (so none is doubled) |
| `HostProofs` | `Approving` | what was decided of a card is what its row says, what its gateway was told, and what the tasks still under way are about to tell it; a card nobody has asked for has none of these |
| `MessageProofs` | `InStep` | the queue of turns and the prompts, answered, asked or behind a retry, are one sequence in step (`Aligned`), and a batch is in one place only (`InOnePlace`) |
| `MessageProofs` | `Delivering` | one poll at most drains (`OneDrain`) and has in hand only rows that are not settled (`RowsWait`); what was handed over is the settled copy and the marks that failed (`HandedOnce`); a try is counted or its count was lost (`Counted`) |

Results that go beyond invariants: `SafeRelease`, `Settled` and `SeriesGoesOn` are action
properties; `Refinement` (the router is an `ExclusiveRemediation`), `ClaimIsALease` (claims are
a `SessionLease`) and `LedgerIsAppendLog` (the writers' ledger is an `AppendLog`) are
refinements, each step a step or a stutter of the abstract specification;
`UsesStore` and `RecoveryUsesStore` show that router and recovery are clients of the store
(`Spec => StoreSpec`), so that `RouterWithinBudget` and `RecoveryWithinBudget` get the budget and
settlement theorems without a second proof.

Five findings have a positive side that is proved, and so are known to have no second cause.
`CoveredUnlessCutOff` (finding 1): every locked
target is in a call's hands or reported as pending in every behaviour in which the store call
that gives the target back (`trusted-router.ts:211,236`) neither throws nor is cut off by a crash
in front of it (`EndsWell`); every other failure, crash and race is allowed, so these are the only
gaps. `PlainAcksSynced` (finding 2): every acknowledged record that is no completion has been
synchronized. `ReachableUnlessFirstFails` (finding 3): acknowledged records are reachable in
every behaviour in which the append that creates the file synchronizes the directory before it
fails or dies, whatever happens to other appends. `OneSeriesUnlessUpdated` (finding 5): in every behaviour without an update of the recurrence
no series recurs twice, whatever else is commanded, fails or restarts, writes that arm included;
the update is therefore the only cause.
`SeriesGoesOn` (finding 6): a series loses its session only in a visit that failed to arm its
next occurrence; commands, restarts and every other failure leave it alive. `FailsClosed`
bounds Observed 6 in the same way, and `ConcludedOnce` Observed 16.

Every invariant and every action property of a passing run is a theorem. Only model-checked
are the liveness properties (`RestartDelivers`, `EveryAppendEnds`, `EveryRequestEnds`,
`EveryTurnEnds`, `EveryMessageSettles`, `EveryMessageEnds`, `EveryCardEnds`), for fairness and
ENABLED are out of the prover's reach. `Mailbox`, whose one property is of that kind, has
therefore no theorem.

## 6. Not modelled, and why

* SHA-256 is taken as injective, a line's hash as the sequence of events before it; deliberate
  tampering with the file is not modelled. Event validation touches nothing.
* SQLite transactions are atomic and durable; a statement that throws has no effect.
* Reading an audit file without its lock is only the "verification may fail at any time" above.
* The legacy migration of claims runs in the constructor before any call.
* Model answers, prompts, HTTP and docker commands are opaque; a gateway error is an answer.
* Lengths of backoffs and timers: a timer fires at any time once armed. That a retry waits long
  enough is not a question these models can put.
* Session ownership: a gateway lease that is unavailable already while its callback is
  registered, wake signals, release of gateway leases, what a container is made of.
* Delivery: the dispatch behind `deliverMessage` (system actions, agent-to-agent, files) is one
  call that is taken, refused, or taken and reported as failed.
* Mailbox: pruning of echoes, on-wake and context-only messages, slash commands. Task series:
  series sharing an older session, run logs, scripts' contents.
* Approvals: the non-durable path, automatic approvals, the limit of pending holds, a request
  whose contents change.
* Agent query: `end()` (the loop never calls it), trimming of the history, delivery in the middle
  of a turn; the older TypeScript adapter and `agent.py`.
* Most of the repository by size is the embedded host's chat channels, setup wizards, skill
  installers, scripts and command-line resources, and the benchmark's drivers: sequential code
  between prompts, files and subprocesses, in which a state machine would repeat the text. They
  are the `not_modelled` components of `PROJECT.json`, and the reason why the share of mapped
  lines is small.

## 7. Where to go on

1. `Mailbox` and `TaskSeries` over one set of rows, visited by `ReconcileQueue`, would replace
   the assumption that visits of a session do not overlap by the queue's own theorem.
2. Two sessions that share a gateway in `SessionClaims`, and the release of its leases.
3. The gates as operators checked against a reference over small payloads.

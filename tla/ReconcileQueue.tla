---------------------------- MODULE ReconcileQueue ----------------------------
(***************************************************************************)
(* The keyed work queue behind the host sweep and the sweep that feeds it  *)
(* (nanoclaw/src/reconcile-queue.ts, host-sweep.ts, reconcile-feeds.ts).   *)
(* One process, one event loop: an action is what runs between two awaits. *)
(* The length of a backoff is left out, so a retry timer may fire at any   *)
(* time, and with it the count of failures the length is computed from.    *)
(***************************************************************************)
EXTENDS Naturals, Sequences, FiniteSets

CONSTANTS
    Sessions,    \* keys of active sessions
    Reheal,      \* the duty a tick enqueues before the sessions
    Duties,      \* the duties it enqueues after them
    Concurrency  \* RECONCILE_CONCURRENCY

ASSUME QueueAssumption ==
    /\ Reheal \notin Sessions \cup Duties
    /\ Sessions \cap Duties = {}
    /\ IsFiniteSet(Sessions) /\ IsFiniteSet(Duties)
    /\ Concurrency \in Nat \ {0}

VARIABLES
    ready,    \* keys waiting to run, in order
    runs,     \* how many runs of each key are under way
    active,   \* runs under way
    dirty,    \* keys added while they ran
    delayed,  \* keys whose retry timer is armed
    stopped,  \* the queue is shut down
    sweep,    \* where the sweep's loop is
    todo,     \* keys the tick has still to enqueue before its next await
    owed,     \* keys added, or failed, since their latest run began (history)
    tickOwed  \* keys of this tick that have not been run for it (history)

queueVars == <<ready, runs, active, dirty, delayed, stopped, sweep, todo, owed, tickOwed>>

Keys == Sessions \cup Duties \cup {Reheal}

Waiting    == {ready[i] : i \in 1..Len(ready)}
RunningNow == {k \in Keys : runs[k] > 0}

QueueTypeOK ==
    /\ ready \in Seq(Keys)
    /\ runs \in [Keys -> Nat] /\ active \in Nat
    /\ dirty \subseteq Keys /\ delayed \subseteq Keys
    /\ stopped \in BOOLEAN
    /\ sweep \in {"sleep", "list", "adding", "wait", "off"}
    /\ todo \subseteq Sessions \cup Duties
    /\ owed \subseteq Keys /\ tickOwed \subseteq Keys

QueueInit ==
    /\ ready = <<>> /\ runs = [k \in Keys |-> 0] /\ active = 0
    /\ dirty = {} /\ delayed = {} /\ stopped = FALSE
    /\ sweep = "sleep" /\ todo = {}
    /\ owed = {} /\ tickOwed = {}

-----------------------------------------------------------------------------

Least(a, b) == IF a < b THEN a ELSE b

\* pump: of the keys in line, with busy runs under way, as many start as the
\* concurrency allows.  A run reads its session after it starts, so what was
\* owed to the key is not owed any more.
Pump(line, busy, under, due) ==
    LET n       == Least(Concurrency - busy, Len(line))
        Starts  == {line[i] : i \in 1..n}
    IN  /\ ready'  = SubSeq(line, n + 1, Len(line))
        /\ active' = busy + n
        /\ runs'   = [k \in Keys |-> under[k] + (IF k \in Starts THEN 1 ELSE 0)]
        /\ owed'   = due \ Starts

\* Mutant: a key that runs already gets no mark.
AddUnlessRunning(k, timers) ==
    IF stopped \/ k \in Waiting \cup RunningNow
      THEN /\ delayed' = timers
           /\ owed' = IF stopped THEN owed ELSE owed \cup {k}
           /\ UNCHANGED <<ready, runs, active, dirty>>
      ELSE /\ delayed' = timers \ {k}
           /\ Pump(Append(ready, k), active, runs, owed \cup {k})
           /\ UNCHANGED dirty

\* Mutant: a key that runs gets in line like any other.
AddUnlessWaiting(k, timers) ==
    IF stopped \/ k \in Waiting
      THEN /\ delayed' = timers
           /\ owed' = IF stopped THEN owed ELSE owed \cup {k}
           /\ UNCHANGED <<ready, runs, active, dirty>>
      ELSE /\ delayed' = timers \ {k}
           /\ Pump(Append(ready, k), active, runs, owed \cup {k})
           /\ UNCHANGED dirty

\* add, with the retry timers that are armed: nothing once stopped, nothing for
\* a key in line, a mark for a key that runs; else the key gets in line and its
\* armed retry is dropped.
Add(k, timers) ==
    IF stopped THEN delayed' = timers /\ UNCHANGED <<ready, runs, active, dirty, owed>>
    ELSE IF k \in Waiting
      THEN /\ owed' = owed \cup {k} /\ delayed' = timers
           /\ UNCHANGED <<ready, runs, active, dirty>>
    ELSE IF k \in RunningNow
      THEN /\ dirty' = dirty \cup {k} /\ owed' = owed \cup {k} /\ delayed' = timers
           /\ UNCHANGED <<ready, runs, active>>
      ELSE /\ delayed' = timers \ {k}
           /\ Pump(Append(ready, k), active, runs, owed \cup {k})
           /\ UNCHANGED dirty

\* While the sweep enqueues, nothing else gets the event loop.
LoopFree == sweep # "adding"

\* The mail writer or the runtime watch reports something for a session.
FeedEnqueue(k) ==
    /\ LoopFree /\ k \in Sessions
    /\ Add(k, delayed)
    /\ UNCHANGED <<stopped, sweep, todo, tickOwed>>

\* A retry timer of addAfter fires: its entry is gone, the key is added.
TimerFires(k) ==
    /\ LoopFree /\ k \in delayed
    /\ Add(k, delayed \ {k})
    /\ UNCHANGED <<stopped, sweep, todo, tickOwed>>

\* The end of run: a key marked dirty is added again at once, a failed one
\* gets a retry timer; then pump, and a sweep waiting for idle goes to sleep.
Finish(k, ok) ==
    /\ LoopFree /\ runs[k] > 0
    /\ ok \/ k \in Sessions
    /\ LET again  == k \in dirty
           failed == ~ok /\ ~again /\ ~stopped
           under  == [runs EXCEPT ![k] = @ - 1]
           due    == owed \cup (IF failed THEN {k} ELSE {})
       IN  /\ dirty' = dirty \ {k}
           /\ delayed' = IF failed THEN delayed \cup {k} ELSE delayed
           /\ Pump(IF again THEN Append(ready, k) ELSE ready, active - 1, under, due)
    /\ tickOwed' = IF k \in owed THEN tickOwed ELSE tickOwed \ {k}
    /\ sweep' = IF sweep = "wait" /\ active' = 0 /\ ready' = <<>>
                  THEN IF stopped THEN "off" ELSE "sleep"
                  ELSE sweep
    /\ UNCHANGED <<stopped, todo>>

\* sweep: the interval is over; the first duty is added, the sessions awaited.
SweepTick ==
    /\ sweep = "sleep"
    /\ Add(Reheal, delayed)
    /\ sweep' = IF stopped THEN "off" ELSE "list"
    /\ tickOwed' = IF stopped THEN tickOwed ELSE {Reheal}
    /\ UNCHANGED <<stopped, todo>>

\* getActiveSessions answers, with any of the sessions, or throws.
SweepLists ==
    /\ sweep = "list"
    /\ sweep' = "adding"
    /\ \E S \in SUBSET Sessions : todo' = S \cup Duties
    /\ UNCHANGED <<ready, runs, active, dirty, delayed, stopped, owed, tickOwed>>

\* The sessions are added, then the duties.
SweepAdds(k) ==
    /\ sweep = "adding" /\ k \in todo
    /\ k \in Sessions \/ todo \cap Sessions = {}
    /\ Add(k, delayed)
    /\ todo' = todo \ {k}
    /\ tickOwed' = IF stopped THEN tickOwed ELSE tickOwed \cup {k}
    /\ UNCHANGED <<stopped, sweep>>

\* Mutant: the next tick is armed as soon as this one has enqueued.
SweepArms ==
    /\ sweep = "adding" /\ todo = {}
    /\ sweep' = IF stopped THEN "off" ELSE "sleep"
    /\ UNCHANGED <<ready, runs, active, dirty, delayed, stopped, todo, owed, tickOwed>>

\* await tickQueue.idle(): at once for a queue that is stopped and empty.
SweepWaits ==
    /\ sweep = "adding" /\ todo = {}
    /\ sweep' = IF active > 0 \/ ready # <<>> THEN "wait"
                ELSE IF stopped THEN "off" ELSE "sleep"
    /\ UNCHANGED <<ready, runs, active, dirty, delayed, stopped, todo, owed, tickOwed>>

\* stopHostSweep and the queue's shutdown.
StopSweep ==
    /\ LoopFree /\ ~stopped
    /\ stopped' = TRUE
    /\ ready' = <<>> /\ dirty' = {} /\ delayed' = {}
    /\ UNCHANGED <<runs, active, sweep, todo, owed, tickOwed>>

QueueNext ==
    \/ \E k \in Keys :
         \/ FeedEnqueue(k) \/ TimerFires(k) \/ SweepAdds(k)
         \/ \E ok \in BOOLEAN : Finish(k, ok)
    \/ SweepTick \/ SweepLists \/ SweepWaits \/ StopSweep

QueueSpec == QueueInit /\ [][QueueNext]_queueVars

-----------------------------------------------------------------------------
(* Properties.                                                             *)

\* A change is never lost: while the queue is up, whatever was added to a key
\* or failed since its latest run began has a run coming, in line, after the
\* run under way, or on a timer; a stopped queue starts nothing.
OwedIsScheduled ==
    IF stopped THEN Waiting \cup dirty \cup delayed = {}
    ELSE owed \subseteq Waiting \cup (dirty \cap RunningNow) \cup delayed

\* No key runs beside itself, in line it stands once, and no more keys run
\* than the concurrency allows.
RunsAlone ==
    /\ \A k \in Keys : runs[k] <= 1
    /\ active = Cardinality(RunningNow) /\ active <= Concurrency
    /\ Cardinality(Waiting) = Len(ready)

\* The sweep sleeps only when every key its tick enqueued has had a run that
\* began after it was enqueued ("the tick ends only after everything this tick
\* enqueued has run").
TickIsDone == sweep = "sleep" /\ ~stopped => tickOwed = {}

=============================================================================

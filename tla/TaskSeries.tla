------------------------------- MODULE TaskSeries -------------------------------
(***************************************************************************)
(* One scheduled task series (nanoclaw/src/modules/scheduling,             *)
(* mailbox/sqlite/tasks.ts, cli/resources/tasks.ts) in its own session:    *)
(* occurrences are rows of the session's inbound mailbox, and a recurring  *)
(* series lives on in the one row that carries the recurrence.  The        *)
(* session's reconcile arms the next occurrence when one is done and       *)
(* closes the session when none is left; commands of users and agents      *)
(* change the rows in between.  How often a row is retried is a matter of  *)
(* the module Mailbox and left open here.                                  *)
(***************************************************************************)
EXTENDS Naturals, FiniteSets

CONSTANTS
    FailCap,      \* SCRIPT_FAIL_PAUSE_CAP
    MaxRows       \* bound: occurrences, numbered in the order of their seq

ASSUME SeriesAssumption == FailCap \in Nat \ {0} /\ MaxRows \in Nat \ {0}

VARIABLES
    task,      \* messages_in: status, recurrence, and whether process_after is ahead
    taskAck,   \* processing_ack of each occurrence
    open,      \* sessions.status of the series' session
    running,   \* isContainerRunning
    visit,     \* where the session's reconcile is
    rearm,     \* the rows its handleRecurrence read and has not dealt with
    missed,    \* rows whose next occurrence this visit failed to arm (history)
    recurs     \* whether the series is meant to go on (history)

Rows       == 1..MaxRows
seriesVars == <<task, taskAck, open, running, visit, rearm, missed, recurs>>

Absent == [st |-> "none", rec |-> FALSE, later |-> FALSE]

SeriesTypeOK ==
    /\ task \in [Rows -> [st : {"none", "pending", "paused", "completed", "failed", "cancelled"},
                          rec : BOOLEAN, later : BOOLEAN]]
    /\ taskAck \in [Rows -> {"none", "processing", "done", "error"}]
    /\ open \in {"active", "closed", "deleted"} /\ running \in BOOLEAN
    /\ visit \in {"idle", "wake", "woken", "list", "arm"} /\ rearm \subseteq Rows
    /\ missed \subseteq Rows
    /\ recurs \in BOOLEAN

\* createScheduledTask: one row, pending or, from a template, paused.
SeriesInit ==
    /\ \E s \in {"pending", "paused"}, r \in BOOLEAN :
         /\ task = [m \in Rows |-> IF m = 1 THEN [st |-> s, rec |-> r, later |-> TRUE] ELSE Absent]
         /\ recurs = r
    /\ taskAck = [m \in Rows |-> "none"]
    /\ open = "active" /\ running = FALSE
    /\ visit = "idle" /\ rearm = {} /\ missed = {}

With(S)   == {m \in Rows : task[m].st \in S}
Live      == With({"pending", "paused"})
DueTasks  == {m \in With({"pending"}) : ~task[m].later}
Claimed   == {m \in Rows : taskAck[m] = "processing"}

\* insertTaskRow: nextEvenSeq puts the new row after all others.
InsertInto(rows, new) ==
    \E n \in Rows :
        /\ rows[n].st = "none" /\ \A m \in Rows : m < n => rows[m].st # "none"
        /\ task' = [rows EXCEPT ![n] = new]

\* process_after passes.
ComesDue(m) ==
    /\ task[m].later
    /\ task' = [task EXCEPT ![m].later = FALSE]
    /\ UNCHANGED <<taskAck, open, running, visit, rearm, missed, recurs>>

-----------------------------------------------------------------------------
(* Commands.  Each looks up the active sessions, awaits, and then changes the *)
(* mailbox in one step.  It may have looked at any time before, so it may    *)
(* find the session closed by then: being active is no guard of the change.  *)

\* A command puts rows in place of those it touches.
Change(rows) ==
    /\ task' = [m \in Rows |-> IF m \in DOMAIN rows THEN rows[m] ELSE task[m]]
    /\ UNCHANGED <<taskAck, open, running, visit, rearm, missed>>

\* runTaskCommand: one more occurrence, due now, that does not recur.
RunNow ==
    /\ InsertInto(task, [st |-> "pending", rec |-> FALSE, later |-> FALSE])
    /\ UNCHANGED <<taskAck, open, running, visit, rearm, missed, recurs>>

PauseTask ==
    /\ Change([m \in With({"pending"}) |-> [task[m] EXCEPT !.st = "paused"]])
    /\ UNCHANGED recurs

ResumeTask ==
    /\ Change([m \in With({"paused"}) |-> [task[m] EXCEPT !.st = "pending"]])
    /\ UNCHANGED recurs

\* cancelTask: the live rows, whose recurrence goes.
CancelTask ==
    /\ Live # {}
    /\ Change([m \in Live |-> [task[m] EXCEPT !.st = "cancelled", !.rec = FALSE]])
    /\ recurs' = FALSE

\* updateTask leaves alone what is due, for it may be running already.
Updatable == {m \in Live : task[m].st = "paused" \/ task[m].later}

\* It sets the recurrence, or takes it away.
UpdateRecurrence(r) ==
    /\ Updatable # {}
    /\ Change([m \in Updatable |-> [task[m] EXCEPT !.rec = r]])
    /\ recurs' = r

\* Or it moves process_after, ahead or into the past.
UpdateProcessAfter(ahead) ==
    /\ Updatable # {}
    /\ Change([m \in Updatable |-> [task[m] EXCEPT !.later = ahead]])
    /\ UNCHANGED recurs

\* deleteTaskCommand, having found no container running at some time before: the
\* mailbox goes, and the session with it.  What still works on its removed files
\* is not followed.
DeleteTask ==
    /\ open' = "deleted"
    /\ task' = [m \in Rows |-> Absent] /\ taskAck' = [m \in Rows |-> "none"]
    /\ visit' = "idle" /\ rearm' = {} /\ missed' = {} /\ recurs' = FALSE
    /\ UNCHANGED <<running>>

CommandStep ==
    \/ RunNow \/ PauseTask \/ ResumeTask \/ CancelTask \/ DeleteTask
    \/ \E b \in BOOLEAN : UpdateRecurrence(b) \/ UpdateProcessAfter(b)

-----------------------------------------------------------------------------
(* The container.                                                          *)

\* The runner claims what is due and has no acknowledgement yet.
ClaimTask(m) ==
    /\ running /\ m \in DueTasks /\ taskAck[m] = "none"
    /\ taskAck' = [taskAck EXCEPT ![m] = "processing"]
    /\ UNCHANGED <<task, open, running, visit, rearm, missed, recurs>>

\* It has run, or its script found nothing to do, or its script failed.
FinishTask(m) ==
    /\ running /\ m \in Claimed
    /\ \E as \in {"done", "error"} : taskAck' = [taskAck EXCEPT ![m] = as]
    /\ UNCHANGED <<task, open, running, visit, rearm, missed, recurs>>

\* Idle, killed or dead: its claims stay.
ContainerEnds ==
    /\ running /\ running' = FALSE
    /\ UNCHANGED <<task, taskAck, open, visit, rearm, missed, recurs>>

-----------------------------------------------------------------------------
(* The reconcile.                                                          *)

\* applyProcessingAcks: whatever the host made of the row meanwhile, unless it
\* has an end already.
Acknowledged ==
    [m \in Rows |->
       IF taskAck[m] \in {"done", "error"} /\ task[m].st \notin {"completed", "failed"}
         THEN [task[m] EXCEPT !.st = IF taskAck[m] = "done" THEN "completed" ELSE "failed"]
         ELSE task[m]]

\* resetStuckProcessingRows: each claimed row that is pending and due is put off
\* or, its tries used up, failed; the claims are deleted.
ResetTasks(rows) ==
    /\ \E given \in SUBSET Claimed :
         task' = [m \in Rows |->
           CASE m \notin Claimed \/ rows[m].st # "pending" \/ rows[m].later -> rows[m]
             [] m \in given -> [rows[m] EXCEPT !.st = "failed"]
             [] OTHER -> [rows[m] EXCEPT !.later = TRUE]]
    /\ taskAck' = [m \in Rows |-> IF m \in Claimed THEN "none" ELSE taskAck[m]]

\* maintainSessionMailbox begins: the claims of a container that does not run, or
\* that is found stuck and told to stop, are reset.
MaintainBegins(rows) ==
    /\ visit' = "list"
    /\ \/ ResetTasks(rows)
       \/ running /\ task' = rows /\ UNCHANGED taskAck

\* reconcileActiveSession: acks are applied; what is due wakes a container first.
VisitSession ==
    /\ visit = "idle" /\ open = "active"
    /\ LET rows == Acknowledged
           due  == {m \in Rows : rows[m].st = "pending" /\ ~rows[m].later}
       IN  IF due # {} /\ ~running
             THEN visit' = "wake" /\ task' = rows /\ UNCHANGED taskAck
             ELSE MaintainBegins(rows)
    /\ UNCHANGED <<open, running, rearm, missed, recurs>>

\* requestWake; a new container drops the claims of the one before it.
WakeTask ==
    /\ visit = "wake" /\ visit' = "woken"
    /\ \/ /\ running' = TRUE
          /\ taskAck' = IF running THEN taskAck
                        ELSE [m \in Rows |-> IF m \in Claimed THEN "none" ELSE taskAck[m]]
       \/ ~running /\ UNCHANGED <<running, taskAck>>
    /\ UNCHANGED <<task, open, rearm, missed, recurs>>

MaintainTask ==
    /\ visit = "woken" /\ MaintainBegins(task)
    /\ UNCHANGED <<open, running, rearm, missed, recurs>>

\* Mutant: failed occurrences are not read.
CompletedOnly == {m \in With({"completed"}) : task[m].rec}

\* getCompletedRecurring.
CompletedRecurring == {m \in With({"completed", "failed"}) : task[m].rec}

\* handleRecurrence reads what is done and recurs, then awaits the timezone.
ListRecurring ==
    /\ visit = "list" /\ visit' = "arm"
    /\ rearm' = CompletedRecurring
    /\ UNCHANGED <<task, taskAck, open, running, missed, recurs>>

\* trailingFailedRuns.
FailedRuns ==
    {m \in With({"failed"}) : \A n \in With({"completed"}) : n < m}

\* The next occurrence, put off by the cron expression and by the backoff; paused
\* when the script failed too often.
NextOccurrence ==
    [st    |-> IF Cardinality(FailedRuns) >= FailCap THEN "paused" ELSE "pending",
     rec   |-> TRUE,
     later |-> TRUE]

\* armNextTask: the new row and the old row's recurrence in one transaction.
ArmNextTask(m) ==
    InsertInto([task EXCEPT ![m].rec = FALSE], NextOccurrence)

\* Whatever throws on the way is logged and the row left as it is.
Rearm ==
    /\ visit = "arm"
    /\ \E m \in rearm :
         /\ \A k \in rearm : m <= k
         /\ rearm' = rearm \ {m}
         /\ \/ ArmNextTask(m) /\ UNCHANGED missed
            \/ missed' = missed \cup {m} /\ UNCHANGED task
    /\ UNCHANGED <<taskAck, open, running, visit, recurs>>

\* shouldCloseTaskSession: no live task and no container.  A row that could not be
\* re-armed does not count.
CloseIfSpent ==
    /\ visit = "arm" /\ rearm = {} /\ visit' = "idle" /\ missed' = {}
    /\ open' = IF ~running /\ Live = {} THEN "closed" ELSE open
    /\ UNCHANGED <<task, taskAck, running, rearm, recurs>>

\* The host dies and starts again; the container is adopted or stopped.
RestartTaskHost ==
    /\ visit' = "idle" /\ rearm' = {} /\ missed' = {}
    /\ running' \in {FALSE, running}
    /\ UNCHANGED <<task, taskAck, open, recurs>>

SeriesNext ==
    /\ open # "deleted"
    /\ \/ VisitSession \/ WakeTask \/ MaintainTask \/ ListRecurring \/ Rearm \/ CloseIfSpent
       \/ ContainerEnds \/ RestartTaskHost \/ CommandStep
       \/ \E m \in Rows : ComesDue(m) \/ ClaimTask(m) \/ FinishTask(m)

SeriesSpec == SeriesInit /\ [][SeriesNext]_seriesVars

-----------------------------------------------------------------------------
(* Properties.                                                             *)

\* While nobody cancels, deletes or unschedules it, a recurring series keeps a row
\* that carries the recurrence on, through failed occurrences, resets, automatic
\* pauses, arming that fails and host restarts between any two steps; and its
\* session is closed as spent only by a visit that itself failed to arm that row.
SeriesSurvives ==
    [][recurs /\ recurs' =>
         /\ \E m \in Rows : task'[m].rec
         /\ open = "active" => open' = "active" \/ \E m \in missed : task'[m].rec]_seriesVars

\* What arm-next-task.test.ts says of an arming that fails ("must leave the original's
\* recurrence fully intact so the next tick simply retries"): a session that is no
\* longer visited has no occurrence that is done and still to be re-armed.
UnarmedIsRetried == open = "closed" => CompletedRecurring = {}

\* What cli/resources/tasks.ts says of an occurrence run on demand ("must not be
\* re-armed by handleRecurrence into a phantom series"), and recurrence.ts of the
\* step that arms the next one: a series never recurs twice at a time.
NoPhantomSeries ==
    \A m, n \in Rows : task[m].rec /\ task[n].rec => m = n
=================================================================================

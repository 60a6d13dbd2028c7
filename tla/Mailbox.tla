-------------------------------- MODULE Mailbox --------------------------------
(***************************************************************************)
(* The inbound mail of one session: the host writes messages and           *)
(* reconciles the session (nanoclaw/src/reconcile-session.ts,              *)
(* mailbox/sqlite/), the agent runner in the container claims and answers  *)
(* them (nanoclaw/container/agent-runner/src/poll-loop.ts and its          *)
(* mailbox).  The two share two files: the host owns the messages, the     *)
(* runner owns the acknowledgements.  All messages modelled trigger a      *)
(* wake, and a batch takes all that are due.                               *)
(***************************************************************************)
EXTENDS Naturals, FiniteSets

CONSTANTS
    MaxMail,      \* bound: messages written, numbered in that order
    MaxTries,     \* MAX_TRIES
    MaxMishaps    \* bound: deaths, hangs, host restarts, refused wakes

ASSUME MailboxAssumption ==
    MaxMail \in Nat /\ MaxTries \in Nat /\ MaxMishaps \in Nat

VARIABLES
    row,      \* messages_in: status, tries, and whether process_after is ahead
    ack,      \* processing_ack of each message
    quiet,    \* claims since which the heartbeat file was not touched
    silent,   \* heartbeat, or start, older than ABSOLUTE_CEILING_MS
    alive,    \* isContainerRunning: the host has the container registered
    stopping, \* the host is stopping it
    pass,     \* where the session's reconcile is
    runner,   \* where the agent runner is
    batch,    \* the batch its query was opened with
    follow,   \* follow-ups it has claimed and not pushed yet
    mishaps   \* mishaps so far

Msgs == 1..MaxMail

clockVars   == <<quiet, silent>>
runnerVars  == <<runner, batch, follow>>
mailboxVars == <<row, ack, clockVars, alive, stopping, pass, runnerVars, mishaps>>

MailboxTypeOK ==
    /\ row \in [Msgs -> [st : {"none", "pending", "completed", "failed"},
                         tries : 0..MaxTries, later : BOOLEAN]]
    /\ ack \in [Msgs -> {"none", "processing", "completed", "skipped"}]
    /\ quiet \subseteq Msgs /\ silent \in BOOLEAN
    /\ alive \in BOOLEAN /\ stopping \in BOOLEAN
    /\ pass \in {"idle", "wake", "after", "sla"}
    /\ runner \in {"off", "boot", "poll", "turn", "open", "hung"}
    /\ batch \subseteq Msgs /\ follow \subseteq Msgs
    /\ mishaps \in 0..MaxMishaps

MailboxInit ==
    /\ row = [m \in Msgs |-> [st |-> "none", tries |-> 0, later |-> FALSE]]
    /\ ack = [m \in Msgs |-> "none"]
    /\ quiet = {} /\ silent = FALSE
    /\ alive = FALSE /\ stopping = FALSE /\ pass = "idle"
    /\ runner = "off" /\ batch = {} /\ follow = {}
    /\ mishaps = 0

Due     == {m \in Msgs : row[m].st = "pending" /\ ~row[m].later}
Claims  == {m \in Msgs : ack[m] = "processing"}
Mishap  == mishaps < MaxMishaps /\ mishaps' = mishaps + 1

Marked(S, as) == [m \in Msgs |-> IF m \in S THEN as ELSE ack[m]]

-----------------------------------------------------------------------------
(* The host.                                                               *)

\* writeSessionMessage.
WriteMessage(m) ==
    /\ row[m].st = "none" /\ \A n \in Msgs : n < m => row[n].st # "none"
    /\ row' = [row EXCEPT ![m].st = "pending"]
    /\ UNCHANGED <<ack, clockVars, alive, stopping, pass, runnerVars, mishaps>>

\* process_after passes.
BackoffEnds(m) ==
    /\ row[m].later
    /\ row' = [row EXCEPT ![m].later = FALSE]
    /\ UNCHANGED <<ack, clockVars, alive, stopping, pass, runnerVars, mishaps>>

\* applyProcessingAcks: what the runner is done with, unless settled already.
AcksApplied ==
    [m \in Msgs |->
       IF row[m].st = "pending" /\ ack[m] \in {"completed", "skipped"}
         THEN [row[m] EXCEPT !.st = IF ack[m] = "completed" THEN "completed" ELSE "failed"]
         ELSE row[m]]

\* A claimed message is rescheduled with one try more, or given up.
Retried(r) ==
    IF r.tries >= MaxTries THEN [r EXCEPT !.st = "failed"]
    ELSE [r EXCEPT !.tries = @ + 1, !.later = TRUE]

\* resetStuckProcessingRows over the rows as read: claimed messages still
\* pending, and not rescheduled already, are retried; all claims are deleted.
ResetClaims(rows) ==
    /\ row' = [m \in Msgs |->
         IF m \in Claims /\ rows[m].st = "pending" /\ ~rows[m].later
           THEN Retried(rows[m]) ELSE rows[m]]
    /\ ack' = Marked(Claims, "none")

\* reconcileActiveSession: acks are applied; due mail on a container that is
\* not registered wakes it first, else the mailbox is maintained at once.
Reconcile ==
    /\ pass = "idle"
    /\ LET rows == AcksApplied
           due  == {m \in Msgs : rows[m].st = "pending" /\ ~rows[m].later}
       IN  \/ /\ due # {} /\ ~alive
              /\ row' = rows /\ pass' = "wake"
              /\ UNCHANGED <<ack>>
           \/ /\ alive
              /\ row' = rows /\ pass' = "sla"
              /\ UNCHANGED <<ack>>
           \/ /\ due = {} /\ ~alive
              /\ ResetClaims(rows)
              /\ UNCHANGED pass
    /\ UNCHANGED <<clockVars, alive, stopping, runnerVars, mishaps>>

\* A wake registers the container, a new one or, when an adoption was put off,
\* the one that runs; claims are aged from here.  Or it comes to nothing.
Wakes ==
    \/ /\ alive' = TRUE
       /\ runner' = IF runner = "off" THEN "boot" ELSE runner
       /\ quiet' = Claims /\ silent' = FALSE
       /\ UNCHANGED mishaps
    \/ Mishap /\ UNCHANGED <<alive, runner, clockVars>>

\* requestWake from the reconcile, or from the router as mail comes in; a
\* registered container is left as it is.
Wake ==
    \/ /\ pass = "wake" /\ pass' = "after"
       /\ IF alive THEN UNCHANGED <<alive, runner, clockVars, mishaps>> ELSE Wakes
    \/ /\ Due # {} /\ ~alive /\ Wakes
       /\ UNCHANGED pass
    /\ UNCHANGED <<row, ack, stopping, batch, follow>>

\* maintainSessionMailbox after the wake.
Maintain ==
    /\ pass = "after"
    /\ IF alive THEN pass' = "sla" /\ UNCHANGED <<row, ack>>
       ELSE pass' = "idle" /\ ResetClaims(row)
    /\ UNCHANGED <<clockVars, alive, stopping, runnerVars, mishaps>>

\* Mutant: the heartbeat is not looked at, only the claims.
SilentNever == FALSE

TooSilent == silent
QuietClaim == quiet \cap Claims # {}

\* decideStuckAction finds the heartbeat, or a quiet claim, too old: the container
\* is told to stop, and its claims are reset without waiting for that.
KillStuck ==
    /\ pass = "sla" /\ pass' = "idle"
    /\ TooSilent \/ QuietClaim
    /\ stopping' = alive
    /\ ResetClaims(row)
    /\ UNCHANGED <<clockVars, alive, runnerVars, mishaps>>

\* Or it finds nothing: quiet claims, if any, are not old yet.
LeaveRunning ==
    /\ pass = "sla" /\ pass' = "idle"
    /\ ~TooSilent
    /\ UNCHANGED <<row, ack, clockVars, alive, stopping, runnerVars, mishaps>>

\* The runtime's terminal event is followed by finalization.
Finalize ==
    /\ alive /\ runner = "off"
    /\ alive' = FALSE /\ stopping' = FALSE
    /\ UNCHANGED <<row, ack, clockVars, pass, runnerVars, mishaps>>

\* The host dies and starts again; the container lives on and is adopted, or
\* its adoption is put off.
RestartHost ==
    /\ Mishap
    /\ pass' = "idle" /\ stopping' = FALSE
    /\ alive' \in {FALSE, runner # "off"}
    /\ UNCHANGED <<row, ack, clockVars, runnerVars>>

\* getPendingMessages leaves out whatever has an acknowledgement.
Pending == {m \in Due : ack[m] = "none"}

\* Time passes and the heartbeat grows old, though not before a runner that polls
\* every second has taken up what it can.
GrowSilent ==
    /\ alive /\ ~silent
    /\ runner # "boot"
    /\ runner \in {"poll", "open"} => Pending \cup follow = {}
    /\ silent' = TRUE
    /\ UNCHANGED <<row, ack, quiet, alive, stopping, pass, runnerVars, mishaps>>

-----------------------------------------------------------------------------
(* The agent runner.                                                       *)

\* clearStaleProcessingAcks, before the first poll.
Boot ==
    /\ runner = "boot" /\ runner' = "poll"
    /\ ack' = Marked(Claims, "none")
    /\ UNCHANGED <<row, clockVars, alive, stopping, pass, batch, follow, mishaps>>

\* markProcessing.
ClaimMail(S) ==
    /\ ack' = Marked(S, "processing")
    /\ quiet' = quiet \cup S
    /\ UNCHANGED silent

\* The poll loop claims the batch and opens a query with it.
ClaimBatch ==
    /\ runner = "poll" /\ Pending # {}
    /\ ClaimMail(Pending)
    /\ batch' = Pending
    /\ runner' = "turn"
    /\ UNCHANGED <<row, alive, stopping, pass, follow, mishaps>>

\* The script of a claimed task gates it: acknowledged as done or as failed.
SkipByScript(m) ==
    /\ \/ runner = "turn" /\ m \in batch
       \/ runner \in {"turn", "open"} /\ m \in follow
    /\ \E as \in {"completed", "skipped"} : ack' = Marked({m}, as)
    /\ batch' = IF m \in follow THEN batch ELSE batch \ {m}
    /\ follow' = follow \ {m}
    /\ UNCHANGED <<row, clockVars, alive, stopping, pass, runner, mishaps>>

\* A result event: the turn is done, the query stays open.
Result ==
    /\ runner = "turn" /\ runner' = "open"
    /\ ack' = Marked(batch, "completed")
    /\ UNCHANGED <<row, clockVars, alive, stopping, pass, batch, follow, mishaps>>

\* An event of the query touches the heartbeat.
Heartbeat ==
    /\ runner \in {"turn", "open"}
    /\ quiet' = {} /\ silent' = FALSE
    /\ UNCHANGED <<row, ack, alive, stopping, pass, runnerVars, mishaps>>

\* The follow-up poll of an open query claims what is due, runs its scripts...
ClaimFollowUps ==
    /\ runner \in {"turn", "open"} /\ follow = {} /\ Pending # {}
    /\ ClaimMail(Pending)
    /\ follow' = Pending
    /\ UNCHANGED <<row, alive, stopping, pass, runner, batch, mishaps>>

\* ...and pushes it into the query, acknowledged as done at once.
PushFollowUps ==
    /\ runner \in {"turn", "open"} /\ follow # {}
    /\ ack' = Marked(follow, "completed")
    /\ follow' = {}
    /\ UNCHANGED <<row, clockVars, alive, stopping, pass, runner, batch, mishaps>>

\* The query ends, by itself or with an error: its batch is done either way.
\* Follow-ups still at their scripts keep their claim.
EndQuery ==
    /\ runner \in {"turn", "open"} /\ runner' = "poll"
    /\ ack' = Marked(batch, "completed")
    /\ batch' = {} /\ follow' = {}
    /\ UNCHANGED <<row, clockVars, alive, stopping, pass, mishaps>>

\* The container ends: stopped by the host, or by a death of its own.
RunnerEnds ==
    /\ runner # "off" /\ runner' = "off"
    /\ (stopping /\ UNCHANGED mishaps) \/ Mishap
    /\ batch' = {} /\ follow' = {}
    /\ UNCHANGED <<row, ack, clockVars, alive, stopping, pass>>

\* The agent hangs: nothing of the runner moves any more.
RunnerHangs ==
    /\ runner \in {"boot", "turn", "open"} /\ Mishap
    /\ runner' = "hung"
    /\ UNCHANGED <<row, ack, clockVars, alive, stopping, pass, batch, follow>>

HostMoves == Reconcile \/ Wake \/ Maintain \/ KillStuck \/ LeaveRunning \/ Finalize

RunnerMoves ==
    \/ Boot \/ ClaimBatch \/ Result \/ ClaimFollowUps \/ PushFollowUps \/ EndQuery
    \/ \E m \in Msgs : SkipByScript(m)

MailboxNext ==
    \/ HostMoves \/ RunnerMoves
    \/ RestartHost \/ RunnerEnds \/ RunnerHangs
    \/ Heartbeat \/ GrowSilent
    \/ \E m \in Msgs : WriteMessage(m) \/ BackoffEnds(m)

MailboxSpec == MailboxInit /\ [][MailboxNext]_mailboxVars

-----------------------------------------------------------------------------
(* Properties.                                                             *)

\* Every message ends completed or failed: a claim that a dead, hung or
\* finished query leaves behind is released in the end.
EveryMessageEnds ==
    \A m \in Msgs : row[m].st = "pending" ~> row[m].st \in {"completed", "failed"}

\* What docs/architecture.md says of retries ("Each retry increments tries"):
\* when a claim is dropped undone and its message left pending, to be taken up
\* again, a try is charged.
EachRetryCounts ==
    [][\A m \in Msgs :
         ack[m] = "processing" /\ ack'[m] = "none" /\ row'[m].st = "pending"
           => row'[m].tries > row[m].tries]_mailboxVars

=============================================================================

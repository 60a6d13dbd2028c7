----------------------------- MODULE AuditLedger -----------------------------
(***************************************************************************)
(* The hash-chained audit ledger (router/src/audit-ledger.ts): appends of  *)
(* several processes to one file, serialized inside a process by a promise *)
(* chain per path and between processes by an exclusive lock file.         *)
(*                                                                         *)
(* A record is written in two parts, so a crash or an error can leave it   *)
(* torn, and it is durable only after fsync; a file just created is        *)
(* reachable after a power loss only once its directory is synchronized.   *)
(* SHA-256 is modelled as injective: the hash of a record stands for the   *)
(* sequence of events up to and including it.                              *)
(***************************************************************************)
EXTENDS Integers, Sequences, SequencesExt

CONSTANTS
    Procs,        \* writer processes
    Tasks,        \* concurrent appendAuditEvent calls
    ProcOf,       \* the process of each task
    Plain,        \* events that may be recorded any number of times
    Completions,  \* "reconciled" events, one per action id
    NoEvent,      \* the event of an idle task
    Free, Stale,  \* lock file absent; lock file whose owner is gone
    MaxRecords    \* bound of the model on the length of the file

Events == Plain \cup Completions

ASSUME LedgerAssumption ==
    /\ ProcOf \in [Tasks -> Procs]
    /\ NoEvent \notin Events
    /\ Plain \cap Completions = {}
    /\ Free # Stale /\ {Free, Stale} \cap Tasks = {}
    /\ MaxRecords \in Nat

VARIABLES
    file,       \* the lines of the ledger; only the last may be incomplete
    exists,     \* the file has been created
    synced,     \* how many leading lines an fsync has covered
    dirSynced,  \* the directory entry of the file has been synchronized
    lock,       \* the lock file: Free, Stale or the task that created it
    queue,      \* per process, appendQueues: tasks in the order they came
    pc,         \* where each task is
    event,      \* what it appends
    draft,      \* the line it has prepared under the lock
    created,    \* it found no file (the stat before the open)
    acked       \* the entries returned to callers (history)

diskVars == <<file, exists, synced, dirSynced>>
taskVars == <<pc, event, draft, created>>
vars == <<diskVars, lock, queue, taskVars, acked>>

Line(n, e, before, whole) == [seq |-> n, event |-> e, prev |-> before, whole |-> whole]
NoDraft == Line(0, NoEvent, <<>>, FALSE)

EventsOf(lines) == [i \in DOMAIN lines |-> lines[i].event]

\* verifyAuditLedger: every line complete, numbered, and chained to the last.
Verified(lines) ==
    \A i \in DOMAIN lines :
        /\ lines[i].whole
        /\ lines[i].seq = i
        /\ lines[i].prev = EventsOf(SubSeq(lines, 1, i - 1))

Steps == {"idle", "queued", "locked", "write", "rest", "sync", "syncDir",
          "succeed", "throw"}

\* The steps between creating the lock file and removing it.
InLock == {"locked", "write", "rest", "sync", "syncDir", "succeed", "throw"}

LineType == [seq : Nat, event : Events \cup {NoEvent}, prev : Seq(Events), whole : BOOLEAN]

TypeOK ==
    /\ file \in Seq(LineType)
    /\ exists \in BOOLEAN
    /\ synced \in Nat
    /\ dirSynced \in BOOLEAN
    /\ lock \in Tasks \cup {Free, Stale}
    /\ queue \in [Procs -> Seq(Tasks)]
    /\ pc \in [Tasks -> Steps]
    /\ event \in [Tasks -> Events \cup {NoEvent}]
    /\ draft \in [Tasks -> LineType]
    /\ created \in [Tasks -> BOOLEAN]
    /\ acked \subseteq [seq : Nat, event : Events]

Init ==
    /\ file = <<>>
    /\ exists = FALSE
    /\ synced = 0
    /\ dirSynced = FALSE
    /\ lock = Free
    /\ queue = [p \in Procs |-> <<>>]
    /\ pc = [t \in Tasks |-> "idle"]
    /\ event = [t \in Tasks |-> NoEvent]
    /\ draft = [t \in Tasks |-> NoDraft]
    /\ created = [t \in Tasks |-> FALSE]
    /\ acked = {}

-----------------------------------------------------------------------------
(* One append.                                                             *)

Goto(t, step) == pc' = [pc EXCEPT ![t] = step]
At(t, step, next) == pc[t] = step /\ Goto(t, next)

\* The local state of a task is forgotten when its call returns or throws.
Forget(t) ==
    /\ Goto(t, "idle")
    /\ event' = [event EXCEPT ![t] = NoEvent]
    /\ draft' = [draft EXCEPT ![t] = NoDraft]
    /\ created' = [created EXCEPT ![t] = FALSE]

Enqueue(t, e) ==
    /\ At(t, "idle", "queued")
    /\ Len(file) < MaxRecords
    /\ event' = [event EXCEPT ![t] = e]
    /\ queue' = [queue EXCEPT ![ProcOf[t]] = Append(@, t)]
    /\ UNCHANGED <<diskVars, lock, draft, created, acked>>

\* Earlier appends of the same process are over ("await previous").
MyTurn(t) == pc[t] = "queued" /\ Head(queue[ProcOf[t]]) = t

LeaveQueue(t) == queue' = [queue EXCEPT ![ProcOf[t]] = Tail(@)]

\* Mutant: the lock file is opened without O_EXCL.
TakeLockShared(t) ==
    /\ MyTurn(t)
    /\ lock' = t
    /\ Goto(t, "locked")
    /\ UNCHANGED <<diskVars, queue, event, draft, created, acked>>

\* open(lockPath, "wx") succeeds only when there is no lock file.
TakeLock(t) ==
    /\ MyTurn(t)
    /\ lock = Free
    /\ lock' = t
    /\ Goto(t, "locked")
    /\ UNCHANGED <<diskVars, queue, event, draft, created, acked>>

\* Mutant: the lock is retried without a deadline.
LockRetries(t) == MyTurn(t) /\ lock # Free /\ UNCHANGED vars

\* EEXIST is retried every 25 ms until 10 s have passed (audit_lock_timeout);
\* any other error of open leaves the loop at once.
LockFails(t) ==
    /\ MyTurn(t)
    /\ LeaveQueue(t)
    /\ Forget(t)
    /\ UNCHANGED <<diskVars, lock, acked>>

Existing(e) == {i \in DOMAIN file : file[i].event = e}

\* Mutant: no look for an earlier completion of the same action.
PrepareAlways(t) ==
    /\ pc[t] = "locked"
    /\ \/ ~Verified(file) /\ Goto(t, "throw") /\ UNCHANGED <<draft, created>>
       \/ /\ Verified(file)
          /\ draft' = [draft EXCEPT ![t] =
                         Line(Len(file) + 1, event[t], EventsOf(file), TRUE)]
          /\ created' = [created EXCEPT ![t] = ~exists]
          /\ Goto(t, "write")
    /\ UNCHANGED <<diskVars, lock, queue, event, acked>>

\* Verify under the lock, look for an earlier completion of the same action,
\* prepare the record and find out whether the file exists.
Prepare(t) ==
    /\ pc[t] = "locked"
    /\ \/ ~Verified(file) /\ Goto(t, "throw") /\ UNCHANGED <<draft, created>>
       \/ /\ Verified(file) /\ event[t] \in Completions /\ Existing(event[t]) # {}
          /\ \E i \in Existing(event[t]) : draft' = [draft EXCEPT ![t] = file[i]]
          /\ Goto(t, "succeed") /\ UNCHANGED created
       \/ /\ Verified(file)
          /\ event[t] \in Plain \/ Existing(event[t]) = {}
          /\ draft' = [draft EXCEPT ![t] =
                         Line(Len(file) + 1, event[t], EventsOf(file), TRUE)]
          /\ created' = [created EXCEPT ![t] = ~exists]
          /\ Goto(t, "write")
    /\ UNCHANGED <<diskVars, lock, queue, event, acked>>

\* open(path, "a") and the first handle.write, which may be short.
WriteStart(t) ==
    /\ At(t, "write", "rest")
    /\ exists' = TRUE
    /\ file' = Append(file, [draft[t] EXCEPT !.whole = FALSE])
    /\ UNCHANGED <<synced, dirSynced, lock, queue, event, draft, created, acked>>

WriteRest(t) ==
    /\ At(t, "rest", "sync")
    /\ file' = [file EXCEPT ![Len(file)].whole = TRUE]
    /\ UNCHANGED <<exists, synced, dirSynced, lock, queue, event, draft, created, acked>>

Fsync(t) ==
    /\ At(t, "sync", IF created[t] THEN "syncDir" ELSE "succeed")
    /\ synced' = Len(file)
    /\ UNCHANGED <<file, exists, dirSynced, lock, queue, event, draft, created, acked>>

SyncParentDirectory(t) ==
    /\ At(t, "syncDir", "succeed")
    /\ dirSynced' = TRUE
    /\ UNCHANGED <<file, exists, synced, lock, queue, event, draft, created, acked>>

\* A read, write, sync or close throws; a failing open may have created the
\* file.  The lock file is removed all the same.
IOError(t) ==
    /\ pc[t] \in InLock \ {"throw"}
    /\ Goto(t, "throw")
    /\ exists' \in (IF pc[t] = "write" THEN {exists, TRUE} ELSE {exists})
    /\ UNCHANGED <<file, synced, dirSynced, lock, queue, event, draft, created, acked>>

\* The finally blocks: remove the lock file, release the in-process queue.
Finish(t) ==
    /\ \/ /\ pc[t] = "succeed"
          /\ lock' = Free
          /\ acked' = acked \cup {[seq |-> draft[t].seq, event |-> event[t]]}
       \/ /\ pc[t] = "throw"
          /\ lock' = Free
          /\ UNCHANGED acked
       \/ /\ pc[t] \in {"succeed", "throw"}  \* the unlink itself fails
          /\ lock' = Stale
          /\ UNCHANGED acked
    /\ LeaveQueue(t)
    /\ Forget(t)
    /\ UNCHANGED diskVars

Step(t) ==
    \/ TakeLock(t) \/ LockFails(t) \/ Prepare(t) \/ WriteStart(t)
    \/ WriteRest(t) \/ Fsync(t) \/ SyncParentDirectory(t) \/ IOError(t)
    \/ Finish(t)

-----------------------------------------------------------------------------
(* Crashes and the operator.                                               *)

\* A process dies: its promise chain and its calls are gone, what it wrote
\* and the lock file it holds remain.
Crash(p) ==
    LET gone == {t \in Tasks : ProcOf[t] = p}
    IN  /\ pc' = [t \in Tasks |-> IF t \in gone THEN "idle" ELSE pc[t]]
        /\ event' = [t \in Tasks |-> IF t \in gone THEN NoEvent ELSE event[t]]
        /\ draft' = [t \in Tasks |-> IF t \in gone THEN NoDraft ELSE draft[t]]
        /\ created' = [t \in Tasks |-> IF t \in gone THEN FALSE ELSE created[t]]
        /\ queue' = [queue EXCEPT ![p] = <<>>]
        /\ lock' = IF lock \in gone THEN Stale ELSE lock
        /\ UNCHANGED <<diskVars, acked>>

\* The only way a stale lock goes away (router/AUDIT_LOCK_RECOVERY.md): every
\* writer is quiesced and an operator removes the file.
OperatorRemovesLock ==
    /\ lock = Stale
    /\ \A t \in Tasks : pc[t] = "idle"
    /\ lock' = Free
    /\ UNCHANGED <<diskVars, queue, taskVars, acked>>

Next ==
    \/ \E t \in Tasks, e \in Events : Enqueue(t, e)
    \/ \E t \in Tasks : Step(t)
    \/ \E p \in Procs : Crash(p)
    \/ OperatorRemovesLock

Spec == Init /\ [][Next]_vars

\* The event loop resumes every pending append; timers and file operations end.
FairSpec == Spec /\ \A t \in Tasks : WF_vars(Step(t))

-----------------------------------------------------------------------------
(* Properties.                                                             *)

\* Whoever appends, dies or fails, all lines but a torn last one form the
\* chain that verifyAuditLedger accepts: no number or hash is used twice.
ChainIntact ==
    \/ Verified(file)
    \/ file # <<>> /\ ~Last(file).whole /\ Verified(Front(file))

\* An action's "reconciled" is in the ledger at most once, however often its
\* publication fails after the write and is retried (lines 274-299).
ReconciledOnce ==
    \A e \in Completions : \A i, j \in Existing(e) : i = j

\* "Acknowledge only after the audit file is synchronized" (line 349).
AckIsSynced == \A entry \in acked : entry.seq <= synced

\* And what it is for: an acknowledged record is still reachable after a power
\* loss, so the new file's directory entry was synchronized first.
AckIsReachable == acked # {} => dirSynced

\* Every append returns or throws: neither a stale lock nor the queue behind
\* a failed append of the same process blocks it for ever.
EveryAppendEnds == \A t \in Tasks : (pc[t] = "queued") ~> (pc[t] = "idle")

\* The ledger is an append-only log of its complete lines; only the last can be torn.
\* While a writer is between its two writes its record is not yet in the log, nor is
\* the log damaged.
Writing  == \E t \in Tasks : pc[t] = "rest"
Complete == IF file # <<>> /\ ~Last(file).whole THEN Front(file) ELSE file

Log == INSTANCE AppendLog WITH
    log <- EventsOf(Complete),
    damaged <- ~Verified(file) /\ ~Writing

\* Every behaviour of the writers is one of AppendLog.
ImplementsAppendLog == Log!Spec
=============================================================================

-------------------------- MODULE AuditLedgerProofs --------------------------
(***************************************************************************)
(* Theorems about the audit ledger, for any number of writer processes and *)
(* calls and a file of any length.                                         *)
(*                                                                         *)
(* Appending is the inductive invariant: the call inside the lock is the   *)
(* one the lock file names and is at the head of its queue (Alone, Queued),*)
(* the file is a chain whose last line may be torn (Chain), and the record *)
(* a call has prepared continues the file as it is now (Prepared).         *)
(***************************************************************************)
EXTENDS AuditLedger, SequenceTheorems, TLAPS

\* Whoever is between taking the lock and removing it is named by the lock
\* file, and it is its turn in its process.
Alone ==
    \A t \in Tasks : pc[t] \in InLock => lock = t /\ Head(queue[ProcOf[t]]) = t

InQueue(t) == \E i \in 1..Len(queue[ProcOf[t]]) : queue[ProcOf[t]][i] = t

\* A call that has begun knows its event and waits in the queue of its process.
Queued == \A t \in Tasks : pc[t] # "idle" => event[t] \in Events /\ InQueue(t)

\* What the first n lines say of themselves, whether they are complete or not.
Numbered(lines) ==
    \A i \in 1..Len(lines) :
        /\ lines[i].seq = i
        /\ lines[i].event \in Events
        /\ lines[i].prev = [k \in 1..(i - 1) |-> lines[k].event]

Whole(lines) == \A i \in 1..Len(lines) : lines[i].whole

Chain == Numbered(file) /\ \A i \in 1..(Len(file) - 1) : file[i].whole

\* Between the check under the lock and the write the file does not change.
Prepared ==
    \A t \in Tasks :
        /\ pc[t] = "write" =>
             /\ Whole(file)
             /\ draft[t] = Line(Len(file) + 1, event[t], EventsOf(file), TRUE)
             /\ event[t] \in Completions => Existing(event[t]) = {}
        /\ pc[t] = "rest" => file # <<>>

Appending == TypeOK /\ Alone /\ Queued /\ Chain /\ Prepared /\ ReconciledOnce

-----------------------------------------------------------------------------
(* The chain, line by line.                                                *)

\* The events of the first n lines.
LEMMA PrefixEvents ==
  ASSUME NEW lines \in Seq(LineType), NEW n \in 0..Len(lines)
  PROVE  EventsOf(SubSeq(lines, 1, n)) = [k \in 1..n |-> lines[k].event]
<1>1. \A k \in 1..n : lines[k] \in LineType
  BY ElementOfSeq
<1>2. /\ SubSeq(lines, 1, n) \in Seq(LineType)
      /\ Len(SubSeq(lines, 1, n)) = n
      /\ \A k \in 1..n : SubSeq(lines, 1, n)[k] = lines[k]
  BY <1>1, SubSeqProperties, LenProperties
<1>3. DOMAIN SubSeq(lines, 1, n) = 1..n
  BY <1>2, LenProperties
<1> QED
  BY <1>2, <1>3 DEF EventsOf

LEMMA AllEvents ==
  ASSUME NEW lines \in Seq(LineType), Numbered(lines)
  PROVE  /\ EventsOf(lines) = [k \in 1..Len(lines) |-> lines[k].event]
         /\ EventsOf(lines) \in Seq(Events)
<1>1. EventsOf(lines) = [k \in 1..Len(lines) |-> lines[k].event]
  BY LenProperties DEF EventsOf
<1>2. [k \in 1..Len(lines) |-> lines[k].event] \in [1..Len(lines) -> Events]
  BY DEF Numbered
<1> QED
  BY <1>1, <1>2, SeqDef, LenProperties

LEMMA WholeIsVerified ==
  ASSUME NEW lines \in Seq(LineType), Numbered(lines)
  PROVE  Verified(lines) <=> Whole(lines)
<1>1. DOMAIN lines = 1..Len(lines) /\ Len(lines) \in Nat
  BY LenProperties
<1>2. \A i \in 1..Len(lines) :
        EventsOf(SubSeq(lines, 1, i - 1)) = [k \in 1..(i - 1) |-> lines[k].event]
  BY <1>1, PrefixEvents
<1> QED
  BY <1>1, <1>2 DEF Verified, Whole, Numbered

LEMMA ChainIsIntact == Appending => ChainIntact
<1> SUFFICES ASSUME Appending, ~Verified(file) PROVE ChainIntact
  BY DEF ChainIntact
<1>1. file \in Seq(LineType) /\ Len(file) \in Nat /\ Numbered(file)
  BY LenProperties DEF Appending, TypeOK, Chain
<1>2. PICK i \in 1..Len(file) : ~file[i].whole
  BY <1>1, WholeIsVerified DEF Whole
<1>3. i = Len(file) /\ file # <<>> /\ ~Last(file).whole
  BY <1>1, <1>2, EmptySeq DEF Appending, Chain, Last
<1> DEFINE n == Len(file) - 1
           f == SubSeq(file, 1, n)
<1>4. n \in 0..Len(file)
  BY <1>1, <1>2
<1>5. \A k \in 1..n : file[k] \in LineType
  BY <1>1, ElementOfSeq
<1> HIDE DEF n
<1>6. f \in Seq(LineType) /\ Len(f) = n /\ \A k \in 1..n : f[k] = file[k]
  <2>1. n \in Nat /\ (IF 1 <= n THEN n - 1 + 1 ELSE 0) = n /\ n - 1 + 1 = n
    BY <1>1, <1>4
  <2> QED
    BY <1>5, <2>1, SubSeqProperties
<1> HIDE DEF f
<1>7. Numbered(f)
  <2> SUFFICES ASSUME NEW k \in 1..n
               PROVE  /\ f[k].seq = k /\ f[k].event \in Events
                      /\ f[k].prev = [m \in 1..(k - 1) |-> f[m].event]
    BY <1>6 DEF Numbered
  <2>1. k \in 1..Len(file)
    BY <1>1, <1>4
  <2>2. [m \in 1..(k - 1) |-> f[m].event] = [m \in 1..(k - 1) |-> file[m].event]
    BY <1>4, <1>6
  <2> QED
    BY <1>1, <1>6, <2>1, <2>2 DEF Numbered
<1>8. Whole(f)
  BY <1>6 DEF Appending, Chain, Whole, n
<1>9. Verified(f)
  BY <1>6, <1>7, <1>8, WholeIsVerified
<1> QED
  BY <1>3, <1>9 DEF ChainIntact, Front, f, n

-----------------------------------------------------------------------------
(* The queue of a process.                                                 *)

LEMMA QueueHead ==
  ASSUME Appending, NEW t \in Tasks, pc[t] # "idle"
  PROVE  /\ queue[ProcOf[t]] \in Seq(Tasks) /\ queue[ProcOf[t]] # <<>>
         /\ ProcOf[t] \in Procs
  BY LedgerAssumption, EmptySeq DEF Appending, TypeOK, Queued, InQueue

\* Who waits in a queue behind its head still waits when the head has left.
LEMMA QueueMoves ==
  ASSUME Appending, NEW t \in Tasks, pc[t] # "idle", Head(queue[ProcOf[t]]) = t, LeaveQueue(t)
  PROVE  /\ queue' \in [Procs -> Seq(Tasks)]
         /\ \A d \in Tasks \ {t} : InQueue(d) => InQueue(d)'
<1> DEFINE p == ProcOf[t]
<1>1. /\ p \in Procs /\ queue \in [Procs -> Seq(Tasks)]
      /\ queue[p] \in Seq(Tasks) /\ queue[p] # <<>>
  BY QueueHead DEF Appending, TypeOK
<1>2. /\ Tail(queue[p]) \in Seq(Tasks) /\ Len(Tail(queue[p])) = Len(queue[p]) - 1
      /\ \A i \in 1..Len(Tail(queue[p])) : Tail(queue[p])[i] = queue[p][i + 1]
      /\ Head(queue[p]) = queue[p][1] /\ Len(queue[p]) \in Nat
  BY <1>1, HeadTailProperties, LenProperties
<1>3. /\ queue' \in [Procs -> Seq(Tasks)]
      /\ queue'[p] = Tail(queue[p]) /\ \A q \in Procs \ {p} : queue'[q] = queue[q]
  BY <1>1, <1>2 DEF LeaveQueue
<1>4. ASSUME NEW d \in Tasks \ {t}, InQueue(d) PROVE InQueue(d)'
  <2>1. PICK i \in 1..Len(queue[ProcOf[d]]) : queue[ProcOf[d]][i] = d
    BY <1>4 DEF InQueue
  <2>2. CASE ProcOf[d] = p
    <3>1. i # 1
      BY <1>2, <2>1, <2>2
    <3>2. i - 1 \in 1..Len(queue'[p]) /\ queue'[p][i - 1] = d
      BY <1>2, <1>3, <2>1, <2>2, <3>1
    <3> QED
      BY <2>2, <3>2 DEF InQueue
  <2>3. CASE ProcOf[d] # p
    <3>1. queue'[ProcOf[d]] = queue[ProcOf[d]]
      BY <1>3, <2>3, LedgerAssumption
    <3> QED
      BY <2>1, <3>1 DEF InQueue
  <2> QED
    BY <2>2, <2>3
<1> QED
  BY <1>3, <1>4

\* The call inside the lock is alone there.
LEMMA NobodyElse ==
  ASSUME Appending, NEW t \in Tasks, pc[t] \in InLock
  PROVE  lock = t /\ \A d \in Tasks \ {t} : pc[d] \notin InLock
  BY DEF Appending, Alone

-----------------------------------------------------------------------------
(* The steps.                                                              *)

\* What the file says of itself is as it was.
LEMMA SameFile ==
  ASSUME Appending, UNCHANGED file
  PROVE  Chain' /\ ReconciledOnce'
  BY DEF Appending, Chain, Numbered, ReconciledOnce, Existing

LEMMA EnqueueStep ==
  ASSUME Appending, NEW t \in Tasks, NEW e \in Events, Enqueue(t, e)
  PROVE  Appending'
<1> USE DEF Appending
<1> DEFINE p == ProcOf[t]
<1>1. /\ pc[t] = "idle" /\ pc' = [pc EXCEPT ![t] = "queued"]
      /\ event' = [event EXCEPT ![t] = e]
      /\ queue' = [queue EXCEPT ![p] = Append(@, t)]
      /\ UNCHANGED <<diskVars, lock, draft, created, acked>>
  BY DEF Enqueue, At, Goto
<1>2. p \in Procs /\ queue[p] \in Seq(Tasks)
  BY LedgerAssumption DEF TypeOK
<1>3. /\ Append(queue[p], t) \in Seq(Tasks)
      /\ Len(Append(queue[p], t)) = Len(queue[p]) + 1 /\ Len(queue[p]) \in Nat
      /\ \A i \in 1..Len(queue[p]) : Append(queue[p], t)[i] = queue[p][i]
      /\ Append(queue[p], t)[Len(queue[p]) + 1] = t
  BY <1>2, AppendProperties, LenProperties
<1>4. /\ queue' \in [Procs -> Seq(Tasks)]
      /\ queue'[p] = Append(queue[p], t) /\ \A q \in Procs \ {p} : queue'[q] = queue[q]
  BY <1>1, <1>2, <1>3 DEF TypeOK
<1>5. TypeOK'
  BY <1>1, <1>4 DEF TypeOK, Steps, diskVars
<1>6. /\ pc'[t] = "queued" /\ event'[t] = e
      /\ \A d \in Tasks \ {t} : pc'[d] = pc[d] /\ event'[d] = event[d]
  BY <1>1 DEF TypeOK
<1>7. InQueue(t)'
  BY <1>3, <1>4 DEF InQueue
<1>8. ASSUME NEW d \in Tasks \ {t}, pc[d] # "idle"
      PROVE  InQueue(d)' /\ Head(queue'[ProcOf[d]]) = Head(queue[ProcOf[d]])
  <2>1. PICK i \in 1..Len(queue[ProcOf[d]]) : queue[ProcOf[d]][i] = d
    BY <1>8 DEF Queued, InQueue
  <2>2. CASE ProcOf[d] = p
    <3>1. i \in 1..Len(queue'[p]) /\ queue'[p][i] = d
      BY <1>3, <1>4, <2>1, <2>2
    <3>2. queue'[p] # <<>> /\ queue[p] # <<>> /\ queue'[p][1] = queue[p][1]
      BY <1>2, <1>3, <1>4, <2>1, <2>2, EmptySeq
    <3> QED
      BY <1>2, <1>3, <1>4, <2>2, <3>1, <3>2 DEF InQueue
  <2>3. CASE ProcOf[d] # p
    <3>1. queue'[ProcOf[d]] = queue[ProcOf[d]]
      BY <1>4, <2>3, LedgerAssumption
    <3> QED
      BY <2>1, <3>1 DEF InQueue
  <2> QED
    BY <2>2, <2>3
<1>9. Alone' /\ Queued'
  BY <1>1, <1>6, <1>7, <1>8 DEF Alone, Queued, InLock
<1>10. Chain' /\ ReconciledOnce'
  BY <1>1, SameFile DEF diskVars
<1>11. Prepared'
  BY <1>1, <1>6 DEF Prepared, Existing, Whole, diskVars
<1> QED
  BY <1>5, <1>9, <1>10, <1>11

\* A step that leaves the file alone and moves one call, none into the writes.
LEMMA FileKept ==
  ASSUME Appending, NEW t \in Tasks, UNCHANGED file,
         \A d \in Tasks \ {t} : pc'[d] \in {pc[d], "idle"}
                                /\ (pc'[d] = pc[d] => event'[d] = event[d] /\ draft'[d] = draft[d]),
         pc'[t] \notin {"write", "rest"}
  PROVE  Chain' /\ ReconciledOnce' /\ Prepared'
<1>1. Chain' /\ ReconciledOnce'
  BY SameFile
<1>2. Prepared'
  BY DEF Appending, Prepared, Existing, Whole
<1> QED
  BY <1>1, <1>2

LEMMA TakeLockStep == ASSUME Appending, NEW t \in Tasks, TakeLock(t) PROVE Appending'
<1> USE DEF Appending
<1>1. /\ pc[t] = "queued" /\ Head(queue[ProcOf[t]]) = t /\ lock = Free /\ lock' = t
      /\ pc' = [pc EXCEPT ![t] = "locked"]
      /\ UNCHANGED <<diskVars, queue, event, draft, created, acked>>
  BY DEF TakeLock, MyTurn, Goto
<1>2. TypeOK'
  BY <1>1 DEF TypeOK, Steps, diskVars
<1>3. pc'[t] = "locked" /\ \A d \in Tasks \ {t} : pc'[d] = pc[d] /\ pc[d] \notin InLock
  BY <1>1, LedgerAssumption DEF TypeOK, Alone
<1>4. Alone' /\ Queued'
  BY <1>1, <1>3 DEF Alone, Queued, InQueue
<1>5. Chain' /\ ReconciledOnce' /\ Prepared'
  BY <1>1, <1>3, FileKept DEF diskVars
<1> QED
  BY <1>2, <1>4, <1>5

\* A call that returns or throws leaves the queue and is forgotten.
LEMMA Leaves ==
  ASSUME Appending, NEW t \in Tasks, pc[t] # "idle", Head(queue[ProcOf[t]]) = t,
         LeaveQueue(t), Forget(t), UNCHANGED diskVars,
         lock' \in Tasks \cup {Free, Stale},
         acked' \subseteq [seq : Nat, event : Events],
         \A d \in Tasks \ {t} : pc[d] \in InLock => lock' = lock /\ Head(queue[ProcOf[d]]) # t
  PROVE  Appending'
<1> USE DEF Appending
<1>1. /\ pc' = [pc EXCEPT ![t] = "idle"] /\ event' = [event EXCEPT ![t] = NoEvent]
      /\ draft' = [draft EXCEPT ![t] = NoDraft] /\ created' = [created EXCEPT ![t] = FALSE]
  BY DEF Forget, Goto
<1>2. /\ pc'[t] = "idle"
      /\ \A d \in Tasks \ {t} : pc'[d] = pc[d] /\ event'[d] = event[d] /\ draft'[d] = draft[d]
  BY <1>1 DEF TypeOK
<1>3. NoDraft \in LineType
  BY EmptySeq DEF NoDraft, Line, LineType
<1>4. TypeOK'
  BY <1>1, <1>3, QueueMoves DEF TypeOK, Steps, diskVars
<1>5. Queued'
  BY <1>2, QueueMoves DEF Queued
<1>6. Alone'
  <2> SUFFICES ASSUME NEW d \in Tasks, pc'[d] \in InLock
               PROVE  lock' = d /\ Head(queue'[ProcOf[d]]) = d
    BY DEF Alone
  <2>1. d # t /\ pc[d] \in InLock /\ lock' = d
    BY <1>2 DEF InLock, Alone
  <2>2. Head(queue[ProcOf[d]]) = d /\ ProcOf[d] # ProcOf[t]
    BY <2>1 DEF Alone
  <2>3. queue'[ProcOf[d]] = queue[ProcOf[d]]
    BY <2>2, LedgerAssumption DEF LeaveQueue, TypeOK
  <2> QED
    BY <2>1, <2>2, <2>3
<1>7. Chain' /\ ReconciledOnce' /\ Prepared'
  BY <1>2, FileKept DEF diskVars
<1> QED
  BY <1>4, <1>5, <1>6, <1>7

LEMMA LockFailsStep == ASSUME Appending, NEW t \in Tasks, LockFails(t) PROVE Appending'
<1>1. /\ pc[t] = "queued" /\ Head(queue[ProcOf[t]]) = t
      /\ LeaveQueue(t) /\ Forget(t) /\ UNCHANGED <<diskVars, lock, acked>>
  BY DEF LockFails, MyTurn
<1>2. \A d \in Tasks \ {t} : pc[d] \in InLock => Head(queue[ProcOf[d]]) # t
  BY DEF Appending, Alone
<1> QED
  BY <1>1, <1>2, Leaves DEF Appending, TypeOK

LEMMA FinishStep == ASSUME Appending, NEW t \in Tasks, Finish(t) PROVE Appending'
<1>1. /\ pc[t] \in {"succeed", "throw"}
      /\ LeaveQueue(t) /\ Forget(t) /\ UNCHANGED diskVars
      /\ lock' \in {Free, Stale}
      /\ acked' \in {acked, acked \cup {[seq |-> draft[t].seq, event |-> event[t]]}}
  BY DEF Finish
<1>2. Head(queue[ProcOf[t]]) = t /\ pc[t] \in InLock
  BY <1>1 DEF Appending, Alone, InLock
<1>3. draft[t].seq \in Nat /\ event[t] \in Events
  BY <1>1 DEF Appending, TypeOK, LineType, Queued
<1>4. acked' \subseteq [seq : Nat, event : Events]
  BY <1>1, <1>3 DEF Appending, TypeOK
<1> QED
  BY <1>1, <1>2, <1>4, Leaves, NobodyElse

\* A step inside the lock that keeps it: the others are not there.
LEMMA StaysInLock ==
  ASSUME Appending, NEW t \in Tasks, NEW s \in InLock, pc[t] \in InLock, Goto(t, s),
         UNCHANGED <<lock, queue, event>>
  PROVE  /\ Alone' /\ Queued' /\ pc' \in [Tasks -> Steps] /\ pc'[t] = s
         /\ \A d \in Tasks \ {t} : pc'[d] = pc[d] /\ pc[d] \notin InLock
<1>1. pc' \in [Tasks -> Steps] /\ pc'[t] = s /\ \A d \in Tasks \ {t} : pc'[d] = pc[d]
  BY DEF Appending, TypeOK, Goto, InLock, Steps
<1>2. Queued'
  BY <1>1 DEF Appending, Queued, InQueue, InLock
<1>3. Alone'
  BY <1>1 DEF Appending, Alone
<1> QED
  BY <1>1, <1>2, <1>3, NobodyElse

LEMMA PrepareStep == ASSUME Appending, NEW t \in Tasks, Prepare(t) PROVE Appending'
<1> USE DEF Appending
<1>1. pc[t] = "locked" /\ pc[t] \in InLock /\ UNCHANGED <<diskVars, lock, queue, event, acked>>
  BY DEF Prepare, InLock
<1>2. event[t] \in Events /\ file \in Seq(LineType) /\ Len(file) \in Nat
      /\ DOMAIN file = 1..Len(file)
  BY <1>1, LenProperties DEF Queued, TypeOK
<1>3. CASE Goto(t, "throw") /\ UNCHANGED <<draft, created>>
  <2>1. /\ Alone' /\ Queued' /\ pc' \in [Tasks -> Steps] /\ pc'[t] = "throw"
        /\ \A d \in Tasks \ {t} : pc'[d] = pc[d]
    BY <1>1, <1>3, StaysInLock DEF InLock
  <2>2. TypeOK'
    BY <1>1, <1>3, <2>1 DEF TypeOK, diskVars
  <2>3. Chain' /\ ReconciledOnce' /\ Prepared'
    BY <1>1, <1>3, <2>1, FileKept DEF diskVars
  <2> QED
    BY <2>1, <2>2, <2>3
<1>4. CASE /\ \E i \in Existing(event[t]) : draft' = [draft EXCEPT ![t] = file[i]]
           /\ Goto(t, "succeed") /\ UNCHANGED created
  <2>1. PICK i \in 1..Len(file) : draft' = [draft EXCEPT ![t] = file[i]]
    BY <1>2, <1>4 DEF Existing
  <2>2. file[i] \in LineType
    BY <1>2, ElementOfSeq
  <2>3. /\ Alone' /\ Queued' /\ pc' \in [Tasks -> Steps] /\ pc'[t] = "succeed"
        /\ \A d \in Tasks \ {t} : pc'[d] = pc[d]
    BY <1>1, <1>4, StaysInLock DEF InLock
  <2>4. /\ draft' \in [Tasks -> LineType] /\ \A d \in Tasks \ {t} : draft'[d] = draft[d]
    BY <2>1, <2>2 DEF TypeOK
  <2>5. TypeOK'
    BY <1>1, <1>4, <2>3, <2>4 DEF TypeOK, diskVars
  <2>6. Chain' /\ ReconciledOnce' /\ Prepared'
    BY <1>1, <2>3, <2>4, FileKept DEF diskVars
  <2> QED
    BY <2>3, <2>5, <2>6
<1>5. CASE /\ Verified(file)
           /\ event[t] \in Plain \/ Existing(event[t]) = {}
           /\ draft' = [draft EXCEPT ![t] = Line(Len(file) + 1, event[t], EventsOf(file), TRUE)]
           /\ created' = [created EXCEPT ![t] = ~exists]
           /\ Goto(t, "write")
  <2>1. /\ Alone' /\ Queued' /\ pc' \in [Tasks -> Steps] /\ pc'[t] = "write"
        /\ \A d \in Tasks \ {t} : pc'[d] = pc[d] /\ pc[d] \notin InLock
    BY <1>1, <1>5, StaysInLock DEF InLock
  <2>2. EventsOf(file) \in Seq(Events) /\ Whole(file)
    BY <1>2, <1>5, AllEvents, WholeIsVerified DEF Chain
  <2>3. Line(Len(file) + 1, event[t], EventsOf(file), TRUE) \in LineType
    BY <1>2, <2>2 DEF Line, LineType
  <2>4. TypeOK'
    <3>1. draft' \in [Tasks -> LineType] /\ created' \in [Tasks -> BOOLEAN]
      BY <1>5, <2>3 DEF TypeOK
    <3> QED
      BY <1>1, <2>1, <3>1 DEF TypeOK, diskVars
  <2>5. draft'[t] = Line(Len(file) + 1, event[t], EventsOf(file), TRUE)
    BY <1>5 DEF TypeOK
  <2>6. event[t] \in Completions => Existing(event[t]) = {}
    BY <1>5, LedgerAssumption
  <2>7. Chain' /\ ReconciledOnce'
    BY <1>1, SameFile DEF diskVars
  <2>8. Prepared'
    BY <1>1, <2>1, <2>2, <2>5, <2>6 DEF Prepared, Existing, Whole, InLock, diskVars
  <2> QED
    BY <2>1, <2>4, <2>7, <2>8
<1> QED
  BY <1>3, <1>4, <1>5 DEF Prepare

LEMMA WriteStartStep == ASSUME Appending, NEW t \in Tasks, WriteStart(t) PROVE Appending'
<1> USE DEF Appending
<1> DEFINE n == Len(file)
           line == [draft[t] EXCEPT !.whole = FALSE]
<1>1. /\ pc[t] = "write" /\ pc[t] \in InLock /\ Goto(t, "rest")
      /\ exists' = TRUE /\ file' = Append(file, line)
      /\ UNCHANGED <<synced, dirSynced, lock, queue, event, draft, created, acked>>
  BY DEF WriteStart, At, InLock
<1>2. /\ file \in Seq(LineType) /\ n \in Nat /\ DOMAIN file = 1..n /\ draft[t] \in LineType
      /\ event[t] \in Events
  BY <1>1, LenProperties DEF TypeOK, Queued
<1>3. /\ line.seq = n + 1 /\ line.event = event[t] /\ line.prev = EventsOf(file)
      /\ line \in LineType
  <2>1. draft[t] = Line(n + 1, event[t], EventsOf(file), TRUE)
    BY <1>1 DEF Prepared
  <2>2. draft[t].seq = n + 1 /\ draft[t].event = event[t] /\ draft[t].prev = EventsOf(file)
    BY <2>1 DEF Line
  <2>3. /\ line \in LineType /\ line.seq = draft[t].seq /\ line.event = draft[t].event
        /\ line.prev = draft[t].prev
    BY <1>2 DEF LineType
  <2> QED
    BY <2>2, <2>3
<1>4. EventsOf(file) = [k \in 1..n |-> file[k].event] /\ Whole(file)
  BY <1>1, <1>2, AllEvents DEF Chain, Prepared
<1> HIDE DEF line, n
<1>5. /\ file' \in Seq(LineType) /\ file' # <<>> /\ Len(file') = n + 1
      /\ DOMAIN file' = 1..(n + 1)
      /\ \A k \in 1..n : file'[k] = file[k]
      /\ file'[n + 1] = line
  <2>1. /\ file' \in Seq(LineType) /\ file' # <<>> /\ Len(file') = n + 1
        /\ \A k \in 1..n : file'[k] = file[k]
        /\ file'[n + 1] = line
    <3>1. /\ Append(file, line) \in Seq(LineType) /\ Append(file, line) # <<>>
          /\ Len(Append(file, line)) = Len(file) + 1
          /\ \A k \in 1..Len(file) : Append(file, line)[k] = file[k]
          /\ Append(file, line)[Len(file) + 1] = line
      BY <1>2, <1>3, AppendProperties
    <3> QED
      BY <1>1, <3>1 DEF n
  <2>2. DOMAIN file' = 1..Len(file')
    BY <2>1, LenProperties
  <2> QED
    BY <2>1, <2>2
<1>6. /\ Alone' /\ Queued' /\ pc' \in [Tasks -> Steps] /\ pc'[t] = "rest"
      /\ \A d \in Tasks \ {t} : pc'[d] = pc[d] /\ pc[d] \notin InLock
  BY <1>1, StaysInLock DEF InLock
<1>7. TypeOK'
  BY <1>1, <1>5, <1>6 DEF TypeOK
<1>8. Chain'
  <2>1. ASSUME NEW i \in 1..(n + 1)
        PROVE  /\ file'[i].seq = i /\ file'[i].event \in Events
               /\ file'[i].prev = [k \in 1..(i - 1) |-> file'[k].event]
    <3>1. CASE i = n + 1
      <4>1. [k \in 1..n |-> file[k].event] = [k \in 1..n |-> file'[k].event]
        BY <1>5
      <4>2. /\ line.seq = n + 1 /\ line.event = event[t]
            /\ line.prev = [k \in 1..n |-> file[k].event]
        BY <1>3, <1>4
      <4>3. i - 1 = n
        BY <1>2, <3>1
      <4> QED
        BY <1>2, <1>5, <3>1, <4>1, <4>2, <4>3
    <3>2. CASE i # n + 1
      <4>1. i \in 1..n /\ file'[i] = file[i]
        BY <1>2, <1>5, <3>2
      <4>2. [k \in 1..(i - 1) |-> file[k].event] = [k \in 1..(i - 1) |-> file'[k].event]
        BY <1>2, <1>5, <4>1
      <4> QED
        BY <4>1, <4>2 DEF Chain, Numbered, n
    <3> QED
      BY <3>1, <3>2
  <2>2. \A i \in 1..n : file'[i].whole
    BY <1>4, <1>5 DEF Whole, n
  <2> QED
    BY <1>2, <1>5, <2>1, <2>2 DEF Chain, Numbered
<1>9. ReconciledOnce'
  <2> SUFFICES ASSUME NEW e \in Completions, NEW i \in Existing(e)', NEW j \in Existing(e)'
               PROVE  i = j
    BY DEF ReconciledOnce
  <2>1. /\ i \in 1..(n + 1) /\ j \in 1..(n + 1) /\ file'[i].event = e /\ file'[j].event = e
    BY <1>5 DEF Existing
  <2>2. line.event = event[t]
    BY <1>3
  <2>3. CASE i \in 1..n /\ j \in 1..n
    BY <1>2, <1>5, <2>1, <2>3 DEF ReconciledOnce, Existing
  <2>4. CASE event[t] = e
    <3>1. Existing(e) = {}
      BY <1>1, <2>4 DEF Prepared
    <3> QED
      BY <1>2, <1>5, <2>1, <3>1 DEF Existing
  <2>5. CASE event[t] # e
    BY <1>2, <1>5, <2>1, <2>2, <2>3, <2>5
  <2> QED
    BY <2>4, <2>5
<1>10. Prepared'
  BY <1>5, <1>6 DEF Prepared, InLock
<1> QED
  BY <1>6, <1>7, <1>8, <1>9, <1>10

LEMMA WriteRestStep == ASSUME Appending, NEW t \in Tasks, WriteRest(t) PROVE Appending'
<1> USE DEF Appending
<1> DEFINE n == Len(file)
<1>1. /\ pc[t] = "rest" /\ pc[t] \in InLock /\ Goto(t, "sync")
      /\ file' = [file EXCEPT ![n].whole = TRUE]
      /\ UNCHANGED <<exists, synced, dirSynced, lock, queue, event, draft, created, acked>>
  BY DEF WriteRest, At, InLock
<1>2. file \in Seq(LineType) /\ n \in 1..n /\ n \in Nat
  <2>1. file \in Seq(LineType) /\ file # <<>>
    BY <1>1 DEF TypeOK, Prepared
  <2>2. n \in Nat \ {0}
    BY <2>1, EmptySeq
  <2> QED
    BY <2>1, <2>2
<1> DEFINE line == [file[n] EXCEPT !.whole = TRUE]
<1>3. file[n] \in LineType
  BY <1>2, ElementOfSeq
<1>4. /\ line \in LineType /\ line.seq = file[n].seq /\ line.event = file[n].event
      /\ line.prev = file[n].prev
  BY <1>3 DEF LineType
<1>5. file' = [file EXCEPT ![n] = line]
  BY <1>1
<1> HIDE DEF line, n
<1>6. /\ file' \in Seq(LineType) /\ Len(file') = n /\ DOMAIN file' = 1..n /\ DOMAIN file = 1..n
      /\ file'[n] = line /\ \A k \in 1..n : k # n => file'[k] = file[k]
  BY <1>2, <1>4, <1>5, ExceptSeq, LenProperties DEF n
<1>7. \A k \in 1..n : /\ file'[k].seq = file[k].seq /\ file'[k].event = file[k].event
                      /\ file'[k].prev = file[k].prev
  BY <1>4, <1>6
<1>8. /\ Alone' /\ Queued' /\ pc' \in [Tasks -> Steps] /\ pc'[t] = "sync"
      /\ \A d \in Tasks \ {t} : pc'[d] = pc[d] /\ pc[d] \notin InLock
  BY <1>1, StaysInLock DEF InLock
<1>9. TypeOK'
  BY <1>1, <1>6, <1>8 DEF TypeOK
<1>10. Chain'
  <2>1. ASSUME NEW i \in 1..n
        PROVE  /\ file'[i].seq = i /\ file'[i].event \in Events
               /\ file'[i].prev = [k \in 1..(i - 1) |-> file'[k].event]
    <3>1. [k \in 1..(i - 1) |-> file[k].event] = [k \in 1..(i - 1) |-> file'[k].event]
      BY <1>2, <1>7
    <3> QED
      BY <1>7, <3>1 DEF Chain, Numbered, n
  <2>2. ASSUME NEW i \in 1..(n - 1) PROVE file'[i].whole
    <3>1. i \in 1..n /\ i # n
      BY <1>2
    <3>2. file[i].whole
      BY DEF Chain, n
    <3> QED
      BY <1>6, <3>1, <3>2
  <2> QED
    BY <1>6, <2>1, <2>2 DEF Chain, Numbered
<1>11. ReconciledOnce'
  BY <1>6, <1>7 DEF ReconciledOnce, Existing
<1>12. Prepared'
  BY <1>8 DEF Prepared, InLock
<1> QED
  BY <1>8, <1>9, <1>10, <1>11, <1>12

\* Fsync, the synchronization of the directory, and an error.
LEMMA OtherStep ==
  ASSUME Appending, NEW t \in Tasks, Fsync(t) \/ SyncParentDirectory(t) \/ IOError(t)
  PROVE  Appending'
<1> USE DEF Appending
<1>1. /\ pc[t] \in InLock
      /\ UNCHANGED <<file, lock, queue, event, draft, created, acked>>
      /\ exists' \in {exists, TRUE} /\ synced' \in {synced, Len(file)}
      /\ dirSynced' \in {dirSynced, TRUE}
  BY DEF Fsync, SyncParentDirectory, IOError, At, InLock
<1>2. PICK s \in {"syncDir", "succeed", "throw"} : Goto(t, s)
  BY DEF Fsync, SyncParentDirectory, IOError, At
<1>3. /\ Alone' /\ Queued' /\ pc' \in [Tasks -> Steps] /\ pc'[t] = s
      /\ \A d \in Tasks \ {t} : pc'[d] = pc[d]
  BY <1>1, <1>2, StaysInLock DEF InLock
<1>4. TypeOK'
  BY <1>1, <1>3, LenProperties DEF TypeOK
<1>5. Chain' /\ ReconciledOnce' /\ Prepared'
  BY <1>1, <1>3, FileKept
<1> QED
  BY <1>3, <1>4, <1>5

-----------------------------------------------------------------------------
(* Crashes and the operator.                                               *)

LEMMA CrashStep == ASSUME Appending, NEW p \in Procs, Crash(p) PROVE Appending'
<1> USE DEF Appending
<1> DEFINE gone == {t \in Tasks : ProcOf[t] = p}
<1>1. /\ pc' = [t \in Tasks |-> IF t \in gone THEN "idle" ELSE pc[t]]
      /\ event' = [t \in Tasks |-> IF t \in gone THEN NoEvent ELSE event[t]]
      /\ draft' = [t \in Tasks |-> IF t \in gone THEN NoDraft ELSE draft[t]]
      /\ created' = [t \in Tasks |-> IF t \in gone THEN FALSE ELSE created[t]]
      /\ queue' = [queue EXCEPT ![p] = <<>>]
      /\ lock' = IF lock \in gone THEN Stale ELSE lock
      /\ UNCHANGED <<diskVars, acked>>
  BY DEF Crash
<1>2. NoDraft \in LineType /\ <<>> \in Seq(Tasks)
  BY EmptySeq DEF NoDraft, Line, LineType
<1>3. /\ \A d \in Tasks \ gone :
           pc'[d] = pc[d] /\ event'[d] = event[d] /\ draft'[d] = draft[d]
                                 /\ queue'[ProcOf[d]] = queue[ProcOf[d]]
      /\ \A d \in gone : pc'[d] = "idle"
  BY <1>1, LedgerAssumption DEF TypeOK
<1>4. TypeOK'
  <2>1. pc' \in [Tasks -> Steps] /\ event' \in [Tasks -> Events \cup {NoEvent}]
    BY <1>1 DEF TypeOK, Steps
  <2>2. draft' \in [Tasks -> LineType] /\ created' \in [Tasks -> BOOLEAN]
    BY <1>1, <1>2 DEF TypeOK
  <2>3. queue' \in [Procs -> Seq(Tasks)] /\ lock' \in Tasks \cup {Free, Stale}
    BY <1>1, <1>2 DEF TypeOK
  <2> QED
    BY <1>1, <2>1, <2>2, <2>3 DEF TypeOK, diskVars
<1> HIDE DEF gone
<1>5. Alone'
  <2> SUFFICES ASSUME NEW d \in Tasks, pc'[d] \in InLock
               PROVE  lock' = d /\ Head(queue'[ProcOf[d]]) = d
    BY DEF Alone
  <2>1. d \notin gone
    BY <1>3 DEF InLock
  <2> QED
    BY <1>1, <1>3, <2>1 DEF Alone
<1>6. Queued'
  BY <1>3 DEF Queued, InQueue
<1>7. Chain' /\ ReconciledOnce'
  BY <1>1, SameFile DEF diskVars
<1>8. Prepared'
  BY <1>1, <1>3 DEF Prepared, Existing, Whole, diskVars
<1> QED
  BY <1>4, <1>5, <1>6, <1>7, <1>8

LEMMA OperatorStep == ASSUME Appending, OperatorRemovesLock PROVE Appending'
<1> USE DEF Appending, OperatorRemovesLock
<1>1. TypeOK'
  BY DEF TypeOK, diskVars, taskVars
<1>2. Alone' /\ Queued'
  BY DEF Alone, Queued, InLock, taskVars
<1>3. Chain' /\ ReconciledOnce'
  BY SameFile DEF diskVars
<1>4. Prepared'
  BY DEF Prepared, Existing, Whole, diskVars, taskVars
<1> QED
  BY <1>1, <1>2, <1>3, <1>4

-----------------------------------------------------------------------------
(* The theorems.                                                           *)

LEMMA AppendingInit == Init => Appending
<1> SUFFICES ASSUME Init PROVE Appending
  OBVIOUS
<1> USE DEF Init
<1>1. <<>> \in Seq(LineType) /\ <<>> \in Seq(Tasks) /\ Len(file) = 0 /\ DOMAIN file = {}
  BY EmptySeq, LenProperties
<1>2. NoDraft \in LineType
  BY EmptySeq DEF NoDraft, Line, LineType
<1>3. TypeOK
  BY <1>1, <1>2 DEF TypeOK, Steps
<1>4. Alone /\ Queued /\ Prepared
  BY DEF Alone, Queued, Prepared, InLock
<1>5. Chain /\ ReconciledOnce
  BY <1>1 DEF Chain, Numbered, ReconciledOnce, Existing
<1> QED
  BY <1>3, <1>4, <1>5 DEF Appending

LEMMA AppendingStep == Appending /\ [Next]_vars => Appending'
<1> SUFFICES ASSUME Appending, [Next]_vars PROVE Appending'
  OBVIOUS
<1>1. CASE UNCHANGED vars
  <2>1. Chain' /\ ReconciledOnce'
    BY <1>1, SameFile DEF vars, diskVars
  <2>2. TypeOK' /\ Alone' /\ Queued' /\ Prepared'
    BY <1>1 DEF vars, diskVars, taskVars, Appending, TypeOK, Alone, Queued, InQueue, Prepared,
                Whole, Existing
  <2> QED
    BY <2>1, <2>2 DEF Appending
<1>2. CASE \E t \in Tasks, e \in Events : Enqueue(t, e)
  BY <1>2, EnqueueStep
<1>3. CASE \E t \in Tasks : Step(t)
  BY <1>3, TakeLockStep, LockFailsStep, PrepareStep, WriteStartStep, WriteRestStep, OtherStep,
     FinishStep DEF Step
<1>4. CASE \E p \in Procs : Crash(p)
  BY <1>4, CrashStep
<1>5. CASE OperatorRemovesLock
  BY <1>5, OperatorStep
<1> QED
  BY <1>1, <1>2, <1>3, <1>4, <1>5 DEF Next

\* The inductive invariant of the ledger holds in every reachable state.
THEOREM AlwaysAppending == Spec => []Appending
  BY AppendingInit, AppendingStep, PTL DEF Spec

\* Every variable keeps its type, whoever crashes or fails.
THEOREM LedgerTypeCorrect == Spec => []TypeOK
<1>1. Appending => TypeOK
  BY DEF Appending
<1> QED
  BY AlwaysAppending, <1>1, PTL

\* verifyAuditLedger accepts every file the writers leave, up to a torn last
\* line: withAuditFileLock keeps two appends from using one number or hash.
THEOREM ChainKept == Spec => []ChainIntact
  BY AlwaysAppending, ChainIsIntact, PTL

\* A "reconciled" event is recorded at most once per action although its
\* publication is retried (appendAuditEvent returns the existing entry).
THEOREM CompletedOnce == Spec => []ReconciledOnce
<1>1. Appending => ReconciledOnce
  BY DEF Appending
<1> QED
  BY AlwaysAppending, <1>1, PTL

-----------------------------------------------------------------------------
(* The append-only log.                                                    *)

Torn == file # <<>> /\ ~file[Len(file)].whole

\* The log is the events of the lines but a torn last one, which alone damages it.
Logged ==
    /\ Len(file) \in Nat /\ (Torn => Len(file) > 0)
    /\ EventsOf(Complete) =
         [k \in 1..(IF Torn THEN Len(file) - 1 ELSE Len(file)) |-> file[k].event]
    /\ Verified(file) <=> ~Torn

LEMMA LogOfFile == Appending => Logged
<1> SUFFICES ASSUME Appending PROVE Logged
  OBVIOUS
<1> USE DEF Logged
<1>1. /\ file \in Seq(LineType) /\ Len(file) \in Nat /\ Numbered(file)
      /\ \A i \in 1..(Len(file) - 1) : file[i].whole
  BY LenProperties DEF Appending, TypeOK, Chain
<1>2. file # <<>> <=> Len(file) > 0
  BY <1>1, EmptySeq
<1>3. Verified(file) <=> ~Torn
  BY <1>1, <1>2, WholeIsVerified DEF Whole, Torn
<1>4. CASE Torn
  <2>1. Complete = SubSeq(file, 1, Len(file) - 1)
    BY <1>4 DEF Complete, Torn, Last, Front
  <2>2. Len(file) - 1 \in 0..Len(file)
    BY <1>1, <1>2, <1>4 DEF Torn
  <2> QED
    BY <1>1, <1>2, <1>3, <1>4, <2>1, <2>2, PrefixEvents DEF Torn
<1>5. CASE ~Torn
  <2>1. Complete = file
    BY <1>5 DEF Complete, Torn, Last
  <2> QED
    BY <1>1, <1>2, <1>3, <1>5, <2>1, AllEvents
<1> QED
  BY <1>4, <1>5

\* A step that does not touch the file adds nothing; that the writer of a torn record
\* gives up is what damages the log.
LEMMA NothingAdded ==
  ASSUME Appending, UNCHANGED file, \A t \in Tasks : pc'[t] = "rest" => pc[t] = "rest"
  PROVE  [Log!Next]_Log!vars
<1>1. EventsOf(Complete)' = EventsOf(Complete) /\ Verified(file)' = Verified(file)
  BY DEF EventsOf, Complete, Verified
<1>2. Writing' => Writing
  BY DEF Writing
<1> QED
  BY <1>1, <1>2 DEF Log!Next, Log!Damage, Log!vars

\* The first write of a record shows nothing of it.
LEMMA WriteStartMaps ==
  ASSUME Appending, Appending', NEW t \in Tasks, WriteStart(t)
  PROVE  UNCHANGED Log!vars
<1> DEFINE n == Len(file)
           line == [draft[t] EXCEPT !.whole = FALSE]
<1>1. /\ pc[t] = "write" /\ pc' = [pc EXCEPT ![t] = "rest"] /\ file' = Append(file, line)
  BY DEF WriteStart, At, Goto
<1>2. file \in Seq(LineType) /\ draft[t] \in LineType /\ n \in Nat /\ Whole(file)
  BY <1>1, LenProperties DEF Appending, TypeOK, Prepared
<1>3. line \in LineType /\ line.whole = FALSE
  BY <1>2 DEF LineType
<1> HIDE DEF line
<1>4. /\ Len(file') = n + 1 /\ file'[n + 1] = line /\ file' # <<>>
      /\ \A k \in 1..n : file'[k] = file[k]
  BY <1>1, <1>2, <1>3, AppendProperties
<1>5. ~Torn
  BY <1>2, EmptySeq DEF Torn, Whole
<1>6. Torn'
  BY <1>3, <1>4 DEF Torn
<1>7. EventsOf(Complete) = [k \in 1..n |-> file[k].event] /\ Verified(file)
  BY <1>5, LogOfFile DEF Logged
<1>8. EventsOf(Complete)' = [k \in 1..(n + 1 - 1) |-> file'[k].event]
  <2>1. Logged'
    BY LogOfFile, PTL
  <2> QED
    BY <1>4, <1>6, <2>1 DEF Logged
<1>9. EventsOf(Complete)' = EventsOf(Complete)
  BY <1>2, <1>4, <1>7, <1>8
<1>10. Writing'
  BY <1>1 DEF Writing, Appending, TypeOK
<1> QED
  BY <1>7, <1>9, <1>10 DEF Log!vars

\* The second write adds the record; a completion is not there yet.
LEMMA WriteRestMaps ==
  ASSUME Appending, Appending', NEW t \in Tasks, WriteRest(t)
  PROVE  [Log!Next]_Log!vars
<1> DEFINE n == Len(file)
           e == file[n].event
<1>1. /\ pc[t] = "rest" /\ pc' = [pc EXCEPT ![t] = "sync"]
      /\ file' = [file EXCEPT ![n].whole = TRUE]
  BY DEF WriteRest, At, Goto
<1>2. file \in Seq(LineType) /\ file # <<>> /\ n \in 1..n /\ n \in Nat /\ DOMAIN file = 1..n
  <2>1. file \in Seq(LineType) /\ file # <<>>
    BY <1>1 DEF Appending, TypeOK, Prepared
  <2> QED
    BY <2>1, EmptySeq, LenProperties
<1> DEFINE line == [file[n] EXCEPT !.whole = TRUE]
<1>3. file[n] \in LineType
  BY <1>2, ElementOfSeq
<1>4. line \in LineType /\ line.event = e /\ line.whole = TRUE
  BY <1>3 DEF LineType
<1>5. file' = [file EXCEPT ![n] = line]
  BY <1>1
<1>6. e \in Events
  BY <1>2 DEF Appending, Chain, Numbered
<1> HIDE DEF line
<1>7. \A k \in 1..n : file[k].event \in Events
  BY DEF Appending, Chain, Numbered
<1>8. /\ Len(file') = n /\ file'[n] = line /\ file' # <<>>
      /\ \A k \in 1..n : k # n => file'[k] = file[k]
  <2> HIDE DEF n
  <2>1. Len(file') = n /\ file' \in Seq(LineType)
    BY <1>2, <1>4, <1>5, ExceptSeq, LenProperties DEF n
  <2> QED
    BY <1>2, <1>5, <2>1, EmptySeq
<1>9. ~Torn'
  BY <1>4, <1>8 DEF Torn
<1>10. \A k \in 1..n : file'[k].event = file[k].event
  BY <1>4, <1>8
<1>11. Logged /\ Logged'
  BY LogOfFile, PTL
<1>12. EventsOf(Complete)' = [k \in 1..n |-> file[k].event] /\ Verified(file)'
  <2>1. [k \in 1..n |-> file'[k].event] = [k \in 1..n |-> file[k].event]
    BY <1>10
  <2> QED
    BY <1>8, <1>9, <1>11, <2>1 DEF Logged
<1>13. \A k \in 1..(n - 1) : k \in 1..n /\ k # n
  <2> HIDE DEF n
  <2> QED
    BY <1>2
<1>14. Writing
  BY <1>1 DEF Writing
<1>15. CASE Torn
  <2> DEFINE shorter == EventsOf(Complete)
  <2>1. shorter = [k \in 1..(n - 1) |-> file[k].event]
    BY <1>11, <1>15 DEF Logged
  <2>2. EventsOf(Complete)' = Append(shorter, e)
    <3>1. shorter \in Seq(Events) /\ Len(shorter) = n - 1
      <4>1. n - 1 \in Nat /\ \A k \in 1..(n - 1) : file[k].event \in Events
        BY <1>7, <1>2
      <4>2. [k \in 1..(n - 1) |-> file[k].event] \in [1..(n - 1) -> Events]
        BY <4>1
      <4> HIDE DEF n, shorter
      <4>3. shorter \in Seq(Events)
        BY <2>1, <4>1, <4>2, SeqDef
      <4> QED
        BY <2>1, <4>1, <4>3, LenProperties
    <3> HIDE DEF shorter, n, e
    <3>5. n - 1 \in Nat /\ n - 1 + 1 = n
      BY <1>2
    <3>2. /\ Len(Append(shorter, e)) = n /\ Append(shorter, e) \in Seq(Events)
          /\ Append(shorter, e)[n] = e
          /\ \A k \in 1..(n - 1) : Append(shorter, e)[k] = shorter[k]
      BY <1>6, <3>1, <3>5, AppendProperties
    <3>3. Append(shorter, e) = [k \in 1..n |-> Append(shorter, e)[k]]
      BY <3>2, LenProperties
    <3>4. \A k \in 1..n : Append(shorter, e)[k] = file[k].event
      <4> SUFFICES ASSUME NEW k \in 1..n PROVE Append(shorter, e)[k] = file[k].event
        OBVIOUS
      <4>1. CASE k = n
        BY <3>2, <4>1 DEF e
      <4>2. CASE k # n
        BY <1>2, <2>1, <3>2, <4>2
      <4> QED
        BY <4>1, <4>2
    <3> QED
      BY <1>12, <3>3, <3>4
  <2>3. e \in Completions => ~ \E i \in DOMAIN shorter : shorter[i] = e
    <3> SUFFICES ASSUME e \in Completions, NEW i \in 1..(n - 1), file[i].event = e PROVE FALSE
      BY <2>1
    <3>2. i \in 1..n /\ i # n
      BY <1>13
    <3>1. i \in Existing(e) /\ n \in Existing(e) /\ i # n
      BY <1>2, <3>2 DEF Existing
    <3> QED
      BY <3>1 DEF Appending, ReconciledOnce
  <2> QED
    BY <1>6, <1>12, <1>14, <2>2, <2>3 DEF Log!Next, Log!Add, Log!Recorded, Log!vars
<1>16. CASE ~Torn
  BY <1>11, <1>12, <1>14, <1>16 DEF Logged, Log!vars
<1> QED
  BY <1>15, <1>16

LEMMA LogStep ==
  ASSUME Appending, Appending', [Next]_vars
  PROVE  [Log!Next]_Log!vars
<1>1. CASE UNCHANGED vars
  BY <1>1, NothingAdded DEF vars, diskVars, taskVars
<1>2. ASSUME NEW t \in Tasks, NEW e \in Events, Enqueue(t, e) PROVE [Log!Next]_Log!vars
  <2>1. UNCHANGED file /\ \A d \in Tasks : pc'[d] = "rest" => pc[d] = "rest"
    BY <1>2 DEF Enqueue, At, Goto, diskVars, Appending, TypeOK
  <2> QED
    BY <2>1, NothingAdded
<1>3. ASSUME NEW t \in Tasks, Step(t) PROVE [Log!Next]_Log!vars
  <2>1. CASE WriteStart(t)
    BY <2>1, WriteStartMaps
  <2>2. CASE WriteRest(t)
    BY <2>2, WriteRestMaps
  <2>3. CASE TakeLock(t) \/ LockFails(t) \/ Prepare(t) \/ Fsync(t) \/ SyncParentDirectory(t)
             \/ IOError(t) \/ Finish(t)
    <3>1. UNCHANGED file
      BY <2>3 DEF TakeLock, LockFails, Prepare, Fsync, SyncParentDirectory, IOError, Finish,
                  diskVars
    <3>2. \E s \in Steps \ {"rest"} : Goto(t, s)
      BY <2>3 DEF TakeLock, LockFails, Prepare, Fsync, SyncParentDirectory, IOError, Finish,
                  Forget, At, Steps
    <3>3. \A d \in Tasks : pc'[d] = "rest" => pc[d] = "rest"
      BY <3>2 DEF Goto, Appending, TypeOK
    <3> QED
      BY <3>1, <3>3, NothingAdded
  <2> QED
    BY <1>3, <2>1, <2>2, <2>3 DEF Step
<1>4. ASSUME NEW p \in Procs, Crash(p) PROVE [Log!Next]_Log!vars
  <2>1. UNCHANGED file /\ \A d \in Tasks : pc'[d] = "rest" => pc[d] = "rest"
    BY <1>4 DEF Crash, diskVars
  <2> QED
    BY <2>1, NothingAdded
<1>5. CASE OperatorRemovesLock
  BY <1>5, NothingAdded DEF OperatorRemovesLock, diskVars, taskVars
<1> QED
  BY <1>1, <1>2, <1>3, <1>4, <1>5 DEF Next

\* The writers implement the append-only log: each call adds its record at the end
\* with its second write, a completion only once, and only a writer that fails or dies
\* between its two writes damages the log, which then stays as it is.
THEOREM LedgerIsAppendLog == Spec => ImplementsAppendLog
<1>1. Init => Log!Init
  <2> SUFFICES ASSUME Init PROVE Log!Init
    OBVIOUS
  <2>1. file = <<>> /\ DOMAIN file = {} /\ Complete = <<>>
    BY EmptySeq DEF Init, Complete
  <2>2. EventsOf(Complete) = <<>> /\ Verified(file)
    BY <2>1 DEF EventsOf, Verified
  <2> QED
    BY <2>2 DEF Log!Init
<1>2. Appending /\ Appending' /\ [Next]_vars => [Log!Next]_Log!vars
  BY LogStep
<1> QED
  BY <1>1, <1>2, AlwaysAppending, PTL DEF Spec, ImplementsAppendLog, Log!Spec

-----------------------------------------------------------------------------
(* What is synchronized when a record is acknowledged.                     *)

\* The record of a call has been written, and synchronized where it has to be.
SyncedAt(t) ==
    /\ pc[t] \in {"rest", "sync"} => draft[t].seq = Len(file)
    /\ pc[t] = "syncDir" => draft[t].seq <= synced
    /\ pc[t] = "succeed" /\ event[t] \in Plain => draft[t].seq <= synced

AckedSynced == \A entry \in acked : entry.event \in Plain => entry.seq <= synced

Syncing == synced <= Len(file) /\ AckedSynced /\ \A t \in Tasks : SyncedAt(t)

\* A step of one call leaves the others what they have.
Local(t) ==
    \A d \in Tasks \ {t} :
        /\ pc'[d] = pc[d] /\ event'[d] = event[d]
        /\ draft'[d] = draft[d] /\ created'[d] = created[d]

LEMMA StepIsLocal ==
  ASSUME Appending, NEW t \in Tasks, Step(t)
  PROVE  Local(t)
<1> USE DEF Appending, TypeOK, Local, At, Goto, Forget
<1>1. CASE TakeLock(t) \/ LockFails(t) \/ Finish(t)
  BY <1>1 DEF TakeLock, LockFails, Finish
<1>2. CASE Prepare(t)
  BY <1>2 DEF Prepare
<1>3. CASE WriteStart(t) \/ WriteRest(t)
  BY <1>3 DEF WriteStart, WriteRest
<1>4. CASE Fsync(t) \/ SyncParentDirectory(t) \/ IOError(t)
  BY <1>4 DEF Fsync, SyncParentDirectory, IOError
<1> QED
  BY <1>1, <1>2, <1>3, <1>4 DEF Step

\* Calls that have begun to write are the one inside the lock.
LEMMA OthersSynced ==
  ASSUME Appending, NEW t \in Tasks, pc[t] \in InLock, Local(t)
  PROVE  \A d \in Tasks \ {t} : SyncedAt(d)'
BY NobodyElse DEF Local, SyncedAt, InLock

\* A step that leaves the synchronized part of the file alone.
LEMMA SameSynced ==
  ASSUME Syncing, UNCHANGED <<file, synced>>, AckedSynced',
         \A d \in Tasks : \/ SyncedAt(d)'
                          \/ pc'[d] = pc[d] /\ draft'[d] = draft[d] /\ event'[d] = event[d]
  PROVE  Syncing'
BY DEF Syncing, SyncedAt

LEMMA SyncingStep == Appending /\ Syncing /\ [Next]_vars => Syncing'
<1> SUFFICES ASSUME Appending, Syncing, [Next]_vars PROVE Syncing'
  OBVIOUS
<1>0. /\ TypeOK /\ Len(file) \in Nat /\ synced \in Nat /\ synced <= Len(file)
      /\ AckedSynced /\ \A t \in Tasks : SyncedAt(t)
  BY LenProperties DEF Appending, TypeOK, Syncing
<1>1. CASE UNCHANGED vars
  BY <1>1, SameSynced DEF vars, diskVars, taskVars, Syncing, AckedSynced
<1>2. ASSUME NEW t \in Tasks, NEW e \in Events, Enqueue(t, e) PROVE Syncing'
  <2>1. /\ pc'[t] = "queued" /\ \A d \in Tasks \ {t} : pc'[d] = pc[d] /\ event'[d] = event[d]
        /\ UNCHANGED <<file, synced, draft, acked>>
    BY <1>0, <1>2 DEF Enqueue, At, Goto, diskVars, TypeOK
  <2> QED
    BY <1>0, <2>1, SameSynced DEF SyncedAt, AckedSynced
<1>3. ASSUME NEW t \in Tasks, Step(t) PROVE Syncing'
  <2>1. Local(t)
    BY <1>3, StepIsLocal
  <2>2. CASE TakeLock(t) \/ LockFails(t) \/ IOError(t) \/ Prepare(t)
    <3>1. UNCHANGED <<file, synced, acked>>
      BY <2>2 DEF TakeLock, LockFails, IOError, Prepare, diskVars
    <3>2. SyncedAt(t)'
      <4>1. CASE TakeLock(t) \/ LockFails(t) \/ IOError(t)
        BY <1>0, <4>1 DEF TakeLock, LockFails, IOError, Goto, Forget, SyncedAt, TypeOK
      <4>2. CASE Prepare(t)
        BY <1>0, <4>2, LedgerAssumption DEF Prepare, Goto, SyncedAt, TypeOK
      <4> QED
        BY <2>2, <4>1, <4>2
    <3> QED
      BY <1>0, <2>1, <3>1, <3>2, SameSynced DEF Local, AckedSynced
  <2>3. CASE Finish(t)
    <3>1. /\ UNCHANGED <<file, synced>> /\ pc'[t] = "idle"
          /\ \/ UNCHANGED acked
             \/ /\ pc[t] = "succeed"
                /\ acked' = acked \cup {[seq |-> draft[t].seq, event |-> event[t]]}
      BY <1>0, <2>3 DEF Finish, Forget, Goto, diskVars, TypeOK
    <3>2. AckedSynced'
      BY <1>0, <3>1 DEF AckedSynced, SyncedAt
    <3>3. SyncedAt(t)'
      BY <3>1 DEF SyncedAt
    <3> QED
      BY <2>1, <3>1, <3>2, <3>3, SameSynced DEF Local
  <2>4. CASE WriteStart(t) \/ WriteRest(t) \/ Fsync(t) \/ SyncParentDirectory(t)
    <3>1. /\ pc[t] \in InLock /\ UNCHANGED <<event, draft, acked>>
      BY <2>4 DEF WriteStart, WriteRest, Fsync, SyncParentDirectory, At, InLock
    <3>2. \A d \in Tasks \ {t} : SyncedAt(d)'
      BY <2>1, <3>1, OthersSynced
    <3>3. draft[t] \in LineType /\ draft[t].seq \in Nat
      BY <1>0 DEF TypeOK, LineType
    <3>4. /\ synced <= synced' /\ synced' <= Len(file') /\ SyncedAt(t)'
          /\ synced' \in Nat
      <4>1. CASE WriteStart(t)
        <5>1. Len(file') = Len(file) + 1
          <6>1. file' = Append(file, [draft[t] EXCEPT !.whole = FALSE])
            BY <4>1 DEF WriteStart
          <6>2. [draft[t] EXCEPT !.whole = FALSE] \in LineType
            BY <3>3 DEF LineType
          <6> QED
            BY <1>0, <6>1, <6>2, AppendProperties DEF TypeOK
        <5>2. draft[t].seq = Len(file) + 1
          <6>1. pc[t] = "write"
            BY <4>1 DEF WriteStart, At
          <6>2. draft[t] = Line(Len(file) + 1, event[t], EventsOf(file), TRUE)
            BY <6>1 DEF Appending, Prepared
          <6> QED
            BY <6>2 DEF Line
        <5>3. pc'[t] = "rest" /\ UNCHANGED synced
          BY <1>0, <4>1 DEF WriteStart, At, Goto, TypeOK
        <5> QED
          BY <1>0, <3>1, <5>1, <5>2, <5>3 DEF SyncedAt
      <4>2. CASE WriteRest(t)
        <5>1. Len(file') = Len(file)
          <6>1. file' = [file EXCEPT ![Len(file)].whole = TRUE]
            BY <4>2 DEF WriteRest
          <6> QED
            BY <1>0, <6>1, ExceptSeq DEF TypeOK
        <5>2. pc[t] = "rest" /\ pc'[t] = "sync" /\ UNCHANGED synced
          BY <1>0, <4>2 DEF WriteRest, At, Goto, TypeOK
        <5> QED
          BY <1>0, <3>1, <5>1, <5>2 DEF SyncedAt
      <4>3. CASE Fsync(t)
        <5>1. /\ pc[t] = "sync" /\ pc'[t] \in {"syncDir", "succeed"}
              /\ synced' = Len(file) /\ UNCHANGED file
          BY <1>0, <4>3 DEF Fsync, At, Goto, TypeOK
        <5> QED
          BY <1>0, <3>1, <3>3, <5>1 DEF SyncedAt
      <4>4. CASE SyncParentDirectory(t)
        <5>1. pc[t] = "syncDir" /\ pc'[t] = "succeed" /\ UNCHANGED <<file, synced>>
          BY <1>0, <4>4 DEF SyncParentDirectory, At, Goto, TypeOK
        <5> QED
          BY <1>0, <3>1, <3>3, <5>1 DEF SyncedAt
      <4> QED
        BY <2>4, <4>1, <4>2, <4>3, <4>4
    <3>5. AckedSynced'
      <4> SUFFICES ASSUME NEW entry \in acked, entry.event \in Plain PROVE entry.seq <= synced'
        BY <3>1 DEF AckedSynced
      <4>1. entry.seq \in Nat /\ entry.seq <= synced
        BY <1>0 DEF AckedSynced, TypeOK
      <4> QED
        BY <1>0, <3>4, <4>1
    <3> QED
      BY <3>2, <3>4, <3>5 DEF Syncing
  <2> QED
    BY <1>3, <2>2, <2>3, <2>4 DEF Step
<1>4. ASSUME NEW p \in Procs, Crash(p) PROVE Syncing'
  <2>1. /\ UNCHANGED <<file, synced, acked>>
        /\ \A d \in Tasks : \/ pc'[d] = "idle"
                            \/ pc'[d] = pc[d] /\ draft'[d] = draft[d] /\ event'[d] = event[d]
    BY <1>4 DEF Crash, diskVars
  <2> QED
    BY <1>0, <2>1, SameSynced DEF SyncedAt, AckedSynced
<1>5. CASE OperatorRemovesLock
  BY <1>0, <1>5, SameSynced DEF OperatorRemovesLock, diskVars, taskVars, AckedSynced
<1> QED
  BY <1>1, <1>2, <1>3, <1>4, <1>5 DEF Next

\* An acknowledged record that is no completion has been synchronized (the comment at
\* line 349): only a completion that is found already there is returned without.
THEOREM PlainAcksSynced == Spec => []AckedSynced
<1>1. Init => Syncing
  BY EmptySeq DEF Init, Syncing, AckedSynced, SyncedAt
<1>2. Syncing => AckedSynced
  BY DEF Syncing
<1> QED
  BY <1>1, <1>2, AlwaysAppending, SyncingStep, PTL DEF Spec

\* The call that made the file is on its way to synchronize the directory.
Making(t) == created[t] /\ pc[t] \in {"rest", "sync", "syncDir"}

\* The append that creates the file neither fails nor dies before it has done so.
FirstAppendEnds ==
    \A t \in Tasks :
        /\ Making(t) => ~Crash(ProcOf[t])
        /\ Making(t) \/ (created[t] /\ pc[t] = "write") => ~IOError(t)

\* Whoever finds the file finds it reachable, or the call that made it at work.
Reaching ==
    /\ file # <<>> => exists
    /\ exists => dirSynced \/ \E t \in Tasks : Making(t)
    /\ \A t \in Tasks :
         /\ pc[t] = "write" /\ ~created[t] => exists
         /\ pc[t] \in {"rest", "sync"} => exists
         /\ pc[t] = "succeed" => dirSynced
    /\ AckIsReachable

\* A step that makes no file, and of the calls on their way takes none off it.
LEMMA SameReach ==
  ASSUME Reaching, UNCHANGED <<exists, dirSynced>>, file' = <<>> \/ exists,
         \A t \in Tasks : Making(t) => Making(t)',
         \A t \in Tasks : \/ pc'[t] = pc[t] /\ created'[t] = created[t]
                          \/ pc'[t] \in {"idle", "queued", "locked", "throw"}
                          \/ pc'[t] = "write" /\ (created'[t] \/ exists)
                          \/ pc'[t] \in {"rest", "sync"} /\ exists
                          \/ pc'[t] = "succeed" /\ dirSynced,
         acked' # {} => dirSynced
  PROVE  Reaching'
<1>1. (exists => dirSynced \/ \E t \in Tasks : Making(t))'
  BY DEF Reaching
<1>2. ASSUME NEW t \in Tasks
      PROVE  /\ (pc[t] = "write" /\ ~created[t] => exists)'
             /\ (pc[t] \in {"rest", "sync"} => exists)'
             /\ (pc[t] = "succeed" => dirSynced)'
  BY DEF Reaching
<1> QED
  BY <1>1, <1>2 DEF Reaching, AckIsReachable

\* Whoever is inside the lock without having made the file finds it reachable.
LEMMA FoundIsReachable ==
  ASSUME Appending, Reaching, NEW t \in Tasks, pc[t] \in InLock, ~Making(t), exists
  PROVE  dirSynced
BY NobodyElse DEF Reaching, Making, InLock

LEMMA ReachingStep ==
  Appending /\ Reaching /\ [Next]_vars /\ [FirstAppendEnds]_vars => Reaching'
<1> SUFFICES ASSUME Appending, Reaching, [Next]_vars, [FirstAppendEnds]_vars PROVE Reaching'
  OBVIOUS
<1>0. /\ TypeOK
      /\ file # <<>> => exists
      /\ acked # {} => dirSynced
  BY DEF Appending, Reaching, AckIsReachable
<1>1. CASE UNCHANGED vars
  BY <1>0, <1>1, SameReach DEF vars, diskVars, taskVars, Making
<1>2. ASSUME NEW t \in Tasks, NEW e \in Events, Enqueue(t, e) PROVE Reaching'
  <2>1. /\ pc[t] = "idle" /\ pc'[t] = "queued" /\ \A d \in Tasks \ {t} : pc'[d] = pc[d]
        /\ UNCHANGED <<diskVars, created, acked>>
    BY <1>0, <1>2 DEF Enqueue, At, Goto, TypeOK
  <2> QED
    BY <1>0, <2>1, SameReach DEF diskVars, Making
<1>3. ASSUME NEW t \in Tasks, Step(t), FirstAppendEnds PROVE Reaching'
  <2>1. Local(t)
    BY <1>3, StepIsLocal
  <2>2. CASE TakeLock(t) \/ LockFails(t)
    <3>1. /\ pc[t] = "queued" /\ pc'[t] \in {"locked", "idle"} /\ UNCHANGED <<diskVars, acked>>
      BY <1>0, <2>2 DEF TakeLock, LockFails, MyTurn, Goto, Forget, TypeOK
    <3> QED
      BY <1>0, <2>1, <3>1, SameReach DEF diskVars, Making, Local
  <2>3. CASE Prepare(t)
    <3>1. pc[t] = "locked" /\ UNCHANGED <<diskVars, acked>>
      BY <2>3 DEF Prepare
    <3>2. \/ pc'[t] = "throw"
          \/ pc'[t] = "write" /\ (created'[t] \/ exists)
          \/ pc'[t] = "succeed" /\ Existing(event[t]) # {}
      BY <1>0, <2>3 DEF Prepare, Goto, TypeOK
    <3>3. pc'[t] = "succeed" => dirSynced
      <4>1. Existing(event[t]) # {} => file # <<>>
        BY EmptySeq DEF Existing
      <4> QED
        BY <1>0, <3>1, <3>2, <4>1, FoundIsReachable DEF InLock, Making
    <3> QED
      BY <1>0, <2>1, <3>1, <3>2, <3>3, SameReach DEF diskVars, Making, Local
  <2>4. CASE WriteStart(t)
    <3>1. /\ pc[t] = "write" /\ pc'[t] = "rest" /\ exists' = TRUE
          /\ UNCHANGED <<dirSynced, created, acked>>
      BY <1>0, <2>4 DEF WriteStart, At, Goto, TypeOK
    <3>2. Making(t)' \/ dirSynced
      <4>1. CASE created[t]
        BY <3>1, <4>1 DEF Making
      <4>2. CASE ~created[t]
        BY <3>1, <4>2, FoundIsReachable DEF InLock, Making, Reaching
      <4> QED
        BY <4>1, <4>2
    <3>3. \A d \in Tasks \ {t} : pc'[d] \notin InLock
      BY <2>1, <3>1, NobodyElse DEF Local, InLock
    <3> QED
      BY <1>0, <3>1, <3>2, <3>3 DEF Reaching, InLock, AckIsReachable
  <2>5. CASE WriteRest(t) \/ Fsync(t)
    <3>1. /\ pc[t] \in {"rest", "sync"} /\ UNCHANGED <<exists, dirSynced, created, acked>>
          /\ pc'[t] = IF pc[t] = "rest" THEN "sync"
                      ELSE IF created[t] THEN "syncDir" ELSE "succeed"
      BY <1>0, <2>5 DEF WriteRest, Fsync, At, Goto, TypeOK
    <3>2. exists
      BY <3>1 DEF Reaching
    <3>3. Making(t) => Making(t)'
      BY <3>1 DEF Making
    <3>4. pc'[t] = "succeed" => dirSynced
      BY <3>1, <3>2, FoundIsReachable DEF InLock, Making
    <3>5. CASE pc'[t] # "syncDir"
      BY <1>0, <2>1, <3>1, <3>2, <3>3, <3>4, <3>5, SameReach DEF Making, Local
    <3>6. CASE pc'[t] = "syncDir"
      <4>1. /\ Making(t)' /\ \A d \in Tasks \ {t} : pc'[d] \notin InLock
        BY <2>1, <3>1, <3>6, NobodyElse DEF Local, InLock, Making
      <4> QED
        BY <1>0, <3>1, <3>2, <3>6, <4>1 DEF Reaching, InLock, AckIsReachable
    <3> QED
      BY <3>5, <3>6
  <2>6. CASE SyncParentDirectory(t)
    <3>1. /\ dirSynced' = TRUE /\ UNCHANGED <<file, exists, created, acked>>
          /\ pc[t] = "syncDir" /\ pc'[t] = "succeed"
      BY <1>0, <2>6 DEF SyncParentDirectory, At, Goto, TypeOK
    <3> QED
      BY <1>0, <2>1, <3>1 DEF Reaching, AckIsReachable, Local
  <2>7. CASE IOError(t)
    <3>1. /\ pc[t] \in InLock /\ pc'[t] = "throw" /\ UNCHANGED <<file, dirSynced, created, acked>>
          /\ exists' \in {exists, TRUE}
          /\ pc[t] # "write" => exists' = exists
      BY <1>0, <2>7 DEF IOError, Goto, TypeOK
    <3>2. ~Making(t) /\ ~(created[t] /\ pc[t] = "write")
      BY <1>3, <2>7 DEF FirstAppendEnds
    <3>3. exists' = exists
      BY <1>0, <3>1, <3>2 DEF Reaching, TypeOK
    <3> QED
      BY <1>0, <2>1, <3>1, <3>2, <3>3, SameReach DEF Making, Local
  <2>8. CASE Finish(t)
    <3>1. /\ pc[t] \in {"succeed", "throw"} /\ pc'[t] = "idle" /\ UNCHANGED diskVars
          /\ acked' = acked \/ pc[t] = "succeed"
      BY <1>0, <2>8 DEF Finish, Forget, Goto, TypeOK
    <3>2. acked' # {} => dirSynced
      BY <1>0, <3>1 DEF Reaching
    <3> QED
      BY <1>0, <2>1, <3>1, <3>2, SameReach DEF Making, Local, diskVars
  <2> QED
    BY <1>3, <2>2, <2>3, <2>4, <2>5, <2>6, <2>7, <2>8 DEF Step
<1>4. ASSUME NEW p \in Procs, Crash(p), FirstAppendEnds PROVE Reaching'
  <2>1. /\ UNCHANGED <<diskVars, acked>>
        /\ \A d \in Tasks : IF ProcOf[d] = p THEN pc'[d] = "idle"
                            ELSE pc'[d] = pc[d] /\ created'[d] = created[d]
    BY <1>4 DEF Crash
  <2>2. \A d \in Tasks : Making(d) => ProcOf[d] # p
    BY <1>4 DEF FirstAppendEnds
  <2> QED
    BY <1>0, <2>1, <2>2, SameReach DEF diskVars, Making
<1>5. CASE OperatorRemovesLock
  BY <1>0, <1>5, SameReach DEF OperatorRemovesLock, diskVars, taskVars, Making
<1> QED
  BY <1>1, <1>2, <1>3, <1>4, <1>5 DEF Next

\* An acknowledged record is reachable after a power loss as long as the append that made
\* the file has synchronized its directory before it failed or died: whatever fails or
\* dies otherwise, no caller is acknowledged a record in a file that may be lost.
THEOREM ReachableUnlessFirstFails == Spec /\ [][FirstAppendEnds]_vars => []AckIsReachable
<1>1. Init => Reaching
  BY DEF Init, Reaching, AckIsReachable
<1>2. Reaching => AckIsReachable
  BY DEF Reaching
<1> QED
  BY <1>1, <1>2, AlwaysAppending, ReachingStep, PTL DEF Spec
=============================================================================

------------------------------ MODULE HostProofs ------------------------------
(***************************************************************************)
(* Proofs about the nanoclaw host, for any sessions, duties, concurrency,  *)
(* rows, caps, cards, clicks and failures: the reconcile queue, a task     *)
(* series and a gateway approval, one after another.                       *)
(*                                                                         *)
(* The inductive invariant of the queue, Scheduled, says that the line and *)
(* the runs are apart and without repetition; that no key runs beside      *)
(* itself, that what is owed a run is scheduled, and that a tick is over   *)
(* only when all of it has run follow from it.                             *)
(*                                                                         *)
(* The one of a task series, CarriedOn, says that a row carries the series *)
(* on and that a pass which arms occurrences has read every row that has   *)
(* ended and still carries the recurrence, and has it still to arm or has  *)
(* failed to.  Without the second part a pass could close the session of a *)
(* series it has not read.                                                 *)
(*                                                                         *)
(* The one of an approval, Approving, gathers all that speaks for a card:  *)
(* what the gateway was told, what a handler is about to tell it, and what *)
(* the row says.  Nothing speaks for a card before its row is decided      *)
(* (Unsaid), and all that does says the same (OneSaid).                    *)
(***************************************************************************)
EXTENDS ReconcileQueue, TaskSeries, GatewayApprovals, FiniteSetTheorems, TLAPS

Elems(s)    == {s[i] : i \in 1..Len(s)}
Distinct(s) == \A i, j \in 1..Len(s) : s[i] = s[j] => i = j
Busy(r)     == {k \in Keys : r[k] > 0}

\* The line and the runs share no key and repeat none.
Apart ==
    /\ Distinct(ready) /\ Waiting \cap RunningNow = {}
    /\ runs \in [Keys -> 0..1]
    /\ active = Cardinality(RunningNow) /\ active <= Concurrency

\* A key of the present tick is in line, or running on behalf of the tick, or
\* running and marked to run again.
TickPending ==
    ~stopped => \A k \in tickOwed :
                  k \in Waiting \cup RunningNow /\ (k \in owed => k \in Waiting \cup dirty)

Scheduled == QueueTypeOK /\ Apart /\ OwedIsScheduled /\ TickPending /\ TickIsDone

-----------------------------------------------------------------------------
(* Lines and runs.                                                         *)

LEMMA KeysFinite == IsFiniteSet(Keys)
  BY QueueAssumption, FS_Union, FS_Singleton DEF Keys

LEMMA DistinctCardinality ==
  ASSUME NEW s \in Seq(Keys), Distinct(s), NEW n \in 0..Len(s)
  PROVE  IsFiniteSet({s[i] : i \in 1..n}) /\ Cardinality({s[i] : i \in 1..n}) = n
<1> DEFINE S == {s[i] : i \in 1..n}
           f == [i \in 1..n |-> s[i]]
<1>1. f \in Bijection(1..n, S)
  BY DEF Distinct, Bijection, Injection, Surjection, IsInjective
<1>2. ExistsBijection(1..n, S)
  BY <1>1 DEF ExistsBijection
<1>3. n \in Nat
  OBVIOUS
<1> QED
  BY <1>2, <1>3, FS_CountingElements, FS_NatBijection

LEMMA DisjointUnion ==
  ASSUME NEW A, NEW B, IsFiniteSet(A), IsFiniteSet(B), A \cap B = {}
  PROVE  Cardinality(A \cup B) = Cardinality(A) + Cardinality(B)
<1>1. Cardinality(A) \in Nat /\ Cardinality(B) \in Nat /\ Cardinality(A \cap B) = 0
  BY FS_CardinalityType, FS_EmptySet
<1>2. Cardinality(A \cup B) = Cardinality(A) + Cardinality(B) - Cardinality(A \cap B)
  BY FS_Union
<1> QED
  BY <1>1, <1>2

\* What pump does to a line that shares no key with the runs under way.
LEMMA PumpEffect ==
  ASSUME NEW line \in Seq(Keys), NEW busy \in 0..Concurrency, NEW under \in [Keys -> 0..1],
         NEW due, Pump(line, busy, under, due),
         Distinct(line), Elems(line) \cap Busy(under) = {}, busy = Cardinality(Busy(under))
  PROVE  /\ ready' \in Seq(Keys) /\ Distinct(ready') /\ runs' \in [Keys -> 0..1]
         /\ active' \in 0..Concurrency /\ active' = Cardinality(Busy(runs'))
         /\ Elems(line) \cup Busy(under) = Elems(ready') \cup Busy(runs')
         /\ Elems(ready') \cap Busy(runs') = {}
         /\ Elems(ready') \subseteq Elems(line) /\ Busy(under) \subseteq Busy(runs')
         /\ owed' = due \ (Elems(line) \ Elems(ready'))
         /\ (active' = 0 => ready' = <<>>)
<1> DEFINE n == Least(Concurrency - busy, Len(line))
           S == {line[i] : i \in 1..n}
<1>1. n \in 0..Len(line) /\ n <= Concurrency - busy /\ Len(line) \in Nat
  BY QueueAssumption DEF Least
<1>2. /\ ready' = SubSeq(line, n + 1, Len(line)) /\ active' = busy + n
      /\ runs' = [k \in Keys |-> under[k] + (IF k \in S THEN 1 ELSE 0)]
      /\ owed' = due \ S
  BY DEF Pump
<1> HIDE DEF n
<1>3. /\ ready' \in Seq(Keys) /\ Len(ready') = Len(line) - n
      /\ \A i \in 1..Len(ready') : ready'[i] = line[i + n]
  BY <1>1, <1>2
<1>4. S \cap Busy(under) = {} /\ S \subseteq Keys /\ S \subseteq Elems(line)
  BY <1>1 DEF Elems
<1>5. Distinct(ready')
  BY <1>1, <1>3 DEF Distinct
<1>6. Elems(line) = S \cup Elems(ready')
  <2>1. ASSUME NEW i \in 1..Len(line), i > n PROVE line[i] \in Elems(ready')
    <3>1. i - n \in 1..Len(ready') /\ ready'[i - n] = line[i]
      BY <1>1, <1>3, <2>1
    <3> QED
      BY <3>1 DEF Elems
  <2>2. Elems(line) \subseteq S \cup Elems(ready')
    BY <1>1, <2>1 DEF Elems
  <2>3. Elems(ready') \subseteq Elems(line)
    BY <1>1, <1>3 DEF Elems
  <2> QED
    BY <1>4, <2>2, <2>3
<1>7. S \cap Elems(ready') = {}
  BY <1>1, <1>3 DEF Elems, Distinct
<1>8. runs' \in [Keys -> 0..1] /\ Busy(runs') = Busy(under) \cup S
  BY <1>2, <1>4 DEF Busy
<1>9. active' = Cardinality(Busy(runs'))
  <2>1. IsFiniteSet(Busy(under)) /\ Busy(under) \subseteq Keys
    BY KeysFinite, FS_Subset DEF Busy
  <2>2. IsFiniteSet(S) /\ Cardinality(S) = n
    BY <1>1, DistinctCardinality
  <2>3. Busy(under) \cap S = {}
    BY <1>4
  <2>4. Cardinality(Busy(under) \cup S) = Cardinality(Busy(under)) + n
    BY <2>1, <2>2, <2>3, DisjointUnion
  <2> QED
    BY <1>1, <1>2, <1>8, <2>4
<1>10. active' \in 0..Concurrency
  BY <1>1, <1>2, QueueAssumption
<1>11. ASSUME active' = 0 PROVE ready' = <<>>
  <2>1. Len(line) = 0 \/ n > 0
    BY <1>1, <1>2, <1>11, QueueAssumption DEF n, Least
  <2>2. Len(ready') = 0
    BY <1>1, <1>2, <1>3, <1>11, <2>1
  <2> QED
    BY <1>3, <2>2
<1> QED
  BY <1>2, <1>3, <1>4, <1>5, <1>6, <1>7, <1>8, <1>9, <1>10, <1>11

LEMMA AppendElems ==
  ASSUME NEW s \in Seq(Keys), NEW k \in Keys
  PROVE  /\ Append(s, k) \in Seq(Keys)
         /\ Elems(Append(s, k)) = Elems(s) \cup {k}
         /\ Distinct(s) /\ k \notin Elems(s) => Distinct(Append(s, k))
<1>1. Append(s, k) \in Seq(Keys) /\ Len(Append(s, k)) = Len(s) + 1 /\ Len(s) \in Nat
      /\ Append(s, k)[Len(s) + 1] = k /\ \A i \in 1..Len(s) : Append(s, k)[i] = s[i]
  OBVIOUS
<1>2. 1..(Len(s) + 1) = 1..Len(s) \cup {Len(s) + 1}
  BY <1>1
<1> QED
  BY <1>1, <1>2 DEF Elems, Distinct

\* What a tick that has not run for key k relies on.
Pends(k) == k \in Waiting \cup RunningNow /\ (k \in owed => k \in Waiting \cup dirty)

\* What add does to the queue, whatever was armed.
LEMMA AddEffect ==
  ASSUME Scheduled, NEW k \in Keys, NEW timers, Add(k, timers), UNCHANGED stopped,
         timers \subseteq delayed, delayed \subseteq timers \cup {k}
  PROVE  /\ ready' \in Seq(Keys) /\ runs' \in [Keys -> Nat] /\ active' \in Nat
         /\ dirty' \subseteq Keys /\ delayed' \subseteq Keys /\ owed' \subseteq Keys
         /\ Apart' /\ OwedIsScheduled'
         /\ ~stopped => Pends(k)'
         /\ \A j \in Keys : ~stopped /\ Pends(j) => Pends(j)'
<1> USE DEF Scheduled
<1>t. /\ ready \in Seq(Keys) /\ runs \in [Keys -> 0..1] /\ active \in 0..Concurrency
      /\ dirty \subseteq Keys /\ delayed \subseteq Keys /\ owed \subseteq Keys
  BY QueueAssumption DEF QueueTypeOK, Apart
<1>w. Waiting = Elems(ready) /\ RunningNow = Busy(runs)
  BY DEF Waiting, Elems, RunningNow, Busy
<1>1. CASE stopped \/ k \in Waiting \/ k \in RunningNow
  <2>1. UNCHANGED <<ready, runs, active>>
    BY <1>1 DEF Add
  <2>2. Apart'
    BY <2>1 DEF Apart, Distinct, Waiting, RunningNow
  <2>3. Waiting' = Waiting /\ RunningNow' = RunningNow
    BY <2>1 DEF Waiting, RunningNow
  <2>4. CASE stopped
    BY <1>t, <2>1, <2>2, <2>3, <2>4 DEF Add, OwedIsScheduled, Pends
  <2>5. CASE ~stopped /\ k \in Waiting
    <3>1. dirty' = dirty /\ delayed' = timers /\ owed' = owed \cup {k}
      BY <2>5 DEF Add
    <3> QED
      BY <1>t, <2>1, <2>2, <2>3, <2>5, <3>1 DEF OwedIsScheduled, Pends
  <2>6. CASE ~stopped /\ k \notin Waiting /\ k \in RunningNow
    <3>1. dirty' = dirty \cup {k} /\ delayed' = timers /\ owed' = owed \cup {k}
      BY <2>6 DEF Add
    <3> QED
      BY <1>t, <2>1, <2>2, <2>3, <2>6, <3>1 DEF OwedIsScheduled, Pends
  <2> QED
    BY <1>1, <2>4, <2>5, <2>6
<1>2. CASE ~stopped /\ k \notin Waiting /\ k \notin RunningNow
  <2>1. /\ delayed' = timers \ {k} /\ dirty' = dirty
        /\ Pump(Append(ready, k), active, runs, owed \cup {k})
    BY <1>2 DEF Add
  <2> DEFINE line == Append(ready, k)
  <2>2. /\ line \in Seq(Keys) /\ Distinct(line) /\ Elems(line) = Waiting \cup {k}
        /\ Elems(line) \cap Busy(runs) = {} /\ active = Cardinality(Busy(runs))
    BY <1>t, <1>w, <1>2, AppendElems DEF Apart
  <2> HIDE DEF line
  <2>3. /\ ready' \in Seq(Keys) /\ Distinct(ready') /\ runs' \in [Keys -> 0..1]
        /\ active' \in 0..Concurrency /\ active' = Cardinality(Busy(runs'))
        /\ Elems(line) \cup Busy(runs) = Elems(ready') \cup Busy(runs')
        /\ Elems(ready') \cap Busy(runs') = {} /\ Busy(runs) \subseteq Busy(runs')
        /\ owed' = (owed \cup {k}) \ (Elems(line) \ Elems(ready'))
    BY <1>t, <2>1, <2>2, PumpEffect DEF line
  <2>4. Waiting' = Elems(ready') /\ RunningNow' = Busy(runs')
    BY DEF Waiting, Elems, RunningNow, Busy
  <2>5. Apart'
    BY <2>3, <2>4 DEF Apart
  <2>6. OwedIsScheduled'
    BY <1>2, <1>w, <2>1, <2>2, <2>3, <2>4 DEF OwedIsScheduled
  <2>7. \A j \in Keys : j = k \/ Pends(j) => Pends(j)'
    BY <1>w, <2>1, <2>2, <2>3, <2>4 DEF Pends
  <2> QED
    BY <1>t, <2>1, <2>3, <2>5, <2>6, <2>7, QueueAssumption
<1> QED
  BY <1>1, <1>2

-----------------------------------------------------------------------------
(* Every step keeps the invariant.                                         *)

LEMMA ScheduledInit == QueueInit => Scheduled
<1> SUFFICES ASSUME QueueInit PROVE Scheduled
  OBVIOUS
<1>1. Waiting = {} /\ RunningNow = {} /\ Cardinality({}) = 0
  BY FS_EmptySet DEF QueueInit, Waiting, RunningNow
<1>2. QueueTypeOK
  <2>1. runs \in [Keys -> Nat] /\ ready \in Seq(Keys)
    BY DEF QueueInit
  <2> QED
    BY <2>1 DEF QueueInit, QueueTypeOK
<1>3. Apart
  BY <1>1, QueueAssumption DEF QueueInit, Apart, Distinct
<1> QED
  BY <1>1, <1>2, <1>3 DEF QueueInit, Scheduled, OwedIsScheduled, TickPending, TickIsDone

\* A step that leaves the line, the runs and the marks of the queue alone.
LEMMA QuietStep ==
  ASSUME Scheduled, UNCHANGED <<ready, runs, active, dirty, delayed, stopped, owed>>
  PROVE  Apart' /\ OwedIsScheduled'
  BY DEF Scheduled, Apart, OwedIsScheduled, Distinct, Waiting, RunningNow

LEMMA EmptyQueue ==
  ASSUME Scheduled, active = 0, ready = <<>>
  PROVE  Waiting \cup RunningNow = {}
<1>1. Waiting = {}
  BY DEF Waiting
<1>2. IsFiniteSet(RunningNow) /\ Cardinality(RunningNow) = 0
  BY KeysFinite, FS_Subset DEF Scheduled, Apart, RunningNow
<1> QED
  BY <1>1, <1>2, FS_EmptySet

\* The end of a run.  A key marked dirty is in line or running again, a failed
\* one has a timer, and the tick has lost the key only if nothing is owed to it.
LEMMA FinishStep ==
  ASSUME Scheduled, NEW k \in Keys, NEW ok \in BOOLEAN, Finish(k, ok)
  PROVE  Scheduled'
<1> DEFINE again  == k \in dirty
           failed == ~ok /\ ~again /\ ~stopped
           under  == [runs EXCEPT ![k] = @ - 1]
           due    == owed \cup (IF failed THEN {k} ELSE {})
           line   == IF again THEN Append(ready, k) ELSE ready
           busy   == active - 1
<1>t. /\ ready \in Seq(Keys) /\ runs \in [Keys -> 0..1] /\ active \in 0..Concurrency
      /\ dirty \subseteq Keys /\ delayed \subseteq Keys /\ owed \subseteq Keys
      /\ tickOwed \subseteq Keys /\ stopped \in BOOLEAN /\ Concurrency \in Nat
  BY QueueAssumption DEF Scheduled, QueueTypeOK, Apart
<1>w. Waiting = Elems(ready) /\ RunningNow = Busy(runs)
  BY DEF Waiting, Elems, RunningNow, Busy
<1>1. /\ runs[k] > 0 /\ dirty' = dirty \ {k}
      /\ delayed' = IF failed THEN delayed \cup {k} ELSE delayed
      /\ Pump(line, busy, under, due)
      /\ tickOwed' = IF k \in owed THEN tickOwed ELSE tickOwed \ {k}
      /\ sweep' = IF sweep = "wait" /\ active' = 0 /\ ready' = <<>>
                    THEN IF stopped THEN "off" ELSE "sleep" ELSE sweep
      /\ UNCHANGED <<stopped, todo>> /\ LoopFree
  BY DEF Finish
<1>2. /\ under \in [Keys -> 0..1] /\ Busy(under) = RunningNow \ {k}
      /\ k \in RunningNow /\ k \notin Waiting
  BY <1>t, <1>w, <1>1 DEF Busy, Scheduled, Apart
<1>3. busy = Cardinality(Busy(under)) /\ busy \in 0..Concurrency
  <2>1. IsFiniteSet(RunningNow)
    BY KeysFinite, FS_Subset DEF RunningNow
  <2>2. /\ Cardinality(RunningNow \ {k}) = Cardinality(RunningNow) - 1
        /\ Cardinality(RunningNow \ {k}) \in Nat
    BY <1>2, <2>1, FS_RemoveElement, FS_CardinalityType
  <2>3. active = Cardinality(RunningNow) /\ Cardinality(Busy(under)) = Cardinality(RunningNow \ {k})
    BY <1>2 DEF Scheduled, Apart
  <2> HIDE DEF under
  <2> QED
    BY <1>t, <2>2, <2>3
<1>4. /\ line \in Seq(Keys) /\ Distinct(line)
      /\ Elems(line) = Waiting \cup (IF again THEN {k} ELSE {})
      /\ Elems(line) \cap Busy(under) = {}
  BY <1>t, <1>w, <1>2, AppendElems DEF Scheduled, Apart
<1> HIDE DEF under, due, line, busy
<1>5. /\ ready' \in Seq(Keys) /\ Distinct(ready') /\ runs' \in [Keys -> 0..1]
      /\ active' \in 0..Concurrency /\ active' = Cardinality(Busy(runs'))
      /\ Elems(line) \cup Busy(under) = Elems(ready') \cup Busy(runs')
      /\ Elems(ready') \cap Busy(runs') = {} /\ Busy(under) \subseteq Busy(runs')
      /\ owed' = due \ (Elems(line) \ Elems(ready'))
  BY <1>1, <1>2, <1>3, <1>4, PumpEffect
<1>6. Waiting' = Elems(ready') /\ RunningNow' = Busy(runs')
  BY DEF Waiting, Elems, RunningNow, Busy
<1>7. Apart'
  BY <1>5, <1>6 DEF Apart
<1>8. due \subseteq Keys /\ owed \subseteq due
  BY <1>t DEF due
<1>9. OwedIsScheduled'
  <2>1. CASE stopped
    <3>1. Waiting = {} /\ dirty = {} /\ delayed = {}
      BY <2>1 DEF Scheduled, OwedIsScheduled
    <3>2. Elems(line) = {} /\ ready' = <<>>
      <4>1. Elems(line) = {}
        BY <1>4, <3>1
      <4>2. Elems(ready') = {}
        BY <1>1, <1>2, <1>3, <1>4, <4>1, PumpEffect
      <4>3. Len(ready') = 0
        <5>1. Len(ready') \in Nat /\ (Len(ready') > 0 => ready'[1] \in Elems(ready'))
          BY <1>5 DEF Elems
        <5> QED
          BY <4>2, <5>1
      <4> QED
        BY <1>5, <4>1, <4>3
    <3> QED
      BY <1>1, <2>1, <3>1, <3>2 DEF OwedIsScheduled, Waiting
  <2>2. CASE ~stopped
    <3>1. owed \subseteq Waiting \cup (dirty \cap RunningNow) \cup delayed
      BY <2>2 DEF Scheduled, OwedIsScheduled
    <3>2. due \subseteq Elems(line) \cup (dirty' \cap Busy(under)) \cup delayed'
      BY <1>1, <1>2, <1>4, <3>1 DEF due
    <3> QED
      BY <1>1, <1>5, <1>6, <2>2, <3>2 DEF OwedIsScheduled
  <2> QED
    BY <1>t, <2>1, <2>2
<1>10. TickPending'
  <2>1. ASSUME ~stopped, NEW j \in tickOwed' PROVE Pends(j)'
    <3>1. Pends(j) /\ j \in Keys /\ (j = k => k \in owed)
      BY <1>t, <1>1, <2>1 DEF Scheduled, TickPending, Pends
    <3>2. j = k => k \in dirty
      BY <1>2, <3>1 DEF Pends
    <3>3. j \in Elems(line) \cup Busy(under) /\ (j \in due => j \in Elems(line) \cup dirty')
      BY <1>1, <1>2, <1>4, <3>1, <3>2 DEF Pends, due
    <3> QED
      BY <1>5, <1>6, <3>3 DEF Pends
  <2> QED
    BY <1>1, <2>1 DEF TickPending, Pends
<1>11. TickIsDone'
  <2>1. CASE sweep' = sweep
    BY <1>1, <2>1 DEF Scheduled, TickIsDone
  <2>2. CASE active' = 0 /\ ready' = <<>>
    <3>1. Waiting' = {}
      BY <2>2 DEF Waiting
    <3>2. RunningNow' = {}
      <4>1. IsFiniteSet(RunningNow') /\ Cardinality(RunningNow') = 0
        BY <1>5, <1>6, <2>2, KeysFinite, FS_Subset DEF Busy
      <4> QED
        BY <4>1, FS_EmptySet
    <3> QED
      BY <1>1, <1>10, <3>1, <3>2 DEF TickPending, TickIsDone
  <2> QED
    BY <1>1, <2>1, <2>2
<1>12. QueueTypeOK'
  BY <1>t, <1>1, <1>5, <1>8 DEF Scheduled, QueueTypeOK
<1> QED
  BY <1>7, <1>9, <1>10, <1>11, <1>12 DEF Scheduled

LEMMA ScheduledStep == Scheduled /\ [QueueNext]_queueVars => Scheduled'
<1> SUFFICES ASSUME Scheduled, [QueueNext]_queueVars PROVE Scheduled'
  OBVIOUS
<1>t. QueueTypeOK
  BY DEF Scheduled
<1>k. Sessions \cup Duties \subseteq Keys /\ Reheal \in Keys
  BY DEF Keys
<1>i. /\ ~stopped => \A k \in tickOwed : Pends(k)
      /\ sweep = "sleep" /\ ~stopped => tickOwed = {}
  BY DEF Scheduled, TickPending, TickIsDone, Pends
<1>1. ASSUME NEW k \in Keys, FeedEnqueue(k) PROVE Scheduled'
  <2>1. Add(k, delayed) /\ UNCHANGED <<stopped, sweep, todo, tickOwed>>
    BY <1>1 DEF FeedEnqueue
  <2> QED
    BY <1>1, <1>t, <1>i, <2>1, AddEffect
    DEF Scheduled, QueueTypeOK, TickPending, TickIsDone, Pends
<1>2. ASSUME NEW k \in Keys, TimerFires(k) PROVE Scheduled'
  <2>1. Add(k, delayed \ {k}) /\ UNCHANGED <<stopped, sweep, todo, tickOwed>>
    BY <1>2 DEF TimerFires
  <2> QED
    BY <1>2, <1>t, <1>i, <2>1, AddEffect
    DEF Scheduled, QueueTypeOK, TickPending, TickIsDone, Pends
<1>3. ASSUME NEW k \in Keys, SweepAdds(k) PROVE Scheduled'
  <2>1. /\ Add(k, delayed) /\ UNCHANGED <<stopped, sweep>> /\ sweep = "adding"
        /\ todo' = todo \ {k} /\ tickOwed' = IF stopped THEN tickOwed ELSE tickOwed \cup {k}
    BY <1>3 DEF SweepAdds
  <2> QED
    BY <1>3, <1>t, <1>i, <2>1, AddEffect
    DEF Scheduled, QueueTypeOK, TickPending, TickIsDone, Pends
<1>4. ASSUME SweepTick PROVE Scheduled'
  <2>1. /\ Add(Reheal, delayed) /\ UNCHANGED <<stopped, todo>> /\ sweep = "sleep"
        /\ sweep' = IF stopped THEN "off" ELSE "list"
        /\ tickOwed' = IF stopped THEN tickOwed ELSE {Reheal}
    BY <1>4 DEF SweepTick
  <2> QED
    BY <1>4, <1>t, <1>i, <1>k, <2>1, AddEffect
    DEF Scheduled, QueueTypeOK, TickPending, TickIsDone, Pends
<1>5. ASSUME SweepLists PROVE Scheduled'
  <2>1. Apart' /\ OwedIsScheduled'
    BY <1>5, QuietStep DEF SweepLists
  <2> QED
    BY <1>5, <1>t, <1>i, <2>1
    DEF SweepLists, Scheduled, QueueTypeOK, TickPending, TickIsDone, Pends, Waiting, RunningNow
<1>6. ASSUME SweepWaits PROVE Scheduled'
  <2>1. Apart' /\ OwedIsScheduled'
    BY <1>6, QuietStep DEF SweepWaits
  <2>2. Waiting' = Waiting /\ RunningNow' = RunningNow
    BY <1>6 DEF SweepWaits, Waiting, RunningNow
  <2>3. active = 0 /\ ready = <<>> => Waiting \cup RunningNow = {}
    BY EmptyQueue
  <2> QED
    BY <1>6, <1>t, <1>i, <2>1, <2>2, <2>3
    DEF SweepWaits, Scheduled, QueueTypeOK, TickPending, TickIsDone, Pends
<1>7. ASSUME StopSweep PROVE Scheduled'
  <2>1. Waiting' = {} /\ RunningNow' = RunningNow
    BY <1>7 DEF StopSweep, Waiting, RunningNow
  <2> QED
    BY <1>7, <1>t, <2>1
    DEF StopSweep, Scheduled, QueueTypeOK, Apart, Distinct, OwedIsScheduled, TickPending, TickIsDone
<1>8. ASSUME NEW k \in Keys, NEW ok \in BOOLEAN, Finish(k, ok) PROVE Scheduled'
  BY <1>8, FinishStep
<1>9. CASE UNCHANGED queueVars
  <2>1. Apart' /\ OwedIsScheduled'
    BY <1>9, QuietStep DEF queueVars
  <2> QED
    BY <1>9, <1>t, <1>i, <2>1
    DEF queueVars, Scheduled, QueueTypeOK, TickPending, TickIsDone, Pends, Waiting, RunningNow
<1> QED
  BY <1>1, <1>2, <1>3, <1>4, <1>5, <1>6, <1>7, <1>8, <1>9 DEF QueueNext

-----------------------------------------------------------------------------
(* The theorems.                                                           *)

\* The inductive invariant: what is owed, in line, running, marked and pending
\* for the tick agree at every moment.
THEOREM AlwaysScheduled == QueueSpec => []Scheduled
  BY ScheduledInit, ScheduledStep, PTL DEF QueueSpec

\* A change reported to a session, or a run of it that failed, is followed by
\* another run while the queue is up; a stopped queue starts nothing.
THEOREM NothingLost == QueueSpec => []OwedIsScheduled
<1>1. Scheduled => OwedIsScheduled
  BY DEF Scheduled
<1> QED
  BY <1>1, AlwaysScheduled, PTL

\* No key runs beside itself or stands in line twice, whatever adds, timers
\* and failures interleave, and the concurrency is kept.
THEOREM KeysRunAlone == QueueSpec => []RunsAlone
<1>1. Scheduled => RunsAlone
  <2> SUFFICES ASSUME Scheduled PROVE RunsAlone
    OBVIOUS
  <2>1. \A k \in Keys : runs[k] <= 1
    BY DEF Scheduled, Apart
  <2>2. ready \in Seq(Keys) /\ Distinct(ready) /\ Len(ready) \in 0..Len(ready)
    BY DEF Scheduled, QueueTypeOK, Apart
  <2>3. Cardinality(Waiting) = Len(ready)
    BY <2>2, DistinctCardinality DEF Waiting
  <2> QED
    BY <2>1, <2>3 DEF Scheduled, Apart, RunsAlone
<1> QED
  BY <1>1, AlwaysScheduled, PTL

\* The sweep goes to sleep only after every key of its tick has had a run.
THEOREM TicksComplete == QueueSpec => []TickIsDone
<1>1. Scheduled => TickIsDone
  BY DEF Scheduled
<1> QED
  BY <1>1, AlwaysScheduled, PTL

-----------------------------------------------------------------------------
(* The task series.                                                        *)

\* Rows that have ended and still carry the recurrence.
Unarmed == {m \in Rows : task[m].st \in {"completed", "failed"} /\ task[m].rec}

RowType == [st : {"none", "pending", "paused", "completed", "failed", "cancelled"},
            rec : BOOLEAN, later : BOOLEAN]
AckType == {"none", "processing", "done", "error"}

\* A row without a state, or cancelled, does not carry the recurrence.
EndsPlain(rows) == \A m \in Rows : rows[m].st \in {"none", "cancelled"} => ~rows[m].rec

\* The series has a row that carries it on, and a pass knows of every row it has
\* still to re-arm or has failed to.
CarriedOn ==
    /\ SeriesTypeOK
    /\ recurs => \E m \in Rows : task[m].rec
    /\ EndsPlain(task)
    /\ visit = "arm" => Unarmed \subseteq rearm \cup missed

LEMMA SeriesBegins == SeriesInit => CarriedOn
<1> SUFFICES ASSUME SeriesInit PROVE CarriedOn
  OBVIOUS
<1>1. 1 \in Rows
  BY SeriesAssumption DEF Rows
<1>2. PICK s \in {"pending", "paused"}, r \in BOOLEAN :
        /\ task = [m \in Rows |-> IF m = 1 THEN [st |-> s, rec |-> r, later |-> TRUE] ELSE Absent]
        /\ recurs = r
  BY DEF SeriesInit
<1>3. \A m \in Rows : task[m] = IF m = 1 THEN [st |-> s, rec |-> r, later |-> TRUE] ELSE Absent
  BY <1>2
<1>4. task \in [Rows -> RowType]
  BY <1>2 DEF Absent, RowType
<1>6. SeriesTypeOK
  BY <1>2, <1>4 DEF SeriesInit, SeriesTypeOK, RowType
<1> QED
  BY <1>1, <1>2, <1>3, <1>6 DEF SeriesInit, CarriedOn, EndsPlain, Unarmed, Absent

\* What a step that changes rows may do: no row that carried the recurrence loses
\* it, unless the series is no longer meant to go on.
LEMMA InsertKeeps ==
  ASSUME NEW rows \in [Rows -> RowType], NEW new \in RowType, InsertInto(rows, new),
         new.st = "pending" \/ new.st = "paused"
  PROVE  /\ task' \in [Rows -> RowType]
         /\ \E n \in Rows : rows[n].st = "none" /\ task'[n] = new
                            /\ \A m \in Rows : m # n => task'[m] = rows[m]
BY DEF InsertInto

LEMMA Types ==
  ASSUME SeriesTypeOK
  PROVE  task \in [Rows -> RowType] /\ taskAck \in [Rows -> AckType]
BY DEF SeriesTypeOK, RowType, AckType

\* Rows that carry the recurrence where others did, and are no plainer.
Keeps(rows, new) ==
    /\ new \in [Rows -> RowType]
    /\ \A m \in Rows :
         /\ new[m].rec = rows[m].rec
         /\ new[m].st \in {"none", "cancelled"} => rows[m].st = new[m].st

LEMMA AcksKeep ==
  ASSUME SeriesTypeOK
  PROVE  Keeps(task, Acknowledged)
<1>1. task \in [Rows -> RowType]
  BY Types
<1>2. \A m \in Rows : \/ Acknowledged[m] = task[m]
                      \/ Acknowledged[m] = [task[m] EXCEPT !.st = "completed"]
                      \/ Acknowledged[m] = [task[m] EXCEPT !.st = "failed"]
  BY DEF Acknowledged
<1>3. Acknowledged = [m \in Rows |-> Acknowledged[m]]
  BY DEF Acknowledged
<1>4. Acknowledged \in [Rows -> RowType]
  BY <1>1, <1>2, <1>3 DEF RowType
<1> QED
  BY <1>1, <1>2, <1>4 DEF Keeps, RowType

LEMMA ResetKeeps ==
  ASSUME NEW rows \in [Rows -> RowType], ResetTasks(rows)
  PROVE  Keeps(rows, task')
<1>1. PICK given \in SUBSET Claimed :
        task' = [m \in Rows |->
          CASE m \notin Claimed \/ rows[m].st # "pending" \/ rows[m].later -> rows[m]
            [] m \in given -> [rows[m] EXCEPT !.st = "failed"]
            [] OTHER -> [rows[m] EXCEPT !.later = TRUE]]
  BY DEF ResetTasks
<1>2. ASSUME NEW m \in Rows
      PROVE  \/ task'[m] = rows[m]
             \/ task'[m] = [rows[m] EXCEPT !.st = "failed"]
             \/ task'[m] = [rows[m] EXCEPT !.later = TRUE]
  <2>1. CASE m \notin Claimed \/ rows[m].st # "pending" \/ rows[m].later
    BY <1>1, <2>1
  <2>2. CASE ~(m \notin Claimed \/ rows[m].st # "pending" \/ rows[m].later) /\ m \in given
    BY <1>1, <2>2
  <2>3. CASE ~(m \notin Claimed \/ rows[m].st # "pending" \/ rows[m].later) /\ m \notin given
    BY <1>1, <2>3
  <2> QED
    BY <2>1, <2>2, <2>3
<1>3. task' = [m \in Rows |-> task'[m]]
  BY <1>1
<1>4. \A m \in Rows : task'[m] \in RowType
  BY <1>2 DEF RowType
<1>5. task' \in [Rows -> RowType]
  BY <1>3, <1>4
<1>6. \A m \in Rows :
        /\ task'[m].rec = rows[m].rec
        /\ task'[m].st \in {"none", "cancelled"} => rows[m].st = task'[m].st
  BY <1>2 DEF RowType
<1> QED
  BY <1>5, <1>6 DEF Keeps

LEMMA MaintainKeeps ==
  ASSUME SeriesTypeOK, NEW rows \in [Rows -> RowType], MaintainBegins(rows)
  PROVE  Keeps(rows, task') /\ taskAck' \in [Rows -> AckType] /\ visit' = "list"
<1>1. CASE running /\ task' = rows /\ UNCHANGED taskAck
  BY <1>1, Types DEF MaintainBegins, Keeps
<1>2. CASE ResetTasks(rows)
  <2>1. taskAck' \in [Rows -> AckType]
    BY <1>2, Types DEF ResetTasks, AckType
  <2> QED
    BY <1>2, <2>1, ResetKeeps DEF MaintainBegins
<1> QED
  BY <1>1, <1>2 DEF MaintainBegins

\* A pass that goes on with rows kept so, and changes nothing else.
LEMMA PassKeeps ==
  ASSUME CarriedOn, Keeps(task, task'), taskAck' \in [Rows -> AckType],
         visit' \in {"wake", "list"}, UNCHANGED <<open, running, rearm, missed, recurs>>
  PROVE  CarriedOn'
<1>1. SeriesTypeOK'
  BY DEF CarriedOn, SeriesTypeOK, Keeps, RowType, AckType
<1>2. EndsPlain(task')
  BY Types DEF CarriedOn, Keeps, EndsPlain
<1>3. recurs' => \E m \in Rows : task'[m].rec
  BY DEF CarriedOn, Keeps
<1> QED
  BY <1>1, <1>2, <1>3 DEF CarriedOn

LEMMA VisitStep ==
  ASSUME CarriedOn, VisitSession
  PROVE  CarriedOn' /\ open' = open
<1>1. SeriesTypeOK
  BY DEF CarriedOn
<1>2. Keeps(task, Acknowledged)
  BY <1>1, AcksKeep
<1>3. Acknowledged \in [Rows -> RowType]
  BY <1>2 DEF Keeps
<1>4. CASE visit' = "wake" /\ task' = Acknowledged /\ UNCHANGED taskAck
  BY <1>2, <1>4, <1>1, Types, PassKeeps DEF VisitSession
<1>5. CASE MaintainBegins(Acknowledged)
  <2>1. Keeps(Acknowledged, task') /\ taskAck' \in [Rows -> AckType] /\ visit' = "list"
    BY <1>3, <1>5, <1>1, MaintainKeeps
  <2>2. Keeps(task, task')
    <3>1. task' \in [Rows -> RowType]
      BY <2>1 DEF Keeps
    <3>2. ASSUME NEW m \in Rows
          PROVE  /\ task'[m].rec = task[m].rec
                 /\ task'[m].st \in {"none", "cancelled"} => task[m].st = task'[m].st
      <4>1. /\ Acknowledged[m].rec = task[m].rec
            /\ Acknowledged[m].st \in {"none", "cancelled"} => task[m].st = Acknowledged[m].st
        BY <1>2 DEF Keeps
      <4>2. /\ task'[m].rec = Acknowledged[m].rec
            /\ task'[m].st \in {"none", "cancelled"} => Acknowledged[m].st = task'[m].st
        BY <2>1 DEF Keeps
      <4> HIDE DEF Acknowledged
      <4> QED
        BY <4>1, <4>2
    <3> QED
      BY <3>1, <3>2 DEF Keeps
  <2> QED
    BY <2>1, <2>2, PassKeeps DEF VisitSession
<1> QED
  BY <1>4, <1>5 DEF VisitSession

LEMMA MaintainStep ==
  ASSUME CarriedOn, MaintainTask
  PROVE  CarriedOn' /\ open' = open
<1>1. Keeps(task, task') /\ taskAck' \in [Rows -> AckType] /\ visit' = "list"
  BY Types, MaintainKeeps DEF MaintainTask, CarriedOn
<1> QED
  BY <1>1, PassKeeps DEF MaintainTask

\* A row that is new takes over the recurrence of the row that has ended.
LEMMA RearmStep ==
  ASSUME CarriedOn, NEW m \in rearm, ArmNextTask(m), rearm' = rearm \ {m},
         UNCHANGED <<taskAck, open, running, visit, missed, recurs>>
  PROVE  CarriedOn'
<1>1. SeriesTypeOK
  BY DEF CarriedOn
<1>2. m \in Rows /\ rearm' \subseteq Rows
  BY <1>1 DEF SeriesTypeOK
<1> DEFINE rows == [task EXCEPT ![m].rec = FALSE]
<1>3. rows \in [Rows -> RowType] /\ NextOccurrence \in RowType
  BY <1>1, Types DEF NextOccurrence, RowType
<1>4. NextOccurrence.st = "pending" \/ NextOccurrence.st = "paused"
  BY DEF NextOccurrence
<1>5. InsertInto(rows, NextOccurrence)
  BY DEF ArmNextTask
<1> HIDE DEF rows
<1>6. /\ task' \in [Rows -> RowType]
      /\ \E n \in Rows : rows[n].st = "none" /\ task'[n] = NextOccurrence
                         /\ \A k \in Rows : k # n => task'[k] = rows[k]
  BY <1>3, <1>4, <1>5, InsertKeeps
<1>7. PICK n \in Rows : task'[n] = NextOccurrence /\ \A k \in Rows : k # n => task'[k] = rows[k]
  BY <1>6
<1>8. \A k \in Rows : k # n /\ k # m => task'[k] = task[k]
  BY <1>2, <1>7, <1>1, Types DEF rows
<1>9. m # n => ~task'[m].rec
  BY <1>2, <1>7, <1>1, Types DEF rows, RowType
<1>10. task'[n].rec /\ task'[n].st \in {"pending", "paused"}
  BY <1>4, <1>7 DEF NextOccurrence
<1>11. EndsPlain(task')
  BY <1>7, <1>8, <1>9, <1>10 DEF CarriedOn, EndsPlain
<1>12. visit' = "arm" => Unarmed' \subseteq rearm' \cup missed'
  BY <1>8, <1>9, <1>10 DEF Unarmed, CarriedOn
<1>13. SeriesTypeOK'
  BY <1>1, <1>2, <1>6 DEF SeriesTypeOK, RowType
<1> QED
  BY <1>7, <1>10, <1>11, <1>12, <1>13 DEF CarriedOn

\* A row that could not be armed is left as it is, and the pass knows of it.
LEMMA MissStep ==
  ASSUME CarriedOn, NEW m \in rearm, missed' = missed \cup {m}, rearm' = rearm \ {m},
         UNCHANGED <<task, taskAck, open, running, visit, recurs>>
  PROVE  CarriedOn'
BY DEF CarriedOn, SeriesTypeOK, EndsPlain, Unarmed

LEMMA RunStep ==
  ASSUME CarriedOn, RunNow
  PROVE  CarriedOn' /\ open' = open
<1> DEFINE new == [st |-> "pending", rec |-> FALSE, later |-> FALSE]
<1>1. new \in RowType /\ new.st = "pending" /\ InsertInto(task, new)
  BY DEF RunNow, RowType
<1>2. new.rec = FALSE
  OBVIOUS
<1> HIDE DEF new
<1>3. /\ task' \in [Rows -> RowType]
      /\ \E n \in Rows : task[n].st = "none" /\ task'[n] = new
                         /\ \A k \in Rows : k # n => task'[k] = task[k]
  BY <1>1, Types, InsertKeeps DEF CarriedOn
<1>4. SeriesTypeOK'
  BY <1>3 DEF RunNow, CarriedOn, SeriesTypeOK, RowType
<1> QED
  BY <1>1, <1>2, <1>3, <1>4 DEF RunNow, CarriedOn, EndsPlain, Unarmed

\* The session of a series that goes on is closed only by a pass that missed its row.
StaysOpen ==
    recurs /\ recurs' /\ open = "active" => open' = "active" \/ \E m \in missed : task'[m].rec

LEMMA SeriesStep ==
  ASSUME CarriedOn, [SeriesNext]_seriesVars
  PROVE  CarriedOn' /\ StaysOpen
<1> DEFINE Goal == CarriedOn' /\ StaysOpen
<1> USE DEF StaysOpen
<1>1. CASE UNCHANGED seriesVars
  BY <1>1 DEF seriesVars, CarriedOn, SeriesTypeOK, EndsPlain, Unarmed
<1>2. CASE RunNow
  BY <1>2, RunStep
<1>3. CASE PauseTask
  BY <1>3 DEF PauseTask, Change, With, CarriedOn, SeriesTypeOK, EndsPlain, Unarmed
<1>4. CASE ResumeTask
  BY <1>4 DEF ResumeTask, Change, With, CarriedOn, SeriesTypeOK, EndsPlain, Unarmed
<1>5. CASE CancelTask
  BY <1>5 DEF CancelTask, Change, Live, With, CarriedOn, SeriesTypeOK, EndsPlain, Unarmed
<1>6. ASSUME NEW r \in BOOLEAN, UpdateRecurrence(r) PROVE Goal
  BY <1>6 DEF UpdateRecurrence, Updatable, Change, Live, With, CarriedOn, SeriesTypeOK, EndsPlain,
              Unarmed
<1>7. ASSUME NEW b \in BOOLEAN, UpdateProcessAfter(b) PROVE Goal
  BY <1>7 DEF UpdateProcessAfter, Updatable, Change, Live, With, CarriedOn, SeriesTypeOK,
               EndsPlain, Unarmed
<1>8. CASE DeleteTask
  BY <1>8 DEF DeleteTask, Absent, CarriedOn, SeriesTypeOK, EndsPlain, Unarmed
<1>9. ASSUME NEW m \in Rows, ComesDue(m) PROVE Goal
  BY <1>9 DEF ComesDue, CarriedOn, SeriesTypeOK, EndsPlain, Unarmed
<1>10. ASSUME NEW m \in Rows, ClaimTask(m) \/ FinishTask(m) PROVE Goal
  BY <1>10 DEF ClaimTask, FinishTask, CarriedOn, SeriesTypeOK, EndsPlain, Unarmed
<1>11. CASE ContainerEnds
  BY <1>11 DEF ContainerEnds, CarriedOn, SeriesTypeOK, EndsPlain, Unarmed
<1>12. CASE RestartTaskHost
  BY <1>12 DEF RestartTaskHost, CarriedOn, SeriesTypeOK, EndsPlain, Unarmed
<1>13. CASE VisitSession
  BY <1>13, VisitStep
<1>14. CASE WakeTask
  <2>1. taskAck' \in [Rows -> AckType] /\ running' \in BOOLEAN
    BY <1>14, Types DEF WakeTask, AckType, CarriedOn, SeriesTypeOK
  <2> QED
    BY <1>14, <2>1 DEF WakeTask, AckType, CarriedOn, SeriesTypeOK, EndsPlain
<1>15. CASE MaintainTask
  BY <1>15, MaintainStep
<1>16. CASE ListRecurring
  BY <1>16 DEF ListRecurring, CompletedRecurring, With, CarriedOn, SeriesTypeOK, EndsPlain, Unarmed
<1>17. CASE Rearm
  <2>1. PICK m \in rearm : /\ rearm' = rearm \ {m}
                           /\ \/ ArmNextTask(m) /\ UNCHANGED missed
                              \/ missed' = missed \cup {m} /\ UNCHANGED task
    BY <1>17 DEF Rearm
  <2>2. UNCHANGED <<taskAck, open, running, visit, recurs>>
    BY <1>17 DEF Rearm
  <2>3. CASE ArmNextTask(m) /\ UNCHANGED missed
    BY <2>1, <2>2, <2>3, RearmStep
  <2>4. CASE missed' = missed \cup {m} /\ UNCHANGED task
    BY <2>1, <2>2, <2>4, MissStep
  <2> QED
    BY <2>1, <2>3, <2>4
<1>18. CASE CloseIfSpent
  BY <1>18 DEF CloseIfSpent, Live, With, CarriedOn, SeriesTypeOK, EndsPlain, Unarmed
<1> QED
  BY <1>1, <1>2, <1>3, <1>5, <1>6, <1>7, <1>8, <1>9, <1>10, <1>11, <1>12, <1>13, <1>14,
     <1>15, <1>16, <1>17, <1>18, <1>4 DEF SeriesNext, CommandStep

\* A series that is meant to go on always carries the recurrence in a row, whatever
\* number of commands, failures, also of the write that arms the next occurrence, and
\* restarts come in between (recurrence.ts, tasks.ts).
THEOREM AlwaysCarriedOn == SeriesSpec => []CarriedOn
<1>1. CarriedOn /\ [SeriesNext]_seriesVars => CarriedOn'
  BY SeriesStep
<1> QED
  BY <1>1, SeriesBegins, PTL DEF SeriesSpec

\* And its session is closed as spent only by a pass that itself failed to arm the row
\* that carries it (recurrence.ts, reconcile-session.ts).
THEOREM SeriesGoesOn == SeriesSpec => SeriesSurvives
<1>1. CarriedOn /\ CarriedOn' /\ [SeriesNext]_seriesVars =>
        [recurs /\ recurs' =>
           /\ \E m \in Rows : task'[m].rec
           /\ open = "active" => open' = "active" \/ \E m \in missed : task'[m].rec]_seriesVars
  BY SeriesStep DEF CarriedOn, StaysOpen
<1> QED
  BY <1>1, AlwaysCarriedOn, PTL DEF SeriesSpec, SeriesSurvives

\* One row at most carries the recurrence, and what a pass has still to re-arm does.
OnlyOnce ==
    /\ SeriesTypeOK /\ NoPhantomSeries
    /\ visit # "arm" => rearm = {}
    /\ \A m \in rearm : task[m].rec /\ task[m].st \in {"completed", "failed"}

\* A step in which no row takes up the recurrence, and none to re-arm is touched.
LEMMA StaysOnce ==
  ASSUME OnlyOnce, SeriesTypeOK',
         \A m \in Rows : task'[m].rec => task[m].rec,
         visit' # "arm" => rearm' = {},
         \A m \in rearm' : m \in rearm /\ task'[m] = task[m]
  PROVE  OnlyOnce'
BY DEF OnlyOnce, NoPhantomSeries

\* A pass that begins, with rows kept so.
LEMMA PassStaysOnce ==
  ASSUME OnlyOnce, VisitSession \/ MaintainTask
  PROVE  OnlyOnce'
<1>1. SeriesTypeOK /\ visit # "arm" /\ rearm = {}
  BY DEF OnlyOnce, VisitSession, MaintainTask
<1>2. Keeps(task, Acknowledged) /\ task \in [Rows -> RowType] /\ taskAck \in [Rows -> AckType]
  BY <1>1, AcksKeep, Types
<1>3. Acknowledged \in [Rows -> RowType] /\ \A m \in Rows : Acknowledged[m].rec = task[m].rec
  BY <1>2 DEF Keeps
<1>4. /\ task' \in [Rows -> RowType] /\ taskAck' \in [Rows -> AckType]
      /\ visit' \in {"wake", "list"} /\ \A m \in Rows : task'[m].rec = task[m].rec
  <2>1. CASE VisitSession /\ visit' = "wake" /\ task' = Acknowledged /\ UNCHANGED taskAck
    BY <1>2, <1>3, <2>1
  <2>2. CASE VisitSession /\ MaintainBegins(Acknowledged)
    <3>1. Keeps(Acknowledged, task') /\ taskAck' \in [Rows -> AckType] /\ visit' = "list"
      BY <1>1, <1>3, <2>2, MaintainKeeps
    <3> HIDE DEF Acknowledged
    <3> QED
      BY <1>3, <3>1 DEF Keeps
  <2>3. CASE MaintainTask
    <3>1. Keeps(task, task') /\ taskAck' \in [Rows -> AckType] /\ visit' = "list"
      BY <1>1, <1>2, <2>3, MaintainKeeps DEF MaintainTask
    <3> QED
      BY <3>1 DEF Keeps
  <2> QED
    BY <2>1, <2>2, <2>3 DEF VisitSession
<1>5. UNCHANGED <<open, running, rearm, missed, recurs>>
  BY DEF VisitSession, MaintainTask
<1>6. SeriesTypeOK'
  BY <1>1, <1>4, <1>5 DEF SeriesTypeOK, RowType, AckType
<1> QED
  BY <1>1, <1>4, <1>5, <1>6, StaysOnce

\* The new row takes the recurrence from the one that had it.
LEMMA RearmStaysOnce ==
  ASSUME OnlyOnce, Rearm
  PROVE  OnlyOnce'
<1>1. PICK m \in rearm : /\ rearm' = rearm \ {m} /\ missed' \subseteq missed \cup {m}
                         /\ ArmNextTask(m) \/ UNCHANGED task
  BY DEF Rearm
<1>2. /\ SeriesTypeOK /\ m \in Rows /\ rearm \subseteq Rows /\ visit = "arm" /\ visit' = "arm"
      /\ UNCHANGED <<taskAck, open, running, recurs>>
  BY <1>1 DEF OnlyOnce, SeriesTypeOK, Rearm
<1>3. \A k \in rearm : k = m
  BY <1>1, <1>2 DEF OnlyOnce, NoPhantomSeries
<1>4. CASE UNCHANGED task
  <2>1. SeriesTypeOK'
    BY <1>1, <1>2, <1>4 DEF SeriesTypeOK
  <2> QED
    BY <1>1, <1>2, <1>4, <2>1, StaysOnce
<1>5. CASE ArmNextTask(m)
  <2> DEFINE rows == [task EXCEPT ![m].rec = FALSE]
  <2>1. rows \in [Rows -> RowType] /\ NextOccurrence \in RowType
    BY <1>2, Types DEF NextOccurrence, RowType
  <2>2. NextOccurrence.st = "pending" \/ NextOccurrence.st = "paused"
    BY DEF NextOccurrence
  <2>3. InsertInto(rows, NextOccurrence)
    BY <1>5 DEF ArmNextTask
  <2>4. \A k \in Rows : ~rows[k].rec
    BY <1>1, <1>2, Types DEF OnlyOnce, NoPhantomSeries, RowType
  <2> HIDE DEF rows
  <2>5. /\ task' \in [Rows -> RowType]
        /\ \E n \in Rows : rows[n].st = "none" /\ task'[n] = NextOccurrence
                           /\ \A k \in Rows : k # n => task'[k] = rows[k]
    BY <2>1, <2>2, <2>3, InsertKeeps
  <2>6. NoPhantomSeries'
    BY <2>4, <2>5 DEF NoPhantomSeries
  <2>7. SeriesTypeOK'
    BY <1>1, <1>2, <2>5 DEF SeriesTypeOK, RowType
  <2> QED
    BY <1>1, <1>2, <1>3, <2>6, <2>7 DEF OnlyOnce
<1> QED
  BY <1>1, <1>4, <1>5

LEMMA RunStaysOnce ==
  ASSUME OnlyOnce, RunNow
  PROVE  OnlyOnce'
<1> DEFINE new == [st |-> "pending", rec |-> FALSE, later |-> FALSE]
<1>1. new \in RowType /\ new.st = "pending" /\ InsertInto(task, new)
  BY DEF RunNow, RowType
<1>2. new.rec = FALSE
  OBVIOUS
<1> HIDE DEF new
<1>3. SeriesTypeOK /\ task \in [Rows -> RowType]
  BY Types DEF OnlyOnce
<1>4. /\ task' \in [Rows -> RowType]
      /\ \E n \in Rows : task[n].st = "none" /\ task'[n] = new
                         /\ \A k \in Rows : k # n => task'[k] = task[k]
  BY <1>1, <1>3, InsertKeeps
<1>5. SeriesTypeOK'
  BY <1>3, <1>4 DEF RunNow, SeriesTypeOK, RowType
<1> QED
  BY <1>2, <1>3, <1>4, <1>5, StaysOnce DEF RunNow, OnlyOnce, SeriesTypeOK

LEMMA OnceStep ==
  ASSUME OnlyOnce, [SeriesNext]_seriesVars, \A r \in BOOLEAN : ~UpdateRecurrence(r)
  PROVE  OnlyOnce'
<1> USE DEF OnlyOnce, SeriesTypeOK, NoPhantomSeries
<1>1. CASE UNCHANGED seriesVars
  BY <1>1 DEF seriesVars
<1>2. CASE RunNow
  BY <1>2, RunStaysOnce
<1>3. ASSUME PauseTask \/ ResumeTask \/ CancelTask PROVE OnlyOnce'
  <2>1. /\ UNCHANGED <<taskAck, open, running, visit, rearm, missed>> /\ recurs' \in BOOLEAN
        /\ task' = [m \in Rows |-> task'[m]]
    BY <1>3 DEF PauseTask, ResumeTask, CancelTask, Change
  <2>2. \A m \in Rows :
          \/ task'[m] = task[m]
          \/ /\ task[m].st \in {"pending", "paused"}
             /\ \/ task'[m] = [task[m] EXCEPT !.st = "paused"]
                \/ task'[m] = [task[m] EXCEPT !.st = "pending"]
                \/ task'[m] = [task[m] EXCEPT !.st = "cancelled", !.rec = FALSE]
    <3>1. CASE PauseTask
      BY <3>1 DEF PauseTask, Change, With
    <3>2. CASE ResumeTask
      BY <3>2 DEF ResumeTask, Change, With
    <3>3. CASE CancelTask
      BY <3>3 DEF CancelTask, Change, Live, With
    <3> QED
      BY <1>3, <3>1, <3>2, <3>3
  <2>3. SeriesTypeOK /\ task \in [Rows -> RowType] /\ rearm \subseteq Rows
    BY Types
  <2>4. \A m \in Rows : task'[m] \in RowType /\ (task'[m].rec => task[m].rec)
    <3> SUFFICES ASSUME NEW m \in Rows
                 PROVE  task'[m] \in RowType /\ (task'[m].rec => task[m].rec)
      OBVIOUS
    <3> HIDE DEF OnlyOnce, SeriesTypeOK, NoPhantomSeries
    <3>1. task[m] \in RowType
      BY <2>3
    <3>2. CASE task'[m] = task[m]
      BY <3>1, <3>2
    <3>3. CASE \/ task'[m] = [task[m] EXCEPT !.st = "paused"]
               \/ task'[m] = [task[m] EXCEPT !.st = "pending"]
               \/ task'[m] = [task[m] EXCEPT !.st = "cancelled", !.rec = FALSE]
      BY <3>1, <3>3 DEF RowType
    <3> QED
      BY <2>2, <3>2, <3>3
  <2>5. task' \in [Rows -> RowType]
    BY <2>1, <2>4
  <2>6. SeriesTypeOK'
    BY <2>1, <2>3, <2>5 DEF RowType
  <2>7. \A m \in rearm' : m \in rearm /\ task'[m] = task[m]
    BY <2>1, <2>2, <2>3
  <2> HIDE DEF OnlyOnce, SeriesTypeOK, NoPhantomSeries
  <2>8. visit' # "arm" => rearm' = {}
    BY <2>1 DEF OnlyOnce
  <2> QED
    BY <2>4, <2>6, <2>7, <2>8, StaysOnce
<1>4. ASSUME NEW b \in BOOLEAN, UpdateProcessAfter(b) PROVE OnlyOnce'
  BY <1>4 DEF UpdateProcessAfter, Updatable, Change, Live, With
<1>5. CASE DeleteTask
  BY <1>5 DEF DeleteTask, Absent
<1>6. ASSUME NEW m \in Rows, ComesDue(m) PROVE OnlyOnce'
  <2>1. /\ task' = [task EXCEPT ![m].later = FALSE]
        /\ UNCHANGED <<taskAck, open, running, visit, rearm, missed, recurs>>
    BY <1>6 DEF ComesDue
  <2>2. \A k \in Rows : task'[k].rec = task[k].rec /\ task'[k].st = task[k].st
    BY <2>1
  <2>3. SeriesTypeOK'
    <3>1. task[m] \in RowType
      BY Types
    <3>2. [task[m] EXCEPT !.later = FALSE] \in RowType
      BY <3>1 DEF RowType
    <3> QED
      BY <2>1, <3>2 DEF RowType
  <2> QED
    BY <2>1, <2>2, <2>3
<1>7. ASSUME NEW m \in Rows, ClaimTask(m) \/ FinishTask(m) PROVE OnlyOnce'
  BY <1>7 DEF ClaimTask, FinishTask
<1>8. CASE ContainerEnds
  BY <1>8 DEF ContainerEnds
<1>9. CASE RestartTaskHost
  BY <1>9 DEF RestartTaskHost
<1>10. CASE VisitSession \/ MaintainTask
  BY <1>10, PassStaysOnce
<1>11. CASE WakeTask
  <2>1. taskAck' \in [Rows -> AckType] /\ running' \in BOOLEAN
    BY <1>11, Types DEF WakeTask, AckType
  <2> QED
    BY <1>11, <2>1 DEF WakeTask, AckType
<1>12. CASE ListRecurring
  BY <1>12 DEF ListRecurring, CompletedRecurring, With
<1>13. CASE Rearm
  BY <1>13, RearmStaysOnce
<1>14. CASE CloseIfSpent
  BY <1>14 DEF CloseIfSpent
<1> QED
  BY <1>1, <1>2, <1>3, <1>4, <1>5, <1>6, <1>7, <1>8, <1>9, <1>10, <1>11, <1>12, <1>13,
     <1>14 DEF SeriesNext, CommandStep

\* Only an update of the recurrence makes a series recur twice at a time: while there
\* is none, run on demand, pause, cancel, retry, failures, failing writes and restarts
\* leave one row at most that carries it (the guarantee that tasks.ts states, and the
\* one way in which it is lost).
THEOREM OneSeriesUnlessUpdated ==
  SeriesSpec /\ [][\A r \in BOOLEAN : ~UpdateRecurrence(r)]_seriesVars => []NoPhantomSeries
<1>1. SeriesInit => OnlyOnce
  <2> SUFFICES ASSUME SeriesInit PROVE OnlyOnce
    OBVIOUS
  <2>1. PICK s \in {"pending", "paused"}, r \in BOOLEAN :
          /\ task = [m \in Rows |->
                       IF m = 1 THEN [st |-> s, rec |-> r, later |-> TRUE] ELSE Absent]
          /\ recurs = r
    BY DEF SeriesInit
  <2>2. \A m \in Rows : task[m].rec => m = 1
    BY <2>1 DEF Absent
  <2>3. task \in [Rows -> RowType]
    BY <2>1 DEF Absent, RowType
  <2>4. SeriesTypeOK
    BY <2>1, <2>3 DEF SeriesInit, SeriesTypeOK, RowType
  <2> QED
    BY <2>2, <2>4 DEF SeriesInit, OnlyOnce, NoPhantomSeries
<1>2. OnlyOnce /\ [SeriesNext]_seriesVars /\ [\A r \in BOOLEAN : ~UpdateRecurrence(r)]_seriesVars
        => OnlyOnce'
  <2>1. CASE UNCHANGED seriesVars
    BY <2>1 DEF seriesVars, OnlyOnce, SeriesTypeOK, NoPhantomSeries
  <2>2. CASE \A r \in BOOLEAN : ~UpdateRecurrence(r)
    BY <2>2, OnceStep
  <2> QED
    BY <2>1, <2>2
<1>3. OnlyOnce => NoPhantomSeries
  BY DEF OnlyOnce
<1> QED
  BY <1>1, <1>2, <1>3, PTL DEF SeriesSpec

-----------------------------------------------------------------------------
(* A gateway approval.                                                     *)

\* What was said about a card to the gateway, what a handler is about to say, and
\* what the row of the card says.
Says(i, v) ==
    \/ v \in submitted[i] \/ v \in answered[i]
    \/ \E t \in work : t.id = i /\ t.at \in {"submit", "drop"} /\ t.say = v
    \/ card.id = i /\ Decided /\ v = Decision(card.st)

OneSaid == \A i \in Cards, v, w \in Decisions : Says(i, v) /\ Says(i, w) => v = w

\* Of a card to come, or not decided, nothing is said.
Unsaid ==
    \A i \in Cards : i > card.id \/ (i = card.id /\ card.st = "pending") =>
        \A v \in Decisions : ~Says(i, v)

\* Handlers that have found the hold agree with it on the card.
HoldKnown ==
    /\ card.st # "none" \/ card.late => card.id > 0
    /\ ask.at \in {"send", "bind", "arm", "rearm"} => card.id > 0
    /\ ask.at # "no" => hold.id = 0
    /\ \A t \in work : t.seen => hold.id = t.id

TasksFit ==
    \A t \in work :
        /\ t.for = "click" => t.say \in Verdicts
        /\ t.for = "expire" => t.say = "unavailable"

Approving == ApprovalsTypeOK /\ HoldKnown /\ TasksFit /\ OneSaid /\ Unsaid

CardType == [id : 0..MaxCards, bound : BOOLEAN, late : BOOLEAN,
             st : {"none", "pending", "approved", "rejected", "expired"}]
HoldType == [id : 0..MaxCards, timer : BOOLEAN]
AskType  == [at : {"no", "look", "create", "send", "bind", "arm", "rearm"}, current : BOOLEAN]

LEMMA ApprovalsBegin == ApprovalsInit => Approving
<1> SUFFICES ASSUME ApprovalsInit PROVE Approving
  OBVIOUS
<1> USE ApprovalsAssumption
<1>1. /\ card \in CardType /\ card.id = 0 /\ card.st = "none" /\ ~card.late
      /\ hold \in HoldType /\ hold.id = 0 /\ ask \in AskType /\ ask.at = "no" /\ work = {}
      /\ bridge = "starting" /\ held = "held" /\ clicks = 0 /\ upsets = 0
  BY DEF ApprovalsInit, NoCard, NoHold, NoAsk, CardType, HoldType, AskType
<1>2. /\ submitted \in [Cards -> SUBSET Decisions] /\ answered \in [Cards -> SUBSET Verdicts]
      /\ \A i \in Cards : submitted[i] = {} /\ answered[i] = {}
  BY DEF ApprovalsInit
<1>3. ApprovalsTypeOK
  BY <1>1, <1>2 DEF ApprovalsTypeOK, CardType, HoldType, AskType
<1>4. \A i \in Cards, v \in Decisions : ~Says(i, v)
  BY <1>1, <1>2 DEF Says, Decided
<1> QED
  BY <1>1, <1>3, <1>4 DEF Approving, HoldKnown, TasksFit, OneSaid, Unsaid

\* A step after which nothing more is said, and no card is undecided that was not.
LEMMA NothingSaid ==
  ASSUME Approving,
         \A i \in Cards, v \in Decisions : Says(i, v)' => Says(i, v),
         \A i \in Cards : i > card'.id \/ (i = card'.id /\ card'.st = "pending") =>
                          i > card.id \/ (i = card.id /\ card.st = "pending")
  PROVE  OneSaid' /\ Unsaid'
BY DEF Approving, OneSaid, Unsaid

LEMMA Typed ==
  ASSUME Approving
  PROVE  /\ card \in CardType /\ hold \in HoldType /\ ask \in AskType /\ work \subseteq Tasks
         /\ submitted \in [Cards -> SUBSET Decisions] /\ answered \in [Cards -> SUBSET Verdicts]
         /\ clicks \in 0..MaxClicks /\ upsets \in 0..MaxUpsets
         /\ card.st # "none" \/ card.late => card.id \in Cards
         /\ ask.at \in {"send", "bind", "arm", "rearm"} => card.id \in Cards
BY ApprovalsAssumption DEF Approving, ApprovalsTypeOK, HoldKnown, CardType, HoldType, AskType, Cards

LEMMA UpsetType ==
  ASSUME Approving, Upset \/ UNCHANGED upsets
  PROVE  upsets' \in 0..MaxUpsets
BY ApprovalsAssumption DEF Upset, Approving, ApprovalsTypeOK

\* A handler that begins.
LEMMA NewTask ==
  ASSUME Approving, card.id \in Cards, NEW what \in {"click", "expire", "deliver", "resolve"},
         NEW by \in {"ask", "boot", "sweep", "event"}, NEW say \in Decisions,
         NEW at \in {"claim", "submit", "drop"}
  PROVE  LET t == Task(what, by, say, at)
         IN  /\ t \in Tasks /\ t.id = card.id /\ t.for = what /\ t.say = say /\ t.at = at
             /\ t.by = by /\ (t.seen => hold.id = t.id)
BY DEF Task, Tasks

\* What a step leaves that says nothing new.
Quiet ==
    /\ work' \subseteq Tasks /\ TasksFit'
    /\ \A t \in work' : t.seen => hold'.id = t.id
    /\ \A i \in Cards, v \in Decisions : Says(i, v)' => Says(i, v)

LEMMA BeginIsQuiet ==
  ASSUME Approving, card.id \in Cards, NEW u \in Tasks, u.id = card.id,
         u.seen => hold.id = u.id,
         u.for = "click" => u.say \in Verdicts,
         u.for = "expire" => u.say = "unavailable",
         u.at = "claim" \/ (Decided /\ u.say = Decision(card.st)),
         Starts(u),
         submitted' = submitted, answered' = answered, card' = card, hold'.id = hold.id
  PROVE  Quiet
<1>1. work' = work \cup {u}
  BY DEF Starts
<1>2. ASSUME NEW i \in Cards, NEW v \in Decisions, Says(i, v)' PROVE Says(i, v)
  BY <1>1, <1>2 DEF Says, Decided, Decision
<1> QED
  BY <1>1, <1>2 DEF Quiet, Approving, ApprovalsTypeOK, HoldKnown, TasksFit

LEMMA StartIsQuiet ==
  ASSUME Approving, card.id \in Cards, NEW what \in {"click", "expire", "deliver", "resolve"},
         NEW by \in {"ask", "boot", "sweep", "event"}, NEW say \in Decisions,
         NEW at \in {"claim", "submit", "drop"},
         what = "click" => say \in Verdicts,
         what = "expire" => say = "unavailable",
         at = "claim" \/ (Decided /\ say = Decision(card.st)),
         Starts(Task(what, by, say, at)),
         submitted' = submitted, answered' = answered, card' = card, hold'.id = hold.id
  PROVE  Quiet
<1> DEFINE u == Task(what, by, say, at)
<1>1. /\ u \in Tasks /\ u.id = card.id /\ u.for = what /\ u.say = say /\ u.at = at
      /\ (u.seen => hold.id = u.id)
  BY NewTask
<1> HIDE DEF u
<1>2. Starts(u)
  BY DEF u
<1> QED
  BY <1>1, <1>2, BeginIsQuiet

\* A decided row is delivered again as what it says.
LEMMA RedeliveryFits ==
  ASSUME Approving, card.id \in Cards, NEW by \in {"ask", "boot", "sweep", "event"}
  PROVE  LET t == Redelivery(by)
         IN  /\ t \in Tasks /\ t.id = card.id /\ t.for = "deliver" /\ t.at = "submit"
             /\ t.by = by /\ t.say = Decision(card.st) /\ ~t.seen
<1>1. Decision(card.st) \in Decisions
  BY DEF Decision, Decisions, Verdicts
<1> QED
  BY <1>1 DEF Redelivery, Task, Tasks

LEMMA RedeliveryIsQuiet ==
  ASSUME Approving, card.id \in Cards, NEW by \in {"ask", "boot", "sweep", "event"}, Decided,
         Starts(Redelivery(by)),
         submitted' = submitted, answered' = answered, card' = card, hold'.id = hold.id
  PROVE  Quiet
<1> DEFINE u == Redelivery(by)
<1>1. /\ u \in Tasks /\ u.id = card.id /\ u.for = "deliver" /\ u.at = "submit"
      /\ u.say = Decision(card.st) /\ ~u.seen
  BY RedeliveryFits
<1> HIDE DEF u
<1>2. Starts(u)
  BY DEF u
<1> QED
  BY <1>1, <1>2, BeginIsQuiet

LEMMA NothingStarts ==
  ASSUME Approving, work' = work, submitted' = submitted, answered' = answered, card' = card,
         hold'.id = hold.id
  PROVE  Quiet
<1>1. ASSUME NEW i \in Cards, NEW v \in Decisions, Says(i, v)' PROVE Says(i, v)
  BY <1>1 DEF Says, Decided, Decision
<1> QED
  BY <1>1 DEF Quiet, Approving, ApprovalsTypeOK, HoldKnown, TasksFit

\* The row stays, and so does what agrees with it.
LEMMA QuietKeeps ==
  ASSUME Approving, Quiet, card'.id = card.id, card'.st = card.st, card' \in CardType,
         hold' \in HoldType, ask' \in AskType, hold'.id = hold.id,
         ask'.at # "no" => hold'.id = 0,
         card'.late => card.id > 0,
         ask'.at \in {"send", "bind", "arm", "rearm"} => card.id > 0,
         submitted' = submitted, answered' = answered,
         bridge' \in {"starting", "up", "down"}, held' \in {"held", "ended"} \cup Decisions,
         clicks' \in 0..MaxClicks, upsets' \in 0..MaxUpsets
  PROVE  Approving'
<1>1. OneSaid' /\ Unsaid'
  BY NothingSaid DEF Quiet
<1>2. ApprovalsTypeOK'
  BY DEF Quiet, Approving, ApprovalsTypeOK, CardType, HoldType, AskType
<1>3. HoldKnown' /\ TasksFit'
  BY DEF Quiet, Approving, HoldKnown
<1> QED
  BY <1>1, <1>2, <1>3 DEF Approving

LEMMA AskMoves ==
  ASSUME Approving
  PROVE  /\ NoAsk \in AskType /\ NoAsk.at = "no"
         /\ \A to \in {"create", "bind", "rearm"} :
               [ask EXCEPT !.at = to] \in AskType /\ [ask EXCEPT !.at = to].at = to
<1>1. NoAsk \in AskType /\ NoAsk.at = "no"
  BY DEF NoAsk, AskType
<1>2. ask \in AskType
  BY Typed
<1> QED
  BY <1>1, <1>2 DEF AskType

LEMMA PresentStep ==
  ASSUME Approving, Present
  PROVE  Approving'
<1>1. ask' \in AskType /\ ask'.at = "look" /\ hold.id = 0 /\ Quiet
  BY NothingStarts DEF Present, AskType, NoHold, saidVars
<1> QED
  BY <1>1, QuietKeeps, Typed DEF Present, saidVars, Approving, ApprovalsTypeOK, HoldKnown

LEMMA LookUpStep ==
  ASSUME Approving, LookUp
  PROVE  Approving'
<1>1. /\ card' = card /\ hold' = hold /\ submitted' = submitted /\ answered' = answered
      /\ bridge' = bridge /\ held' = held /\ clicks' = clicks /\ upsets' = upsets /\ hold.id = 0
      /\ ask.at = "look"
  BY DEF LookUp, saidVars, Approving, HoldKnown
<1>2. ask' \in AskType /\ (ask'.at \in {"send", "bind", "arm", "rearm"} => card.st # "none")
  <2>1. ask \in AskType
    BY Typed
  <2>2. ask' = NoAsk \/ ask' = [ask EXCEPT !.at = "create"]
        \/ (ask' = [ask EXCEPT !.at = "rearm"] /\ card.st = "pending")
    BY DEF LookUp
  <2> QED
    BY <2>1, <2>2, AskMoves
<1>3. Quiet
  <2>1. CASE work' = work
    BY <1>1, <2>1, NothingStarts
  <2>2. CASE Decided /\ Starts(Redelivery("ask"))
    <3>1. card.id \in Cards
      BY <2>2, Typed DEF Decided
    <3> QED
      BY <1>1, <2>2, <3>1, RedeliveryIsQuiet
  <2>3. CASE card.st = "pending" /\ Starts(Expiry("ask"))
    BY <1>1, <2>3, Typed, StartIsQuiet DEF Expiry, Decisions
  <2> QED
    BY <2>1, <2>2, <2>3 DEF LookUp
<1> QED
  BY <1>1, <1>2, <1>3, QuietKeeps, Typed DEF Approving, ApprovalsTypeOK, HoldKnown

LEMMA CreateStep ==
  ASSUME Approving, CreateRow
  PROVE  Approving'
<1>1. /\ hold' = hold /\ submitted' = submitted /\ answered' = answered /\ work' = work
      /\ bridge' = bridge /\ held' = held /\ clicks' = clicks /\ upsets' = upsets
      /\ ask.at = "create" /\ hold.id = 0
  BY DEF CreateRow, saidVars, Approving, HoldKnown
<1>2. CASE ask.current
  <2> DEFINE new == [id |-> card.id + 1, bound |-> FALSE, late |-> FALSE, st |-> "pending"]
  <2>1. card' = new /\ card.id < MaxCards /\ ask' = [ask EXCEPT !.at = "send"]
    BY <1>2 DEF CreateRow
  <2>2. card.id \in 0..MaxCards /\ ask \in AskType
    BY Typed DEF CardType
  <2>3. /\ card' \in CardType /\ card'.id = card.id + 1 /\ card'.st = "pending" /\ ~card'.late
        /\ ask' \in AskType /\ card'.id > 0
    BY <2>1, <2>2, ApprovalsAssumption DEF CardType, AskType
  <2>4. ASSUME NEW i \in Cards, NEW v \in Decisions, Says(i, v)' PROVE Says(i, v)
    BY <1>1, <2>3, <2>4 DEF Says, Decided
  <2>5. \A i \in Cards : i > card'.id \/ (i = card'.id /\ card'.st = "pending") => i > card.id
    BY <2>2, <2>3 DEF Cards
  <2>6. OneSaid' /\ Unsaid'
    BY <2>4, <2>5, NothingSaid
  <2>7. ApprovalsTypeOK'
    BY <1>1, <2>3 DEF Approving, ApprovalsTypeOK, CardType, AskType
  <2>8. HoldKnown' /\ TasksFit'
    BY <1>1, <2>3 DEF Approving, HoldKnown, TasksFit
  <2> QED
    BY <2>6, <2>7, <2>8 DEF Approving
<1>3. CASE ~ask.current
  <2>1. card' = card /\ ask' \in AskType /\ ask'.at = "no"
    BY <1>3, AskMoves DEF CreateRow
  <2>2. Quiet
    BY <1>1, <2>1, NothingStarts
  <2> QED
    BY <1>1, <2>1, <2>2, QuietKeeps, Typed DEF Approving, ApprovalsTypeOK, HoldKnown
<1> QED
  BY <1>2, <1>3

LEMMA SendCardStep ==
  ASSUME Approving, SendCard
  PROVE  Approving'
<1>1. /\ card' = card /\ hold' = hold /\ submitted' = submitted /\ answered' = answered
      /\ bridge' = bridge /\ held' = held /\ clicks' = clicks /\ hold.id = 0
      /\ ask.at = "send" /\ card.id \in Cards /\ upsets' \in 0..MaxUpsets
  BY Typed, UpsetType DEF SendCard, saidVars, Approving, HoldKnown
<1>2. ask' \in AskType
  <2>1. ask' = NoAsk \/ ask' = [ask EXCEPT !.at = "bind"]
    BY DEF SendCard
  <2> QED
    BY <2>1, AskMoves
<1>3. Quiet
  <2>1. CASE work' = work
    BY <1>1, <2>1, NothingStarts
  <2>2. CASE Starts(Expiry("ask"))
    BY <1>1, <2>2, StartIsQuiet DEF Expiry, Decisions
  <2> QED
    BY <2>1, <2>2 DEF SendCard
<1>4. card.id > 0
  BY <1>1 DEF Cards
<1> QED
  BY <1>1, <1>2, <1>3, <1>4, QuietKeeps, Typed DEF Approving, ApprovalsTypeOK, HoldKnown

LEMMA BindMessageStep ==
  ASSUME Approving, BindMessage
  PROVE  Approving'
<1>1. /\ hold' = hold /\ submitted' = submitted /\ answered' = answered /\ work' = work
      /\ bridge' = bridge /\ held' = held /\ clicks' = clicks /\ upsets' = upsets /\ hold.id = 0
      /\ ask.at = "bind" /\ card.id > 0
      /\ card' = [card EXCEPT !.bound = TRUE] /\ ask' = [ask EXCEPT !.at = "arm"]
  BY DEF BindMessage, saidVars, Approving, HoldKnown
<1>2. /\ card' \in CardType /\ card'.id = card.id /\ card'.st = card.st /\ card'.late = card.late
      /\ ask' \in AskType
  BY <1>1, Typed DEF CardType, AskType
<1>3. ASSUME NEW i \in Cards, NEW v \in Decisions, Says(i, v)' PROVE Says(i, v)
  BY <1>1, <1>2, <1>3 DEF Says, Decided
<1>4. Quiet
  BY <1>1, <1>3 DEF Quiet, Approving, ApprovalsTypeOK, HoldKnown, TasksFit
<1> QED
  BY <1>1, <1>2, <1>4, QuietKeeps, Typed DEF Approving, ApprovalsTypeOK, HoldKnown

\* No handler has found a hold, for there was none.
LEMMA ArmPendingStep ==
  ASSUME Approving, ArmPending
  PROVE  Approving'
<1>1. /\ card' = card /\ submitted' = submitted /\ answered' = answered
      /\ bridge' = bridge /\ held' = held /\ clicks' = clicks /\ upsets' = upsets /\ hold.id = 0
      /\ ask.at \in {"arm", "rearm"} /\ card.id \in Cards /\ ask' = NoAsk
  BY Typed DEF ArmPending, saidVars, Approving, HoldKnown
<1>2. ask' \in AskType /\ ask'.at = "no" /\ card.id > 0
  BY <1>1 DEF AskType, NoAsk, Cards
<1>3. CASE Starts(Expiry("ask")) /\ UNCHANGED hold
  <2>1. Quiet
    BY <1>1, <1>3, StartIsQuiet DEF Expiry, Decisions
  <2> QED
    BY <1>1, <1>2, <1>3, <2>1, QuietKeeps, Typed DEF Approving, ApprovalsTypeOK, HoldKnown
<1>4. CASE hold' = [id |-> card.id, timer |-> TRUE] /\ UNCHANGED work
  <2>1. hold' \in HoldType
    BY <1>1, <1>4, Typed DEF HoldType, CardType
  <2>2. \A t \in work : ~t.seen
    BY <1>1, Typed DEF Approving, HoldKnown, Tasks, Cards
  <2>3. ASSUME NEW i \in Cards, NEW v \in Decisions, Says(i, v)' PROVE Says(i, v)
    BY <1>1, <1>4, <2>3 DEF Says, Decided
  <2>4. OneSaid' /\ Unsaid'
    BY <1>1, <2>3, NothingSaid
  <2>5. ApprovalsTypeOK'
    BY <1>1, <1>2, <1>4, <2>1 DEF Approving, ApprovalsTypeOK, HoldType, AskType
  <2>6. HoldKnown' /\ TasksFit'
    BY <1>1, <1>2, <1>4, <2>2 DEF Approving, HoldKnown, TasksFit
  <2> QED
    BY <2>4, <2>5, <2>6 DEF Approving
<1> QED
  BY <1>3, <1>4 DEF ArmPending

\* Clicks, timers, the sweep, events, time and the gateway: a handler begins at
\* most, which says what the row says or has yet to look at the row.
LEMMA OccurrenceStep ==
  ASSUME Approving,
         \/ \E say \in Verdicts : Click(say)
         \/ HoldTimerFires \/ Sweep \/ TerminalEvent
  PROVE  Approving'
<1>1. /\ card' = card /\ submitted' = submitted /\ answered' = answered /\ ask' = ask
      /\ bridge' = bridge /\ held' = held /\ upsets' = upsets /\ clicks' \in 0..MaxClicks
      /\ card.id \in Cards
  BY Typed, ApprovalsAssumption DEF Click, HoldTimerFires, Sweep, TerminalEvent, saidVars, Decided
<1>2. hold' \in HoldType /\ hold'.id = hold.id
  BY Typed DEF Click, HoldTimerFires, Sweep, TerminalEvent, HoldType
<1>3. Quiet
  <2>1. ASSUME NEW say \in Verdicts, Click(say) PROVE Quiet
    BY <1>1, <1>2, <2>1, StartIsQuiet DEF Click, Decisions
  <2>2. CASE HoldTimerFires
    BY <1>1, <1>2, <2>2, StartIsQuiet DEF HoldTimerFires, Expiry, Decisions
  <2>3. CASE Decided /\ Starts(Redelivery("sweep"))
    BY <1>1, <1>2, <2>3, RedeliveryIsQuiet
  <2>4. CASE Starts(Expiry("sweep"))
    BY <1>1, <1>2, <2>4, StartIsQuiet DEF Expiry, Decisions
  <2>5. CASE TerminalEvent
    BY <1>1, <1>2, <2>5, StartIsQuiet DEF TerminalEvent, Ending, Decisions
  <2> QED
    BY <2>1, <2>2, <2>3, <2>4, <2>5 DEF Sweep
<1> QED
  BY <1>1, <1>2, <1>3, QuietKeeps, Typed DEF Approving, ApprovalsTypeOK, HoldKnown

LEMMA OutwardStep ==
  ASSUME Approving, Subscribe \/ DeadlinePasses \/ GatewayEnds \/ UNCHANGED approvalsVars
  PROVE  Approving'
<1>1. /\ hold' = hold /\ submitted' = submitted /\ answered' = answered /\ ask' = ask
      /\ work' = work /\ upsets' = upsets /\ clicks' = clicks
      /\ bridge' \in {bridge, "up"} /\ held' \in {held, "ended"}
      /\ card' = card \/ (card' = [card EXCEPT !.late = TRUE] /\ card.id > 0)
  BY DEF Subscribe, DeadlinePasses, GatewayEnds, approvalsVars, saidVars
<1>2. /\ card' \in CardType /\ card'.id = card.id /\ card'.st = card.st
      /\ card'.late => card.id > 0
  BY <1>1, Typed DEF CardType, Approving, HoldKnown
<1>3. ASSUME NEW i \in Cards, NEW v \in Decisions, Says(i, v)' PROVE Says(i, v)
  BY <1>1, <1>2, <1>3 DEF Says, Decided
<1>4. Quiet
  BY <1>1, <1>3 DEF Quiet, Approving, ApprovalsTypeOK, HoldKnown, TasksFit
<1> QED
  BY <1>1, <1>2, <1>4, QuietKeeps, Typed DEF Approving, ApprovalsTypeOK, HoldKnown

-----------------------------------------------------------------------------
(* Handlers.                                                               *)

\* What the end of a handler leaves: the promise of its own card may be resolved
\* with what it says, and no handler but it is gone or changed otherwise.
LEMMA EndsLeaves ==
  ASSUME Approving, NEW t \in work, NEW found \in BOOLEAN, found => hold.id = t.id,
         NEW say \in Decisions, Ends(t, found, say)
  PROVE  /\ work' \subseteq Tasks /\ hold' \in HoldType
         /\ answered' \in [Cards -> SUBSET Verdicts]
         /\ \A u \in work' : u.seen => hold'.id = u.id
         /\ \A u \in work' : \E w \in work : /\ u.id = w.id /\ u.at = w.at /\ u.say = w.say
                                            /\ u.for = w.for
         /\ \A i \in Cards, v \in Decisions :
               v \in answered'[i] => v \in answered[i] \/ (i = t.id /\ v = say)
         /\ hold'.id \in {0, hold.id}
<1>1. work \subseteq Tasks /\ t.id \in Cards /\ answered \in [Cards -> SUBSET Verdicts]
      /\ hold \in HoldType
  BY Typed DEF Tasks
<1>2. CASE found
  <2>1. /\ hold' = NoHold /\ work' = {[u EXCEPT !.seen = FALSE] : u \in work \ {t}}
        /\ answered' = [answered EXCEPT ![t.id] = @ \cup ({say} \cap Verdicts)]
    BY <1>2 DEF Ends, Settle, Answer
  <2>2. hold' \in HoldType /\ hold'.id = 0
    BY <2>1, ApprovalsAssumption DEF NoHold, HoldType
  <2>3. \A u \in work' : /\ u \in Tasks /\ u.seen = FALSE
                         /\ \E w \in work : /\ u.id = w.id /\ u.at = w.at /\ u.say = w.say
                                           /\ u.for = w.for
    BY <1>1, <2>1 DEF Tasks
  <2>4. /\ answered' \in [Cards -> SUBSET Verdicts]
        /\ \A i \in Cards, v \in Decisions :
               v \in answered'[i] => v \in answered[i] \/ (i = t.id /\ v = say)
    BY <1>1, <2>1
  <2> QED
    BY <2>2, <2>3, <2>4
<1>3. CASE ~found
  <2>1. /\ hold' = hold /\ work' = work \ {t}
        /\ \/ answered' = answered
           \/ answered' = [answered EXCEPT ![t.id] = @ \cup ({say} \cap Verdicts)]
    BY <1>3 DEF Ends, Answer
  <2>2. /\ answered' \in [Cards -> SUBSET Verdicts]
        /\ \A i \in Cards, v \in Decisions :
               v \in answered'[i] => v \in answered[i] \/ (i = t.id /\ v = say)
    BY <1>1, <2>1
  <2> QED
    BY <1>1, <2>1, <2>2 DEF Approving, HoldKnown
<1> QED
  BY <1>2, <1>3

\* A handler that goes on says what the row says.
LEMMA Becoming ==
  ASSUME Approving, NEW t \in work, NEW u \in Tasks, Becomes(t, u), hold'.id = hold.id,
         u.seen => hold.id = u.id,
         u.for = "click" => u.say \in Verdicts,
         u.for = "expire" => u.say = "unavailable"
  PROVE  /\ work' \subseteq Tasks /\ TasksFit' /\ answered' = answered
         /\ \A w \in work' : w.seen => hold'.id = w.id
         /\ \A w \in work' : w = u \/ w \in work
<1>1. work' = (work \ {t}) \cup {u} /\ answered' = answered
  BY DEF Becomes
<1> QED
  BY <1>1 DEF Approving, ApprovalsTypeOK, HoldKnown, TasksFit

\* The handler whose compare-and-set wins says the first word about the card, and
\* the row says the same.
LEMMA ClaimSpeaks ==
  ASSUME Approving, NEW i \in Cards, Undecided(i), NEW st \in {"approved", "rejected", "expired"},
         Decide(st), submitted' = submitted, answered' = answered,
         \A w \in work' : w \in work \/ (w.id = i /\ w.say = Decision(st))
  PROVE  /\ OneSaid' /\ Unsaid' /\ card' \in CardType /\ card'.id = card.id
         /\ card'.late = card.late /\ card'.st = st
<1>1. /\ card' \in CardType /\ card'.id = card.id /\ card'.st = st /\ card.id = i
      /\ card'.late = card.late
  BY Typed DEF Decide, CardType, Undecided, HasRow
<1>2. Decision(card'.st) = Decision(st)
  BY <1>1
<1>3. \A v \in Decisions : ~Says(i, v)
  BY <1>1 DEF Approving, Unsaid, Undecided
<1>4. ASSUME NEW j \in Cards, NEW v \in Decisions, Says(j, v)'
      PROVE  Says(j, v) \/ (j = i /\ v = Decision(st))
  BY <1>1, <1>2, <1>4 DEF Says
<1>5. OneSaid'
  BY <1>3, <1>4 DEF Approving, OneSaid
<1>6. Unsaid'
  BY <1>1, <1>4 DEF Approving, Unsaid, CardType, Cards
<1> QED
  BY <1>1, <1>5, <1>6

LEMMA UnsettledStep ==
  ASSUME Approving, NEW t \in work, EndsUnsettled(t), card' = card, submitted' = submitted,
         ask' = ask, bridge' = bridge, held' = held, clicks' = clicks,
         upsets' \in 0..MaxUpsets
  PROVE  Approving'
<1>1. work' \subseteq work /\ hold' = hold /\ answered' = answered
  BY DEF EndsUnsettled
<1>2. ASSUME NEW i \in Cards, NEW v \in Decisions, Says(i, v)' PROVE Says(i, v)
  BY <1>1, <1>2 DEF Says, Decided
<1>3. Quiet
  BY <1>1, <1>2 DEF Quiet, Approving, ApprovalsTypeOK, TasksFit, HoldKnown
<1> QED
  BY <1>1, <1>3, QuietKeeps, Typed DEF Approving, ApprovalsTypeOK, HoldKnown

LEMMA ClickClaimsStep ==
  ASSUME Approving, NEW t \in work, ClickClaims(t)
  PROVE  Approving'
<1>1. /\ t \in Tasks /\ t.id \in Cards /\ t.for = "click" /\ t.at = "claim" /\ t.say \in Verdicts
      /\ t.seen => hold.id = t.id
      /\ submitted' = submitted /\ ask' = ask /\ bridge' = bridge /\ held' = held
      /\ clicks' = clicks /\ upsets' = upsets
  BY Typed DEF ClickClaims, Tasks, Approving, TasksFit, HoldKnown
<1>2. CASE card.late /\ card.id = t.id /\ Becomes(t, Expiry("event")) /\ UNCHANGED <<card, hold>>
  <2> DEFINE u == Expiry("event")
  <2>1. /\ u \in Tasks /\ u.id = t.id /\ u.for = "expire" /\ u.say = "unavailable"
        /\ u.at = "claim" /\ (u.seen => hold.id = u.id)
    BY <1>1, <1>2, NewTask DEF Expiry, Decisions
  <2> HIDE DEF u
  <2>2. /\ work' \subseteq Tasks /\ TasksFit' /\ answered' = answered
        /\ \A w \in work' : w.seen => hold'.id = w.id
        /\ \A w \in work' : w = u \/ w \in work
    BY <1>2, <2>1, Becoming DEF u
  <2>3. Quiet
    <3>1. ASSUME NEW i \in Cards, NEW v \in Decisions, Says(i, v)' PROVE Says(i, v)
      BY <1>1, <1>2, <2>1, <2>2, <3>1 DEF Says, Decided
    <3> QED
      BY <2>2, <3>1 DEF Quiet
  <2> QED
    BY <1>1, <1>2, <2>2, <2>3, QuietKeeps, Typed DEF Approving, ApprovalsTypeOK, HoldKnown
<1>3. CASE /\ Undecided(t.id) /\ ~card.late
           /\ Decide(IF t.say = "approve" THEN "approved" ELSE "rejected")
           /\ hold' = IF t.seen THEN [hold EXCEPT !.timer = FALSE] ELSE hold
           /\ Becomes(t, [t EXCEPT !.at = "submit"])
  <2> DEFINE u == [t EXCEPT !.at = "submit"]
             st == IF t.say = "approve" THEN "approved" ELSE "rejected"
  <2>1. /\ u \in Tasks /\ u.id = t.id /\ u.for = "click" /\ u.say = t.say
        /\ u.at = "submit" /\ u.seen = t.seen
    BY <1>1 DEF Tasks
  <2>2. hold' \in HoldType /\ hold'.id = hold.id
    <3>1. hold \in HoldType
      BY Typed
    <3> QED
      BY <1>3, <3>1 DEF HoldType
  <2>3. st \in {"approved", "rejected", "expired"} /\ Decision(st) = t.say
    BY <1>1 DEF Decision, Verdicts
  <2> HIDE DEF u, st
  <2>4. /\ work' \subseteq Tasks /\ TasksFit' /\ answered' = answered
        /\ \A w \in work' : w.seen => hold'.id = w.id
        /\ \A w \in work' : w = u \/ w \in work
    BY <1>1, <1>3, <2>1, <2>2, Becoming DEF u
  <2>5. /\ OneSaid' /\ Unsaid' /\ card' \in CardType /\ card'.id = card.id
        /\ card'.late = card.late /\ card.id = t.id
    BY <1>1, <1>3, <2>1, <2>3, <2>4, ClaimSpeaks DEF st, Undecided, HasRow
  <2>6. ApprovalsTypeOK'
    BY <1>1, <2>2, <2>4, <2>5 DEF Approving, ApprovalsTypeOK, CardType, HoldType
  <2>7. HoldKnown'
    BY <1>1, <2>2, <2>4, <2>5 DEF Approving, HoldKnown, Cards
  <2> QED
    BY <2>4, <2>5, <2>6, <2>7 DEF Approving
<1>4. CASE EndsUnsettled(t) /\ UNCHANGED card
  BY <1>1, <1>4, UnsettledStep, Typed
<1> QED
  BY <1>2, <1>3, <1>4 DEF ClickClaims

LEMMA ExpiryClaimsStep ==
  ASSUME Approving, NEW t \in work, ExpiryClaims(t)
  PROVE  Approving'
<1>0. t \in Tasks
  BY Typed
<1>1. /\ t.id \in Cards /\ t.for = "expire" /\ t.at = "claim"
      /\ t.say = "unavailable" /\ (t.seen => hold.id = t.id)
      /\ submitted' = submitted /\ ask' = ask /\ bridge' = bridge /\ held' = held
      /\ clicks' = clicks /\ upsets' = upsets
  BY <1>0 DEF ExpiryClaims, Tasks, Approving, TasksFit, HoldKnown
<1>2. CASE ~Undecided(t.id)
  BY <1>1, <1>2, UnsettledStep, Typed DEF ExpiryClaims
<1>3. CASE Undecided(t.id)
  <2> DEFINE u == [t EXCEPT !.at = "submit"]
  <2>1. /\ u \in Tasks /\ u.id = t.id /\ u.for = t.for /\ u.say = t.say
        /\ u.at = "submit" /\ u.seen = t.seen
    BY <1>0 DEF Tasks
  <2>2. hold' = hold /\ Becomes(t, u) /\ Decide("expired") /\ Decision("expired") = "unavailable"
    BY <1>3 DEF ExpiryClaims, Decision
  <2> HIDE DEF u
  <2>3. /\ work' \subseteq Tasks /\ TasksFit' /\ answered' = answered
        /\ \A w \in work' : w.seen => hold'.id = w.id
        /\ \A w \in work' : w = u \/ w \in work
    BY <1>1, <2>1, <2>2, Becoming
  <2>4. /\ OneSaid' /\ Unsaid' /\ card' \in CardType /\ card'.id = card.id
        /\ card'.late = card.late /\ card.id = t.id
    BY <1>1, <1>3, <2>1, <2>2, <2>3, ClaimSpeaks DEF Undecided, HasRow
  <2>5. ApprovalsTypeOK'
    BY <1>1, <2>2, <2>3, <2>4 DEF Approving, ApprovalsTypeOK, CardType
  <2>6. HoldKnown'
    BY <1>1, <2>2, <2>3, <2>4 DEF Approving, HoldKnown, Cards
  <2> QED
    BY <2>3, <2>4, <2>5, <2>6 DEF Approving
<1> QED
  BY <1>2, <1>3

\* The gateway's own end of the request says what the row said already, if it
\* did say something.
LEMMA ResolveClaimsStep ==
  ASSUME Approving, NEW t \in work, ResolveClaims(t)
  PROVE  Approving'
<1>1. /\ t \in Tasks /\ t.id \in Cards /\ t.for = "resolve" /\ t.at = "claim"
      /\ t.seen => hold.id = t.id
      /\ submitted' = submitted /\ ask' = ask /\ bridge' = bridge /\ held' = held
      /\ clicks' = clicks /\ upsets' = upsets
  BY Typed DEF ResolveClaims, Tasks, Approving, HoldKnown
<1>2. CASE ~HasRow(t.id)
  BY <1>1, <1>2, UnsettledStep, Typed DEF ResolveClaims
<1>3. CASE HasRow(t.id)
  <2> DEFINE u == [t EXCEPT !.at = "drop", !.say = Decision(card'.st)]
  <2>1. /\ u \in Tasks /\ u.id = t.id /\ u.for = "resolve" /\ u.say = Decision(card'.st)
        /\ u.at = "drop" /\ u.seen = t.seen
    <3>1. Decision(card'.st) \in Decisions
      BY DEF Decision, Decisions, Verdicts
    <3> QED
      BY <1>1, <3>1 DEF Tasks
  <2>2. hold' = hold /\ Becomes(t, u)
    BY <1>3 DEF ResolveClaims
  <2> HIDE DEF u
  <2>3. /\ work' \subseteq Tasks /\ TasksFit' /\ answered' = answered
        /\ \A w \in work' : w.seen => hold'.id = w.id
        /\ \A w \in work' : w = u \/ w \in work
    BY <1>1, <2>1, <2>2, Becoming
  <2>4. CASE Undecided(t.id)
    <3>1. /\ Decide("expired") /\ card'.st = "expired"
      BY <1>1, <1>3, <2>4, Typed DEF ResolveClaims, Decide, CardType
    <3>2. /\ OneSaid' /\ Unsaid' /\ card' \in CardType /\ card'.id = card.id
          /\ card'.late = card.late /\ card.id = t.id
      BY <1>1, <2>1, <2>3, <2>4, <3>1, ClaimSpeaks DEF Undecided, HasRow
    <3>3. ApprovalsTypeOK'
      BY <1>1, <2>2, <2>3, <3>2 DEF Approving, ApprovalsTypeOK, CardType
    <3>4. HoldKnown'
      BY <1>1, <2>2, <2>3, <3>2 DEF Approving, HoldKnown, Cards
    <3> QED
      BY <2>3, <3>2, <3>3, <3>4 DEF Approving
  <2>5. CASE ~Undecided(t.id)
    <3>1. card' = card /\ card.id = t.id /\ Decided
      BY <1>1, <1>3, <2>5, Typed DEF ResolveClaims, Undecided, HasRow, CardType, Decided
    <3>2. ASSUME NEW i \in Cards, NEW v \in Decisions, Says(i, v)' PROVE Says(i, v)
      BY <1>1, <2>1, <2>3, <3>1, <3>2 DEF Says, Decided
    <3>3. Quiet
      BY <2>3, <3>2 DEF Quiet
    <3> QED
      BY <1>1, <2>2, <2>3, <3>1, <3>3, QuietKeeps, Typed DEF Approving, ApprovalsTypeOK, HoldKnown
  <2> QED
    BY <2>4, <2>5
<1> QED
  BY <1>2, <1>3

\* A handler that fails at the row denies, which is no verdict of anybody.
LEMMA ClaimFailsStep ==
  ASSUME Approving, NEW t \in work, ClaimFails(t)
  PROVE  Approving'
<1>1. /\ t \in Tasks /\ t.id \in Cards /\ (t.seen => hold.id = t.id)
      /\ submitted' = submitted /\ ask' = ask /\ bridge' = bridge /\ held' = held
      /\ clicks' = clicks /\ upsets' \in 0..MaxUpsets /\ card' = card
  BY Typed, UpsetType DEF ClaimFails, Tasks, Approving, HoldKnown
<1>2. CASE EndsUnsettled(t)
  BY <1>1, <1>2, UnsettledStep
<1>3. CASE Ends(t, t.seen, "unavailable")
  <2>0. t.seen \in BOOLEAN
    BY <1>1 DEF Tasks
  <2>1. "unavailable" \in Decisions
    BY DEF Decisions
  <2>2. /\ work' \subseteq Tasks /\ hold' \in HoldType
        /\ answered' \in [Cards -> SUBSET Verdicts]
        /\ \A u \in work' : u.seen => hold'.id = u.id
        /\ \A u \in work' : \E w \in work : /\ u.id = w.id /\ u.at = w.at /\ u.say = w.say
                                           /\ u.for = w.for
        /\ \A i \in Cards, v \in Decisions :
              v \in answered'[i] => v \in answered[i] \/ (i = t.id /\ v = "unavailable")
        /\ hold'.id \in {0, hold.id}
    BY <1>1, <1>3, <2>0, <2>1, EndsLeaves
  <2>3. ASSUME NEW i \in Cards, NEW v \in Decisions, Says(i, v)' PROVE Says(i, v)
    <3>1. \A j \in Cards : answered'[j] \subseteq Verdicts
      BY <2>2
    <3>2. v = "unavailable" => v \notin answered'[i]
      BY <3>1 DEF Verdicts
    <3> QED
      BY <1>1, <2>2, <2>3, <3>2 DEF Says, Decided
  <2>4. OneSaid' /\ Unsaid'
    BY <1>1, <2>3, NothingSaid
  <2>5. ApprovalsTypeOK'
    BY <1>1, <2>2 DEF Approving, ApprovalsTypeOK, HoldType
  <2>6. HoldKnown' /\ TasksFit'
    BY <1>1, <2>2 DEF Approving, HoldKnown, TasksFit
  <2> QED
    BY <2>4, <2>5, <2>6 DEF Approving
<1> QED
  BY <1>2, <1>3 DEF ClaimFails

LEMMA SubmitStep ==
  ASSUME Approving, NEW t \in work, Submit(t)
  PROVE  Approving'
<1>1. /\ t \in Tasks /\ t.id \in Cards /\ t.at = "submit" /\ t.say \in Decisions
      /\ t.seen => hold.id = t.id
      /\ ask' = ask /\ bridge' = bridge /\ clicks' = clicks /\ card' = card
      /\ held' \in {"held", "ended"} \cup Decisions /\ upsets' \in 0..MaxUpsets
  BY Typed, UpsetType DEF Submit, Tasks, Approving, ApprovalsTypeOK, HoldKnown
<1>2. /\ submitted' \in [Cards -> SUBSET Decisions]
      /\ \A i \in Cards, v \in Decisions :
            v \in submitted'[i] => v \in submitted[i] \/ (i = t.id /\ v = t.say)
  BY <1>1, Typed DEF Submit
<1>3. Says(t.id, t.say)
  BY <1>1 DEF Says
<1>4. CASE Becomes(t, [t EXCEPT !.at = "drop"]) /\ UNCHANGED hold
  <2> DEFINE u == [t EXCEPT !.at = "drop"]
  <2>1. /\ u \in Tasks /\ u.id = t.id /\ u.for = t.for /\ u.say = t.say
        /\ u.at = "drop" /\ u.seen = t.seen
    BY <1>1 DEF Tasks
  <2> HIDE DEF u
  <2>2. /\ work' \subseteq Tasks /\ TasksFit' /\ answered' = answered
        /\ \A w \in work' : w.seen => hold'.id = w.id
        /\ \A w \in work' : w = u \/ w \in work
    <3>1. (t.for = "click" => t.say \in Verdicts) /\ (t.for = "expire" => t.say = "unavailable")
      BY DEF Approving, TasksFit
    <3> QED
      BY <1>1, <1>4, <2>1, <3>1, Becoming DEF u
  <2>3. ASSUME NEW i \in Cards, NEW v \in Decisions, Says(i, v)' PROVE Says(i, v)
    BY <1>1, <1>2, <1>3, <2>1, <2>2, <2>3 DEF Says, Decided
  <2>4. OneSaid' /\ Unsaid'
    BY <1>1, <2>3, NothingSaid
  <2>5. ApprovalsTypeOK'
    BY <1>1, <1>2, <1>4, <2>2 DEF Approving, ApprovalsTypeOK
  <2>6. HoldKnown'
    BY <1>1, <1>4, <2>2 DEF Approving, HoldKnown
  <2> QED
    BY <2>2, <2>4, <2>5, <2>6 DEF Approving
<1>5. CASE Ends(t, t.seen, t.say)
  <2>1. t.seen \in BOOLEAN
    BY <1>1 DEF Tasks
  <2>2. /\ work' \subseteq Tasks /\ hold' \in HoldType
        /\ answered' \in [Cards -> SUBSET Verdicts]
        /\ \A u \in work' : u.seen => hold'.id = u.id
        /\ \A u \in work' : \E w \in work : /\ u.id = w.id /\ u.at = w.at /\ u.say = w.say
                                           /\ u.for = w.for
        /\ \A i \in Cards, v \in Decisions :
              v \in answered'[i] => v \in answered[i] \/ (i = t.id /\ v = t.say)
        /\ hold'.id \in {0, hold.id}
    BY <1>1, <1>5, <2>1, EndsLeaves
  <2>3. ASSUME NEW i \in Cards, NEW v \in Decisions, Says(i, v)' PROVE Says(i, v)
    BY <1>1, <1>2, <1>3, <2>2, <2>3 DEF Says, Decided
  <2>4. OneSaid' /\ Unsaid'
    BY <1>1, <2>3, NothingSaid
  <2>5. ApprovalsTypeOK'
    BY <1>1, <1>2, <2>2 DEF Approving, ApprovalsTypeOK, HoldType
  <2>6. HoldKnown' /\ TasksFit'
    BY <1>1, <2>2 DEF Approving, HoldKnown, TasksFit
  <2> QED
    BY <2>4, <2>5, <2>6 DEF Approving
<1> QED
  BY <1>4, <1>5 DEF Submit

LEMMA DropRowStep ==
  ASSUME Approving, NEW t \in work, DropRow(t)
  PROVE  Approving'
<1> DEFINE found == IF t.for = "resolve" THEN hold.id = t.id ELSE t.seen
<1>1. /\ t \in Tasks /\ t.id \in Cards /\ t.at = "drop" /\ t.say \in Decisions
      /\ ask' = ask /\ bridge' = bridge /\ clicks' = clicks /\ held' = held /\ upsets' = upsets
      /\ submitted' = submitted /\ Ends(t, found, t.say)
  BY Typed DEF DropRow, Tasks
<1>2. found \in BOOLEAN /\ (found => hold.id = t.id)
  BY <1>1 DEF Tasks, Approving, HoldKnown
<1>3. Says(t.id, t.say)
  BY <1>1 DEF Says
<1>4. /\ card' \in CardType /\ card'.id = card.id /\ card'.late = card.late
      /\ card'.st \in {card.st, "none"}
  BY <1>1, Typed DEF DropRow, CardType
<1> HIDE DEF found
<1>5. /\ work' \subseteq Tasks /\ hold' \in HoldType
      /\ answered' \in [Cards -> SUBSET Verdicts]
      /\ \A u \in work' : u.seen => hold'.id = u.id
      /\ \A u \in work' : \E w \in work : /\ u.id = w.id /\ u.at = w.at /\ u.say = w.say
                                         /\ u.for = w.for
      /\ \A i \in Cards, v \in Decisions :
            v \in answered'[i] => v \in answered[i] \/ (i = t.id /\ v = t.say)
      /\ hold'.id \in {0, hold.id}
  BY <1>1, <1>2, EndsLeaves
<1>6. ASSUME NEW i \in Cards, NEW v \in Decisions, Says(i, v)' PROVE Says(i, v)
  BY <1>1, <1>3, <1>4, <1>5, <1>6 DEF Says, Decided
<1>7. OneSaid' /\ Unsaid'
  BY <1>4, <1>6, NothingSaid
<1>8. ApprovalsTypeOK'
  BY <1>1, <1>4, <1>5 DEF Approving, ApprovalsTypeOK, HoldType, CardType
<1>9. HoldKnown' /\ TasksFit'
  BY <1>1, <1>4, <1>5 DEF Approving, HoldKnown, TasksFit
<1> QED
  BY <1>7, <1>8, <1>9 DEF Approving

\* The hold is denied, which is no verdict.
LEMMA FailBridgeStep ==
  ASSUME Approving, FailBridge
  PROVE  Approving'
<1>1. /\ card' = card /\ held' = held /\ clicks' = clicks /\ submitted' = submitted
      /\ bridge' = "down" /\ upsets' \in 0..MaxUpsets
  BY UpsetType DEF FailBridge
<1>2. ask' \in AskType /\ ask'.at = ask.at
  <2>1. ask \in AskType /\ (ask.at = "no") \in BOOLEAN
    BY Typed
  <2> QED
    BY <2>1 DEF FailBridge, AskType
<1>3. answered \in [Cards -> SUBSET Verdicts] /\ work \subseteq Tasks /\ hold \in HoldType
  BY Typed
<1>4. answered' = answered
  <2>1. {"unavailable"} \cap Verdicts = {}
    BY DEF Verdicts
  <2> QED
    BY <1>3, <2>1 DEF FailBridge, Settle, Answer
<1>5. /\ work' \subseteq Tasks /\ hold' \in HoldType /\ hold'.id \in {0, hold.id}
      /\ \A u \in work' : u.seen => hold'.id = u.id
      /\ \A u \in work' : \E w \in work : /\ u.id = w.id /\ u.at = w.at /\ u.say = w.say
                                         /\ u.for = w.for
  <2>1. CASE work' = work /\ hold' = hold
    BY <1>3, <2>1 DEF Approving, HoldKnown
  <2>2. CASE hold' = NoHold /\ work' = {[t EXCEPT !.seen = FALSE] : t \in work}
    <3>1. hold' \in HoldType /\ hold'.id = 0
      BY <2>2, ApprovalsAssumption DEF NoHold, HoldType
    <3>2. \A u \in work' : /\ u \in Tasks /\ u.seen = FALSE
                           /\ \E w \in work : /\ u.id = w.id /\ u.at = w.at /\ u.say = w.say
                                             /\ u.for = w.for
      BY <1>3, <2>2 DEF Tasks
    <3> QED
      BY <3>1, <3>2
  <2> QED
    BY <2>1, <2>2 DEF FailBridge, Settle
<1>6. ASSUME NEW i \in Cards, NEW v \in Decisions, Says(i, v)' PROVE Says(i, v)
  BY <1>1, <1>4, <1>5, <1>6 DEF Says, Decided
<1>7. OneSaid' /\ Unsaid'
  BY <1>1, <1>6, NothingSaid
<1>8. ApprovalsTypeOK'
  BY <1>1, <1>2, <1>4, <1>5 DEF Approving, ApprovalsTypeOK, HoldType, AskType
<1>9. HoldKnown' /\ TasksFit'
  BY <1>1, <1>2, <1>5 DEF Approving, HoldKnown, TasksFit
<1> QED
  BY <1>7, <1>8, <1>9 DEF Approving

\* After a restart nothing is under way but what the startup makes of the row.
LEMMA RestartCoordinatorStep ==
  ASSUME Approving, RestartCoordinator
  PROVE  Approving'
<1>1. /\ card' = card /\ held' = held /\ clicks' = clicks /\ submitted' = submitted
      /\ answered' = answered /\ bridge' = "starting" /\ upsets' \in 0..MaxUpsets
      /\ hold' = NoHold /\ ask' = NoAsk
  BY UpsetType DEF RestartCoordinator, saidVars
<1>2. hold' \in HoldType /\ hold'.id = 0 /\ ask' \in AskType /\ ask'.at = "no"
  BY <1>1, AskMoves, ApprovalsAssumption DEF HoldType, NoHold
<1>3. \A u \in work' :
        /\ u \in Tasks /\ ~u.seen /\ u.for \in {"resolve", "deliver"}
        /\ u.at = "claim" \/ (u.id = card.id /\ Decided /\ u.say = Decision(card.st))
  <2> DEFINE fresh(t) == [t EXCEPT !.seen = FALSE]
  <2>1. \A u \in work' : /\ card.st # "none"
                         /\ u = fresh(Ending("boot")) \/ (Decided /\ u = fresh(Redelivery("boot")))
    BY DEF RestartCoordinator
  <2>2. ASSUME card.st # "none"
        PROVE  /\ Ending("boot") \in Tasks /\ Ending("boot").for = "resolve"
               /\ Ending("boot").at = "claim"
               /\ Redelivery("boot") \in Tasks /\ Redelivery("boot").for = "deliver"
               /\ Redelivery("boot").id = card.id /\ Redelivery("boot").say = Decision(card.st)
    <3>1. card.id \in Cards /\ "unavailable" \in Decisions
      BY <2>2, Typed DEF Decisions
    <3> QED
      BY <3>1, NewTask, RedeliveryFits DEF Ending
  <2> QED
    BY <2>1, <2>2 DEF Tasks
<1>4. ASSUME NEW i \in Cards, NEW v \in Decisions, Says(i, v)' PROVE Says(i, v)
  BY <1>1, <1>3, <1>4 DEF Says, Decided
<1>5. OneSaid' /\ Unsaid'
  BY <1>1, <1>4, NothingSaid
<1>6. ApprovalsTypeOK'
  BY <1>1, <1>2, <1>3 DEF Approving, ApprovalsTypeOK, HoldType, AskType
<1>7. HoldKnown' /\ TasksFit'
  BY <1>1, <1>2, <1>3 DEF Approving, HoldKnown, TasksFit
<1> QED
  BY <1>5, <1>6, <1>7 DEF Approving

LEMMA ApprovalsStep == Approving /\ [ApprovalsNext]_approvalsVars => Approving'
<1> SUFFICES ASSUME Approving, [ApprovalsNext]_approvalsVars PROVE Approving'
  OBVIOUS
<1>1. ASSUME NEW t \in work, Handle(t) PROVE Approving'
  BY <1>1, ClickClaimsStep, ExpiryClaimsStep, ResolveClaimsStep, ClaimFailsStep, SubmitStep,
     DropRowStep DEF Handle
<1>2. CASE AskStep
  BY <1>2, LookUpStep, CreateStep, SendCardStep, BindMessageStep, ArmPendingStep DEF AskStep
<1> QED
  BY <1>1, <1>2, PresentStep, OccurrenceStep, OutwardStep, FailBridgeStep,
     RestartCoordinatorStep DEF ApprovalsNext

\* Whatever is said about a card, by the row, by the handlers and to the gateway, is
\* the same, and nothing before the row is decided
\* (gateway-approval-coordinator.ts).
THEOREM AlwaysApproving == ApprovalsSpec => []Approving
  BY ApprovalsBegin, ApprovalsStep, PTL DEF ApprovalsSpec

\* The gateway hears one decision about a card.
THEOREM OneVerdict == ApprovalsSpec => []OneVerdictPerCard
<1>1. ASSUME Approving, NEW i \in Cards
      PROVE  Cardinality(submitted[i] \cup answered[i]) <= 1
  <2> DEFINE S == submitted[i] \cup answered[i]
  <2>1. \A v, w \in S : v = w
    BY <1>1, Typed DEF Approving, OneSaid, Says, Decisions
  <2> HIDE DEF S
  <2>2. CASE S = {}
    BY <2>2, FS_EmptySet DEF S
  <2>3. CASE S # {}
    <3>1. PICK v : S = {v}
      BY <2>1, <2>3
    <3>2. Cardinality(S) = 1
      BY <3>1, FS_Singleton
    <3> QED
      BY <3>2 DEF S
  <2> QED
    BY <2>2, <2>3
<1>2. Approving => OneVerdictPerCard
  BY <1>1 DEF OneVerdictPerCard
<1> QED
  BY <1>2, AlwaysApproving, PTL
===============================================================================

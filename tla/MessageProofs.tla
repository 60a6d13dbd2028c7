---------------------------- MODULE MessageProofs ----------------------------
(***************************************************************************)
(* Theorems about the way of messages through the agent runner's query and *)
(* out of its session to the platform, for any number of batches,          *)
(* messages, attempts, failures and crashes.                               *)
(*                                                                         *)
(* InStep is the inductive invariant of a query: the loop's queue of turns *)
(* lists the batches of the provider's queue of prompts in the same order  *)
(* (Aligned), and no batch is in two places or in one after its end, but   *)
(* for the turn whose dispatch has just thrown (InOnePlace).               *)
(*                                                                         *)
(* Delivering is the one of the delivery: one poll drains at a time        *)
(* (OneDrain), what it has still to do is unsettled (RowsWait), and what   *)
(* the store says of a message agrees with what was done with it, but for  *)
(* what the drain is about to write (HandedOnce, Counted).                 *)
(***************************************************************************)
EXTENDS AgentTurns, Delivery, WellFoundedInduction, SequenceTheorems, TLAPS

TurnType == [batch : Batches, nudged : BOOLEAN]

\* The batch of the i-th turn behind the one that is answered.
Behind(i) == queuedTurns[i].batch

Aligned ==
    /\ stage \in {"ask", "poll", "result"} =>
         /\ answering /\ asked \in Batches /\ route = asked
         /\ ~aborted =>
              /\ Len(prompts) = Len(queuedTurns)
              /\ \A i \in 1..Len(queuedTurns) : prompts[i] = Behind(i)
    /\ stage \in {"idle", "parked"} /\ ~aborted /\ answering =>
         /\ Len(prompts) = Len(queuedTurns) + 1
         /\ prompts[1] = route
         /\ \A i \in 1..Len(queuedTurns) : prompts[i + 1] = Behind(i)
    /\ stage \in {"idle", "parked"} /\ ~aborted /\ ~answering => prompts = <<>>
    /\ answering => route \in Batches
    /\ ~answering => queuedTurns = <<>>
    /\ stage = "off" => ~answering /\ followUp = NoBatch
    /\ stage = "parked" => ~answering /\ ~aborted
    /\ aborted => followUp = NoBatch

\* A batch nobody was told of.
Untold(b) == answers[b] = 0 /\ notices[b] = 0

\* What was told of the turn in hand: nothing, or part of an answer before a throw.
InHand(b) == notices[b] = 0 /\ (answers[b] = 0 \/ (stage = "thrown" /\ b \in torn))

\* What may be told of a batch in the end.
ToldOnce(b) ==
    /\ answers[b] <= 1 /\ notices[b] <= 1
    /\ answers[b] = 1 /\ notices[b] = 1 => b \in torn
    /\ b \notin taken => Untold(b)

InOnePlace ==
    /\ unread \cap taken = {}
    /\ followUp \notin unread \cup taken
    /\ \A b \in Batches : ToldOnce(b)
    /\ answering => route \in taken /\ InHand(route)
    /\ \A i \in 1..Len(queuedTurns) :
         /\ Behind(i) \in taken /\ Untold(Behind(i))
         /\ Behind(i) # route
         /\ \A j \in 1..Len(queuedTurns) : Behind(i) = Behind(j) => i = j

InStep == TurnsTypeOK /\ Aligned /\ InOnePlace /\ RepliesGoHome

-----------------------------------------------------------------------------
(* The provider's generator.                                               *)

LEMMA InStepInit == TurnsInit => InStep
<1> SUFFICES ASSUME TurnsInit PROVE InStep
  OBVIOUS
<1> USE TurnsAssumption DEF TurnsInit
<1>1. <<>> \in Seq(Batches) /\ <<>> \in Seq(TurnType) /\ Len(queuedTurns) = 0
  BY EmptySeq
<1>2. TurnsTypeOK
  BY <1>1 DEF TurnsTypeOK, TurnType, Stages, Results
<1> QED
  BY <1>1, <1>2 DEF InStep, Aligned, InOnePlace, ToldOnce, InHand, Untold, RepliesGoHome

LEMMA StartStep == ASSUME InStep, NEW b \in Batches, StartQuery(b) PROVE InStep'
<1> USE TurnsAssumption DEF InStep, StartQuery, talkVars
<1>1. <<>> \in Seq(Batches) /\ <<>> \in Seq(TurnType) /\ Len(queuedTurns') = 0
  BY EmptySeq
<1>2. TurnsTypeOK'
  BY <1>1 DEF TurnsTypeOK, TurnType, Stages
<1>3. Aligned'
  BY <1>1, EmptySeq DEF Aligned, Behind
<1>4. InOnePlace'
  BY <1>1 DEF InOnePlace, ToldOnce, InHand, Untold, Aligned, Behind
<1> QED
  BY <1>2, <1>3, <1>4 DEF RepliesGoHome

LEMMA AskStep == ASSUME InStep, AskBroker PROVE InStep'
<1> USE DEF InStep, AskBroker, talkVars
<1>1. TurnsTypeOK'
  BY DEF TurnsTypeOK, Stages
<1>2. Aligned' /\ InOnePlace'
  BY DEF Aligned, InOnePlace, ToldOnce, InHand, Untold, Behind
<1> QED
  BY <1>1, <1>2 DEF RepliesGoHome

LEMMA PollStep == ASSUME InStep, PollResponse PROVE InStep'
<1> USE DEF InStep, PollResponse, talkVars
<1>1. TurnsTypeOK'
  BY DEF TurnsTypeOK, Stages, Results
<1>2. Aligned' /\ InOnePlace'
  BY DEF Aligned, InOnePlace, ToldOnce, InHand, Untold, Behind
<1> QED
  BY <1>1, <1>2 DEF RepliesGoHome

LEMMA NextPromptStep == ASSUME InStep, NextPrompt PROVE InStep'
<1> USE DEF InStep
<1>1. /\ stage = "idle"
      /\ UNCHANGED <<unread, aborted, route, nudged, answering, queuedTurns, result, followUp,
                     commands, taken, replies, answers, notices, torn, unheard, cut>>
  BY DEF NextPrompt, talkVars
<1>2. InOnePlace' /\ RepliesGoHome'
  BY <1>1 DEF InOnePlace, ToldOnce, InHand, Untold, Behind, RepliesGoHome
<1>3. CASE stage' \in {"closed", "parked"} /\ UNCHANGED <<prompts, asked>>
           /\ (stage' = "parked" => ~aborted /\ prompts = <<>>)
  <2>1. TurnsTypeOK'
    BY <1>1, <1>3 DEF TurnsTypeOK, Stages
  <2>2. ASSUME stage' = "parked" PROVE ~answering
    <3>1. Len(prompts) = 0 /\ Len(queuedTurns) \in Nat
      BY <1>3, <2>2, EmptySeq, LenProperties DEF TurnsTypeOK, TurnType
    <3> QED
      BY <1>1, <1>3, <2>2, <3>1 DEF Aligned
  <2>3. Aligned'
    BY <1>1, <1>3, <2>2 DEF Aligned, Behind
  <2> QED
    BY <1>2, <2>1, <2>3
<1>4. CASE /\ ~aborted /\ prompts # <<>>
           /\ stage' = "ask" /\ asked' = Head(prompts) /\ prompts' = Tail(prompts)
  <2>1. /\ Head(prompts) \in Batches /\ Tail(prompts) \in Seq(Batches)
        /\ Len(Tail(prompts)) = Len(prompts) - 1 /\ Head(prompts) = prompts[1]
        /\ \A i \in 1..Len(Tail(prompts)) : Tail(prompts)[i] = prompts[i + 1]
    BY <1>4, HeadTailProperties DEF TurnsTypeOK
  <2>2. TurnsTypeOK'
    BY <1>1, <1>4, <2>1 DEF TurnsTypeOK, Stages
  <2>3. answering /\ Len(queuedTurns) \in Nat
    BY <1>1, <1>4, LenProperties DEF Aligned, TurnsTypeOK, TurnType
  <2>4. Aligned'
    BY <1>1, <1>4, <2>1, <2>3 DEF Aligned, Behind
  <2> QED
    BY <1>2, <2>2, <2>4
<1> QED
  BY <1>1, <1>3, <1>4 DEF NextPrompt

-----------------------------------------------------------------------------
(* The loop over the results.                                              *)

\* The queue of turns once a retry, if one is due, has been pushed.
Turns == IF result = "unwrapped" /\ ~nudged THEN Append(queuedTurns, Retry) ELSE queuedTurns

LEMMA RetryQueued ==
  ASSUME InStep, stage = "result"
  PROVE  /\ Turns \in Seq(TurnType) /\ Len(Turns) \in Nat /\ Len(queuedTurns) \in Nat
         /\ \A i \in 1..Len(queuedTurns) : Turns[i] = queuedTurns[i]
         /\ result = "unwrapped" /\ ~nudged =>
              Len(Turns) = Len(queuedTurns) + 1 /\ Turns[Len(queuedTurns) + 1].batch = asked
         /\ ~(result = "unwrapped" /\ ~nudged) => Turns = queuedTurns
<1>1. queuedTurns \in Seq(TurnType) /\ Len(queuedTurns) \in Nat
  BY LenProperties DEF InStep, TurnsTypeOK, TurnType
<1>2. Retry \in TurnType /\ Retry.batch = asked
  BY DEF InStep, Aligned, Retry, Turn, TurnType
<1>3. /\ Append(queuedTurns, Retry) \in Seq(TurnType)
      /\ Len(Append(queuedTurns, Retry)) = Len(queuedTurns) + 1
      /\ \A i \in 1..Len(queuedTurns) : Append(queuedTurns, Retry)[i] = queuedTurns[i]
      /\ Append(queuedTurns, Retry)[Len(queuedTurns) + 1] = Retry
  BY <1>1, <1>2, AppendProperties
<1> QED
  BY <1>1, <1>2, <1>3 DEF Turns

LEMMA EndTurnStep == ASSUME InStep, EndTurn PROVE InStep'
<1> USE DEF InStep
<1> DEFINE again == result = "unwrapped" /\ ~nudged
           n == Len(queuedTurns)
<1>1. /\ stage = "result" /\ stage' = "idle" /\ result' = "none"
      /\ replies' = replies \cup {<<asked, route>>}
      /\ answers' = IF again THEN answers ELSE [answers EXCEPT ![asked] = @ + 1]
      /\ prompts' = IF again /\ ~aborted THEN Append(prompts, asked) ELSE prompts
      /\ \/ /\ Turns # <<>>
            /\ route' = Head(Turns).batch /\ nudged' = Head(Turns).nudged
            /\ queuedTurns' = Tail(Turns)
            /\ UNCHANGED answering
         \/ /\ Turns = <<>>
            /\ answering' = FALSE
            /\ UNCHANGED <<route, nudged, queuedTurns>>
      /\ asked' = NoBatch
      /\ UNCHANGED <<unread, aborted, followUp, commands, taken, notices, torn, unheard, cut>>
  BY DEF EndTurn, Turns
<1>2. answering /\ asked \in Batches /\ route = asked /\ route \in taken /\ Untold(asked)
  BY <1>1 DEF Aligned, InOnePlace, ToldOnce, InHand, Untold
<1>3. /\ Turns \in Seq(TurnType) /\ Len(Turns) \in Nat /\ n \in Nat
      /\ \A i \in 1..n : Turns[i] = queuedTurns[i]
      /\ again => Len(Turns) = n + 1 /\ Turns[n + 1].batch = asked
      /\ ~again => Turns = queuedTurns
  BY <1>1, RetryQueued
<1> HIDE DEF again, n
<1>4. /\ ~aborted => Len(prompts) = n /\ \A i \in 1..n : prompts[i] = queuedTurns[i].batch
  BY <1>1 DEF Aligned, Behind, n
<1>5. /\ prompts' \in Seq(Batches)
      /\ ~aborted => /\ Len(prompts') = Len(Turns)
                     /\ \A i \in 1..Len(Turns) : prompts'[i] = Turns[i].batch
  <2>1. /\ Append(prompts, asked) \in Seq(Batches)
        /\ Len(Append(prompts, asked)) = Len(prompts) + 1
        /\ \A i \in 1..Len(prompts) : Append(prompts, asked)[i] = prompts[i]
        /\ Append(prompts, asked)[Len(prompts) + 1] = asked
    BY <1>2, AppendProperties DEF TurnsTypeOK
  <2>2. prompts' \in Seq(Batches)
    BY <1>1, <2>1 DEF TurnsTypeOK
  <2>3. CASE ~again
    BY <1>1, <1>3, <1>4, <2>2, <2>3 DEF n
  <2>4. CASE again
    BY <1>1, <1>3, <1>4, <2>1, <2>2, <2>4
  <2> QED
    BY <2>3, <2>4
\* What has been told, and that no turn stands twice in the queue.
<1>6. /\ answers' \in [Batches -> Nat]
      /\ answers'[asked] = IF again THEN 0 ELSE 1
      /\ \A b \in Batches \ {asked} : answers'[b] = answers[b]
  BY <1>1, <1>2 DEF TurnsTypeOK, Untold
<1>7. \A b \in Batches : ToldOnce(b)'
  BY <1>1, <1>2, <1>6 DEF InOnePlace, ToldOnce, InHand, Untold
<1>8. \A i \in 1..n : /\ queuedTurns[i].batch \in taken /\ Untold(queuedTurns[i].batch)
                      /\ queuedTurns[i].batch # asked
                      /\ \A j \in 1..n : queuedTurns[i].batch = queuedTurns[j].batch => i = j
  BY <1>2 DEF InOnePlace, ToldOnce, InHand, Untold, Behind, n
<1>9. \A i \in 1..Len(Turns) : Turns[i].batch \in Batches
  <2>1. \A i \in 1..Len(Turns) : Turns[i] \in TurnType
    BY <1>3, ElementOfSeq
  <2> QED
    BY <2>1 DEF TurnType
<1>10. \A i \in 1..Len(Turns) :
         /\ Turns[i].batch \in taken
         /\ answers'[Turns[i].batch] = 0 /\ notices[Turns[i].batch] = 0
         /\ \A j \in 1..Len(Turns) : Turns[i].batch = Turns[j].batch => i = j
  <2>1. CASE ~again
    BY <1>3, <1>6, <1>8, <1>9, <2>1 DEF n, Untold
  <2>2. CASE again
    <3>1. \A i \in 1..Len(Turns) : i \in 1..n \/ i = n + 1
      BY <1>3, <2>2
    <3>2. \A i \in 1..n : Turns[i].batch \in Batches \ {asked} /\ i \in 1..Len(Turns)
      BY <1>3, <1>8, <1>9, <2>2
    <3> QED
      BY <1>2, <1>3, <1>6, <1>8, <2>2, <3>1, <3>2 DEF Untold
  <2> QED
    BY <2>1, <2>2
<1>11. RepliesGoHome'
  BY <1>1, <1>2 DEF RepliesGoHome
<1>12. /\ unread' \subseteq Batches /\ stage' \in Stages /\ prompts' \in Seq(Batches)
       /\ asked' \in Batches \cup {NoBatch} /\ aborted' \in BOOLEAN /\ result' \in Results
       /\ followUp' \in Batches \cup {NoBatch} /\ commands' \in Nat /\ taken' \subseteq Batches
       /\ replies' \subseteq Batches \X Batches /\ answers' \in [Batches -> Nat]
       /\ notices' \in [Batches -> Nat]
       /\ torn' \subseteq Batches /\ unheard' \subseteq Batches /\ cut' \subseteq Batches
  <2>1. replies' \subseteq Batches \X Batches
    BY <1>1, <1>2 DEF TurnsTypeOK
  <2>2. stage' \in Stages /\ result' \in Results
    BY <1>1 DEF Stages, Results
  <2> QED
    BY <1>1, <1>5, <1>6, <2>1, <2>2 DEF TurnsTypeOK
<1>13. CASE Turns = <<>>
  <2>1. /\ answering' = FALSE /\ UNCHANGED <<route, nudged, queuedTurns>>
        /\ Len(Turns) = 0
    BY <1>1, <1>13, EmptySeq
  <2>2. n = 0 /\ queuedTurns = <<>>
    <3>1. ~again
      BY <1>3, <2>1
    <3>2. queuedTurns = <<>>
      BY <1>3, <1>13, <3>1
    <3> QED
      BY <1>3, <2>1, <3>1, <3>2 DEF n
  <2>3. TurnsTypeOK'
    <3>1. route' \in Batches \cup {NoBatch} /\ nudged' \in BOOLEAN /\ answering' \in BOOLEAN
          /\ queuedTurns' \in Seq(TurnType)
      BY <2>1 DEF TurnsTypeOK, TurnType
    <3> QED
      BY <1>12, <3>1 DEF TurnsTypeOK, TurnType
  <2>4. ~aborted => prompts' = <<>>
    BY <1>5, <2>1, EmptySeq
  <2>5. Aligned'
    BY <1>1, <2>1, <2>2, <2>4 DEF Aligned
  <2>6. InOnePlace'
    BY <1>1, <1>7, <2>1, <2>2 DEF InOnePlace, ToldOnce, InHand, Untold, n
  <2> QED
    BY <1>11, <2>3, <2>5, <2>6
<1>14. CASE Turns # <<>>
  <2>1. /\ route' = Head(Turns).batch /\ nudged' = Head(Turns).nudged
        /\ queuedTurns' = Tail(Turns) /\ answering'
    BY <1>1, <1>2, <1>14
  <2>2. /\ Head(Turns) \in TurnType /\ Head(Turns) = Turns[1]
        /\ Tail(Turns) \in Seq(TurnType) /\ Len(Tail(Turns)) = Len(Turns) - 1
        /\ \A i \in 1..Len(Tail(Turns)) : Tail(Turns)[i] = Turns[i + 1]
        /\ Len(Turns) \in Nat \ {0}
    BY <1>3, <1>14, HeadTailProperties, EmptySeq
  <2>3. TurnsTypeOK'
    <3>1. route' \in Batches \cup {NoBatch} /\ nudged' \in BOOLEAN
      BY <2>1, <2>2 DEF TurnType
    <3>2. answering' \in BOOLEAN
      BY <1>1, <1>14 DEF TurnsTypeOK
    <3> QED
      BY <1>12, <2>1, <2>2, <3>1, <3>2 DEF TurnsTypeOK, TurnType
  <2>4. Aligned'
    <3>1. ~aborted => /\ prompts'[1] = route' /\ Len(prompts') = Len(queuedTurns') + 1
                      /\ \A i \in 1..Len(queuedTurns') : prompts'[i + 1] = queuedTurns'[i].batch
      BY <1>5, <2>1, <2>2
    <3>2. route' \in Batches
      BY <2>1, <2>2 DEF TurnType
    <3> QED
      BY <1>1, <2>1, <3>1, <3>2 DEF Aligned, Behind
  <2>5. InOnePlace'
    <3>1. route' \in taken /\ answers'[route'] = 0 /\ notices[route'] = 0
      BY <1>10, <2>1, <2>2
    <3>2. ASSUME NEW i \in 1..Len(queuedTurns')
          PROVE  /\ queuedTurns'[i].batch \in taken
                 /\ answers'[queuedTurns'[i].batch] = 0 /\ notices[queuedTurns'[i].batch] = 0
                 /\ queuedTurns'[i].batch # route'
                 /\ \A j \in 1..Len(queuedTurns') :
                      queuedTurns'[i].batch = queuedTurns'[j].batch => i = j
      <4>1. /\ i + 1 \in 1..Len(Turns) /\ 1 \in 1..Len(Turns) /\ i + 1 # 1
            /\ queuedTurns'[i] = Turns[i + 1]
        BY <2>1, <2>2
      <4>2. ASSUME NEW j \in 1..Len(queuedTurns')
            PROVE  j + 1 \in 1..Len(Turns) /\ queuedTurns'[j] = Turns[j + 1]
        BY <2>1, <2>2
      <4>3. ASSUME NEW j \in 1..Len(queuedTurns'), queuedTurns'[i].batch = queuedTurns'[j].batch
            PROVE  i = j
        <5>1. i + 1 = j + 1
          BY <1>10, <4>1, <4>2, <4>3
        <5> QED
          BY <2>1, <2>2, <5>1
      <4> QED
        BY <1>10, <2>1, <2>2, <4>1, <4>3
    <3> QED
      BY <1>1, <1>7, <3>1, <3>2 DEF InOnePlace, ToldOnce, InHand, Untold, Behind
  <2> QED
    BY <1>11, <2>3, <2>4, <2>5
<1> QED
  BY <1>13, <1>14

LEMMA DispatchStep == ASSUME InStep, DispatchThrows PROVE InStep'
<1> USE DEF InStep
<1>1. /\ stage = "result" /\ stage' = "thrown" /\ result' = "none"
      /\ UNCHANGED <<unread, prompts, asked, aborted, route, nudged, answering, queuedTurns,
                     followUp, commands, taken, notices, unheard, cut>>
  BY DEF DispatchThrows
<1>2. answering /\ asked \in Batches /\ route = asked /\ route \in taken /\ Untold(asked)
  BY <1>1 DEF Aligned, InOnePlace, InHand, Untold
<1>3. Aligned'
  BY <1>1 DEF Aligned
<1>4. CASE UNCHANGED <<replies, answers, torn>>
  <2>1. TurnsTypeOK'
    BY <1>1, <1>4 DEF TurnsTypeOK, Stages, Results
  <2>2. InOnePlace'
    BY <1>1, <1>2, <1>4 DEF InOnePlace, ToldOnce, InHand, Untold, Behind
  <2> QED
    BY <1>3, <1>4, <2>1, <2>2 DEF RepliesGoHome
<1>5. CASE /\ replies' = replies \cup {<<asked, route>>}
           /\ answers' = [answers EXCEPT ![asked] = @ + 1]
           /\ torn' = torn \cup {asked}
  <2>1. replies' \subseteq Batches \X Batches /\ answers' \in [Batches -> Nat]
    BY <1>2, <1>5 DEF TurnsTypeOK
  <2>2. TurnsTypeOK'
    BY <1>1, <1>2, <1>5, <2>1 DEF TurnsTypeOK, Stages, Results
  <2>3. answers'[asked] = 1 /\ \A b \in Batches \ {asked} : answers'[b] = answers[b]
    BY <1>2, <1>5 DEF TurnsTypeOK, Untold
  <2>4. \A i \in 1..Len(queuedTurns) : Behind(i) \in Batches \ {asked}
    <3>1. \A i \in 1..Len(queuedTurns) : queuedTurns[i] \in TurnType
      BY ElementOfSeq DEF TurnsTypeOK, TurnType
    <3> QED
      BY <1>2, <3>1 DEF InOnePlace, Behind, TurnType
  <2>5. \A b \in Batches : ToldOnce(b)'
    BY <1>1, <1>2, <1>5, <2>3 DEF InOnePlace, ToldOnce, Untold
  <2>6. InHand(route)'
    BY <1>1, <1>2, <1>5, <2>3 DEF InHand, Untold
  <2>7. \A i \in 1..Len(queuedTurns') : Untold(Behind(i))'
    BY <1>1, <2>3, <2>4 DEF InOnePlace, Untold, Behind
  <2>8. InOnePlace'
    BY <1>1, <2>5, <2>6, <2>7 DEF InOnePlace, Behind
  <2>9. RepliesGoHome'
    BY <1>2, <1>5 DEF RepliesGoHome
  <2> QED
    BY <1>3, <2>2, <2>8, <2>9
<1> QED
  BY <1>4, <1>5 DEF DispatchThrows

LEMMA EndQueryStep == ASSUME InStep, EndQuery PROVE InStep'
<1> USE DEF InStep
<1>1. /\ stage' = "off"
      /\ followUp' = NoBatch /\ prompts' = <<>> /\ asked' = NoBatch /\ queuedTurns' = <<>>
      /\ answering' = FALSE /\ aborted' = FALSE /\ route' = NoBatch /\ nudged' = FALSE
      /\ UNCHANGED <<unread, result, commands, taken, replies, answers, torn>>
  BY DEF EndQuery
<1>2. \A b \in Unfinished : b \in Batches /\ b \in taken /\ InHand(b)
  <2>1. DOMAIN queuedTurns = 1..Len(queuedTurns)
    BY LenProperties DEF TurnsTypeOK, TurnType
  <2>2. \A i \in 1..Len(queuedTurns) : queuedTurns[i] \in TurnType
    BY ElementOfSeq DEF TurnsTypeOK, TurnType
  <2>3. ASSUME NEW i \in 1..Len(queuedTurns)
        PROVE  Behind(i) \in Batches /\ Behind(i) \in taken /\ InHand(Behind(i))
    BY <2>2 DEF InOnePlace, ToldOnce, InHand, Untold, Behind, TurnType
  <2>4. answering => route \in Batches /\ route \in taken /\ InHand(route)
    BY DEF InOnePlace, ToldOnce, InHand, Untold, Aligned
  <2>5. ASSUME NEW b \in Unfinished
        PROVE  (answering /\ b = route) \/ \E i \in 1..Len(queuedTurns) : b = Behind(i)
    BY <2>1 DEF Unfinished, Behind
  <2> QED
    BY <2>3, <2>4, <2>5
<1>3. /\ notices' \in [Batches -> Nat] /\ unheard' \subseteq Batches /\ cut' \subseteq Batches
      /\ \A b \in Batches : ToldOnce(b)'
  <2>1. CASE /\ \E unwritten \in SUBSET FailedRoutes :
                  /\ notices' = [b \in Batches |->
                       IF b \in FailedRoutes \ unwritten THEN notices[b] + 1 ELSE notices[b]]
                  /\ unheard' = unheard \cup unwritten
             /\ UNCHANGED cut
    BY <1>1, <1>2, <2>1 DEF TurnsTypeOK, InOnePlace, ToldOnce, InHand, Untold, FailedRoutes
  <2>2. CASE cut' = cut \cup Unfinished /\ UNCHANGED <<notices, unheard>>
    BY <1>1, <1>2, <2>2 DEF TurnsTypeOK, InOnePlace, ToldOnce, InHand, Untold
  <2> QED
    BY <2>1, <2>2 DEF EndQuery
<1>4. <<>> \in Seq(Batches) /\ <<>> \in Seq(TurnType) /\ Len(queuedTurns') = 0
  BY <1>1, EmptySeq
<1>5. TurnsTypeOK'
  BY <1>1, <1>3, <1>4 DEF TurnsTypeOK, TurnType, Stages
<1>6. Aligned'
  BY <1>1 DEF Aligned
<1>7. InOnePlace'
  BY <1>1, <1>3, <1>4, TurnsAssumption DEF InOnePlace, ToldOnce, InHand, Untold, TurnsTypeOK
<1> QED
  BY <1>1, <1>5, <1>6, <1>7 DEF RepliesGoHome

-----------------------------------------------------------------------------
(* The poll beside it.                                                     *)

LEMMA ClaimStep == ASSUME InStep, NEW b \in Batches, ClaimFollowUp(b) PROVE InStep'
<1> USE DEF InStep, ClaimFollowUp, talkVars
<1>1. TurnsTypeOK'
  BY DEF TurnsTypeOK
<1>2. Aligned' /\ InOnePlace'
  BY DEF Aligned, InOnePlace, ToldOnce, InHand, Untold, Behind
<1> QED
  BY <1>1, <1>2 DEF RepliesGoHome

LEMMA AbortStep == ASSUME InStep, AbortForCommand PROVE InStep'
<1> USE DEF InStep, AbortForCommand, talkVars
<1>1. TurnsTypeOK'
  BY DEF TurnsTypeOK, Resume, Stages
<1>2. Aligned' /\ InOnePlace'
  BY DEF Aligned, InOnePlace, ToldOnce, InHand, Untold, Behind, Resume
<1> QED
  BY <1>1, <1>2 DEF RepliesGoHome

LEMMA PushStep == ASSUME InStep, PushFollowUp PROVE InStep'
<1> USE DEF InStep
<1> DEFINE n == Len(queuedTurns)
           t == Turn(followUp, FALSE)
<1>1. /\ followUp # NoBatch /\ followUp \in Batches
      /\ prompts' = Append(prompts, followUp) /\ stage' = IF stage = "parked" THEN "idle" ELSE stage
      /\ taken' = taken \cup {followUp} /\ followUp' = NoBatch
      /\ UNCHANGED <<unread, asked, aborted, result, commands, replies, answers, notices, torn,
                     unheard, cut>>
  BY DEF PushFollowUp, Resume, talkVars, TurnsTypeOK
<1>2. ~aborted /\ stage # "off" /\ followUp \notin taken /\ Untold(followUp)
  BY <1>1 DEF Aligned, InOnePlace, ToldOnce, InHand, Untold
<1>3. /\ prompts' \in Seq(Batches) /\ Len(prompts') = Len(prompts) + 1 /\ Len(prompts) \in Nat
      /\ \A i \in 1..Len(prompts) : prompts'[i] = prompts[i]
      /\ prompts'[Len(prompts) + 1] = followUp
  BY <1>1, AppendProperties, LenProperties DEF TurnsTypeOK
<1>4. queuedTurns \in Seq(TurnType) /\ n \in Nat
  BY LenProperties DEF TurnsTypeOK, TurnType
<1>5. t \in TurnType /\ t.batch = followUp
  BY <1>1 DEF Turn, TurnType
<1>6. RepliesGoHome'
  BY <1>1 DEF RepliesGoHome
<1> HIDE DEF n, t
<1>7. CASE ~answering
  <2>1. route' = followUp /\ nudged' = FALSE /\ answering' = TRUE /\ queuedTurns' = queuedTurns
    BY <1>7 DEF PushFollowUp, QueueFollowUp
  <2>2. queuedTurns = <<>> /\ Len(queuedTurns) = 0
    BY <1>7, EmptySeq DEF Aligned
  <2>3. TurnsTypeOK'
    BY <1>1, <1>3, <2>1, TurnsAssumption DEF TurnsTypeOK, Stages
  <2>4. stage' \in {"idle", "parked"} => prompts = <<>> /\ Len(prompts) = 0
    BY <1>1, <1>2, <1>7, EmptySeq DEF Aligned
  <2>5. Aligned'
    BY <1>1, <1>2, <1>3, <1>7, <2>1, <2>2, <2>4 DEF Aligned
  <2>6. InOnePlace'
    BY <1>1, <1>2, <2>1, <2>2, TurnsAssumption DEF InOnePlace, ToldOnce, InHand, Untold, TurnsTypeOK
  <2> QED
    BY <1>6, <2>3, <2>5, <2>6
<1>8. CASE answering
  <2>1. queuedTurns' = Append(queuedTurns, t) /\ UNCHANGED <<route, nudged, answering>>
    BY <1>8 DEF PushFollowUp, QueueFollowUp, t
  <2>2. /\ queuedTurns' \in Seq(TurnType) /\ Len(queuedTurns') = n + 1
        /\ \A i \in 1..n : queuedTurns'[i] = queuedTurns[i]
        /\ queuedTurns'[n + 1] = t
    BY <1>4, <1>5, <2>1, AppendProperties DEF n
  <2>3. TurnsTypeOK'
    BY <1>1, <1>3, <2>1, <2>2, TurnsAssumption DEF TurnsTypeOK, TurnType, Stages
  <2>4. stage # "parked"
    BY <1>8 DEF Aligned
  <2>5. Aligned'
    <3>1. CASE stage \in {"ask", "poll", "result"}
      <4>1. Len(prompts) = n /\ \A i \in 1..n : prompts[i] = queuedTurns[i].batch
        BY <1>2, <3>1 DEF Aligned, Behind, n
      <4>2. ASSUME NEW i \in 1..(n + 1) PROVE prompts'[i] = queuedTurns'[i].batch
        <5>1. i \in 1..n \/ i = n + 1
          BY <1>4
        <5> QED
          BY <1>3, <1>5, <2>2, <4>1, <5>1
      <4> QED
        BY <1>1, <1>3, <2>1, <2>2, <3>1, <4>1, <4>2 DEF Aligned, Behind
    <3>2. CASE stage = "idle"
      <4>1. /\ Len(prompts) = n + 1 /\ prompts[1] = route
            /\ \A i \in 1..n : prompts[i + 1] = queuedTurns[i].batch
        BY <1>2, <1>8, <3>2 DEF Aligned, Behind, n
      <4>2. ASSUME NEW i \in 1..(n + 1) PROVE prompts'[i + 1] = queuedTurns'[i].batch
        <5>1. CASE i \in 1..n
          <6>1. i + 1 \in 1..Len(prompts)
            BY <1>4, <4>1, <5>1
          <6> QED
            BY <1>3, <2>2, <4>1, <5>1, <6>1
        <5>2. CASE i = n + 1
          BY <1>3, <1>5, <2>2, <4>1, <5>2
        <5> QED
          BY <1>4, <5>1, <5>2
      <4>3. prompts'[1] = route /\ Len(prompts') = n + 2 /\ n + 1 + 1 = n + 2
        BY <1>3, <1>4, <4>1
      <4> QED
        BY <1>1, <1>2, <2>1, <2>2, <3>2, <4>2, <4>3 DEF Aligned, Behind
    <3>3. CASE stage \in {"closed", "thrown"}
      <4>1. answering' /\ route' \in Batches /\ stage' = stage
        BY <1>1, <1>8, <2>1, <3>3 DEF Aligned
      <4> QED
        BY <1>2, <3>3, <4>1, <1>1 DEF Aligned
    <3> QED
      BY <1>2, <2>4, <3>1, <3>2, <3>3 DEF TurnsTypeOK, Stages
  <2>6. InOnePlace'
    <3>1. route \in taken /\ InHand(route) /\ route # followUp
      BY <1>2, <1>8 DEF InOnePlace, ToldOnce, InHand, Untold
    <3>2. ASSUME NEW i \in 1..(n + 1)
          PROVE  /\ queuedTurns'[i].batch \in taken'
                 /\ answers'[queuedTurns'[i].batch] = 0 /\ notices'[queuedTurns'[i].batch] = 0
                 /\ queuedTurns'[i].batch # route'
                 /\ \A j \in 1..(n + 1) : queuedTurns'[i].batch = queuedTurns'[j].batch => i = j
      <4>1. \A k \in 1..n : queuedTurns'[k].batch \in taken
        BY <2>2 DEF InOnePlace, ToldOnce, InHand, Untold, Behind, n
      <4>2. ASSUME NEW k \in 1..(n + 1)
            PROVE  k \in 1..n \/ (k = n + 1 /\ queuedTurns'[k].batch = followUp)
        <5>1. queuedTurns'[n + 1].batch = followUp
          BY <1>5, <2>2
        <5>2. k \in 1..n \/ k = n + 1
          BY <1>4
        <5>3. CASE k \in 1..n
          BY <5>3
        <5>4. CASE k = n + 1
          BY <5>1, <5>4
        <5> QED
          BY <5>2, <5>3, <5>4
      <4> QED
        BY <1>1, <1>2, <2>1, <2>2, <3>1, <4>1, <4>2
           DEF InOnePlace, ToldOnce, InHand, Untold, Behind, n
    <3> QED
      BY <1>1, <1>2, <2>1, <2>2, <3>1, <3>2, TurnsAssumption
         DEF InOnePlace, ToldOnce, InHand, Untold, Behind, TurnsTypeOK
  <2> QED
    BY <1>6, <2>3, <2>5, <2>6
<1> QED
  BY <1>7, <1>8

-----------------------------------------------------------------------------
(* The theorems.                                                           *)

LEMMA InStepStep == InStep /\ [TurnsNext]_turnVars => InStep'
<1> SUFFICES ASSUME InStep, [TurnsNext]_turnVars PROVE InStep'
  OBVIOUS
<1>1. CASE UNCHANGED turnVars
  <2>1. TurnsTypeOK' /\ RepliesGoHome'
    BY <1>1 DEF turnVars, talkVars, InStep, TurnsTypeOK, RepliesGoHome
  <2>2. Aligned'
    BY <1>1 DEF turnVars, InStep, Aligned, Behind
  <2>3. InOnePlace'
    BY <1>1 DEF turnVars, talkVars, InStep, InOnePlace, ToldOnce, InHand, Untold, Behind
  <2> QED
    BY <2>1, <2>2, <2>3 DEF InStep
<1>2. CASE \E b \in Batches : StartQuery(b)
  BY <1>2, StartStep
<1>3. CASE QueryStep
  BY <1>3, AskStep, PollStep, NextPromptStep, EndTurnStep, DispatchStep, EndQueryStep
     DEF QueryStep
<1>4. CASE \E b \in Batches : ClaimFollowUp(b)
  BY <1>4, ClaimStep
<1>5. CASE PushFollowUp
  BY <1>5, PushStep
<1>6. CASE AbortForCommand
  BY <1>6, AbortStep
<1> QED
  BY <1>1, <1>2, <1>3, <1>4, <1>5, <1>6 DEF TurnsNext

TurnsSpec == TurnsInit /\ [][TurnsNext]_turnVars

\* The queue of turns and the provider's queue of prompts never get out of step.
THEOREM AlwaysInStep == TurnsSpec => []InStep
  BY InStepInit, InStepStep, PTL DEF TurnsSpec

\* "Where replies go is a property of the TURN": a reply takes the route of the
\* batch whose prompt it answers.
THEOREM RepliesReturn == TurnsSpec => []RepliesGoHome
<1>1. InStep => RepliesGoHome
  BY DEF InStep
<1> QED
  BY AlwaysInStep, <1>1, PTL

\* "Completed turns are no longer answering or queued": a batch gets at most one
\* answer and one failure notice, and both only when a write of the answer threw.
THEOREM ConcludedOnce == TurnsSpec => []OneConclusion
<1>1. InStep => OneConclusion
  BY DEF InStep, InOnePlace, ToldOnce, InHand, Untold, OneConclusion
<1> QED
  BY AlwaysInStep, <1>1, PTL

-----------------------------------------------------------------------------
(* Delivery.                                                               *)

\* The steps a drain takes at a row; a poll that drains has entered, and a message
\* is at one of some steps when a poll takes such a step at its row.
AtRow        == {"send", "mark", "record", "giveup", "clear"}
Drains(p)    == poll[p].pc \in AtRow \cup {"read"}
IsAt(m, pcs) == \E p \in Polls : poll[p].pc \in pcs /\ Row(p) = m

\* One poll drains at a time.
OneDrain ==
    /\ \A p \in Polls : Drains(p) => inflight
    /\ \A p, q \in Polls : Drains(p) /\ Drains(q) => p = q

\* The rows a drain has still to do are unsettled, but for the one just settled.
RowsWait ==
    \A p \in Polls :
        /\ poll[p].rest = {} <=> poll[p].pc \notin AtRow
        /\ \A m \in poll[p].rest : settled[m] = "no" \/ (PollAt(p, "clear") /\ m = Row(p))
        /\ PollAt(p, "clear") => settled[Row(p)] # "no"

\* One hand-over more than those without a row only if there is a row, or the
\* drain is about to write it.
HandedOnce ==
    \A m \in Messages :
        handed[m] <= unmarked[m] + IF settled[m] = "delivered" \/ IsAt(m, {"mark"}) THEN 1 ELSE 0

\* The count a message has in the store is what its failures amount to, but for
\* the one not recorded yet; with its attempts used up it is not tried again.
Counted ==
    \A m \in Messages :
        /\ settled[m] = "no" /\ ~IsAt(m, {"record", "giveup"}) =>
              tries[m] <= attempts[m] + unkept[m] /\ tries[m] < MaxAttempts + unkept[m]
        /\ IsAt(m, {"record", "giveup"}) => tries[m] <= attempts[m] + unkept[m] + 1

Delivering ==
    DeliveryTypeOK /\ OneDrain /\ RowsWait /\ HandedOnce /\ Counted /\ AttemptsBounded

PollType == [pc : {"idle", "enter", "read", "send", "mark", "record", "giveup", "clear"},
             rest : SUBSET Messages]

LEMMA DeliveryBegins == DeliveryInit => Delivering
<1> SUFFICES ASSUME DeliveryInit PROVE Delivering
  OBVIOUS
<1> USE DeliveryAssumption DEF DeliveryInit
<1>1. DeliveryTypeOK
  <2>1. /\ handed \in [Messages -> Nat] /\ unmarked \in [Messages -> Nat]
        /\ tries \in [Messages -> Nat] /\ unkept \in [Messages -> Nat]
    OBVIOUS
  <2>2. poll \in [Polls -> PollType]
    BY DEF OffPoll, PollType
  <2>3. box \in [running : BOOLEAN, open : BOOLEAN] /\ 0 \in 0..MaxTroubles /\ 0 \in 0..MaxMessages
    OBVIOUS
  <2>4. settled \in [Messages -> {"no", "delivered", "failed"}] /\ attempts \in [Messages -> Nat]
    OBVIOUS
  <2> HIDE DEF DeliveryInit
  <2>5. posted = 0 /\ troubles = 0 /\ inflight = FALSE
    BY DEF DeliveryInit
  <2> QED
    BY <2>1, <2>2, <2>3, <2>4, <2>5 DEF DeliveryTypeOK, PollType
<1>2. \A p \in Polls : poll[p].pc = "idle" /\ poll[p].rest = {}
  BY DEF OffPoll
<1>3. OneDrain /\ RowsWait
  BY <1>2 DEF OneDrain, RowsWait, Drains, AtRow, PollAt
<1>4. HandedOnce /\ Counted /\ AttemptsBounded
  BY <1>2 DEF HandedOnce, Counted, IsAt, AttemptsBounded
<1> QED
  BY <1>1, <1>3, <1>4 DEF Delivering

\* A drain at a row is at one of the rows it has still to do.
LEMMA RowOfRest ==
  ASSUME NEW S \in SUBSET Messages, S # {}
  PROVE  Min(S) \in S
<1>1. IsWellFoundedOn(OpToRel(<, Nat), Nat)
  BY NatLessThanWellFounded
<1>2. S \subseteq Nat
  BY DEF Messages
<1>3. PICK x \in S : \A y \in S : ~(<<y, x>> \in OpToRel(<, Nat))
  BY <1>1, <1>2, WFMin
<1>4. ASSUME NEW y \in S, y < x PROVE FALSE
  <2>1. <<y, x>> \in OpToRel(<, Nat)
    BY <1>2, <1>4, Zenon DEF OpToRel
  <2> QED
    BY <1>3, <2>1
<1>5. \A y \in S : x <= y
  BY <1>2, <1>4
<1> QED
  BY <1>5, Zenon DEF Min

\* Beside a poll that drains, the other one has nothing in hand.
LEMMA DrainsAlone ==
  ASSUME Delivering, NEW p \in Polls, Drains(p)
  PROVE  /\ poll[p].pc \in AtRow =>
              poll[p].rest # {} /\ Row(p) \in poll[p].rest /\ Row(p) \in Messages
         /\ inflight
         /\ \A q \in Polls : q # p => poll[q].pc \in {"idle", "enter"} /\ poll[q].rest = {}
         /\ \A m : IsAt(m, {"mark"}) <=> poll[p].pc = "mark" /\ m = Row(p)
         /\ \A m : IsAt(m, {"record", "giveup"}) <=>
                     poll[p].pc \in {"record", "giveup"} /\ m = Row(p)
<1> USE DEF Delivering, OneDrain
<1>1. \A q \in Polls : poll[q].rest \in SUBSET Messages
                      /\ poll[q].pc \in {"idle", "enter", "read"} \cup AtRow
  BY DEF DeliveryTypeOK, AtRow
<1>2. poll[p].pc \in AtRow => poll[p].rest # {} /\ Row(p) \in poll[p].rest
  BY <1>1, RowOfRest DEF Row, RowsWait
<1>3. \A q \in Polls : q # p => ~Drains(q)
  OBVIOUS
<1>4. \A q \in Polls : q # p => poll[q].pc \in {"idle", "enter"} /\ poll[q].rest = {}
  BY <1>1, <1>3 DEF Drains, RowsWait, AtRow
<1> QED
  BY <1>1, <1>2, <1>4 DEF IsAt

\* The drain goes on at its row.
LEMMA GoesOn ==
  ASSUME Delivering, NEW p \in Polls, poll[p].pc \in AtRow, NEW to \in AtRow, GoOn(p, to)
  PROVE  /\ poll' \in [Polls -> PollType] /\ inflight' = inflight
         /\ OneDrain'
         /\ \A q \in Polls : poll'[q].rest = poll[q].rest /\ Row(q)' = Row(q)
         /\ poll'[p].pc = to /\ \A q \in Polls : q # p => poll'[q].pc = poll[q].pc
         /\ \A m : IsAt(m, {"mark"})' <=> to = "mark" /\ m = Row(p)
         /\ \A m : IsAt(m, {"record", "giveup"})' <=> to \in {"record", "giveup"} /\ m = Row(p)
<1>1. poll \in [Polls -> PollType]
  BY DEF Delivering, DeliveryTypeOK, PollType
<1>2. /\ inflight
      /\ \A q \in Polls : q # p => poll[q].pc \in {"idle", "enter"} /\ poll[q].rest = {}
  BY DrainsAlone DEF Drains
<1>3. /\ poll' \in [Polls -> PollType] /\ inflight' = inflight
      /\ \A q \in Polls : poll'[q].rest = poll[q].rest
      /\ poll'[p].pc = to /\ \A q \in Polls : q # p => poll'[q].pc = poll[q].pc
  BY <1>1 DEF GoOn, PollType, AtRow
<1>4. \A q \in Polls : Row(q)' = Row(q)
  BY <1>3 DEF Row
<1>5. OneDrain'
  BY <1>2, <1>3 DEF OneDrain, Drains, AtRow
<1> QED
  BY <1>2, <1>3, <1>4, <1>5 DEF IsAt, AtRow

\* The drain leaves its row.
LEMMA LeavesRow ==
  ASSUME Delivering, NEW p \in Polls, poll[p].pc \in AtRow, NextRow(p)
  PROVE  /\ poll' \in [Polls -> PollType] /\ inflight' \in BOOLEAN
         /\ OneDrain'
         /\ poll'[p].rest = poll[p].rest \ {Row(p)}
         /\ poll'[p].pc = IF poll'[p].rest = {} THEN "idle" ELSE "send"
         /\ \A q \in Polls : q # p => poll'[q] = poll[q] /\ Row(q)' = Row(q)
         /\ \A m : ~IsAt(m, {"mark"})' /\ ~IsAt(m, {"record", "giveup"})'
<1>1. poll \in [Polls -> PollType] /\ inflight \in BOOLEAN
  BY DEF Delivering, DeliveryTypeOK, PollType
<1>2. /\ inflight
      /\ \A q \in Polls : q # p => poll[q].pc \in {"idle", "enter"} /\ poll[q].rest = {}
  BY DrainsAlone DEF Drains
<1>3. /\ poll' \in [Polls -> PollType] /\ inflight' \in BOOLEAN
      /\ poll'[p].rest = poll[p].rest \ {Row(p)}
      /\ poll'[p].pc = IF poll'[p].rest = {} THEN "idle" ELSE "send"
      /\ \A q \in Polls : q # p => poll'[q] = poll[q]
      /\ poll'[p].rest # {} => inflight'
  <2> DEFINE rest == poll[p].rest \ {Row(p)}
             next == IF rest = {} THEN OffPoll ELSE [pc |-> "send", rest |-> rest]
  <2>1. rest \in SUBSET Messages
    BY <1>1 DEF PollType
  <2>2. /\ next \in PollType /\ next.rest = rest
        /\ next.pc = IF rest = {} THEN "idle" ELSE "send"
    BY <2>1 DEF PollType, OffPoll
  <2>3. poll' = [poll EXCEPT ![p] = next] /\ inflight' = (inflight /\ rest # {})
    BY <1>1, <1>2 DEF NextRow
  <2> HIDE DEF next
  <2> QED
    BY <1>1, <1>2, <2>2, <2>3
<1>4. \A q \in Polls : q # p => Row(q)' = Row(q)
  BY <1>3 DEF Row
<1>5. OneDrain'
  BY <1>2, <1>3 DEF OneDrain, Drains, AtRow
<1> QED
  BY <1>2, <1>3, <1>4, <1>5 DEF IsAt

\* RowsWait, when the drain stays at its row or leaves it.
LEMMA RowsStillWait ==
  ASSUME Delivering, NEW p \in Polls, poll[p].pc \in AtRow,
         settled' \in [Messages -> {"no", "delivered", "failed"}],
         \A m \in Messages : m # Row(p) => settled'[m] = settled[m],
         \/ NextRow(p)
         \/ \E to \in AtRow : /\ GoOn(p, to)
                             /\ IF to = "clear" THEN settled'[Row(p)] # "no"
                                ELSE poll[p].pc # "clear" /\ settled' = settled
  PROVE  RowsWait'
<1>1. /\ Row(p) \in poll[p].rest /\ Row(p) \in Messages
      /\ \A q \in Polls : q # p => poll[q].pc \in {"idle", "enter"} /\ poll[q].rest = {}
  BY DrainsAlone DEF Drains
<1>2. \A m \in poll[p].rest : m \in Messages /\ (m # Row(p) => settled[m] = "no")
  BY DEF Delivering, RowsWait, DeliveryTypeOK
<1>3. CASE NextRow(p)
  <2>1. /\ poll'[p].rest = poll[p].rest \ {Row(p)}
        /\ poll'[p].pc = IF poll'[p].rest = {} THEN "idle" ELSE "send"
        /\ \A q \in Polls : q # p => poll'[q] = poll[q]
    BY <1>3, LeavesRow
  <2> QED
    BY <1>1, <1>2, <2>1 DEF RowsWait, PollAt, AtRow
<1>4. ASSUME NEW to \in AtRow, GoOn(p, to),
             IF to = "clear" THEN settled'[Row(p)] # "no"
             ELSE poll[p].pc # "clear" /\ settled' = settled
      PROVE  RowsWait'
  <2>1. /\ poll'[p].pc = to /\ poll'[p].rest = poll[p].rest /\ Row(p)' = Row(p)
        /\ \A q \in Polls : q # p => poll'[q].rest = poll[q].rest /\ poll'[q].pc = poll[q].pc
    BY <1>4, GoesOn
  <2>2. to # "clear" => settled[Row(p)] = "no"
    BY <1>1, <1>4 DEF Delivering, RowsWait, PollAt
  <2>3. ASSUME NEW q \in Polls, q # p
        PROVE  poll'[q].rest = {} /\ poll'[q].pc \notin AtRow
    <3>1. poll'[q].rest = {} /\ poll[q].pc \in {"idle", "enter"} /\ poll'[q].pc = poll[q].pc
      BY <1>1, <2>1, <2>3
    <3> QED
      BY <3>1 DEF AtRow
  <2>5. \A m \in poll[p].rest : settled'[m] = "no" \/ (to = "clear" /\ m = Row(p))
    BY <1>1, <1>2, <1>4, <2>2
  <2> QED
    BY <1>1, <1>4, <2>1, <2>3, <2>5 DEF RowsWait, PollAt, AtRow
<1> QED
  BY <1>3, <1>4

LEMMA TroubleType ==
  ASSUME Delivering, Trouble \/ UNCHANGED troubles
  PROVE  troubles' \in 0..MaxTroubles
BY DeliveryAssumption DEF Trouble, Delivering, DeliveryTypeOK

LEMMA Incremented ==
  ASSUME NEW c \in [Messages -> Nat], NEW m \in Messages
  PROVE  /\ Once(c, m) \in [Messages -> Nat] /\ Once(c, m)[m] = c[m] + 1
         /\ \A k \in Messages : k # m => Once(c, m)[k] = c[k]
BY DEF Once

LEMMA Counts ==
  ASSUME Delivering
  PROVE  /\ handed \in [Messages -> Nat] /\ unmarked \in [Messages -> Nat]
         /\ tries \in [Messages -> Nat] /\ unkept \in [Messages -> Nat]
         /\ attempts \in [Messages -> Nat]
         /\ settled \in [Messages -> {"no", "delivered", "failed"}]
         /\ poll \in [Polls -> PollType]
BY DEF Delivering, DeliveryTypeOK, PollType

LEMMA SendStep ==
  ASSUME Delivering, NEW p \in Polls, Send(p)
  PROVE  Delivering'
<1>0. poll[p].pc = "send" /\ poll[p].pc \in AtRow
  BY DEF Send, PollAt, AtRow
<1> DEFINE r == Row(p)
<1>1. /\ r \in poll[p].rest /\ r \in Messages
      /\ \A m : ~IsAt(m, {"mark"}) /\ ~IsAt(m, {"record", "giveup"})
  BY <1>0, DrainsAlone DEF Drains
<1>2. settled[r] = "no"
  BY <1>0, <1>1 DEF Delivering, RowsWait, PollAt
<1>3. PICK to \in {"mark", "record"} :
        /\ GoOn(p, to)
        /\ to = "mark" => handed' = Once(handed, r) /\ unmarked' = unmarked /\ tries' = tries
        /\ to = "record" =>
              /\ tries' = Once(tries, r)
              /\ \/ handed' = handed /\ unmarked' = unmarked
                 \/ handed' = Once(handed, r) /\ unmarked' = Once(unmarked, r)
  BY DEF Send
<1>4. to \in AtRow
  BY DEF AtRow
<1>5. /\ poll' \in [Polls -> PollType] /\ inflight' = inflight /\ OneDrain'
      /\ \A m : IsAt(m, {"mark"})' <=> to = "mark" /\ m = r
      /\ \A m : IsAt(m, {"record", "giveup"})' <=> to = "record" /\ m = r
  BY <1>0, <1>3, <1>4, GoesOn
<1>6. settled' = settled /\ attempts' = attempts /\ unkept' = unkept
  BY DEF Send
<1>7. RowsWait'
  BY <1>0, <1>3, <1>4, <1>6, Counts, RowsStillWait
<1>8. /\ handed' \in [Messages -> Nat] /\ unmarked' \in [Messages -> Nat]
      /\ tries' \in [Messages -> Nat]
      /\ \A m \in Messages : m # r =>
            handed'[m] = handed[m] /\ unmarked'[m] = unmarked[m] /\ tries'[m] = tries[m]
      /\ to = "mark" => /\ handed'[r] = handed[r] + 1 /\ unmarked'[r] = unmarked[r]
                        /\ tries'[r] = tries[r]
      /\ to = "record" => /\ tries'[r] = tries[r] + 1
                          /\ handed'[r] - unmarked'[r] = handed[r] - unmarked[r]
  <2>1. CASE to = "mark"
    <3>1. handed' = Once(handed, r) /\ unmarked' = unmarked /\ tries' = tries
      BY <1>3, <2>1
    <3> QED
      BY <1>1, <2>1, <3>1, Counts, Incremented
  <2>2. CASE to = "record" /\ handed' = handed /\ unmarked' = unmarked
    <3>1. tries' = Once(tries, r)
      BY <1>3, <2>2
    <3> QED
      BY <1>1, <2>2, <3>1, Counts, Incremented
  <2>3. CASE to = "record" /\ handed' = Once(handed, r) /\ unmarked' = Once(unmarked, r)
    <3>1. tries' = Once(tries, r)
      BY <1>3, <2>3
    <3>2. tries' \in [Messages -> Nat] /\ tries'[r] = tries[r] + 1
          /\ \A m \in Messages : m # r => tries'[m] = tries[m]
      BY <1>1, <3>1, Counts, Incremented
    <3>3. handed' \in [Messages -> Nat] /\ handed'[r] = handed[r] + 1
          /\ \A m \in Messages : m # r => handed'[m] = handed[m]
      BY <1>1, <2>3, Counts, Incremented
    <3>4. unmarked' \in [Messages -> Nat] /\ unmarked'[r] = unmarked[r] + 1
          /\ \A m \in Messages : m # r => unmarked'[m] = unmarked[m]
      BY <1>1, <2>3, Counts, Incremented
    <3>5. handed[r] \in Nat /\ unmarked[r] \in Nat
      BY <1>1, Counts
    <3> QED
      BY <2>3, <3>2, <3>3, <3>4, <3>5
  <2> QED
    BY <1>3, <2>1, <2>2, <2>3
<1>9. DeliveryTypeOK'
  BY <1>5, <1>6, <1>8 DEF Send, Delivering, DeliveryTypeOK, PollType
<1>10. HandedOnce'
  BY <1>1, <1>2, <1>5, <1>6, <1>8, Counts DEF Delivering, HandedOnce
<1>11. Counted' /\ AttemptsBounded'
  BY <1>1, <1>2, <1>5, <1>6, <1>8, Counts, DeliveryAssumption
     DEF Delivering, Counted, AttemptsBounded
<1> QED
  BY <1>5, <1>7, <1>9, <1>10, <1>11 DEF Delivering

LEMMA MarkStep ==
  ASSUME Delivering, NEW p \in Polls, MarkDelivered(p)
  PROVE  Delivering'
<1>0. poll[p].pc = "mark" /\ poll[p].pc \in AtRow
  BY DEF MarkDelivered, PollAt, AtRow
<1> DEFINE r == Row(p)
<1>1. /\ r \in poll[p].rest /\ r \in Messages
      /\ \A m : IsAt(m, {"mark"}) <=> m = r
      /\ \A m : ~IsAt(m, {"record", "giveup"})
  BY <1>0, DrainsAlone DEF Drains
<1>2. settled[r] = "no"
  BY <1>0, <1>1 DEF Delivering, RowsWait, PollAt
<1>3. /\ handed' = handed /\ attempts' = attempts /\ unkept' = unkept
      /\ troubles' \in 0..MaxTroubles
  BY TroubleType DEF MarkDelivered
<1>4. CASE settled' = RowWritten(r, "delivered") /\ GoOn(p, "clear")
           /\ UNCHANGED <<troubles, unmarked, tries>>
  <2>1. /\ settled' \in [Messages -> {"no", "delivered", "failed"}]
        /\ settled'[r] = "delivered" /\ \A m \in Messages : m # r => settled'[m] = settled[m]
    BY <1>1, <1>2, <1>4, Counts DEF RowWritten
  <2>2. /\ poll' \in [Polls -> PollType] /\ inflight' = inflight /\ OneDrain'
        /\ \A m : ~IsAt(m, {"mark"})'
        /\ \A m : ~IsAt(m, {"record", "giveup"})'
    BY <1>0, <1>4, GoesOn DEF AtRow
  <2>3. RowsWait'
    <3>1. "clear" \in AtRow /\ GoOn(p, "clear") /\ settled'[Row(p)] # "no"
      BY <1>4, <2>1 DEF AtRow
    <3> QED
      BY <1>0, <2>1, <3>1, RowsStillWait
  <2>4. DeliveryTypeOK'
    BY <1>3, <1>4, <2>1, <2>2 DEF MarkDelivered, Delivering, DeliveryTypeOK, PollType
  <2>5. HandedOnce'
    BY <1>1, <1>3, <1>4, <2>1, <2>2, Counts DEF Delivering, HandedOnce
  <2>6. Counted' /\ AttemptsBounded'
    BY <1>1, <1>2, <1>3, <1>4, <2>1, <2>2, Counts DEF Delivering, Counted, AttemptsBounded
  <2> QED
    BY <2>2, <2>3, <2>4, <2>5, <2>6 DEF Delivering
<1>5. CASE /\ Trouble /\ GoOn(p, "record") /\ UNCHANGED settled
           /\ unmarked' = Once(unmarked, r) /\ tries' = Once(tries, r)
  <2>1. /\ unmarked' \in [Messages -> Nat] /\ unmarked'[r] = unmarked[r] + 1
        /\ tries' \in [Messages -> Nat] /\ tries'[r] = tries[r] + 1
        /\ \A m \in Messages : m # r => unmarked'[m] = unmarked[m] /\ tries'[m] = tries[m]
    BY <1>1, <1>5, Counts, Incremented
  <2>2. /\ poll' \in [Polls -> PollType] /\ inflight' = inflight /\ OneDrain'
        /\ \A m : ~IsAt(m, {"mark"})'
        /\ \A m : IsAt(m, {"record", "giveup"})' <=> m = r
    BY <1>0, <1>5, GoesOn DEF AtRow
  <2>3. RowsWait'
    <3>1. /\ "record" \in AtRow /\ GoOn(p, "record") /\ settled' = settled
          /\ poll[p].pc # "clear"
      BY <1>0, <1>5 DEF AtRow
    <3> QED
      BY <1>0, <3>1, Counts, RowsStillWait
  <2>4. DeliveryTypeOK'
    BY <1>3, <1>5, <2>1, <2>2 DEF MarkDelivered, Delivering, DeliveryTypeOK, PollType
  <2>5. HandedOnce'
    BY <1>1, <1>2, <1>3, <1>5, <2>1, <2>2, Counts DEF Delivering, HandedOnce
  <2>6. Counted' /\ AttemptsBounded'
    BY <1>1, <1>2, <1>3, <1>5, <2>1, <2>2, Counts, DeliveryAssumption
       DEF Delivering, Counted, AttemptsBounded
  <2> QED
    BY <2>2, <2>3, <2>4, <2>5, <2>6 DEF Delivering
<1> QED
  BY <1>4, <1>5 DEF MarkDelivered

LEMMA RecordStep ==
  ASSUME Delivering, NEW p \in Polls, RecordAttempt(p)
  PROVE  Delivering'
<1>0. poll[p].pc = "record" /\ poll[p].pc \in AtRow
  BY DEF RecordAttempt, PollAt, AtRow
<1> DEFINE r == Row(p)
<1>1. /\ r \in poll[p].rest /\ r \in Messages
      /\ \A m : ~IsAt(m, {"mark"})
      /\ \A m : IsAt(m, {"record", "giveup"}) <=> m = r
  BY <1>0, DrainsAlone DEF Drains
<1>2. settled[r] = "no"
  BY <1>0, <1>1 DEF Delivering, RowsWait, PollAt
<1>3. /\ handed' = handed /\ unmarked' = unmarked /\ tries' = tries /\ settled' = settled
      /\ troubles' \in 0..MaxTroubles
  BY TroubleType DEF RecordAttempt
<1>4. tries[r] <= attempts[r] + unkept[r] + 1 /\ tries[r] <= MaxAttempts + unkept[r]
  BY <1>1 DEF Delivering, Counted, AttemptsBounded
<1>5. PICK up \in 0..1 :
        /\ attempts' = IF up = 1 THEN Once(attempts, r) ELSE attempts
        /\ unkept' = IF up = 1 THEN unkept ELSE Once(unkept, r)
        /\ IF up = 1 /\ attempts'[r] >= MaxAttempts THEN GoOn(p, "giveup") ELSE NextRow(p)
  BY DEF RecordAttempt
<1>6. /\ attempts' \in [Messages -> Nat] /\ unkept' \in [Messages -> Nat]
      /\ attempts'[r] = attempts[r] + up /\ unkept'[r] = unkept[r] + (1 - up)
      /\ \A m \in Messages : m # r => attempts'[m] = attempts[m] /\ unkept'[m] = unkept[m]
  <2>1. CASE up = 1
    BY <1>1, <1>5, <2>1, Counts, Incremented
  <2>2. CASE up = 0
    BY <1>1, <1>5, <2>2, Counts, Incremented
  <2> QED
    BY <2>1, <2>2
<1>7. CASE up = 1 /\ attempts'[r] >= MaxAttempts
  <2>1. /\ poll' \in [Polls -> PollType] /\ inflight' = inflight /\ OneDrain'
        /\ \A m : ~IsAt(m, {"mark"})'
        /\ \A m : IsAt(m, {"record", "giveup"})' <=> m = r
    BY <1>0, <1>5, <1>7, GoesOn DEF AtRow
  <2>2. RowsWait'
    <3>1. /\ "giveup" \in AtRow /\ GoOn(p, "giveup") /\ poll[p].pc # "clear"
      BY <1>0, <1>5, <1>7 DEF AtRow
    <3> QED
      BY <1>0, <1>3, <3>1, Counts, RowsStillWait
  <2>3. DeliveryTypeOK'
    BY <1>3, <1>6, <2>1 DEF RecordAttempt, Delivering, DeliveryTypeOK, PollType
  <2>4. HandedOnce'
    BY <1>1, <1>3, <2>1, Counts DEF Delivering, HandedOnce
  <2>5. Counted' /\ AttemptsBounded'
    BY <1>1, <1>3, <1>4, <1>6, <1>7, <2>1, Counts, DeliveryAssumption
       DEF Delivering, Counted, AttemptsBounded
  <2> QED
    BY <2>1, <2>2, <2>3, <2>4, <2>5 DEF Delivering
<1>8. CASE ~(up = 1 /\ attempts'[r] >= MaxAttempts)
  <2>1. /\ poll' \in [Polls -> PollType] /\ inflight' \in BOOLEAN /\ OneDrain'
        /\ \A m : ~IsAt(m, {"mark"})' /\ ~IsAt(m, {"record", "giveup"})'
    BY <1>0, <1>5, <1>8, LeavesRow
  <2>2. RowsWait'
    BY <1>0, <1>3, <1>5, <1>8, Counts, RowsStillWait
  <2>3. DeliveryTypeOK'
    BY <1>3, <1>6, <2>1 DEF RecordAttempt, Delivering, DeliveryTypeOK, PollType
  <2>4. HandedOnce'
    BY <1>1, <1>3, <2>1, Counts DEF Delivering, HandedOnce
  <2>5. tries[r] <= attempts'[r] + unkept'[r] /\ tries[r] < MaxAttempts + unkept'[r]
    BY <1>1, <1>4, <1>6, <1>8, Counts, DeliveryAssumption
  <2>6. Counted' /\ AttemptsBounded'
    BY <1>1, <1>3, <1>6, <2>1, <2>5, Counts, DeliveryAssumption
       DEF Delivering, Counted, AttemptsBounded
  <2> QED
    BY <2>1, <2>2, <2>3, <2>4, <2>6 DEF Delivering
<1> QED
  BY <1>7, <1>8

LEMMA GiveUpStep ==
  ASSUME Delivering, NEW p \in Polls, GiveUp(p)
  PROVE  Delivering'
<1>0. poll[p].pc = "giveup" /\ poll[p].pc \in AtRow
  BY DEF GiveUp, PollAt, AtRow
<1> DEFINE r == Row(p)
<1>1. /\ r \in poll[p].rest /\ r \in Messages
      /\ \A m : ~IsAt(m, {"mark"})
      /\ \A m : IsAt(m, {"record", "giveup"}) <=> m = r
  BY <1>0, DrainsAlone DEF Drains
<1>2. settled[r] = "no"
  BY <1>0, <1>1 DEF Delivering, RowsWait, PollAt
<1>3. /\ handed' = handed /\ unmarked' = unmarked /\ tries' = tries /\ attempts' = attempts
      /\ troubles' \in 0..MaxTroubles
  BY TroubleType DEF GiveUp
<1>4. tries[r] <= attempts[r] + unkept[r] + 1 /\ tries[r] <= MaxAttempts + unkept[r]
  BY <1>1 DEF Delivering, Counted, AttemptsBounded
<1>5. CASE settled' = RowWritten(r, "failed") /\ GoOn(p, "clear") /\ UNCHANGED <<troubles, unkept>>
  <2>1. /\ settled' \in [Messages -> {"no", "delivered", "failed"}]
        /\ settled'[r] = "failed" /\ \A m \in Messages : m # r => settled'[m] = settled[m]
    BY <1>1, <1>2, <1>5, Counts DEF RowWritten
  <2>2. /\ poll' \in [Polls -> PollType] /\ inflight' = inflight /\ OneDrain'
        /\ \A m : ~IsAt(m, {"mark"})'
        /\ \A m : ~IsAt(m, {"record", "giveup"})'
    BY <1>0, <1>5, GoesOn DEF AtRow
  <2>3. RowsWait'
    <3>1. "clear" \in AtRow /\ GoOn(p, "clear") /\ settled'[Row(p)] # "no"
      BY <1>5, <2>1 DEF AtRow
    <3> QED
      BY <1>0, <2>1, <3>1, RowsStillWait
  <2>4. DeliveryTypeOK'
    BY <1>3, <1>5, <2>1, <2>2 DEF GiveUp, Delivering, DeliveryTypeOK, PollType
  <2>5. HandedOnce'
    BY <1>1, <1>2, <1>3, <2>1, <2>2, Counts DEF Delivering, HandedOnce
  <2>6. Counted' /\ AttemptsBounded'
    BY <1>1, <1>3, <1>5, <2>1, <2>2, Counts DEF Delivering, Counted, AttemptsBounded
  <2> QED
    BY <2>2, <2>3, <2>4, <2>5, <2>6 DEF Delivering
<1>6. CASE Trouble /\ NextRow(p) /\ unkept' = Once(unkept, r) /\ UNCHANGED settled
  <2>1. /\ unkept' \in [Messages -> Nat] /\ unkept'[r] = unkept[r] + 1
        /\ \A m \in Messages : m # r => unkept'[m] = unkept[m]
    BY <1>1, <1>6, Counts, Incremented
  <2>2. /\ poll' \in [Polls -> PollType] /\ inflight' \in BOOLEAN /\ OneDrain'
        /\ \A m : ~IsAt(m, {"mark"})' /\ ~IsAt(m, {"record", "giveup"})'
    BY <1>0, <1>6, LeavesRow
  <2>3. RowsWait'
    BY <1>0, <1>6, Counts, RowsStillWait
  <2>4. DeliveryTypeOK'
    BY <1>3, <1>6, <2>1, <2>2 DEF GiveUp, Delivering, DeliveryTypeOK, PollType
  <2>5. HandedOnce'
    BY <1>1, <1>3, <1>6, <2>2, Counts DEF Delivering, HandedOnce
  <2>6. tries[r] <= attempts[r] + unkept'[r] /\ tries[r] < MaxAttempts + unkept'[r]
    BY <1>1, <1>4, <2>1, Counts, DeliveryAssumption
  <2>7. Counted' /\ AttemptsBounded'
    BY <1>1, <1>3, <1>6, <2>1, <2>2, <2>6, Counts, DeliveryAssumption
       DEF Delivering, Counted, AttemptsBounded
  <2> QED
    BY <2>2, <2>3, <2>4, <2>5, <2>7 DEF Delivering
<1> QED
  BY <1>5, <1>6 DEF GiveUp

LEMMA ClearStep ==
  ASSUME Delivering, NEW p \in Polls, ClearAttempt(p)
  PROVE  Delivering'
<1>0. poll[p].pc = "clear" /\ poll[p].pc \in AtRow /\ NextRow(p)
  BY DEF ClearAttempt, PollAt, AtRow
<1> DEFINE r == Row(p)
<1>1. /\ r \in poll[p].rest /\ r \in Messages
      /\ \A m : ~IsAt(m, {"mark"}) /\ ~IsAt(m, {"record", "giveup"})
  BY <1>0, DrainsAlone DEF Drains
<1>2. settled[r] # "no"
  BY <1>0, <1>1 DEF Delivering, RowsWait, PollAt
<1>3. /\ handed' = handed /\ unmarked' = unmarked /\ tries' = tries /\ unkept' = unkept
      /\ settled' = settled /\ troubles' \in 0..MaxTroubles
  BY TroubleType DEF ClearAttempt, historyVars
<1>4. /\ attempts' \in [Messages -> Nat]
      /\ \A m \in Messages : m # r => attempts'[m] = attempts[m]
  BY <1>1, Counts DEF ClearAttempt
<1>5. /\ poll' \in [Polls -> PollType] /\ inflight' \in BOOLEAN /\ OneDrain'
      /\ \A m : ~IsAt(m, {"mark"})' /\ ~IsAt(m, {"record", "giveup"})'
  BY <1>0, LeavesRow
<1>6. RowsWait'
  BY <1>0, <1>3, Counts, RowsStillWait
<1>7. DeliveryTypeOK'
  BY <1>3, <1>4, <1>5 DEF ClearAttempt, Delivering, DeliveryTypeOK, PollType
<1>8. HandedOnce'
  BY <1>1, <1>3, <1>5 DEF Delivering, HandedOnce
<1>9. Counted' /\ AttemptsBounded'
  BY <1>1, <1>2, <1>3, <1>4, <1>5 DEF Delivering, Counted, AttemptsBounded
<1> QED
  BY <1>5, <1>6, <1>7, <1>8, <1>9 DEF Delivering

\* A poll enters, or finds the other one at work.
LEMMA EnterStep ==
  ASSUME Delivering, NEW p \in Polls, ListSession(p) \/ EnterDrain(p)
  PROVE  Delivering'
<1>1. /\ posted' = posted /\ settled' = settled /\ attempts' = attempts /\ box' = box
      /\ troubles' = troubles /\ handed' = handed /\ unmarked' = unmarked /\ tries' = tries
      /\ unkept' = unkept
  BY DEF ListSession, EnterDrain, historyVars
<1>2. /\ poll' \in [Polls -> PollType] /\ inflight' \in BOOLEAN
      /\ poll[p].pc \in {"idle", "enter"} /\ poll[p].rest = {} /\ poll'[p].rest = {}
      /\ poll'[p].pc \in {"idle", "enter"} \/ (poll'[p].pc = "read" /\ ~inflight /\ inflight')
      /\ \A q \in Polls : q # p => poll'[q] = poll[q]
      /\ inflight => inflight'
  <2>1. CASE ListSession(p)
    BY <2>1, Counts DEF ListSession, OffPoll, GoOn, PollType, Delivering, DeliveryTypeOK
  <2>2. CASE EnterDrain(p)
    <3>1. poll[p].rest = {}
      BY <2>2 DEF EnterDrain, PollAt, Delivering, RowsWait, AtRow
    <3> QED
      BY <2>2, <3>1, Counts DEF EnterDrain, PollAt, PollType, Delivering, DeliveryTypeOK
  <2> QED
    BY <2>1, <2>2
<1>3. \A q \in Polls : q # p => Row(q)' = Row(q)
  BY <1>2 DEF Row
<1>4. OneDrain'
  BY <1>2 DEF Delivering, OneDrain, Drains, AtRow
<1>5. RowsWait'
  BY <1>1, <1>2, <1>3 DEF Delivering, RowsWait, PollAt, AtRow
<1>6. DeliveryTypeOK'
  BY <1>1, <1>2 DEF Delivering, DeliveryTypeOK, PollType
<1>7. \A m : /\ IsAt(m, {"mark"})' <=> IsAt(m, {"mark"})
             /\ IsAt(m, {"record", "giveup"})' <=> IsAt(m, {"record", "giveup"})
  BY <1>2, <1>3 DEF IsAt
<1>8. HandedOnce'
  BY <1>1, <1>7 DEF Delivering, HandedOnce
<1>9. Counted' /\ AttemptsBounded'
  BY <1>1, <1>7 DEF Delivering, Counted, AttemptsBounded
<1> QED
  BY <1>4, <1>5, <1>6, <1>8, <1>9 DEF Delivering

LEMMA ReadStep ==
  ASSUME Delivering, NEW p \in Polls, ReadDue(p)
  PROVE  Delivering'
<1>0. poll[p].pc = "read" /\ Drains(p)
  BY DEF ReadDue, PollAt, Drains
<1>1. /\ posted' = posted /\ settled' = settled /\ attempts' = attempts /\ box' = box
      /\ handed' = handed /\ unmarked' = unmarked /\ tries' = tries /\ unkept' = unkept
      /\ troubles' \in 0..MaxTroubles
  BY TroubleType DEF ReadDue, historyVars
<1>2. /\ inflight
      /\ \A q \in Polls : q # p => poll[q].pc \in {"idle", "enter"} /\ poll[q].rest = {}
      /\ \A m : ~IsAt(m, {"mark"}) /\ ~IsAt(m, {"record", "giveup"})
  BY <1>0, DrainsAlone
<1>3. Undelivered \in SUBSET Messages /\ \A m \in Undelivered : settled[m] = "no"
  BY DeliveryAssumption DEF Undelivered, Messages, Delivering, DeliveryTypeOK
<1>4. /\ poll' \in [Polls -> PollType] /\ inflight' \in BOOLEAN
      /\ \/ poll'[p].pc = "send" /\ poll'[p].rest = Undelivered /\ Undelivered # {} /\ inflight'
         \/ poll'[p].pc = "idle" /\ poll'[p].rest = {}
      /\ \A q \in Polls : q # p => poll'[q] = poll[q]
  <2>1. CASE /\ Undelivered # {} /\ UNCHANGED inflight
             /\ poll' = [poll EXCEPT ![p] = [pc |-> "send", rest |-> Undelivered]]
    <3>1. [pc |-> "send", rest |-> Undelivered] \in PollType
      BY <1>3 DEF PollType
    <3> QED
      BY <1>2, <2>1, <3>1, Counts
  <2>2. CASE poll' = [poll EXCEPT ![p] = OffPoll] /\ inflight' = FALSE
    BY <2>2, Counts DEF OffPoll, PollType
  <2> QED
    BY <2>1, <2>2 DEF ReadDue
<1>5. OneDrain'
  BY <1>2, <1>4 DEF OneDrain, Drains, AtRow
<1>6. RowsWait'
  BY <1>1, <1>2, <1>3, <1>4 DEF RowsWait, PollAt, AtRow
<1>7. \A m : ~IsAt(m, {"mark"})' /\ ~IsAt(m, {"record", "giveup"})'
  BY <1>2, <1>4 DEF IsAt
<1>8. DeliveryTypeOK'
  BY <1>1, <1>4 DEF Delivering, DeliveryTypeOK, PollType
<1>9. HandedOnce'
  BY <1>1, <1>2, <1>7 DEF Delivering, HandedOnce
<1>10. Counted' /\ AttemptsBounded'
  BY <1>1, <1>2, <1>7 DEF Delivering, Counted, AttemptsBounded
<1> QED
  BY <1>5, <1>6, <1>8, <1>9, <1>10 DEF Delivering

\* A crash loses what was under way, and what is lost is in the histories.
LEMMA RestartStep ==
  ASSUME Delivering, Restart
  PROVE  Delivering'
<1> DEFINE At(pc) == {Row(p) : p \in {q \in Polls : PollAt(q, pc)}}
           one(b) == IF b THEN 1 ELSE 0
<1>1. /\ poll' = [p \in Polls |-> OffPoll] /\ inflight' = FALSE
      /\ posted' = posted /\ settled' = settled /\ attempts' = attempts /\ box' = box
      /\ tries' = tries /\ troubles' \in 0..MaxTroubles
  BY TroubleType DEF Restart
<1>2. PICK sent \in SUBSET At("send") :
        /\ handed' = [m \in Messages |-> handed[m] + (IF m \in sent THEN 1 ELSE 0)]
        /\ unmarked' = [m \in Messages |->
             unmarked[m] + (IF m \in sent \cup At("mark") THEN 1 ELSE 0)]
        /\ unkept' = [m \in Messages |->
             unkept[m] + (IF m \in At("record") \cup At("giveup") THEN 1 ELSE 0)]
  BY DEF Restart
<1>3. \A m : /\ m \in At("mark") <=> IsAt(m, {"mark"})
             /\ m \in At("record") \cup At("giveup") <=> IsAt(m, {"record", "giveup"})
  BY DEF IsAt, PollAt
<1>4. \A m : ~(m \in At("send") /\ m \in At("mark"))
  BY DEF PollAt, Delivering, OneDrain, Drains, AtRow
<1> HIDE DEF At
<1>5. /\ poll' \in [Polls -> PollType]
      /\ \A p \in Polls : poll'[p].pc = "idle" /\ poll'[p].rest = {}
  BY <1>1 DEF OffPoll, PollType
<1>6. OneDrain' /\ RowsWait'
  BY <1>5 DEF OneDrain, RowsWait, Drains, PollAt, AtRow
<1>7. /\ handed' \in [Messages -> Nat] /\ unmarked' \in [Messages -> Nat]
      /\ unkept' \in [Messages -> Nat]
  BY <1>2, Counts
<1>8. \A m : ~IsAt(m, {"mark"})' /\ ~IsAt(m, {"record", "giveup"})'
  BY <1>5 DEF IsAt
<1>9. DeliveryTypeOK'
  BY <1>1, <1>5, <1>7 DEF Delivering, DeliveryTypeOK, PollType
<1>10. HandedOnce'
  <2> SUFFICES ASSUME NEW m \in Messages
               PROVE  handed'[m] <= unmarked'[m] + IF settled[m] = "delivered" THEN 1 ELSE 0
    BY <1>1, <1>8 DEF HandedOnce
  <2>1. handed[m] <= unmarked[m] + IF settled[m] = "delivered" \/ m \in At("mark") THEN 1 ELSE 0
    BY <1>3 DEF Delivering, HandedOnce
  <2> QED
    BY <1>2, <1>4, <2>1, Counts
<1>11. Counted' /\ AttemptsBounded'
  <2> SUFFICES ASSUME NEW m \in Messages
               PROVE  /\ settled[m] = "no" => /\ tries[m] <= attempts[m] + unkept'[m]
                                              /\ tries[m] < MaxAttempts + unkept'[m]
                      /\ tries[m] <= MaxAttempts + unkept'[m]
    BY <1>1, <1>8 DEF Counted, AttemptsBounded
  <2>1. unkept'[m] = unkept[m] + IF IsAt(m, {"record", "giveup"}) THEN 1 ELSE 0
    BY <1>2, <1>3
  <2>2. /\ settled[m] = "no" /\ ~IsAt(m, {"record", "giveup"}) =>
             tries[m] <= attempts[m] + unkept[m] /\ tries[m] < MaxAttempts + unkept[m]
        /\ IsAt(m, {"record", "giveup"}) => tries[m] <= attempts[m] + unkept[m] + 1
        /\ tries[m] <= MaxAttempts + unkept[m]
    BY DEF Delivering, Counted, AttemptsBounded
  <2> QED
    BY <2>1, <2>2, Counts, DeliveryAssumption
<1> QED
  BY <1>6, <1>9, <1>10, <1>11 DEF Delivering

LEMMA OutsideStep ==
  ASSUME Delivering, Post \/ BoxChanges \/ UNCHANGED deliveryVars
  PROVE  Delivering'
<1>1. /\ poll' = poll /\ inflight' = inflight /\ settled' = settled /\ attempts' = attempts
      /\ handed' = handed /\ unmarked' = unmarked /\ tries' = tries /\ unkept' = unkept
      /\ troubles' = troubles
  BY DEF Post, BoxChanges, deliveryVars, historyVars
<1>2. posted' \in 0..MaxMessages /\ box' \in [running : BOOLEAN, open : BOOLEAN]
  <2>1. posted \in 0..MaxMessages /\ box \in [running : BOOLEAN, open : BOOLEAN]
    BY DEF Delivering, DeliveryTypeOK
  <2>2. posted' \in 0..MaxMessages
    BY <2>1, DeliveryAssumption DEF Post, BoxChanges, deliveryVars
  <2>3. CASE BoxChanges
    BY <2>1, <2>3 DEF BoxChanges
  <2>4. CASE Post \/ UNCHANGED deliveryVars
    BY <2>1, <2>2, <2>4 DEF Post, deliveryVars
  <2> QED
    BY <2>2, <2>3, <2>4
<1>3. DeliveryTypeOK' /\ OneDrain' /\ RowsWait'
  BY <1>1, <1>2 DEF Delivering, DeliveryTypeOK, OneDrain, Drains, RowsWait, PollAt, Row
<1>4. HandedOnce' /\ Counted' /\ AttemptsBounded'
  BY <1>1 DEF Delivering, HandedOnce, Counted, AttemptsBounded, IsAt, Row
<1> QED
  BY <1>3, <1>4 DEF Delivering

LEMMA DeliveryStep == Delivering /\ [DeliveryNext]_deliveryVars => Delivering'
BY SendStep, MarkStep, RecordStep, GiveUpStep, ClearStep, EnterStep, ReadStep, RestartStep,
   OutsideStep DEF DeliveryNext, DrainStep

\* One message is in hand at a time, by one poll, and what the store says of it
\* agrees with what was done, at every step of a drain (delivery.ts).
THEOREM AlwaysDelivering == DeliverySpec => []Delivering
  BY DeliveryBegins, DeliveryStep, PTL DEF DeliverySpec

\* The platform gets a message again only when the hand-over before left no row,
\* whatever two polls, failing stores and crashes do.
THEOREM DuplicatesHaveCause == DeliverySpec => []DuplicateHasCause
<1>1. Delivering => DuplicateHasCause
  BY Counts DEF Delivering, HandedOnce, DuplicateHasCause
<1> QED
  BY <1>1, AlwaysDelivering, PTL

\* No message is tried more than MAX_DELIVERY_ATTEMPTS times, but for the counts
\* and verdicts the store lost.
THEOREM AttemptsAreBounded == DeliverySpec => []AttemptsBounded
<1>1. Delivering => AttemptsBounded
  BY DEF Delivering
<1> QED
  BY <1>1, AlwaysDelivering, PTL
==============================================================================

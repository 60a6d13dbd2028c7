---------------------------- MODULE BrokerProofs ----------------------------
(***************************************************************************)
(* Theorems about the inference broker, for any number of broker           *)
(* processes, identities, resends, failures and crashes.                   *)
(*                                                                         *)
(* Serving is the inductive invariant: the flock leaves one broker at work *)
(* (Mutex), what that one knows of its request's journal row at each step  *)
(* (Knows), and what the row of an identity says of the responses that     *)
(* have been seen under it (Verdicts).                                     *)
(*                                                                         *)
(* Budgeted is the one of the model budget, for any number of targets, any *)
(* limits and any times: what each counter says of the grants since its    *)
(* reset, and in the hour before it (InWindow).                            *)
(***************************************************************************)
EXTENDS Broker, BudgetTracker, FiniteSetTheorems, TLAPS

\* Only the owner of the lock is inside a batch.
Mutex == \A b \in Brokers : place[b] # "idle" => owner = b

Working == Steps \ {"idle", "next"}

\* What a broker relies on at each step, until the request is done with.
Knows ==
    \A b \in Brokers :
        LET i == current[b].id
        IN  /\ place[b] \in Working => current[b] \in Requests
            /\ place[b] \in {"infer", "finish"} => row[i].state = "CLAIMED" /\ Seen(i) = {}
            /\ place[b] = "infer" => inferred[i] = 0
            /\ place[b] = "publish" => row[i].state = "COMPLETE" /\ row[i].response = reply[b]
            /\ place[b] = "publishError" =>
                  \/ row[i].state \in {"CLAIMED", "UNCERTAIN"} /\ reply[b] = Uncertain
                  \/ row[i].state = "COMPLETE" /\ row[i].response = reply[b]
            /\ place[b] \in {"idle", "next", "parse", "claim"} => ~reserved[b]
            /\ place[b] # "idle" => \A j \in batch[b] : inbox[j] # Nothing

\* What has been seen under an identity, and how often the model was called.
Verdicts ==
    \A i \in Ids :
        /\ inferred[i] <= 1
        /\ row[i].state = "NONE" => inferred[i] = 0 /\ Seen(i) = {}
        /\ row[i].state \in {"CLAIMED", "UNCERTAIN"} => Seen(i) \subseteq {Uncertain}
        /\ row[i].state = "COMPLETE" => Seen(i) \subseteq {row[i].response}

Serving == BrokerTypeOK /\ Mutex /\ Knows /\ Verdicts /\ BudgetBalanced

-----------------------------------------------------------------------------
(* Clients.                                                                *)

LEMMA SendStep ==
  ASSUME Serving, NEW i \in Ids, NEW payload \in Payloads, Send(i, payload)
  PROVE  Serving'
<1> USE DEF Serving, Send
<1>1. BrokerTypeOK'
  BY DEF BrokerTypeOK, processVars, quotaVars
<1>2. Mutex' /\ BudgetBalanced'
  BY DEF Mutex, BudgetBalanced, processVars, quotaVars
<1>3. \A j \in Ids : inbox[j] # Nothing => inbox'[j] # Nothing
  BY BrokerAssumption DEF BrokerTypeOK
<1>4. Verdicts' /\ \A j \in Ids : Seen(j)' = Seen(j)
  BY DEF Verdicts, Seen
<1>5. Knows'
  <2>1. ASSUME NEW d \in Brokers PROVE Knows!(d)'
    <3>1. batch[d] \subseteq Ids /\ batch' = batch /\ place' = place
      BY DEF BrokerTypeOK, processVars
    <3>2. current[d].id \in Ids \/ place[d] \in {"idle", "next"}
      BY DEF Knows, Working, Requests, BrokerTypeOK
    <3> QED
      BY <1>3, <1>4, <3>1, <3>2 DEF Knows, Working, processVars, quotaVars
  <2> QED
    BY <2>1 DEF Knows
<1> QED
  BY <1>1, <1>2, <1>4, <1>5

LEMMA ReceiveStep ==
  ASSUME Serving, NEW i \in Ids, Receive(i)
  PROVE  Serving'
<1> USE DEF Serving, Receive
<1>1. BrokerTypeOK'
  BY DEF BrokerTypeOK, processVars, quotaVars
<1>2. Mutex' /\ BudgetBalanced'
  BY DEF Mutex, BudgetBalanced, processVars, quotaVars
<1>3. \A j \in Ids : Seen(j)' \subseteq Seen(j)
  BY DEF Seen, BrokerTypeOK
<1>4. Knows' /\ Verdicts'
  BY <1>3 DEF Knows, Verdicts, BrokerTypeOK, processVars, quotaVars, Requests, Working
<1> QED
  BY <1>1, <1>2, <1>4

-----------------------------------------------------------------------------
(* A broker at work.                                                       *)

\* While one broker is inside a batch all others are idle.
LEMMA OthersIdle ==
  ASSUME Serving, NEW b \in Brokers, place[b] # "idle"
  PROVE  owner = b /\ \A d \in Brokers \ {b} : place[d] = "idle"
  BY DEF Serving, Mutex

\* A step of the broker at work that keeps the lock: the others stay idle.
LEMMA MutexKept ==
  ASSUME Serving, NEW b \in Brokers, NEW s \in Steps, place[b] # "idle", Proceed(b, s),
         owner' = owner
  PROVE  /\ Mutex'
         /\ place'[b] = s
         /\ \A d \in Brokers \ {b} : place'[d] = "idle" /\ place[d] = "idle"
  BY OthersIdle DEF Serving, Mutex, Proceed, BrokerTypeOK

\* And one that gives it up.
LEMMA MutexReleased ==
  ASSUME Serving, NEW b \in Brokers, place[b] # "idle", Proceed(b, "idle")
  PROVE  Mutex' /\ \A d \in Brokers : place'[d] = "idle"
  BY OthersIdle DEF Serving, Mutex, Proceed, BrokerTypeOK

LEMMA StartBatchStep == ASSUME Serving, NEW b \in Brokers, StartBatch(b) PROVE Serving'
<1> USE DEF Serving
<1> DEFINE listed == {i \in Ids : inbox[i] # Nothing}
<1>1. /\ place' = [place EXCEPT ![b] = "next"] /\ place[b] = "idle"
      /\ owner = Nothing /\ owner' = b
      /\ UNCHANGED <<fileVars, row, current, reply, quotaVars, historyVars>>
  BY DEF StartBatch, Proceed, At
<1>2. PICK S \in SUBSET listed : batch' = [batch EXCEPT ![b] = S]
  BY DEF StartBatch
<1> HIDE DEF listed
<1>3. S \subseteq Ids /\ \A i \in S : inbox[i] # Nothing
  BY <1>2 DEF listed
<1>4. BrokerTypeOK'
  <2>1. batch' \in [Brokers -> SUBSET Ids]
    BY <1>2, <1>3 DEF BrokerTypeOK
  <2> QED
    BY <1>1, <2>1 DEF BrokerTypeOK, Steps, fileVars, quotaVars, historyVars
<1>5. \A d \in Brokers : place[d] = "idle"
  BY <1>1, BrokerAssumption DEF Mutex
<1>6. Mutex'
  BY <1>1, <1>5 DEF Mutex, BrokerTypeOK
<1>7. Knows'
  BY <1>1, <1>2, <1>3, <1>5 DEF Knows, BrokerTypeOK, Working, quotaVars, fileVars
<1>8. Verdicts' /\ BudgetBalanced'
  BY <1>1 DEF Verdicts, Seen, BudgetBalanced, fileVars, quotaVars, historyVars
<1> QED
  BY <1>4, <1>6, <1>7, <1>8

LEMMA EndBatchStep == ASSUME Serving, NEW b \in Brokers, EndBatch(b) PROVE Serving'
<1> USE DEF Serving, EndBatch
<1>1. BrokerTypeOK'
  BY DEF BrokerTypeOK, Proceed, Steps, fileVars, quotaVars, historyVars
<1>2. Mutex' /\ \A d \in Brokers : place'[d] = "idle"
  BY MutexReleased DEF At
<1>3. Knows'
  BY <1>2 DEF Knows, At, Mutex, Working, quotaVars
<1>4. Verdicts' /\ BudgetBalanced'
  BY DEF Verdicts, Seen, BudgetBalanced, fileVars, quotaVars, historyVars
<1> QED
  BY <1>1, <1>2, <1>3, <1>4

LEMMA TakeStep == ASSUME Serving, NEW b \in Brokers, Take(b) PROVE Serving'
<1> USE DEF Serving
<1>1. /\ place[b] = "next" /\ Proceed(b, "parse")
      /\ UNCHANGED <<responses, failed, row, owner, reply, quotaVars, historyVars>>
  BY DEF Take, At
<1>2. PICK i \in batch[b] :
        /\ batch' = [batch EXCEPT ![b] = @ \ {i}]
        /\ inbox' = [inbox EXCEPT ![i] = Nothing]
        /\ private' = private \cup {[id |-> i, payload |-> inbox[i]]}
        /\ current' = [current EXCEPT ![b] = [id |-> i, payload |-> inbox[i]]]
  BY DEF Take
<1>3. i \in Ids /\ inbox[i] \in Payloads
  BY <1>1 DEF BrokerTypeOK, Knows
<1>4. [id |-> i, payload |-> inbox[i]] \in Requests
  BY <1>3 DEF Requests
<1>5. BrokerTypeOK'
  BY <1>1, <1>2, <1>3, <1>4 DEF BrokerTypeOK, Proceed, Steps, quotaVars, historyVars
<1>6. /\ Mutex' /\ place'[b] = "parse"
      /\ \A d \in Brokers \ {b} : place'[d] = "idle" /\ place[d] = "idle"
  BY <1>1, MutexKept DEF Steps
<1>7. Knows'
  BY <1>1, <1>2, <1>4, <1>6 DEF Knows, BrokerTypeOK, Working, quotaVars
<1>8. Verdicts' /\ BudgetBalanced'
  BY <1>1 DEF Verdicts, Seen, BudgetBalanced, quotaVars, historyVars
<1> QED
  BY <1>5, <1>6, <1>7, <1>8

LEMMA ParseStep == ASSUME Serving, NEW b \in Brokers, Parse(b) PROVE Serving'
<1> USE DEF Serving
<1>1. /\ place[b] = "parse"
      /\ UNCHANGED <<fileVars, row, owner, batch, current, reply, quotaVars, historyVars>>
  BY DEF Parse, At
<1>2. PICK s \in {"reject", "claim"} : Proceed(b, s)
  BY DEF Parse
<1>3. BrokerTypeOK'
  BY <1>1, <1>2 DEF BrokerTypeOK, Proceed, Steps, fileVars, quotaVars, historyVars
<1>4. Mutex' /\ place'[b] = s /\ \A d \in Brokers \ {b} : place'[d] = "idle" /\ place[d] = "idle"
  BY <1>1, <1>2, MutexKept DEF Steps
<1>5. Knows'
  BY <1>1, <1>2, <1>4 DEF Knows, Working, Steps, Seen, fileVars, quotaVars, historyVars
<1>6. Verdicts' /\ BudgetBalanced'
  BY <1>1 DEF Verdicts, Seen, BudgetBalanced, fileVars, quotaVars, historyVars
<1> QED
  BY <1>3, <1>4, <1>5, <1>6

LEMMA ClaimStep == ASSUME Serving, NEW b \in Brokers, ClaimRequest(b) PROVE Serving'
<1> USE DEF Serving
<1> DEFINE i == current[b].id
<1>1. /\ place[b] = "claim" /\ ~reserved[b]
      /\ UNCHANGED <<fileVars, owner, batch, current, historyVars>>
  BY DEF ClaimRequest, At, Knows
<1>2. current[b] \in Requests /\ i \in Ids /\ current[b].payload \in Payloads
  BY <1>1 DEF Knows, Working, Steps, Requests
<1>3. row' = IF row[i].state = "NONE"
             THEN [row EXCEPT ![i] = Row("CLAIMED", current[b].payload, Nothing)] ELSE row
  BY DEF ClaimRequest, IsNew, Id
<1>4. /\ row' \in [Ids -> [state : {"NONE", "CLAIMED", "COMPLETE", "UNCERTAIN"},
                           digest : Payloads \cup {Nothing}, response : Responses \cup {Nothing}]]
      /\ row[i].state = "NONE" => row'[i].state = "CLAIMED"
      /\ row[i].state # "NONE" => row' = row
      /\ \A j \in Ids \ {i} : row'[j] = row[j]
  BY <1>2, <1>3 DEF BrokerTypeOK, Row
<1>5. Verdicts'
  BY <1>1, <1>2, <1>4 DEF Verdicts, Seen, BrokerTypeOK, fileVars, historyVars
<1> HIDE DEF i
<1>6. PICK s \in {"rejectClaimed", "publish", "publishError", "finish", "infer"},
           r \in Responses \cup {Nothing} :
        /\ Proceed(b, s) /\ reply' = [reply EXCEPT ![b] = r]
        /\ s = "publish" => row[i].state = "COMPLETE" /\ r = row[i].response
        /\ s = "publishError" => row[i].state \in {"CLAIMED", "UNCERTAIN"} /\ r = Uncertain
        /\ s \in {"finish", "infer"} => row[i].state = "NONE"
        /\ \/ UNCHANGED quotaVars
           \/ /\ s = "infer"
              /\ spent' = [spent EXCEPT ![b] = @ + 1]
              /\ active' = [active EXCEPT ![b] = @ + 1]
              /\ reserved' = [reserved EXCEPT ![b] = TRUE]
  <2>1. row[i].response \in Responses \cup {Nothing} /\ Uncertain \in Responses
        /\ Exhausted \in Responses
    BY <1>2 DEF BrokerTypeOK, Responses
  <2> QED
    BY <2>1 DEF ClaimRequest, IsNew, Id, i
<1>7. BrokerTypeOK'
  <2>1. /\ spent' \in [Brokers -> Nat] /\ active' \in [Brokers -> Int]
        /\ reserved' \in [Brokers -> BOOLEAN]
    <3>1. /\ spent \in [Brokers -> Nat] /\ active \in [Brokers -> Int]
          /\ reserved \in [Brokers -> BOOLEAN]
      BY DEF BrokerTypeOK
    <3>2. CASE UNCHANGED quotaVars
      BY <3>1, <3>2 DEF quotaVars
    <3>3. CASE /\ spent' = [spent EXCEPT ![b] = @ + 1]
               /\ active' = [active EXCEPT ![b] = @ + 1]
               /\ reserved' = [reserved EXCEPT ![b] = TRUE]
      BY <3>1, <3>3
    <3> QED
      BY <1>6, <3>2, <3>3
  <2> QED
    BY <1>1, <1>4, <1>6, <2>1 DEF BrokerTypeOK, Proceed, Steps, fileVars, historyVars
<1>8. Mutex' /\ place'[b] = s /\ \A d \in Brokers \ {b} : place'[d] = "idle" /\ place[d] = "idle"
  BY <1>1, <1>6, MutexKept DEF Steps
<1>9. \A d \in Brokers \ {b} : reserved'[d] = reserved[d] /\ active'[d] = active[d]
  BY <1>6 DEF BrokerTypeOK, quotaVars
<1>10. BudgetBalanced'
  BY <1>1, <1>6, <1>9 DEF BudgetBalanced, BrokerTypeOK, quotaVars
<1>11. reply'[b] = r /\ Seen(i)' = Seen(i) /\ inferred' = inferred
  <2>1. reply'[b] = r
    BY <1>6 DEF BrokerTypeOK
  <2>2. UNCHANGED <<responses, received, inferred, current>>
    BY <1>1 DEF fileVars, historyVars
  <2> QED
    BY <2>1, <2>2 DEF Seen, i
<1>12. Knows'
  <2>1. /\ s \in {"infer", "finish"} => row'[i].state = "CLAIMED" /\ Seen(i)' = {}
        /\ s = "infer" => inferred'[i] = 0
        /\ s = "publish" => row'[i].state = "COMPLETE" /\ row'[i].response = reply'[b]
        /\ s = "publishError" =>
             row'[i].state \in {"CLAIMED", "UNCERTAIN"} /\ reply'[b] = Uncertain
    BY <1>2, <1>4, <1>6, <1>11 DEF Verdicts, i
  <2>2. current' = current /\ batch' = batch /\ inbox' = inbox
    BY <1>1 DEF fileVars
  <2> QED
    BY <1>1, <1>2, <1>8, <1>9, <2>1, <2>2 DEF Knows, Working, Steps, i
<1> QED
  BY <1>5, <1>7, <1>8, <1>10, <1>12

LEMMA InferStep == ASSUME Serving, NEW b \in Brokers, Infer(b) PROVE Serving'
<1> USE DEF Serving
<1> DEFINE i == current[b].id
<1>1. /\ place[b] = "infer" /\ Proceed(b, "finish")
      /\ inferred' = [inferred EXCEPT ![i] = @ + 1]
      /\ reply' = [reply EXCEPT ![b] = Answer(current[b].payload)]
      /\ UNCHANGED <<fileVars, row, owner, batch, current, quotaVars, sends, received>>
  BY DEF Infer, At, Id
<1>2. current[b] \in Requests /\ i \in Ids /\ current[b].payload \in Payloads
      /\ row[i].state = "CLAIMED" /\ Seen(i) = {} /\ inferred[i] = 0
  BY <1>1 DEF Knows, Working, Steps, Requests
<1>3. BrokerTypeOK'
  BY <1>1, <1>2 DEF BrokerTypeOK, Proceed, Steps, Responses, fileVars, quotaVars
<1>4. /\ Mutex' /\ place'[b] = "finish"
      /\ \A d \in Brokers \ {b} : place'[d] = "idle" /\ place[d] = "idle"
  BY <1>1, MutexKept DEF Steps
<1>5. Verdicts' /\ BudgetBalanced'
  <2>1. inferred'[i] = 1 /\ \A j \in Ids \ {i} : inferred'[j] = inferred[j]
    BY <1>1, <1>2 DEF BrokerTypeOK
  <2>2. UNCHANGED <<row, responses, received, active, reserved>>
    BY <1>1 DEF fileVars, quotaVars
  <2> QED
    BY <1>2, <2>1, <2>2 DEF Verdicts, Seen, BudgetBalanced
<1>6. Knows'
  BY <1>1, <1>2, <1>4 DEF Knows, Working, Steps, Seen, fileVars, quotaVars
<1> QED
  BY <1>3, <1>4, <1>5, <1>6

LEMMA FinishStep == ASSUME Serving, NEW b \in Brokers, FinishRequest(b) PROVE Serving'
<1> USE DEF Serving
<1> DEFINE i == current[b].id
<1>1. /\ place[b] = "finish"
      /\ UNCHANGED <<fileVars, owner, batch, current, reply, quotaVars, historyVars>>
  BY DEF FinishRequest, At
<1>2. current[b] \in Requests /\ i \in Ids /\ row[i].state = "CLAIMED" /\ Seen(i) = {}
  BY <1>1 DEF Knows, Working, Steps, Requests
<1>3. PICK s \in {"publish", "publishError"} : Proceed(b, s)
  BY <1>2 DEF FinishRequest, Id
<1>4. row' = [row EXCEPT ![i].state = "COMPLETE", ![i].response = reply[b]]
  BY <1>2 DEF FinishRequest, Id
<1>5. /\ row' \in [Ids -> [state : {"NONE", "CLAIMED", "COMPLETE", "UNCERTAIN"},
                           digest : Payloads \cup {Nothing}, response : Responses \cup {Nothing}]]
      /\ row'[i].state = "COMPLETE" /\ row'[i].response = reply[b]
      /\ \A j \in Ids \ {i} : row'[j] = row[j]
  BY <1>2, <1>4 DEF BrokerTypeOK
<1>6. BrokerTypeOK'
  BY <1>1, <1>3, <1>5 DEF BrokerTypeOK, Proceed, Steps, fileVars, quotaVars, historyVars
<1>7. Mutex' /\ place'[b] = s /\ \A d \in Brokers \ {b} : place'[d] = "idle" /\ place[d] = "idle"
  BY <1>1, <1>3, MutexKept DEF Steps
<1>8. Verdicts' /\ BudgetBalanced'
  BY <1>1, <1>2, <1>5 DEF Verdicts, Seen, BudgetBalanced, fileVars, quotaVars, historyVars
<1>9. Knows'
  BY <1>1, <1>2, <1>3, <1>5, <1>7 DEF Knows, Working, Steps, fileVars, quotaVars
<1> QED
  BY <1>6, <1>7, <1>8, <1>9

\* A response linked under an identity whose row vouches for it.
LEMMA LinkedResponse ==
  ASSUME Serving, NEW b \in Brokers, place[b] \in {"publish", "publishError"},
         responses' = [responses EXCEPT ![current[b].id] = reply[b]],
         UNCHANGED <<row, current, historyVars>>
  PROVE  Verdicts'
<1> USE DEF Serving
<1> DEFINE i == current[b].id
<1>1. i \in Ids
  BY DEF Knows, Working, Steps, Requests
<1>2. Seen(i)' \subseteq Seen(i) \cup {reply[b]} /\ \A j \in Ids \ {i} : Seen(j)' = Seen(j)
  <2>1. responses \in [Ids -> Responses \cup {Nothing}] /\ received' = received
    BY DEF BrokerTypeOK, historyVars
  <2>2. responses'[i] = reply[b] /\ \A j \in Ids \ {i} : responses'[j] = responses[j]
    BY <1>1, <2>1
  <2> QED
    BY <2>1, <2>2 DEF Seen
<1>3. \/ row[i].state \in {"CLAIMED", "UNCERTAIN"} /\ reply[b] = Uncertain
      \/ row[i].state = "COMPLETE" /\ row[i].response = reply[b]
  BY DEF Knows
<1>4. row' = row /\ inferred' = inferred
  BY DEF historyVars
<1>5. ASSUME NEW j \in Ids \ {i} PROVE Verdicts!(j)'
  BY <1>2, <1>4 DEF Verdicts
<1>6. Verdicts!(i)'
  BY <1>1, <1>2, <1>3, <1>4 DEF Verdicts
<1> QED
  BY <1>5, <1>6 DEF Verdicts

LEMMA PublishStep == ASSUME Serving, NEW b \in Brokers, Publish(b) PROVE Serving'
<1> USE DEF Serving
<1> DEFINE i == current[b].id
<1>1. /\ place[b] \in {"publish", "publishError"}
      /\ UNCHANGED <<inbox, private, failed, row, owner, batch, current, reply, quotaVars,
                     historyVars>>
  BY DEF Publish, At
<1>2. PICK s \in {"unlink", "rejectClaimed"} : Proceed(b, s)
  BY DEF Publish
<1>3. i \in Ids
  BY <1>1 DEF Knows, Working, Steps, Requests
<1>4. responses' = responses \/ responses' = [responses EXCEPT ![i] = reply[b]]
  BY DEF Publish, Id
<1>5. BrokerTypeOK'
  BY <1>1, <1>2, <1>3, <1>4 DEF BrokerTypeOK, Proceed, Steps, quotaVars, historyVars
<1>6. Mutex' /\ place'[b] = s /\ \A d \in Brokers \ {b} : place'[d] = "idle" /\ place[d] = "idle"
  BY <1>1, <1>2, MutexKept DEF Steps
<1>7. Verdicts'
  <2>1. CASE responses' = responses
    BY <1>1, <2>1 DEF Verdicts, Seen, historyVars
  <2> QED
    BY <1>1, <1>4, <2>1, LinkedResponse
<1>8. Knows' /\ BudgetBalanced'
  BY <1>1, <1>2, <1>6 DEF Knows, Working, Steps, BudgetBalanced, quotaVars
<1> QED
  BY <1>5, <1>6, <1>7, <1>8

\* What "finally" leaves behind.
LEMMA Dropped ==
  ASSUME Serving, NEW b \in Brokers, Drop(b)
  PROVE  /\ current' \in [Brokers -> Requests \cup {NoRequest}]
         /\ reply' \in [Brokers -> Responses \cup {Nothing}]
         /\ spent' = spent /\ active' \in [Brokers -> Int]
         /\ reserved' \in [Brokers -> BOOLEAN]
         /\ ~reserved'[b] /\ BudgetBalanced'
         /\ \A d \in Brokers \ {b} : current'[d] = current[d] /\ reserved'[d] = reserved[d]
  BY DEF Serving, Drop, BrokerTypeOK, BudgetBalanced

\* Giving up turns a claimed row into an uncertain one and nothing else.
LEMMA GivenUp ==
  ASSUME Serving, NEW b \in Brokers, place[b] \in {"reject", "rejectClaimed"}, GiveUpClaim(b)
  PROVE  /\ row' \in [Ids -> [state : {"NONE", "CLAIMED", "COMPLETE", "UNCERTAIN"},
                             digest : Payloads \cup {Nothing},
                             response : Responses \cup {Nothing}]]
         /\ \A j \in Ids : \/ row'[j] = row[j]
                           \/ row[j].state = "CLAIMED" /\ row'[j].state = "UNCERTAIN"
<1>1. current[b].id \in Ids
  BY DEF Serving, Knows, Working, Steps, Requests
<1>2. row' = row \/ /\ row[current[b].id].state = "CLAIMED"
                    /\ row' = [row EXCEPT ![current[b].id].state = "UNCERTAIN"]
  BY DEF GiveUpClaim, Id
<1>3. CASE row' = row
  BY <1>3 DEF Serving, BrokerTypeOK
<1>4. CASE /\ row[current[b].id].state = "CLAIMED"
           /\ row' = [row EXCEPT ![current[b].id].state = "UNCERTAIN"]
  <2> DEFINE states == {"NONE", "CLAIMED", "COMPLETE", "UNCERTAIN"}
             digests == Payloads \cup {Nothing}
             replies == Responses \cup {Nothing}
  <2>1. row \in [Ids -> [state : states, digest : digests, response : replies]]
    BY DEF Serving, BrokerTypeOK
  <2>2. "UNCERTAIN" \in states
    OBVIOUS
  <2> HIDE DEF states, digests, replies
  <2>3. row' \in [Ids -> [state : states, digest : digests, response : replies]]
    BY <1>1, <1>4, <2>1, <2>2
  <2>4. /\ row'[current[b].id].state = "UNCERTAIN"
        /\ \A j \in Ids \ {current[b].id} : row'[j] = row[j]
    BY <1>1, <1>4, <2>1
  <2> QED
    BY <1>1, <1>4, <2>3, <2>4 DEF states, digests, replies
<1> QED
  BY <1>2, <1>3, <1>4

\* The responses seen so far allow it.
LEMMA VerdictsKept ==
  ASSUME Serving, UNCHANGED <<responses, historyVars>>,
         \A j \in Ids : \/ row'[j] = row[j]
                        \/ row[j].state = "CLAIMED" /\ row'[j].state = "UNCERTAIN"
  PROVE  Verdicts'
<1>1. ASSUME NEW j \in Ids PROVE Verdicts!(j)'
  BY DEF Serving, Verdicts, Seen, historyVars
<1> QED
  BY <1>1 DEF Verdicts

LEMMA UnlinkStep == ASSUME Serving, NEW b \in Brokers, UnlinkRequest(b) PROVE Serving'
<1> USE DEF Serving
<1>1. /\ place[b] = "unlink" /\ Proceed(b, "next") /\ private' \subseteq private /\ Drop(b)
      /\ UNCHANGED <<inbox, responses, failed, row, owner, batch, historyVars>>
  BY DEF UnlinkRequest, At
<1>2. BrokerTypeOK'
  BY <1>1, Dropped DEF BrokerTypeOK, Proceed, Steps, historyVars
<1>3. /\ Mutex' /\ place'[b] = "next"
      /\ \A d \in Brokers \ {b} : place'[d] = "idle" /\ place[d] = "idle"
  BY <1>1, MutexKept DEF Steps
<1>4. Verdicts'
  BY <1>1, VerdictsKept
<1>5. Knows'
  BY <1>1, <1>3, Dropped DEF Knows, Working, Steps
<1> QED
  BY <1>1, <1>2, <1>3, <1>4, <1>5, Dropped

LEMMA RejectStep == ASSUME Serving, NEW b \in Brokers, Reject(b) PROVE Serving'
<1> USE DEF Serving
<1>1. /\ place[b] \in {"reject", "rejectClaimed"} /\ Proceed(b, "next") /\ GiveUpClaim(b) /\ Drop(b)
      /\ private' \subseteq private /\ failed' \subseteq failed \cup private
      /\ UNCHANGED <<inbox, responses, owner, batch, historyVars>>
  BY DEF Reject, At, SetAside
<1>2. BrokerTypeOK'
  BY <1>1, Dropped, GivenUp DEF BrokerTypeOK, Proceed, Steps, historyVars
<1>3. /\ Mutex' /\ place'[b] = "next"
      /\ \A d \in Brokers \ {b} : place'[d] = "idle" /\ place[d] = "idle"
  BY <1>1, MutexKept DEF Steps
<1>4. Verdicts'
  BY <1>1, GivenUp, VerdictsKept
<1>5. Knows'
  BY <1>1, <1>3, Dropped DEF Knows, Working, Steps
<1> QED
  BY <1>1, <1>2, <1>3, <1>4, <1>5, Dropped

-----------------------------------------------------------------------------
(* Failing operations and crashes.                                         *)

LEMMA OperationFailsStep ==
  ASSUME Serving, NEW b \in Brokers, OperationFails(b) PROVE Serving'
<1> USE DEF Serving
<1>1. /\ place[b] \in Working
      /\ UNCHANGED <<fileVars, row, owner, batch, current, reply, quotaVars, historyVars>>
  BY DEF OperationFails, At, Working, Steps
<1>2. PICK s \in {"reject", "rejectClaimed"} : Proceed(b, s)
  BY DEF OperationFails
<1>3. BrokerTypeOK'
  BY <1>1, <1>2 DEF BrokerTypeOK, Proceed, Steps, fileVars, quotaVars, historyVars
<1>4. Mutex' /\ place'[b] = s /\ \A d \in Brokers \ {b} : place'[d] = "idle" /\ place[d] = "idle"
  BY <1>1, <1>2, MutexKept DEF Working, Steps
<1>5. Knows'
  BY <1>1, <1>2, <1>4 DEF Knows, Working, Steps, Seen, fileVars, quotaVars, historyVars
<1>6. Verdicts' /\ BudgetBalanced'
  BY <1>1, VerdictsKept DEF BudgetBalanced, fileVars, quotaVars
<1> QED
  BY <1>3, <1>4, <1>5, <1>6

LEMMA SyncFailsStep == ASSUME Serving, NEW b \in Brokers, SyncFails(b) PROVE Serving'
<1> USE DEF Serving
<1> DEFINE i == current[b].id
<1>1. /\ place[b] \in {"publish", "unlink"} /\ Proceed(b, "rejectClaimed")
      /\ private' \subseteq private
      /\ UNCHANGED <<inbox, failed, row, owner, batch, current, reply, quotaVars, historyVars>>
      /\ responses' # responses =>
           place[b] = "publish" /\ responses' = [responses EXCEPT ![i] = reply[b]]
  BY DEF SyncFails, At, Id
<1>2. i \in Ids
  BY <1>1 DEF Knows, Working, Steps, Requests
<1>3. BrokerTypeOK'
  BY <1>1, <1>2 DEF BrokerTypeOK, Proceed, Steps, quotaVars, historyVars
<1>4. /\ Mutex' /\ place'[b] = "rejectClaimed"
      /\ \A d \in Brokers \ {b} : place'[d] = "idle" /\ place[d] = "idle"
  BY <1>1, MutexKept DEF Steps
<1>5. Verdicts'
  <2>1. CASE responses' = responses
    BY <1>1, <2>1, VerdictsKept
  <2> QED
    BY <1>1, <2>1, LinkedResponse
<1>6. Knows' /\ BudgetBalanced'
  BY <1>1, <1>4 DEF Knows, Working, Steps, BudgetBalanced, quotaVars
<1> QED
  BY <1>3, <1>4, <1>5, <1>6

\* A broker that left its batch with the lock closed holds nothing any more.
LEMMA LeftBatch ==
  ASSUME Serving, NEW b \in Brokers, place[b] # "idle", Proceed(b, "idle"),
         \A d \in Brokers \ {b} : reserved'[d] = reserved[d],
         ~reserved'[b]
  PROVE  Mutex' /\ Knows'
<1>1. Mutex' /\ \A d \in Brokers : place'[d] = "idle"
  BY MutexReleased
<1>2. \A d \in Brokers : ~reserved'[d]
  BY OthersIdle DEF Serving, Knows
<1> QED
  BY <1>1, <1>2 DEF Knows, Working

LEMMA HandlerFailsStep ==
  ASSUME Serving, NEW b \in Brokers, HandlerFails(b) PROVE Serving'
<1> USE DEF Serving
<1>1. /\ place[b] \in {"reject", "rejectClaimed"} /\ Proceed(b, "idle") /\ Drop(b)
      /\ owner' = Nothing /\ batch' = [batch EXCEPT ![b] = {}]
      /\ private' \subseteq private /\ failed' \subseteq failed \cup private
      /\ UNCHANGED <<inbox, responses, historyVars>>
      /\ row' = row \/ GiveUpClaim(b)
  BY DEF HandlerFails, At, SetAside, fileVars
<1>2. BrokerTypeOK'
  BY <1>1, Dropped, GivenUp DEF BrokerTypeOK, Proceed, Steps, historyVars
<1>3. Mutex' /\ Knows'
  BY <1>1, Dropped, LeftBatch
<1>4. Verdicts'
  BY <1>1, GivenUp, VerdictsKept
<1> QED
  BY <1>1, <1>2, <1>3, <1>4, Dropped

LEMMA CrashStep == ASSUME Serving, NEW b \in Brokers, BrokerDies(b) PROVE Serving'
<1> USE DEF Serving, BrokerDies
<1>1. BrokerTypeOK'
  BY DEF BrokerTypeOK, Proceed, Steps, fileVars, historyVars
<1>2. BudgetBalanced' /\ ~reserved'[b] /\ \A d \in Brokers \ {b} : reserved'[d] = reserved[d]
  BY DEF BudgetBalanced, BrokerTypeOK
<1>3. Mutex' /\ Knows'
  BY <1>2, LeftBatch
<1>4. Verdicts'
  BY VerdictsKept DEF fileVars
<1> QED
  BY <1>1, <1>2, <1>3, <1>4

-----------------------------------------------------------------------------
(* The theorems.                                                           *)

LEMMA ServingInit == BrokerInit => Serving
  BY DEF BrokerInit, Serving, BrokerTypeOK, Mutex, Knows, Verdicts, BudgetBalanced, Seen, Working,
     Steps,
         NoRow, Row

LEMMA ServingStep == Serving /\ [BrokerNext]_brokerVars => Serving'
<1> SUFFICES ASSUME Serving, [BrokerNext]_brokerVars PROVE Serving'
  OBVIOUS
<1>1. CASE UNCHANGED brokerVars
  BY <1>1 DEF brokerVars, fileVars, processVars, quotaVars, historyVars, Serving, BrokerTypeOK,
     Mutex,
              Knows, Verdicts, BudgetBalanced, Seen
<1>2. CASE \E i \in Ids, payload \in Payloads : Send(i, payload)
  BY <1>2, SendStep
<1>3. CASE \E i \in Ids : Receive(i)
  BY <1>3, ReceiveStep
<1>4. CASE \E b \in Brokers : BrokerStep(b)
  BY <1>4, StartBatchStep, EndBatchStep, TakeStep, ParseStep, ClaimStep, InferStep, FinishStep,
     PublishStep, UnlinkStep, RejectStep DEF BrokerStep
<1>5. CASE \E b \in Brokers : OperationFails(b)
  BY <1>5, OperationFailsStep
<1>6. CASE \E b \in Brokers : SyncFails(b)
  BY <1>6, SyncFailsStep
<1>7. CASE \E b \in Brokers : HandlerFails(b)
  BY <1>7, HandlerFailsStep
<1>8. CASE \E b \in Brokers : BrokerDies(b)
  BY <1>8, CrashStep
<1> QED
  BY <1>1, <1>2, <1>3, <1>4, <1>5, <1>6, <1>7, <1>8 DEF BrokerNext

\* The inductive invariant of the broker holds in every reachable state.
THEOREM AlwaysServing == BrokerSpec => []Serving
  BY ServingInit, ServingStep, PTL DEF BrokerSpec

\* Every variable keeps its type, whatever fails.
THEOREM BrokerTypeCorrect == BrokerSpec => []BrokerTypeOK
<1>1. Serving => BrokerTypeOK
  BY DEF Serving
<1> QED
  BY AlwaysServing, <1>1, PTL

\* broker/durability.py, "durable at-most-once admission": the model is called at
\* most once for an identity, whatever is resent, fails or crashes.
THEOREM InferredOnce == BrokerSpec => []AtMostOnceInference
<1>1. Serving => AtMostOnceInference
  BY DEF Serving, Verdicts, AtMostOnceInference
<1> QED
  BY AlwaysServing, <1>1, PTL

\* publish_response never replaces a response and a claimed row never turns into
\* two verdicts: all the responses seen under an identity are the same.
THEOREM SameVerdict == BrokerSpec => []OneVerdict
<1>1. Serving => OneVerdict
  <2> SUFFICES ASSUME Serving, NEW i \in Ids, NEW x \in Seen(i), NEW y \in Seen(i)
               PROVE  x = y
    BY DEF OneVerdict
  <2>1. row[i].state \in {"NONE", "CLAIMED", "COMPLETE", "UNCERTAIN"}
    BY DEF Serving, BrokerTypeOK
  <2> QED
    BY <2>1 DEF Serving, Verdicts
<1> QED
  BY AlwaysServing, <1>1, PTL

\* journal.finish comes before publish_response: an answer anybody has seen is the
\* one in the journal.
THEOREM JournaledFirst == BrokerSpec => []SeenIsJournaled
<1>1. Serving => SeenIsJournaled
  <2> SUFFICES ASSUME Serving, NEW i \in Ids, NEW r \in Seen(i) \ {Uncertain}
               PROVE  row[i].state = "COMPLETE" /\ row[i].response = r
    BY DEF SeenIsJournaled
  <2>1. row[i].state \in {"NONE", "CLAIMED", "COMPLETE", "UNCERTAIN"}
    BY DEF Serving, BrokerTypeOK
  <2> QED
    BY <2>1 DEF Serving, Verdicts
<1> QED
  BY AlwaysServing, <1>1, PTL

\* "finally: budget.release": what a process has recorded and not released is the
\* request in its hand.
THEOREM BudgetReleased == BrokerSpec => []BudgetBalanced
<1>1. Serving => BudgetBalanced
  BY DEF Serving
<1> QED
  BY AlwaysServing, <1>1, PTL

-----------------------------------------------------------------------------
(* The model budget.                                                       *)

\* A counter since r of the grants in G, at time c: every grant is in the past and in
\* the hour after r or before, those since r are counted, those of the hour before r
\* were within the limit, and so every hour is within twice that.
InWindow(G, r, u, l, c) ==
    /\ IsFiniteSet(G)
    /\ \A g \in G : g.at \in Times /\ g.at <= c /\ g.at < r + Hour
    /\ r \in Times /\ r <= c /\ u \in Nat /\ u <= l
    /\ Cardinality({g \in G : g.at >= r}) <= u
    /\ Cardinality({g \in G : g.at > r - Hour /\ g.at < r}) <= l
    /\ \A e \in Times : Cardinality({g \in G : g.at > e - Hour /\ g.at <= e}) <= 2 * l

\* Grants of a model and target at a time are numbered from 0 on, so that none is
\* recorded twice.
Alike(g)  == {h \in granted : h.model = g.model /\ h.target = g.target /\ h.at = g.at}
Numbered  == \A g \in granted : g.nth < Cardinality(Alike(g))

\* The inductive invariant of the budget.
Budgeted ==
    /\ TrackerTypeOK /\ IsFiniteSet(granted) /\ Numbered
    /\ \A m \in Models, t \in BudgetTargets :
         IF t \in known
           THEN InWindow(Granted(m, {t}), targetReset[t], used[m][t], Limit(m), clock)
           ELSE Granted(m, {t}) = {}
    /\ InWindow(Granted("deep", BudgetTargets), globalReset, globalDeep, DeepGlobal, clock)



\* One more grant adds at most one to what is counted of them.
LEMMA OneMore ==
  ASSUME NEW S, NEW R, IsFiniteSet(S), NEW g, R \subseteq S \cup {g}
  PROVE  IsFiniteSet(R) /\ Cardinality(R) <= Cardinality(S) + 1
<1> DEFINE T == S \cup {g}
<1>1. Cardinality(S) \in Nat
  BY FS_CardinalityType
<1>2. IsFiniteSet(T) /\ Cardinality(T) = IF g \in S THEN Cardinality(S) ELSE Cardinality(S) + 1
  BY FS_AddElement
<1> HIDE DEF T
<1>3. IsFiniteSet(T) /\ Cardinality(T) <= Cardinality(S) + 1
  BY <1>1, <1>2
<1>4. IsFiniteSet(R) /\ Cardinality(R) <= Cardinality(T)
  BY <1>3, FS_Subset DEF T
<1>5. Cardinality(R) \in Nat /\ Cardinality(T) \in Nat
  BY <1>3, <1>4, FS_CardinalityType
<1> QED
  BY <1>3, <1>4, <1>1, <1>5

\* Two parts within a limit each are within twice the limit.
LEMMA TwoParts ==
  ASSUME NEW A, NEW B, NEW R, IsFiniteSet(A), IsFiniteSet(B), R \subseteq A \cup B,
         NEW l \in Nat, Cardinality(A) <= l, Cardinality(B) <= l
  PROVE  Cardinality(R) <= 2 * l
<1>1. IsFiniteSet(A \cup B)
      /\ Cardinality(A \cup B) = Cardinality(A) + Cardinality(B) - Cardinality(A \cap B)
  BY FS_Union
<1>2. IsFiniteSet(A \cap B)
  BY FS_Subset
<1>3. Cardinality(A) \in Nat /\ Cardinality(B) \in Nat /\ Cardinality(A \cap B) \in Nat
  BY <1>2, FS_CardinalityType
<1>4. IsFiniteSet(R) /\ Cardinality(R) <= Cardinality(A \cup B)
  BY <1>1, FS_Subset
<1>5. Cardinality(R) \in Nat
  BY <1>4, FS_CardinalityType
<1> QED
  BY <1>1, <1>3, <1>4, <1>5

\* A counter that has expired is reset.
LEMMA Renewed ==
  ASSUME NEW G, NEW r, NEW u, NEW l \in Nat, NEW c \in Times,
         InWindow(G, r, u, l, c), c - r >= Hour
  PROVE  InWindow(G, c, 0, l, c)
<1> USE BudgetAssumption DEF Times
<1>1. r \in Int /\ IsFiniteSet(G) /\ (\A g \in G : g.at \in Int /\ g.at <= c /\ g.at < r + Hour)
  BY DEF InWindow
<1>2. {g \in G : g.at >= c} = {}
  BY <1>1
<1>3. {g \in G : g.at > c - Hour /\ g.at < c} \subseteq {g \in G : g.at >= r}
  BY <1>1
<1>4. IsFiniteSet({g \in G : g.at >= r}) /\ Cardinality({g \in G : g.at >= r}) \in Nat
  BY <1>1, FS_Subset, FS_CardinalityType
<1>5. /\ IsFiniteSet({g \in G : g.at > c - Hour /\ g.at < c})
      /\ Cardinality({g \in G : g.at > c - Hour /\ g.at < c})
           <= Cardinality({g \in G : g.at >= r})
  BY <1>3, <1>4, FS_Subset
<1>6. Cardinality({g \in G : g.at > c - Hour /\ g.at < c}) \in Nat
  BY <1>5, FS_CardinalityType
<1>7. Cardinality({g \in G : g.at > c - Hour /\ g.at < c}) <= l
  BY <1>4, <1>5, <1>6 DEF InWindow
<1>8. Cardinality({g \in G : g.at >= c}) = 0
  BY <1>2, FS_EmptySet
<1> QED
  BY <1>1, <1>7, <1>8 DEF InWindow

\* A request is granted under a counter that has not expired.
LEMMA Recorded ==
  ASSUME NEW G, NEW r, NEW u, NEW l \in Nat, NEW c \in Times, NEW h,
         InWindow(G, r, u, l, c), c - r < Hour, u < l, h.at = c
  PROVE  InWindow(G \cup {h}, r, u + 1, l, c)
<1> DEFINE H     == G \cup {h}
           S     == {g \in G : g.at >= r}
           B     == {g \in G : g.at > r - Hour /\ g.at < r}
           Ss    == {g \in H : g.at >= r}
           Bs    == {g \in H : g.at > r - Hour /\ g.at < r}
           Up(e) == {g \in G : g.at > e - Hour /\ g.at <= e}
           As(e) == {g \in H : g.at > e - Hour /\ g.at <= e}
<1> USE BudgetAssumption DEF Times
<1>1. /\ r \in Int /\ r \in Times /\ r <= c /\ u \in Nat /\ IsFiniteSet(G)
      /\ \A g \in G : g.at \in Times /\ g.at \in Int /\ g.at <= c /\ g.at < r + Hour
      /\ Cardinality(S) <= u /\ Cardinality(B) <= l
  BY DEF InWindow
<1>2. \A e \in Times : Cardinality(Up(e)) <= 2 * l
  BY Zenon DEF InWindow
<1>3. IsFiniteSet(H)
  BY <1>1, FS_AddElement
<1>4. Ss \subseteq S \cup {h} /\ Bs = B
  BY <1>1
<1>5. IsFiniteSet(S) /\ IsFiniteSet(B) /\ Cardinality(S) \in Nat /\ Cardinality(B) \in Nat
  BY <1>1, FS_Subset, FS_CardinalityType
<1>6. IsFiniteSet(Ss) /\ Cardinality(Ss) <= Cardinality(S) + 1
  BY <1>4, <1>5, OneMore
<1>7. Cardinality(Ss) \in Nat
  BY <1>6, FS_CardinalityType
<1>8. Cardinality(Ss) <= u + 1
  BY <1>1, <1>5, <1>6, <1>7
<1>9. ASSUME NEW e \in Times PROVE Cardinality(As(e)) <= 2 * l
  <2>1. CASE c > e - Hour /\ c <= e
    <3>1. As(e) \subseteq Ss \cup B
      BY <1>1, <2>1
    <3>2. Cardinality(Ss) <= l
      BY <1>1, <1>7, <1>8
    <3> HIDE DEF As, Ss, B
    <3> QED
      BY <1>1, <1>5, <1>6, <3>1, <3>2, TwoParts
  <2>2. CASE ~(c > e - Hour /\ c <= e)
    <3>1. As(e) = Up(e)
      BY <1>1, <2>2
    <3> QED
      BY <1>2, <3>1
  <2> QED
    BY <2>1, <2>2
<1>10. \A g \in H : g.at \in Times /\ g.at <= c /\ g.at < r + Hour
  BY <1>1
<1>11. Cardinality(Bs) <= l
  BY <1>1, <1>4
<1> HIDE DEF H
<1>12. InWindow(H, r, u + 1, l, c)
  BY <1>1, <1>3, <1>8, <1>9, <1>10, <1>11 DEF InWindow
<1> QED
  BY <1>12 DEF H

\* Time passes.
LEMMA Passes ==
  ASSUME NEW G, NEW r, NEW u, NEW l, NEW c \in Times, InWindow(G, r, u, l, c)
  PROVE  InWindow(G, r, u, l, c + 1)
<1>1. \A g \in G : g.at <= c + 1
  BY BudgetAssumption DEF Times, InWindow
<1>2. r <= c + 1
  BY BudgetAssumption DEF Times, InWindow
<1> QED
  BY <1>1, <1>2 DEF InWindow

\* What the counters of a target are once it has been looked at.
LEMMA TargetLooked ==
  ASSUME Budgeted, NEW t \in BudgetTargets, LookAtTarget(t)
  PROVE  /\ targetReset' \in [BudgetTargets -> Times] /\ known' = known \cup {t}
         /\ \A k \in BudgetTargets : k # t => targetReset'[k] = targetReset[k]
         /\ clock - targetReset'[t] < Hour
         /\ \A n \in Models :
              InWindow(Granted(n, {t}), targetReset'[t], Used(n, t), Limit(n), clock)
<1> DEFINE r == targetReset[t]
<1>1. /\ clock \in Times /\ r \in Times /\ Hour \in Nat /\ Hour > 0
      /\ targetReset \in [BudgetTargets -> Times]
  BY BudgetAssumption DEF Budgeted, TrackerTypeOK
<1>2. targetReset'[t] = IF t \notin known \/ Expired(r) THEN clock ELSE r
  BY <1>1 DEF LookAtTarget
<1>3. clock - targetReset'[t] < Hour
  BY <1>1, <1>2 DEF Expired, Times
<1>4. ASSUME NEW n \in Models
      PROVE  InWindow(Granted(n, {t}), targetReset'[t], Used(n, t), Limit(n), clock)
  <2>1. Limit(n) \in Nat
    BY BudgetAssumption DEF Limit
  <2>2. CASE t \notin known
    <3>1. Granted(n, {t}) = {} /\ Used(n, t) = 0 /\ targetReset'[t] = clock
      BY <1>2, <2>2 DEF Budgeted, Used
    <3>2. InWindow({}, clock, 0, Limit(n), clock)
      <4>1. \A S \in SUBSET {} : S = {}
        OBVIOUS
      <4>2. IsFiniteSet({}) /\ Cardinality({}) = 0
        BY FS_EmptySet
      <4> QED
        BY <1>1, <2>1, <4>1, <4>2 DEF InWindow, Times
    <3> QED
      BY <3>1, <3>2
  <2>3. CASE t \in known
    <3>1. InWindow(Granted(n, {t}), r, used[n][t], Limit(n), clock)
      BY <2>3 DEF Budgeted
    <3>2. CASE Expired(r)
      <4>1. Used(n, t) = 0 /\ targetReset'[t] = clock
        BY <1>2, <3>2 DEF Used
      <4> QED
        BY <1>1, <2>1, <3>1, <3>2, <4>1, Renewed DEF Expired
    <3>3. CASE ~Expired(r)
      <4>1. Used(n, t) = used[n][t] /\ targetReset'[t] = r
        BY <1>2, <2>3, <3>3 DEF Used
      <4> QED
        BY <3>1, <4>1
    <3> QED
      BY <3>2, <3>3
  <2> QED
    BY <2>2, <2>3
<1> QED
  BY <1>1, <1>3, <1>4 DEF LookAtTarget

\* And the counter of all targets.
LEMMA GlobalLooked ==
  ASSUME Budgeted, NEW m \in Models, LookAtGlobal(m)
  PROVE  /\ globalReset' \in Times
         /\ m # "deep" => globalReset' = globalReset
         /\ m = "deep" =>
              /\ clock - globalReset' < Hour
              /\ InWindow(Granted("deep", BudgetTargets), globalReset', GlobalUsed, DeepGlobal,
                          clock)
<1>1. /\ clock \in Times /\ globalReset \in Times /\ Hour \in Nat /\ Hour > 0 /\ DeepGlobal \in Nat
      /\ InWindow(Granted("deep", BudgetTargets), globalReset, globalDeep, DeepGlobal, clock)
  BY BudgetAssumption DEF Budgeted, TrackerTypeOK
<1>2. CASE m = "deep" /\ Expired(globalReset)
  <2>1. globalReset' = clock /\ GlobalUsed = 0
    BY <1>2 DEF LookAtGlobal, GlobalUsed
  <2>2. InWindow(Granted("deep", BudgetTargets), clock, 0, DeepGlobal, clock)
    BY <1>1, <1>2, Renewed DEF Expired
  <2> QED
    BY <1>1, <2>1, <2>2, <1>2 DEF Times
<1>3. CASE ~(m = "deep" /\ Expired(globalReset))
  BY <1>1, <1>3 DEF LookAtGlobal, GlobalUsed, Expired, Times
<1> QED
  BY <1>2, <1>3

\* A step that records nothing and lets no time pass keeps the history's counts.
LEMMA SameHistory ==
  ASSUME UNCHANGED <<granted, clock>>
  PROVE  /\ \A n \in Models, k \in BudgetTargets : Granted(n, {k})' = Granted(n, {k})
         /\ Granted("deep", BudgetTargets)' = Granted("deep", BudgetTargets)
         /\ Numbered => Numbered'
BY DEF Granted, Numbered, Alike

\* The history grows by the grant alone, wherever that belongs.
LEMMA HistoryGrows ==
  ASSUME Budgeted, NEW m \in Models, NEW t \in BudgetTargets,
         granted' = granted \cup {NextGrant(m, t)}
  PROVE  /\ granted' \subseteq [model : Models, target : BudgetTargets, at : Times, nth : Nat]
         /\ IsFiniteSet(granted') /\ Numbered' /\ NextGrant(m, t) \notin granted
         /\ \A n \in Models, ts \in SUBSET BudgetTargets :
              Granted(n, ts)' = IF n = m /\ t \in ts THEN Granted(n, ts) \cup {NextGrant(m, t)}
                                ELSE Granted(n, ts)
<1> DEFINE h == NextGrant(m, t)
           K == Cardinality(Alike(h))
<1>1. /\ clock \in Times /\ IsFiniteSet(granted) /\ Numbered
      /\ granted \subseteq [model : Models, target : BudgetTargets, at : Times, nth : Nat]
  BY DEF Budgeted, TrackerTypeOK
<1>2. h.model = m /\ h.target = t /\ h.at = clock /\ h.nth = K
  BY DEF NextGrant, Alike
<1>3. \A g \in granted : IsFiniteSet(Alike(g)) /\ Cardinality(Alike(g)) \in Nat
  BY <1>1, FS_Subset, FS_CardinalityType DEF Alike
<1>4. IsFiniteSet(Alike(h)) /\ K \in Nat
  BY <1>1, FS_Subset, FS_CardinalityType DEF Alike
<1>5. h \in [model : Models, target : BudgetTargets, at : Times, nth : Nat]
  BY <1>1, <1>4 DEF NextGrant, Alike
<1> HIDE DEF h
<1>6. h \notin granted
  BY <1>1, <1>2, <1>4 DEF Numbered
<1>7. granted' = granted \cup {h}
  BY DEF h
<1>8. Numbered'
  <2> SUFFICES ASSUME NEW g \in granted \cup {h} PROVE g.nth < Cardinality(Alike(g)')
    BY <1>7 DEF Numbered, Alike
  <2>1. CASE g.model = m /\ g.target = t /\ g.at = clock
    <3>1. Alike(g)' = Alike(h) \cup {h}
      BY <1>2, <1>7, <2>1 DEF Alike
    <3>2. h \notin Alike(h)
      BY <1>6 DEF Alike
    <3>3. Cardinality(Alike(g)') = K + 1
      BY <1>4, <3>1, <3>2, FS_AddElement
    <3>4. g = h \/ (g \in granted /\ Alike(g) = Alike(h) /\ g.nth \in Nat)
      BY <1>1, <1>2, <2>1 DEF Alike
    <3>5. g.nth = K \/ (g.nth \in Nat /\ g.nth < K)
      BY <1>1, <1>2, <3>4 DEF Numbered
    <3> QED
      BY <1>4, <3>3, <3>5
  <2>2. CASE ~(g.model = m /\ g.target = t /\ g.at = clock)
    <3>1. g \in granted /\ Alike(g)' = Alike(g)
      BY <1>2, <1>7, <2>2 DEF Alike
    <3> QED
      BY <1>1, <3>1 DEF Numbered
  <2> QED
    BY <2>1, <2>2
<1>9. ASSUME NEW n \in Models, NEW ts \in SUBSET BudgetTargets
      PROVE  Granted(n, ts)' = IF n = m /\ t \in ts THEN Granted(n, ts) \cup {h}
                               ELSE Granted(n, ts)
  BY <1>2, <1>7 DEF Granted
<1>10. IsFiniteSet(granted')
  BY <1>1, <1>7, FS_AddElement
<1> QED
  BY <1>1, <1>5, <1>6, <1>7, <1>8, <1>9, <1>10 DEF h

LEMMA BudgetBegins == TrackerInit => Budgeted
<1> SUFFICES ASSUME TrackerInit PROVE Budgeted
  OBVIOUS
<1> USE BudgetAssumption DEF Times
<1>1. TrackerTypeOK
  BY DEF TrackerInit, TrackerTypeOK
<1>2. \A n \in Models, ts \in SUBSET BudgetTargets : Granted(n, ts) = {}
  BY DEF TrackerInit, Granted
<1>3. InWindow({}, 0, 0, DeepGlobal, 0)
  <2>1. IsFiniteSet({}) /\ Cardinality({}) = 0 /\ \A S \in SUBSET {} : S = {}
    BY FS_EmptySet
  <2> QED
    BY <2>1 DEF InWindow
<1>4. Numbered /\ IsFiniteSet(granted)
  BY FS_EmptySet DEF TrackerInit, Numbered
<1>5. InWindow(Granted("deep", BudgetTargets), globalReset, globalDeep, DeepGlobal, clock)
  BY <1>2, <1>3 DEF TrackerInit, Models
<1> QED
  BY <1>1, <1>2, <1>4, <1>5 DEF Budgeted, TrackerInit

\* Types of what a look leaves in the counters.
LEMMA UsedType ==
  ASSUME Budgeted
  PROVE  /\ \A n \in Models, t \in BudgetTargets : Used(n, t) \in Nat
         /\ GlobalUsed \in Nat /\ used \in [Models -> [BudgetTargets -> Nat]]
         /\ clock \in Times /\ granted \subseteq
              [model : Models, target : BudgetTargets, at : Times, nth : Nat]
BY DEF Used, GlobalUsed, Budgeted, TrackerTypeOK

LEMMA RequestStep ==
  ASSUME Budgeted, NEW m \in Models, NEW t \in BudgetTargets, Request(m, t)
  PROVE  Budgeted'
<1> DEFINE h == NextGrant(m, t)
<1>1. /\ CanRequest(m, t) /\ LookAtTarget(t) /\ LookAtGlobal(m) /\ clock' = clock
      /\ granted' = granted \cup {NextGrant(m, t)}
      /\ used' = [n \in Models |-> [used[n] EXCEPT ![t] = Used(n, t) + IF n = m THEN 1 ELSE 0]]
      /\ globalDeep' = IF m = "deep" THEN GlobalUsed + 1 ELSE globalDeep
  BY DEF Request
<1>2. /\ targetReset' \in [BudgetTargets -> Times] /\ known' = known \cup {t}
      /\ \A k \in BudgetTargets : k # t => targetReset'[k] = targetReset[k]
      /\ clock - targetReset'[t] < Hour
      /\ \A n \in Models :
           InWindow(Granted(n, {t}), targetReset'[t], Used(n, t), Limit(n), clock)
  BY <1>1, TargetLooked
<1>3. /\ globalReset' \in Times
      /\ m # "deep" => globalReset' = globalReset
      /\ m = "deep" =>
           /\ clock - globalReset' < Hour
           /\ InWindow(Granted("deep", BudgetTargets), globalReset', GlobalUsed, DeepGlobal, clock)
  BY <1>1, GlobalLooked
<1>4. /\ granted' \subseteq [model : Models, target : BudgetTargets, at : Times, nth : Nat]
      /\ IsFiniteSet(granted') /\ Numbered'
      /\ \A n \in Models, ts \in SUBSET BudgetTargets :
           Granted(n, ts)' = IF n = m /\ t \in ts THEN Granted(n, ts) \cup {h} ELSE Granted(n, ts)
  BY <1>1, HistoryGrows
<1>5. h.at = clock
  BY DEF NextGrant
<1> HIDE DEF h
<1>6. /\ \A n \in Models, k \in BudgetTargets : Used(n, k) \in Nat
      /\ GlobalUsed \in Nat /\ used \in [Models -> [BudgetTargets -> Nat]] /\ clock \in Times
  BY UsedType
<1>7. used' \in [Models -> [BudgetTargets -> Nat]]
  BY <1>1, <1>6
<1>8. TrackerTypeOK'
  <2>1. underWay' \in Nat /\ requests' \in [Models -> [BudgetTargets -> Nat]]
    BY DEF Request, Budgeted, TrackerTypeOK
  <2>2. globalDeep' \in Nat /\ known' \subseteq BudgetTargets /\ clock' \in Times
    BY <1>1, <1>2, <1>6 DEF Budgeted, TrackerTypeOK
  <2> QED
    BY <1>2, <1>3, <1>4, <1>7, <2>1, <2>2 DEF TrackerTypeOK
<1>9. ASSUME NEW n \in Models, NEW k \in BudgetTargets
      PROVE  IF k \in known'
               THEN InWindow(Granted(n, {k})', targetReset'[k], used'[n][k], Limit(n), clock')
               ELSE Granted(n, {k})' = {}
  <2>1. CASE k = t /\ n = m
    <3>1. InWindow(Granted(n, {t}) \cup {h}, targetReset'[t], Used(n, t) + 1, Limit(n), clock)
      <4>1. Limit(n) \in Nat /\ Used(n, t) < Limit(n)
        BY <1>1, <2>1, BudgetAssumption DEF Limit, CanRequest
      <4> QED
        BY <1>2, <1>5, <1>6, <2>1, <4>1, Recorded
    <3>2. /\ used'[n][k] = Used(n, t) + 1 /\ k \in known'
          /\ Granted(n, {k})' = Granted(n, {t}) \cup {h}
      BY <1>1, <1>2, <1>4, <1>6, <2>1
    <3> QED
      BY <1>1, <2>1, <3>1, <3>2
  <2>2. CASE k = t /\ n # m
    <3>1. used'[n][k] = Used(n, t) /\ Granted(n, {k})' = Granted(n, {t}) /\ k \in known'
      BY <1>1, <1>2, <1>4, <1>6, <2>2
    <3> QED
      BY <1>1, <1>2, <2>2, <3>1
  <2>3. CASE k # t
    <3>1. used'[n][k] = used[n][k] /\ Granted(n, {k})' = Granted(n, {k})
      BY <1>1, <1>4, <1>6, <2>3
    <3>2. targetReset'[k] = targetReset[k] /\ (k \in known' <=> k \in known)
      BY <1>2, <2>3
    <3> QED
      BY <1>1, <3>1, <3>2 DEF Budgeted
  <2> QED
    BY <2>1, <2>2, <2>3
<1>10. InWindow(Granted("deep", BudgetTargets)', globalReset', globalDeep', DeepGlobal, clock')
  <2>1. CASE m = "deep"
    <3>1. DeepGlobal \in Nat /\ GlobalUsed < DeepGlobal
      BY <1>1, <2>1, BudgetAssumption DEF CanRequest
    <3>2. InWindow(Granted("deep", BudgetTargets) \cup {h}, globalReset', GlobalUsed + 1,
                   DeepGlobal, clock)
      BY <1>3, <1>5, <1>6, <2>1, <3>1, Recorded
    <3>3. Granted("deep", BudgetTargets)' = Granted("deep", BudgetTargets) \cup {h}
      BY <1>4, <2>1 DEF Models
    <3> QED
      BY <1>1, <2>1, <3>2, <3>3
  <2>2. CASE m # "deep"
    <3>1. Granted("deep", BudgetTargets)' = Granted("deep", BudgetTargets)
      BY <1>4, <2>2 DEF Models
    <3> QED
      BY <1>1, <1>3, <2>2, <3>1 DEF Budgeted
  <2> QED
    BY <2>1, <2>2
<1> QED
  BY <1>4, <1>8, <1>9, <1>10 DEF Budgeted, Limit

LEMMA RefusedStep ==
  ASSUME Budgeted, NEW m \in Models, NEW t \in BudgetTargets, Refused(m, t)
  PROVE  Budgeted'
<1>1. /\ LookAtGlobal(m) /\ UNCHANGED <<underWay, requests, clock, granted>>
      /\ globalDeep' = IF m = "deep" THEN GlobalUsed ELSE globalDeep
  BY DEF Refused
<1>2. /\ \A n \in Models, k \in BudgetTargets : Granted(n, {k})' = Granted(n, {k})
      /\ Granted("deep", BudgetTargets)' = Granted("deep", BudgetTargets)
      /\ Numbered' /\ IsFiniteSet(granted')
  BY <1>1, SameHistory DEF Budgeted
<1>3. /\ globalReset' \in Times
      /\ m # "deep" => globalReset' = globalReset
      /\ m = "deep" =>
           InWindow(Granted("deep", BudgetTargets), globalReset', GlobalUsed, DeepGlobal, clock)
  BY <1>1, GlobalLooked
<1>4. /\ \A n \in Models, k \in BudgetTargets : Used(n, k) \in Nat
      /\ GlobalUsed \in Nat /\ used \in [Models -> [BudgetTargets -> Nat]]
  BY UsedType
<1>5. InWindow(Granted("deep", BudgetTargets)', globalReset', globalDeep', DeepGlobal, clock')
  <2>1. CASE m = "deep"
    BY <1>1, <1>2, <1>3, <2>1
  <2>2. CASE m # "deep"
    BY <1>1, <1>2, <1>3, <2>2 DEF Budgeted
  <2> QED
    BY <2>1, <2>2
<1>6. CASE UNCHANGED <<known, targetReset, used>>
  <2>1. TrackerTypeOK'
    BY <1>1, <1>3, <1>4, <1>6 DEF Budgeted, TrackerTypeOK
  <2> QED
    BY <1>1, <1>2, <1>5, <1>6, <2>1 DEF Budgeted, Limit
<1>7. CASE LookAtTarget(t) /\ used' = [n \in Models |-> [used[n] EXCEPT ![t] = Used(n, t)]]
  <2>1. /\ targetReset' \in [BudgetTargets -> Times] /\ known' = known \cup {t}
        /\ \A k \in BudgetTargets : k # t => targetReset'[k] = targetReset[k]
        /\ \A n \in Models :
             InWindow(Granted(n, {t}), targetReset'[t], Used(n, t), Limit(n), clock)
    BY <1>7, TargetLooked
  <2>2. used' \in [Models -> [BudgetTargets -> Nat]]
    BY <1>4, <1>7
  <2>3. TrackerTypeOK'
    BY <1>1, <1>3, <1>4, <2>1, <2>2 DEF Budgeted, TrackerTypeOK
  <2>4. ASSUME NEW n \in Models, NEW k \in BudgetTargets
        PROVE  IF k \in known'
                 THEN InWindow(Granted(n, {k})', targetReset'[k], used'[n][k], Limit(n), clock')
                 ELSE Granted(n, {k})' = {}
    <3>1. CASE k = t
      <4>1. used'[n][k] = Used(n, t) /\ k \in known'
        BY <1>4, <1>7, <2>1, <3>1
      <4> QED
        BY <1>1, <1>2, <2>1, <3>1, <4>1
    <3>2. CASE k # t
      <4>1. used'[n][k] = used[n][k] /\ (k \in known' <=> k \in known)
        BY <1>4, <1>7, <2>1, <3>2
      <4> QED
        BY <1>1, <1>2, <2>1, <3>2, <4>1 DEF Budgeted
    <3> QED
      BY <3>1, <3>2
  <2> QED
    BY <1>2, <1>5, <2>3, <2>4 DEF Budgeted, Limit
<1> QED
  BY <1>6, <1>7 DEF Refused

LEMMA ReleaseStep ==
  ASSUME Budgeted, NEW m \in Models, NEW t \in BudgetTargets, Release(m, t)
  PROVE  Budgeted'
<1>1. /\ UNCHANGED <<known, used, targetReset, globalDeep, globalReset, clock, granted>>
      /\ requests' = [requests EXCEPT ![m][t] = @ - 1] /\ requests[m][t] > 0
      /\ underWay' = IF underWay > 0 THEN underWay - 1 ELSE 0
  BY DEF Release
<1>2. TrackerTypeOK'
  BY <1>1 DEF Budgeted, TrackerTypeOK
<1>3. /\ \A n \in Models, k \in BudgetTargets : Granted(n, {k})' = Granted(n, {k})
      /\ Granted("deep", BudgetTargets)' = Granted("deep", BudgetTargets)
      /\ Numbered' /\ IsFiniteSet(granted')
  BY <1>1, SameHistory DEF Budgeted
<1> QED
  BY <1>1, <1>2, <1>3 DEF Budgeted, Limit

LEMMA TickStep == ASSUME Budgeted, Tick PROVE Budgeted'
<1>1. /\ clock' = clock + 1 /\ clock \in Times /\ clock' \in Times
      /\ UNCHANGED <<known, used, targetReset, globalDeep, globalReset, underWay, requests,
                     granted>>
  BY BudgetAssumption DEF Tick, Times, Budgeted, TrackerTypeOK
<1>2. TrackerTypeOK'
  BY <1>1 DEF Budgeted, TrackerTypeOK
<1>3. /\ \A n \in Models, k \in BudgetTargets : Granted(n, {k})' = Granted(n, {k})
      /\ Granted("deep", BudgetTargets)' = Granted("deep", BudgetTargets)
      /\ Numbered' /\ IsFiniteSet(granted')
  BY <1>1 DEF Granted, Budgeted, Numbered, Alike
<1>4. ASSUME NEW n \in Models, NEW k \in BudgetTargets, k \in known
      PROVE  InWindow(Granted(n, {k}), targetReset[k], used[n][k], Limit(n), clock + 1)
  BY <1>1, <1>4, Passes DEF Budgeted
<1>5. InWindow(Granted("deep", BudgetTargets), globalReset, globalDeep, DeepGlobal, clock + 1)
  BY <1>1, Passes DEF Budgeted
<1> QED
  BY <1>1, <1>2, <1>3, <1>4, <1>5 DEF Budgeted, Limit

LEMMA BudgetStep == Budgeted /\ [TrackerNext]_trackerVars => Budgeted'
<1> SUFFICES ASSUME Budgeted, [TrackerNext]_trackerVars PROVE Budgeted'
  OBVIOUS
<1>1. CASE UNCHANGED trackerVars
  BY <1>1, SameHistory DEF trackerVars, Budgeted, TrackerTypeOK, Limit
<1>2. CASE Tick
  BY <1>2, TickStep
<1>3. ASSUME NEW m \in Models, NEW t \in BudgetTargets,
             Request(m, t) \/ Refused(m, t) \/ Release(m, t) \/ DuplicateRelease(m, t)
      PROVE  Budgeted'
  BY <1>1, <1>3, RequestStep, RefusedStep, ReleaseStep DEF DuplicateRelease
<1> QED
  BY <1>1, <1>2, <1>3 DEF TrackerNext

\* The in-memory budget keeps to its inductive invariant, whatever is asked, refused
\* and released, however often, and at whatever times.
THEOREM AlwaysBudgeted == TrackerSpec => []Budgeted
BY BudgetBegins, BudgetStep, PTL DEF TrackerSpec

\* The hourly limits of broker/budget.py hold within a factor of two for every hour,
\* though the counters of the targets and the global one are reset at different times
\* and by refused requests too.
THEOREM HoursWithinTwice == TrackerSpec => []HourlyWithinTwice
<1>1. Budgeted => HourlyWithinTwice
  <2> SUFFICES ASSUME Budgeted, NEW e \in Times
               PROVE  /\ \A m \in Models, t \in BudgetTargets : InHour(m, {t}, e) <= 2 * Limit(m)
                      /\ InHour("deep", BudgetTargets, e) <= 2 * DeepGlobal
    BY DEF HourlyWithinTwice
  <2>1. ASSUME NEW m \in Models, NEW t \in BudgetTargets
        PROVE  InHour(m, {t}, e) <= 2 * Limit(m)
    <3>1. CASE t \in known
      BY <3>1 DEF Budgeted, InWindow, InHour
    <3>2. CASE t \notin known
      <4>1. {g \in Granted(m, {t}) : g.at > e - Hour /\ g.at <= e} = {}
        BY <3>2 DEF Budgeted
      <4>2. Limit(m) \in Nat /\ InHour(m, {t}, e) = 0
        BY <4>1, BudgetAssumption, FS_EmptySet DEF InHour, Limit
      <4> QED
        BY <4>2
    <3> QED
      BY <3>1, <3>2
  <2>2. InHour("deep", BudgetTargets, e) <= 2 * DeepGlobal
    BY DEF Budgeted, InWindow, InHour
  <2> QED
    BY <2>1, <2>2
<1> QED
  BY <1>1, AlwaysBudgeted, PTL

\* Each recorded request adds one to the history that the limits are stated on.
THEOREM GrantsCountOnce ==
  TrackerSpec =>
    [][\A m \in Models, t \in BudgetTargets :
         Request(m, t) => NextGrant(m, t) \notin granted]_trackerVars
<1>1. ASSUME Budgeted
      PROVE  \A m \in Models, t \in BudgetTargets : Request(m, t) => NextGrant(m, t) \notin granted
  BY <1>1, HistoryGrows DEF Request
<1> QED
  BY <1>1, AlwaysBudgeted, PTL
=============================================================================

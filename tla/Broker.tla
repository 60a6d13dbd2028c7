------------------------------- MODULE Broker -------------------------------
(***************************************************************************)
(* The file-RPC inference broker (broker/main.py with the journal and the  *)
(* publication of broker/durability.py) and the clients that write request *)
(* files and read response files (rpc_client.py).                          *)
(*                                                                         *)
(* Broker processes share three directories and the SQLite journal; a flock*)
(* held for one batch lets one of them work at a time, and the kernel      *)
(* drops it when the owner dies.  A request is taken by renaming it into   *)
(* the broker's own directory, claimed in the journal, sent to the model,  *)
(* journaled with its response and only then published.  The process may   *)
(* die, and a file or database operation may fail, between any two steps.  *)
(***************************************************************************)
EXTENDS Integers, FiniteSets

CONSTANTS
    Ids,          \* request identities
    Payloads,     \* contents a client can send under an identity
    Malformed,    \* the payloads parse_request refuses
    Nothing,      \* no file, no row, no request
    Brokers,      \* broker processes
    BatchLimit,   \* max_queue_size, 8
    BudgetLimit,  \* requests of the budgeted model a process admits, per window
    Faults,       \* whether processes crash and operations fail
    MaxSends      \* bound of the model on the requests written per identity

ASSUME BrokerAssumption ==
    /\ IsFiniteSet(Ids)
    /\ Malformed \subseteq Payloads
    /\ Nothing \notin Ids \cup Payloads \cup Brokers
    /\ BatchLimit \in Nat \ {0}
    /\ BudgetLimit \in Nat
    /\ Faults \in BOOLEAN
    /\ MaxSends \in Nat

VARIABLES
    inbox,     \* in/req-<id>.json: its payload
    responses, \* out/resp-<id>.json: the response in it
    private,   \* request files in the broker's own directory: <<id, payload>>
    failed,    \* request files moved to the failed directory
    row,       \* the journal: [state, digest, response] of an id
    owner,     \* the holder of owner.lock
    place,     \* where each broker process is
    batch,     \* identities it still has to process of this batch
    current,   \* the request in hand
    reply,     \* the response it is about to journal or publish
    spent,     \* requests recorded in its in-memory budget
    active,    \* requests recorded and not yet released
    reserved,  \* whether the request in hand is one of them
    sends,     \* requests written per identity (history)
    inferred,  \* calls made to the model per identity (history)
    received   \* responses clients have read per identity (history)

fileVars    == <<inbox, responses, private, failed>>
processVars == <<place, batch, current, reply>>
quotaVars   == <<spent, active, reserved>>
historyVars == <<sends, inferred, received>>
brokerVars  == <<fileVars, row, owner, processVars, quotaVars, historyVars>>

NoRequest == [id |-> Nothing, payload |-> Nothing]
Requests  == [id : Ids, payload : Payloads]

\* A model's answer, an error the broker writes itself, or nothing.
Answer(payload) == <<"answer", payload>>
Exhausted == <<"error", "model budget exhausted">>
Uncertain == <<"error", "request outcome uncertain">>
Responses == {Answer(p) : p \in Payloads} \cup {Exhausted, Uncertain}

Row(state, digest, response) == [state |-> state, digest |-> digest, response |-> response]
NoRow == Row("NONE", Nothing, Nothing)

Steps == {"idle", "next", "parse", "claim", "infer", "finish", "publish",
          "publishError", "unlink", "reject", "rejectClaimed"}

BrokerTypeOK ==
    /\ inbox \in [Ids -> Payloads \cup {Nothing}]
    /\ responses \in [Ids -> Responses \cup {Nothing}]
    /\ private \subseteq Requests
    /\ failed \subseteq Requests
    /\ row \in [Ids -> [state : {"NONE", "CLAIMED", "COMPLETE", "UNCERTAIN"},
                        digest : Payloads \cup {Nothing},
                        response : Responses \cup {Nothing}]]
    /\ owner \in Brokers \cup {Nothing}
    /\ place \in [Brokers -> Steps]
    /\ batch \in [Brokers -> SUBSET Ids]
    /\ current \in [Brokers -> Requests \cup {NoRequest}]
    /\ reply \in [Brokers -> Responses \cup {Nothing}]
    /\ spent \in [Brokers -> Nat]
    /\ active \in [Brokers -> Int]
    /\ reserved \in [Brokers -> BOOLEAN]
    /\ sends \in [Ids -> Nat]
    /\ inferred \in [Ids -> Nat]
    /\ received \in [Ids -> SUBSET Responses]

BrokerInit ==
    /\ inbox = [i \in Ids |-> Nothing]
    /\ responses = [i \in Ids |-> Nothing]
    /\ private = {}
    /\ failed = {}
    /\ row = [i \in Ids |-> NoRow]
    /\ owner = Nothing
    /\ place = [b \in Brokers |-> "idle"]
    /\ batch = [b \in Brokers |-> {}]
    /\ current = [b \in Brokers |-> NoRequest]
    /\ reply = [b \in Brokers |-> Nothing]
    /\ spent = [b \in Brokers |-> 0]
    /\ active = [b \in Brokers |-> 0]
    /\ reserved = [b \in Brokers |-> FALSE]
    /\ sends = [i \in Ids |-> 0]
    /\ inferred = [i \in Ids |-> 0]
    /\ received = [i \in Ids |-> {}]

-----------------------------------------------------------------------------
(* Clients.                                                                *)

\* A request file appears by an atomic rename; the same name may be written
\* again, with the same or another content.
Send(i, payload) ==
    /\ sends[i] < MaxSends
    /\ sends' = [sends EXCEPT ![i] = @ + 1]
    /\ inbox' = [inbox EXCEPT ![i] = payload]
    /\ UNCHANGED <<responses, private, failed, row, owner, processVars, quotaVars,
                   inferred, received>>

\* The client reads the response and unlinks it.  One that timed out never
\* does, and the response stays.
Receive(i) ==
    /\ responses[i] # Nothing
    /\ received' = [received EXCEPT ![i] = @ \cup {responses[i]}]
    /\ responses' = [responses EXCEPT ![i] = Nothing]
    /\ UNCHANGED <<inbox, private, failed, row, owner, processVars, quotaVars,
                   sends, inferred>>

-----------------------------------------------------------------------------
(* A broker process.                                                       *)

Proceed(b, step) == place' = [place EXCEPT ![b] = step]
At(b, step) == place[b] = step

\* Mutant: no release on the way out.
DropUnreleased(b) ==
    /\ current' = [current EXCEPT ![b] = NoRequest]
    /\ reply' = [reply EXCEPT ![b] = Nothing]
    /\ reserved' = [reserved EXCEPT ![b] = FALSE]
    /\ UNCHANGED <<spent, active>>

\* The request in hand is done with, whatever became of it: "finally" releases
\* its place in the budget if it took one.
Drop(b) ==
    /\ current' = [current EXCEPT ![b] = NoRequest]
    /\ reply' = [reply EXCEPT ![b] = Nothing]
    /\ active' = [active EXCEPT ![b] = IF reserved[b] THEN @ - 1 ELSE @]
    /\ reserved' = [reserved EXCEPT ![b] = FALSE]
    /\ UNCHANGED spent

\* with Journal(state): a non-blocking flock, then at most BatchLimit of the
\* files glob lists.
StartBatch(b) ==
    /\ At(b, "idle")
    /\ owner = Nothing
    /\ owner' = b
    /\ LET listed == {i \in Ids : inbox[i] # Nothing}
       IN  batch' \in {[batch EXCEPT ![b] = S] : S \in {T \in SUBSET listed :
              IF Cardinality(listed) <= BatchLimit
                THEN T = listed ELSE Cardinality(T) = BatchLimit}}
    /\ batch'[b] # {}
    /\ Proceed(b, "next")
    /\ UNCHANGED <<fileVars, row, current, reply, quotaVars, historyVars>>

EndBatch(b) ==
    /\ At(b, "next")
    /\ batch[b] = {}
    /\ owner' = Nothing
    /\ Proceed(b, "idle")
    /\ UNCHANGED <<fileVars, row, batch, current, reply, quotaVars, historyVars>>

\* Rename the file out of the producers' directory.
Take(b) ==
    /\ At(b, "next")
    /\ \E i \in batch[b] :
         LET request == [id |-> i, payload |-> inbox[i]]
         IN  /\ batch' = [batch EXCEPT ![b] = @ \ {i}]
             /\ inbox' = [inbox EXCEPT ![i] = Nothing]
             /\ private' = private \cup {request}
             /\ current' = [current EXCEPT ![b] = request]
    /\ Proceed(b, "parse")
    /\ UNCHANGED <<responses, failed, row, owner, reply, quotaVars, historyVars>>

\* Mutant: a malformed request is dropped without a trace.
ParseDropsMalformed(b) ==
    /\ At(b, "parse")
    /\ Proceed(b, IF current[b].payload \in Malformed THEN "unlink" ELSE "claim")
    /\ UNCHANGED <<fileVars, row, owner, batch, current, reply, quotaVars, historyVars>>

Parse(b) ==
    /\ At(b, "parse")
    /\ Proceed(b, IF current[b].payload \in Malformed THEN "reject" ELSE "claim")
    /\ UNCHANGED <<fileVars, row, owner, batch, current, reply, quotaVars, historyVars>>

Id(b) == current[b].id

\* Mutant: a claim left behind by a dead broker counts as new.
IsNewOrAbandoned(i) == row[i].state \in {"NONE", "CLAIMED"}

IsNew(i) == row[i].state = "NONE"

\* journal.claim, the check for an existing response and, for a new identity,
\* the budget.  A leftover response marks a claimed row uncertain.
ClaimRequest(b) ==
    LET i == Id(b)
        isNew == IsNew(i)
        conflict == ~isNew /\ row[i].digest # current[b].payload
        Continue(step, response) ==
            /\ Proceed(b, step)
            /\ reply' = [reply EXCEPT ![b] = response]
    IN  /\ At(b, "claim")
        /\ row' = IF isNew
                  THEN [row EXCEPT ![i] = Row("CLAIMED", current[b].payload, Nothing)]
                  ELSE row
        /\ \/ /\ conflict \/ responses[i] # Nothing
              /\ Continue("rejectClaimed", Nothing)
              /\ UNCHANGED quotaVars
           \/ /\ ~conflict /\ responses[i] = Nothing
              /\ \/ /\ row[i].state = "COMPLETE"
                    /\ Continue("publish", row[i].response)
                    /\ UNCHANGED quotaVars
                 \/ /\ row[i].state \in {"CLAIMED", "UNCERTAIN"}
                    /\ Continue("publishError", Uncertain)
                    /\ UNCHANGED quotaVars
                 \/ /\ isNew /\ spent[b] >= BudgetLimit
                    /\ Continue("finish", Exhausted)
                    /\ UNCHANGED quotaVars
                 \/ /\ isNew /\ spent[b] < BudgetLimit
                    /\ Continue("infer", Nothing)
                    /\ spent' = [spent EXCEPT ![b] = @ + 1]
                    /\ active' = [active EXCEPT ![b] = @ + 1]
                    /\ reserved' = [reserved EXCEPT ![b] = TRUE]
        /\ UNCHANGED <<fileVars, owner, batch, current, historyVars>>

\* Mutant: the response is published before it is journaled.
InferThenPublish(b) ==
    /\ At(b, "infer")
    /\ inferred' = [inferred EXCEPT ![Id(b)] = @ + 1]
    /\ reply' = [reply EXCEPT ![b] = Answer(current[b].payload)]
    /\ Proceed(b, "publish")
    /\ UNCHANGED <<fileVars, row, owner, batch, current, quotaVars, sends, received>>

\* The call to LiteLLM; a failure of the gateway is an answer too.
Infer(b) ==
    /\ At(b, "infer")
    /\ inferred' = [inferred EXCEPT ![Id(b)] = @ + 1]
    /\ reply' = [reply EXCEPT ![b] = Answer(current[b].payload)]
    /\ Proceed(b, "finish")
    /\ UNCHANGED <<fileVars, row, owner, batch, current, quotaVars, sends, received>>

\* journal.finish: the response is durable before anybody can see it.
FinishRequest(b) ==
    /\ At(b, "finish")
    /\ \/ /\ row[Id(b)].state = "CLAIMED"
          /\ row' = [row EXCEPT ![Id(b)].state = "COMPLETE", ![Id(b)].response = reply[b]]
          /\ Proceed(b, IF reply[b] = Exhausted THEN "publishError" ELSE "publish")
       \/ /\ row[Id(b)].state # "CLAIMED"
          /\ Proceed(b, "rejectClaimed")
          /\ UNCHANGED row
    /\ UNCHANGED <<fileVars, owner, batch, current, reply, quotaVars, historyVars>>

\* os.link never replaces a response; an error response also rejects.
Publish(b) ==
    /\ At(b, "publish") \/ At(b, "publishError")
    /\ \/ /\ responses[Id(b)] = Nothing
          /\ responses' = [responses EXCEPT ![Id(b)] = reply[b]]
          /\ Proceed(b, IF At(b, "publish") THEN "unlink" ELSE "rejectClaimed")
       \/ /\ responses[Id(b)] # Nothing
          /\ Proceed(b, "rejectClaimed")
          /\ UNCHANGED responses
    /\ UNCHANGED <<inbox, private, failed, row, owner, batch, current, reply,
                   quotaVars, historyVars>>

UnlinkRequest(b) ==
    /\ At(b, "unlink")
    /\ private' = private \ {current[b]}
    /\ Drop(b)
    /\ Proceed(b, "next")
    /\ UNCHANGED <<inbox, responses, failed, row, owner, batch, historyVars>>

\* Mutant: the UPDATE of uncertain without "AND state='CLAIMED'".
GiveUpAnyRow(b) ==
    row' = IF At(b, "rejectClaimed")
           THEN [row EXCEPT ![Id(b)].state = "UNCERTAIN"] ELSE row

\* journal.uncertain, for a request whose identity is known.
GiveUpClaim(b) ==
    row' = IF At(b, "rejectClaimed") /\ row[Id(b)].state = "CLAIMED"
           THEN [row EXCEPT ![Id(b)].state = "UNCERTAIN"] ELSE row

\* The request file, if it is still there, goes to the failed directory.
SetAside(b) ==
    /\ private' = private \ {current[b]}
    /\ failed' = failed \cup ({current[b]} \cap private)
    /\ UNCHANGED <<inbox, responses>>

\* The except block.
Reject(b) ==
    /\ At(b, "reject") \/ At(b, "rejectClaimed")
    /\ GiveUpClaim(b)
    /\ SetAside(b)
    /\ Drop(b)
    /\ Proceed(b, "next")
    /\ UNCHANGED <<owner, batch, historyVars>>

BrokerStep(b) ==
    \/ StartBatch(b) \/ EndBatch(b) \/ Take(b) \/ Parse(b) \/ ClaimRequest(b)
    \/ Infer(b) \/ FinishRequest(b) \/ Publish(b) \/ UnlinkRequest(b) \/ Reject(b)

-----------------------------------------------------------------------------
(* Failing operations and crashes.                                         *)

\* The operation at hand raises, before it has had an effect.  Until the
\* request is parsed the handler does not know its identity.
OperationFails(b) ==
    /\ Faults
    /\ \/ At(b, "parse") /\ Proceed(b, "reject")
       \/ /\ place[b] \in {"claim", "infer", "finish", "publish", "publishError", "unlink"}
          /\ Proceed(b, "rejectClaimed")
    /\ UNCHANGED <<fileVars, row, owner, batch, current, reply, quotaVars, historyVars>>

\* The response is linked, or the request file unlinked, and then the directory
\* cannot be synchronized.
SyncFails(b) ==
    /\ Faults
    /\ \/ /\ At(b, "publish") /\ responses[Id(b)] = Nothing
          /\ responses' = [responses EXCEPT ![Id(b)] = reply[b]]
          /\ UNCHANGED private
       \/ /\ At(b, "unlink")
          /\ private' = private \ {current[b]}
          /\ UNCHANGED responses
    /\ Proceed(b, "rejectClaimed")
    /\ UNCHANGED <<inbox, failed, row, owner, batch, current, reply, quotaVars,
                   historyVars>>

\* The except block itself raises: the exception leaves the batch, whose lock
\* is closed on the way, and the request file may stay in the private directory.
HandlerFails(b) ==
    /\ Faults
    /\ At(b, "reject") \/ At(b, "rejectClaimed")
    /\ \/ UNCHANGED <<row, fileVars>>
       \/ GiveUpClaim(b) /\ UNCHANGED fileVars
       \/ GiveUpClaim(b) /\ SetAside(b)
    /\ Drop(b)
    /\ owner' = Nothing
    /\ batch' = [batch EXCEPT ![b] = {}]
    /\ Proceed(b, "idle")
    /\ UNCHANGED historyVars

\* A broker process dies and is started again: the flock is gone, the counters
\* of the budget start afresh, files and journal stay as they are.
BrokerDies(b) ==
    /\ Faults
    /\ place[b] # "idle"
    /\ Proceed(b, "idle")
    /\ owner' = Nothing
    /\ batch' = [batch EXCEPT ![b] = {}]
    /\ current' = [current EXCEPT ![b] = NoRequest]
    /\ reply' = [reply EXCEPT ![b] = Nothing]
    /\ spent' = [spent EXCEPT ![b] = 0]
    /\ active' = [active EXCEPT ![b] = 0]
    /\ reserved' = [reserved EXCEPT ![b] = FALSE]
    /\ UNCHANGED <<fileVars, row, historyVars>>

BrokerNext ==
    \/ \E i \in Ids, payload \in Payloads : Send(i, payload)
    \/ \E i \in Ids : Receive(i)
    \/ \E b \in Brokers : BrokerStep(b)
    \/ \E b \in Brokers : OperationFails(b)
    \/ \E b \in Brokers : SyncFails(b)
    \/ \E b \in Brokers : HandlerFails(b)
    \/ \E b \in Brokers : BrokerDies(b)

BrokerSpec == BrokerInit /\ [][BrokerNext]_brokerVars

-----------------------------------------------------------------------------
(* Properties.                                                             *)

\* "Durable at-most-once admission" (class Journal): the model is called at
\* most once for an identity, whatever is resent, fails or crashes and
\* whichever broker finds the request.
AtMostOnceInference == \A i \in Ids : inferred[i] <= 1

Seen(i) == received[i] \cup ({responses[i]} \ {Nothing})

\* All the responses ever published under an identity are the same one: no
\* client is first told that the outcome is uncertain and then given an
\* answer, or the reverse.
OneVerdict == \A i \in Ids : \A x, y \in Seen(i) : x = y

\* A response other than "uncertain" is in the journal before anybody sees it
\* and stays there, so a lost publication can be repeated without the model.
SeenIsJournaled ==
    \A i \in Ids : \A response \in Seen(i) \ {Uncertain} :
        row[i].state = "COMPLETE" /\ row[i].response = response

\* Every path out of a request, the failing ones included, gives its place in
\* the budget back exactly once.
BudgetBalanced ==
    \A b \in Brokers : active[b] = IF reserved[b] THEN 1 ELSE 0

\* Without faults every well-formed request file is answered and every
\* malformed one put aside, however full the inbox and the budget are.
EveryRequestEnds ==
    \A i \in Ids, payload \in Payloads :
        (inbox[i] = payload) ~>
            IF payload \in Malformed
            THEN [id |-> i, payload |-> payload] \in failed
            ELSE Seen(i) # {}
=============================================================================

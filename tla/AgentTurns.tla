----------------------------- MODULE AgentTurns -----------------------------
(***************************************************************************)
(* A query of the agent runner (processQuery of poll-loop.ts) over the     *)
(* broker provider (providers/broker.ts).                                  *)
(*                                                                         *)
(* The provider asks the broker one prompt at a time, in the order they    *)
(* were pushed, and parks when there is none.  The loop consumes its       *)
(* results; beside it a poll pushes later batches of messages into the     *)
(* open query, and a result nobody could deliver is asked for once more.   *)
(* Where replies go is a property of the turn, so the loop keeps a queue   *)
(* of turns that has to stay in step with the provider's queue of prompts. *)
(***************************************************************************)
EXTENDS Naturals, Sequences

CONSTANTS
    Batches,     \* batches of messages, each with its own route
    NoBatch,
    MaxCommands  \* bound of the model on slash commands that cut a query off

ASSUME TurnsAssumption == NoBatch \notin Batches /\ MaxCommands \in Nat

VARIABLES
    unread,       \* batches in the mailbox that nobody claimed
    stage,        \* where the open query is
    prompts,      \* "pending": prompts pushed and not yet asked, by their batch
    asked,        \* the batch whose prompt is before the broker
    aborted,      \* the query was aborted for a command
    route,        \* the batch whose route replies go to
    nudged,       \* the turn that is answered was asked for again already
    answering,    \* a turn is being answered
    queuedTurns,  \* turns pushed behind it: [batch, nudged]
    result,       \* the result being dispatched
    followUp,     \* the batch a poll claimed, its scripts still running
    commands,     \* slash commands so far (bound of the model)
    taken,        \* batches that became part of a query (history)
    replies,      \* batch asked and batch whose route the reply took (history)
    answers,      \* turns of a batch ended by a result, or torn in it (history)
    notices,      \* failure notices written for a batch (history)
    torn,         \* batches whose dispatch threw with part of it written (history)
    unheard,      \* batches whose failure notice could not be written (history)
    cut           \* batches of a query that a command aborted (history)

talkVars == <<replies, answers, notices, torn, unheard, cut>>

turnVars == <<unread, stage, prompts, asked, aborted, route, nudged, answering, queuedTurns,
              result, followUp, commands, taken, talkVars>>

Turn(b, again) == [batch |-> b, nudged |-> again]

Stages  == {"off", "ask", "poll", "result", "idle", "parked", "closed", "thrown"}
Results == {"none", "delivered", "unwrapped", "error"}

TurnsTypeOK ==
    /\ unread \subseteq Batches
    /\ stage \in Stages
    /\ prompts \in Seq(Batches)
    /\ asked \in Batches \cup {NoBatch}
    /\ aborted \in BOOLEAN
    /\ route \in Batches \cup {NoBatch}
    /\ nudged \in BOOLEAN
    /\ answering \in BOOLEAN
    /\ queuedTurns \in Seq([batch : Batches, nudged : BOOLEAN])
    /\ result \in Results
    /\ followUp \in Batches \cup {NoBatch}
    /\ commands \in Nat
    /\ taken \subseteq Batches
    /\ replies \subseteq Batches \X Batches
    /\ answers \in [Batches -> Nat] /\ notices \in [Batches -> Nat]
    /\ torn \subseteq Batches /\ unheard \subseteq Batches /\ cut \subseteq Batches

TurnsInit ==
    /\ unread = Batches
    /\ stage = "off"
    /\ prompts = <<>>
    /\ asked = NoBatch
    /\ aborted = FALSE
    /\ route = NoBatch
    /\ nudged = FALSE
    /\ answering = FALSE
    /\ queuedTurns = <<>>
    /\ result = "none"
    /\ followUp = NoBatch
    /\ commands = 0
    /\ taken = {}
    /\ replies = {}
    /\ answers = [b \in Batches |-> 0] /\ notices = [b \in Batches |-> 0]
    /\ torn = {} /\ unheard = {} /\ cut = {}

-----------------------------------------------------------------------------
(* The provider's generator.                                               *)

\* The outer loop opens a query with the batch it claimed as its first prompt.
StartQuery(b) ==
    /\ stage = "off" /\ b \in unread
    /\ unread' = unread \ {b}
    /\ taken' = taken \cup {b}
    /\ stage' = "ask" /\ asked' = b /\ prompts' = <<>>
    /\ route' = b /\ nudged' = FALSE /\ answering' = TRUE /\ queuedTurns' = <<>>
    /\ aborted' = FALSE
    /\ UNCHANGED <<result, followUp, commands, talkVars>>

\* processPrompt writes the request file, or throws: too long, or no room.
AskBroker ==
    /\ stage = "ask"
    /\ stage' \in {"poll", "thrown"}
    /\ UNCHANGED <<unread, prompts, asked, aborted, route, nudged, answering, queuedTurns, result,
                   followUp, commands, taken, talkVars>>

\* A response: an answer that names a destination or one that does not, the
\* broker's error, or none within the timeout; a malformed one throws.  An
\* aborted query does not look any more.
PollResponse ==
    /\ stage = "poll"
    /\ \/ aborted /\ stage' = "closed" /\ UNCHANGED result
       \/ /\ ~aborted
          /\ \/ stage' = "result" /\ result' \in {"delivered", "unwrapped", "error"}
             \/ stage' = "thrown" /\ UNCHANGED result
    /\ UNCHANGED <<unread, prompts, asked, aborted, route, nudged, answering, queuedTurns,
                   followUp, commands, taken, talkVars>>

\* Between two prompts: go on with the oldest one pushed, or park.
NextPrompt ==
    /\ stage = "idle"
    /\ \/ aborted /\ stage' = "closed" /\ UNCHANGED <<prompts, asked>>
       \/ /\ ~aborted /\ prompts # <<>>
          /\ stage' = "ask" /\ asked' = Head(prompts) /\ prompts' = Tail(prompts)
       \/ ~aborted /\ prompts = <<>> /\ stage' = "parked" /\ UNCHANGED <<prompts, asked>>
    /\ UNCHANGED <<unread, aborted, route, nudged, answering, queuedTurns, result, followUp,
                   commands, taken, talkVars>>

\* "waiting?.()": whoever pushes or aborts resumes a parked generator.
Resume == stage' = IF stage = "parked" THEN "idle" ELSE stage

-----------------------------------------------------------------------------
(* The loop over the results.                                              *)

\* Mutant: the turn asked for again has lost its guard.
RetryUnguarded == Turn(route, FALSE)

\* pushRetry: another prompt, behind the follow-ups already pushed, with the
\* route of the turn and the guard that has just been set.
Retry == Turn(route, TRUE)

\* The result has been dispatched along the route: reply, ask again once if
\* nothing of it could be delivered, then turn to the next turn pushed.
EndTurn ==
    LET again == result = "unwrapped" /\ ~nudged
        turns == IF again THEN Append(queuedTurns, Retry) ELSE queuedTurns
    IN  /\ stage = "result" /\ stage' = "idle" /\ result' = "none"
        /\ replies' = replies \cup {<<asked, route>>}
        /\ answers' = IF again THEN answers ELSE [answers EXCEPT ![asked] = @ + 1]
        /\ prompts' = IF again /\ ~aborted THEN Append(prompts, asked) ELSE prompts
        /\ \/ /\ turns # <<>>
              /\ route' = Head(turns).batch /\ nudged' = Head(turns).nudged
              /\ queuedTurns' = Tail(turns)
              /\ UNCHANGED answering
           \/ /\ turns = <<>>
              /\ answering' = FALSE
              /\ UNCHANGED <<route, nudged, queuedTurns>>
        /\ asked' = NoBatch
        /\ UNCHANGED <<unread, aborted, followUp, commands, taken, notices, torn, unheard, cut>>

\* A write to the mailbox throws before the turn has ended: of an answer or an error
\* nothing, some or all may have been written by then, of a result without a
\* destination there is nothing to write.
DispatchThrows ==
    /\ stage = "result" /\ stage' = "thrown" /\ result' = "none"
    /\ \/ UNCHANGED <<replies, answers, torn>>
       \/ /\ result # "unwrapped"
          /\ replies' = replies \cup {<<asked, route>>}
          /\ answers' = [answers EXCEPT ![asked] = @ + 1]
          /\ torn' = torn \cup {asked}
    /\ UNCHANGED <<unread, prompts, asked, aborted, route, nudged, answering, queuedTurns, followUp,
                   commands, taken, notices, unheard, cut>>

\* Turns of the query that have not ended.
Unfinished ==
    (IF answering THEN {route} ELSE {}) \cup {queuedTurns[i].batch : i \in DOMAIN queuedTurns}

\* Mutant: the failure notice goes to every turn the query ever had.
FailedBatches == taken

\* The routes the catch block tells that the run failed.
FailedRoutes == Unfinished

\* The stream is over: an error is told to every turn it leaves unfinished, unless
\* its notice cannot be written either; a query aborted for a command just ends.
\* A follow-up whose scripts still run finds "done" and is not pushed; its claim is
\* the host's business.
EndQuery ==
    /\ stage \in {"closed", "thrown"}
    /\ stage' = "off"
    /\ \/ /\ stage = "thrown" /\ ~aborted
          /\ \E unwritten \in SUBSET FailedRoutes :
               /\ notices' = [b \in Batches |->
                    IF b \in FailedRoutes \ unwritten THEN notices[b] + 1 ELSE notices[b]]
               /\ unheard' = unheard \cup unwritten
          /\ UNCHANGED cut
       \/ /\ aborted
          /\ cut' = cut \cup Unfinished
          /\ UNCHANGED <<notices, unheard>>
    /\ followUp' = NoBatch
    /\ prompts' = <<>> /\ asked' = NoBatch /\ queuedTurns' = <<>>
    /\ answering' = FALSE /\ aborted' = FALSE /\ route' = NoBatch /\ nudged' = FALSE
    /\ UNCHANGED <<unread, result, commands, taken, replies, answers, torn>>

-----------------------------------------------------------------------------
(* The poll beside it.                                                     *)

\* Claim a later batch and run its scripts; the next poll waits for this one.
ClaimFollowUp(b) ==
    /\ stage # "off" /\ ~aborted /\ followUp = NoBatch /\ b \in unread
    /\ unread' = unread \ {b}
    /\ followUp' = b
    /\ UNCHANGED <<stage, prompts, asked, aborted, route, nudged, answering, queuedTurns, result,
                   commands, taken, talkVars>>

\* Mutant: what is pushed always becomes the turn in hand.
AdoptFollowUp ==
    /\ route' = followUp /\ nudged' = FALSE /\ answering' = TRUE
    /\ UNCHANGED queuedTurns

\* A turn pushed while one is answered waits; otherwise it is the next.
QueueFollowUp ==
    \/ /\ answering
       /\ queuedTurns' = Append(queuedTurns, Turn(followUp, FALSE))
       /\ UNCHANGED <<route, nudged, answering>>
    \/ /\ ~answering
       /\ route' = followUp /\ nudged' = FALSE /\ answering' = TRUE
       /\ UNCHANGED queuedTurns

\* query.push; the batch is acknowledged at once.
PushFollowUp ==
    /\ followUp # NoBatch
    /\ prompts' = Append(prompts, followUp) /\ Resume
    /\ QueueFollowUp
    /\ taken' = taken \cup {followUp} /\ followUp' = NoBatch
    /\ UNCHANGED <<unread, asked, aborted, result, commands, talkVars>>

\* A poll finds a slash command: the query is aborted, and polls no more.
AbortForCommand ==
    /\ stage # "off" /\ ~aborted /\ followUp = NoBatch /\ commands < MaxCommands
    /\ commands' = commands + 1
    /\ aborted' = TRUE /\ Resume
    /\ UNCHANGED <<unread, prompts, asked, route, nudged, answering, queuedTurns, result, followUp,
                   taken, talkVars>>

-----------------------------------------------------------------------------
QueryStep ==
    AskBroker \/ PollResponse \/ NextPrompt \/ EndTurn \/ DispatchThrows \/ EndQuery

TurnsNext ==
    \/ \E b \in Batches : StartQuery(b)
    \/ QueryStep
    \/ \E b \in Batches : ClaimFollowUp(b)
    \/ PushFollowUp
    \/ AbortForCommand

-----------------------------------------------------------------------------
(* Properties.                                                             *)

\* "Where replies go is a property of the TURN" (poll-loop.ts:415): whatever is
\* pushed while an answer is awaited or dispatched, and however often one is
\* asked for again, a reply takes the route of the batch it answers.
RepliesGoHome == \A reply \in replies : reply[1] = reply[2]

\* "Completed turns are no longer answering or queued" (poll-loop.ts:710): a batch gets
\* at most one answer and at most one notice that the run failed, and both of them
\* only when a write threw while its own answer was being dispatched.
OneConclusion ==
    \A b \in Batches :
      /\ answers[b] <= 1 /\ notices[b] <= 1
      /\ answers[b] = 1 /\ notices[b] = 1 => b \in torn

\* Every batch that became part of a query comes to its end: the generator is
\* never parked on a prompt, no turn is asked for again for ever, and a query
\* that fails tells all the turns it leaves, or tries to.  A command may cut it off.
EveryTurnEnds ==
    \A b \in Batches :
      (b \in taken) ~> (answers[b] > 0 \/ notices[b] > 0 \/ b \in unheard \cup cut)
=============================================================================

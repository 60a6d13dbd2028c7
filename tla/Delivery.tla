------------------------------- MODULE Delivery -------------------------------
(***************************************************************************)
(* Delivery of one session's outbound messages to the chat platform        *)
(* (nanoclaw/src/delivery.ts, the delivered table of                       *)
(* mailbox/sqlite/session-db.ts and delivery_attempts of                   *)
(* db/coordination.ts).  Two poll loops of one host drain the session: the *)
(* active one while its container runs, the sweep while it is active.      *)
(* Each await ends a step.  Messages are numbered in the order their rows  *)
(* are read.  A host that crashes starts again with nothing in memory.     *)
(***************************************************************************)
EXTENDS Naturals, FiniteSetsExt

CONSTANTS
    MaxMessages,  \* bound: messages the agent writes
    MaxAttempts,  \* MAX_DELIVERY_ATTEMPTS
    MaxTroubles   \* bound: crashes and failed calls of a store

ASSUME DeliveryAssumption ==
    MaxMessages \in Nat /\ MaxAttempts \in Nat \ {0} /\ MaxTroubles \in Nat

VARIABLES
    posted,    \* messages the agent has written so far
    settled,   \* delivered table: status of each message
    attempts,  \* delivery_attempts table, 0 for no row
    inflight,  \* inflightDeliveries holds the session
    poll,      \* each poll loop: where it is, and the rows it has still to do
    box,       \* the session: its container runs, it is active
    troubles,  \* troubles so far
    handed,    \* times the platform was given each message (history)
    unmarked,  \* of those, times the delivered row was not written (history)
    tries,     \* failed attempts at each message (history)
    unkept     \* failures without a count, and giving up without a row (history)

historyVars  == <<handed, unmarked, tries, unkept>>
deliveryVars == <<posted, settled, attempts, inflight, poll, box, troubles, historyVars>>

Messages == 1..MaxMessages
Polls    == {"active", "sweep"}
OffPoll  == [pc |-> "idle", rest |-> {}]

DeliveryTypeOK ==
    /\ posted \in 0..MaxMessages
    /\ settled \in [Messages -> {"no", "delivered", "failed"}]
    /\ attempts \in [Messages -> Nat]
    /\ inflight \in BOOLEAN
    /\ poll \in [Polls -> [pc : {"idle", "enter", "read", "send", "mark", "record",
                                 "giveup", "clear"},
                           rest : SUBSET Messages]]
    /\ box \in [running : BOOLEAN, open : BOOLEAN]
    /\ troubles \in 0..MaxTroubles
    /\ handed \in [Messages -> Nat] /\ unmarked \in [Messages -> Nat]
    /\ tries \in [Messages -> Nat] /\ unkept \in [Messages -> Nat]

DeliveryInit ==
    /\ posted = 0
    /\ settled = [m \in Messages |-> "no"] /\ attempts = [m \in Messages |-> 0]
    /\ inflight = FALSE /\ poll = [p \in Polls |-> OffPoll]
    /\ box = [running |-> TRUE, open |-> TRUE]
    /\ troubles = 0
    /\ handed = [m \in Messages |-> 0] /\ unmarked = [m \in Messages |-> 0]
    /\ tries = [m \in Messages |-> 0] /\ unkept = [m \in Messages |-> 0]

-----------------------------------------------------------------------------

\* The row a drain is at, the step it takes there, and where it goes next.
Row(p) == Min(poll[p].rest)

PollAt(p, pc) == poll[p].pc = pc
GoOn(p, pc)  == poll' = [poll EXCEPT ![p].pc = pc] /\ UNCHANGED inflight
Once(c, m)   == [c EXCEPT ![m] = @ + 1]

\* Mutant: the guard is not dropped at the end.
NextRowHeld(p) ==
    LET rest == poll[p].rest \ {Row(p)}
    IN  /\ poll' = [poll EXCEPT ![p] = IF rest = {} THEN OffPoll
                                       ELSE [pc |-> "send", rest |-> rest]]
        /\ UNCHANGED inflight

\* The next row, or the end of the drain and of the guard it holds.
NextRow(p) ==
    LET rest == poll[p].rest \ {Row(p)}
    IN  IF rest = {}
          THEN poll' = [poll EXCEPT ![p] = OffPoll] /\ inflight' = FALSE
          ELSE poll' = [poll EXCEPT ![p] = [pc |-> "send", rest |-> rest]]
               /\ UNCHANGED inflight

Trouble == troubles < MaxTroubles /\ troubles' = troubles + 1

\* A poll lists the sessions that are its own.
ListSession(p) ==
    /\ poll[p] = OffPoll
    /\ IF p = "active" THEN box.running ELSE box.open
    /\ GoOn(p, "enter")
    /\ UNCHANGED <<posted, settled, attempts, box, troubles, historyVars>>

\* Mutant: no guard against the other poll.
EnterDrainUnguarded(p) ==
    /\ PollAt(p, "enter")
    /\ GoOn(p, "read")
    /\ UNCHANGED <<posted, settled, attempts, box, troubles, historyVars>>

\* deliverSessionMessages: skipped while the other poll drains the session.
EnterDrain(p) ==
    /\ PollAt(p, "enter")
    /\ poll' = [poll EXCEPT ![p].pc = IF inflight THEN "idle" ELSE "read"]
    /\ inflight' = TRUE
    /\ UNCHANGED <<posted, settled, attempts, box, troubles, historyVars>>

Undelivered == {m \in 1..posted : settled[m] = "no"}

\* The due rows are read, in one mailbox session, or cannot be read.
ReadDue(p) ==
    /\ PollAt(p, "read")
    /\ \/ /\ Undelivered # {}
          /\ poll' = [poll EXCEPT ![p] = [pc |-> "send", rest |-> Undelivered]]
          /\ UNCHANGED <<inflight, troubles>>
       \/ /\ poll' = [poll EXCEPT ![p] = OffPoll] /\ inflight' = FALSE
          /\ IF Undelivered = {} THEN UNCHANGED troubles ELSE Trouble
    /\ UNCHANGED <<posted, settled, attempts, box, historyVars>>

\* deliverMessage: the platform takes it, refuses it, or takes it and the call
\* fails all the same.
Send(p) ==
    /\ PollAt(p, "send")
    /\ \/ /\ GoOn(p, "mark")
          /\ handed' = Once(handed, Row(p))
          /\ UNCHANGED <<unmarked, tries>>
       \/ /\ GoOn(p, "record")
          /\ tries' = Once(tries, Row(p))
          /\ \/ UNCHANGED <<handed, unmarked>>
             \/ handed' = Once(handed, Row(p)) /\ unmarked' = Once(unmarked, Row(p))
    /\ UNCHANGED <<posted, settled, attempts, box, troubles, unkept>>

RowWritten(m, as) == IF settled[m] = "no" THEN [settled EXCEPT ![m] = as] ELSE settled

\* markDelivered writes the row unless there is one, or throws; a throw counts
\* as a failed attempt.
MarkDelivered(p) ==
    /\ PollAt(p, "mark")
    /\ \/ /\ settled' = RowWritten(Row(p), "delivered")
          /\ GoOn(p, "clear")
          /\ UNCHANGED <<troubles, unmarked, tries>>
       \/ /\ Trouble /\ GoOn(p, "record")
          /\ unmarked' = Once(unmarked, Row(p)) /\ tries' = Once(tries, Row(p))
          /\ UNCHANGED settled
    /\ UNCHANGED <<posted, attempts, box, handed, unkept>>

\* recordAttemptRow: the count decides; without one the row is tried again.
RecordAttempt(p) ==
    /\ PollAt(p, "record")
    /\ \/ /\ attempts' = Once(attempts, Row(p))
          /\ IF attempts'[Row(p)] >= MaxAttempts THEN GoOn(p, "giveup") ELSE NextRow(p)
          /\ UNCHANGED <<troubles, unkept>>
       \/ /\ Trouble /\ NextRow(p)
          /\ unkept' = Once(unkept, Row(p))
          /\ UNCHANGED attempts
    /\ UNCHANGED <<posted, settled, box, handed, unmarked, tries>>

\* markDeliveryFailed, whose failure is logged.
GiveUp(p) ==
    /\ PollAt(p, "giveup")
    /\ \/ /\ settled' = RowWritten(Row(p), "failed")
          /\ GoOn(p, "clear")
          /\ UNCHANGED <<troubles, unkept>>
       \/ /\ Trouble /\ NextRow(p)
          /\ unkept' = Once(unkept, Row(p))
          /\ UNCHANGED settled
    /\ UNCHANGED <<posted, attempts, box, handed, unmarked, tries>>

\* clearAttemptRow, whose failure is logged.
ClearAttempt(p) ==
    /\ PollAt(p, "clear")
    /\ \/ attempts' = [attempts EXCEPT ![Row(p)] = 0] /\ UNCHANGED troubles
       \/ Trouble /\ UNCHANGED attempts
    /\ NextRow(p)
    /\ UNCHANGED <<posted, settled, box, historyVars>>

\* Mutant: the attempts are counted in memory.
RestartUncounted ==
    /\ Trouble
    /\ poll' = [p \in Polls |-> OffPoll] /\ inflight' = FALSE
    /\ attempts' = [m \in Messages |-> 0]
    /\ UNCHANGED <<posted, settled, box, historyVars>>

\* The host dies and starts again: what was under way leaves no trace but
\* what the platform, or the store, has.
Restart ==
    /\ Trouble
    /\ poll' = [p \in Polls |-> OffPoll] /\ inflight' = FALSE
    /\ LET At(pc) == {Row(p) : p \in {q \in Polls : PollAt(q, pc)}}
       IN  \E sent \in SUBSET At("send") :
             /\ handed' = [m \in Messages |-> handed[m] + (IF m \in sent THEN 1 ELSE 0)]
             /\ unmarked' = [m \in Messages |->
                  unmarked[m] + (IF m \in sent \cup At("mark") THEN 1 ELSE 0)]
             /\ unkept' = [m \in Messages |->
                  unkept[m] + (IF m \in At("record") \cup At("giveup") THEN 1 ELSE 0)]
    /\ UNCHANGED <<posted, settled, attempts, box, tries>>

\* External: the agent writes a message.
Post ==
    /\ box.running /\ posted < MaxMessages
    /\ posted' = posted + 1
    /\ UNCHANGED <<settled, attempts, inflight, poll, box, troubles, historyVars>>

\* External to delivery: the container starts and stops, the session is closed.
BoxChanges ==
    /\ \/ box.open /\ box' = [box EXCEPT !.running = ~@]
       \/ box.open /\ ~box.running /\ box' = [box EXCEPT !.open = FALSE]
    /\ UNCHANGED <<posted, settled, attempts, inflight, poll, troubles, historyVars>>

DrainStep(p) ==
    \/ ListSession(p) \/ EnterDrain(p) \/ ReadDue(p) \/ Send(p)
    \/ MarkDelivered(p) \/ RecordAttempt(p) \/ GiveUp(p) \/ ClearAttempt(p)

DeliveryNext == (\E p \in Polls : DrainStep(p)) \/ Restart \/ Post \/ BoxChanges

DeliverySpec == DeliveryInit /\ [][DeliveryNext]_deliveryVars

-----------------------------------------------------------------------------
(* Properties.                                                             *)

\* The platform gets a message again only when a hand-over before left no
\* delivered row: never because both polls had it in hand.
DuplicateHasCause == \A m \in Messages : handed[m] <= unmarked[m] + 1

\* A poison message is tried MAX_DELIVERY_ATTEMPTS times in all, over restarts
\* and both polls, but for the failures and the verdicts the store lost.
AttemptsBounded == \A m \in Messages : tries[m] <= MaxAttempts + unkept[m]

\* Every message written is delivered or given up, unless its session closes
\* with the message still waiting.
EveryMessageSettles ==
    \A m \in Messages : posted >= m ~> settled[m] # "no" \/ ~box.open

=============================================================================

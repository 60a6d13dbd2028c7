--------------------------- MODULE GatewayApprovals ---------------------------
(***************************************************************************)
(* A person's approval of one request held at a durable gateway            *)
(* (nanoclaw/src/gateway-approval-coordinator.ts, the pending_approvals    *)
(* table of db/sessions.ts).  The gateway presents the request, perhaps    *)
(* again and again, over the subscription (the bridge); the host writes a  *)
(* row, sends a card and keeps an entry in memory, the hold, whose promise *)
(* is the answer to the gateway.  A click, the hold's timer, the sweep,    *)
(* the gateway's own end of the request and a restart race for the row.    *)
(*                                                                         *)
(* All maps and rows of that code are keyed by request, so one request is  *)
(* modelled, with unchanged contents.  A step ends at an await whose       *)
(* outcome matters; edits of the card change no state.                     *)
(***************************************************************************)
EXTENDS Naturals, FiniteSets

CONSTANTS
    MaxCards,   \* bound: rows written for the request
    MaxClicks,  \* bound: clicks on its cards
    MaxUpsets   \* bound: bridge failures, restarts, failed or refused calls

ASSUME ApprovalsAssumption ==
    MaxCards \in Nat /\ MaxClicks \in Nat /\ MaxUpsets \in Nat

VARIABLES
    card,      \* pending_approvals row: number, status, message bound, deadline past
    hold,      \* entry of the pending map: the card's number (0: none), timer armed
    ask,       \* the processGatewayRequest under way, and whether it is current()
    work,      \* handlers under way (see Tasks)
    bridge,    \* the subscription: starting, up or down
    held,      \* external: what the gateway has made of the request
    clicks,    \* clicks so far
    upsets,    \* upsets so far
    submitted, \* decisions given to the gateway's decide, per card (history)
    answered   \* verdicts the promise was resolved with, per card (history)

saidVars      == <<submitted, answered>>
approvalsVars == <<card, hold, ask, work, bridge, held, clicks, upsets, saidVars>>

Cards     == 1..MaxCards
Verdicts  == {"approve", "deny"}
Decisions == Verdicts \cup {"unavailable"}

NoHold == [id |-> 0, timer |-> FALSE]
NoAsk  == [at |-> "no", current |-> TRUE]

\* A handler works on one card.  by says who runs it: the request's process, the
\* startup, the sweep, or an event; seen, whether the hold it found at its
\* beginning is still the one in the map.
Tasks == [for : {"click", "expire", "deliver", "resolve"}, by : {"ask", "boot", "sweep", "event"},
          id : Cards, say : Decisions, at : {"claim", "submit", "drop"}, seen : BOOLEAN]

ApprovalsTypeOK ==
    /\ card \in [id : 0..MaxCards, bound : BOOLEAN, late : BOOLEAN,
                 st : {"none", "pending", "approved", "rejected", "expired"}]
    /\ hold \in [id : 0..MaxCards, timer : BOOLEAN]
    /\ ask \in [at : {"no", "look", "create", "send", "bind", "arm", "rearm"},
                current : BOOLEAN]
    /\ work \subseteq Tasks
    /\ bridge \in {"starting", "up", "down"}
    /\ held \in {"held", "ended"} \cup Decisions
    /\ clicks \in 0..MaxClicks /\ upsets \in 0..MaxUpsets
    /\ submitted \in [Cards -> SUBSET Decisions]
    /\ answered \in [Cards -> SUBSET Verdicts]

NoCard == [id |-> 0, bound |-> FALSE, late |-> FALSE, st |-> "none"]

ApprovalsInit ==
    /\ card = NoCard /\ hold = NoHold /\ ask = NoAsk /\ work = {}
    /\ bridge = "starting" /\ held = "held"
    /\ clicks = 0 /\ upsets = 0
    /\ submitted = [i \in Cards |-> {}] /\ answered = [i \in Cards |-> {}]

Upset   == upsets < MaxUpsets /\ upsets' = upsets + 1
HasRow(i)  == card.id = i /\ card.st # "none"
Decided == card.st \in {"approved", "rejected", "expired"}

\* What a row's status says to the gateway.
Decision(st) == IF st = "approved" THEN "approve"
                ELSE IF st = "rejected" THEN "deny" ELSE "unavailable"

Task(what, by, say, at) ==
    [for |-> what, by |-> by, id |-> card.id, say |-> say, at |-> at,
     seen |-> hold.id = card.id]

Expiry(by) == Task("expire", by, "unavailable", "claim")
Ending(by) == Task("resolve", by, "unavailable", "claim")

\* deliverDurableDecision of a decided row; it does not look for a hold.
Redelivery(by) ==
    [Task("deliver", by, Decision(card.st), "submit") EXCEPT !.seen = FALSE]

-----------------------------------------------------------------------------
(* The hold.                                                               *)

\* The promise the gateway waits on is resolved.
Answer(i, say) == answered' = [answered EXCEPT ![i] = @ \cup ({say} \cap Verdicts)]

\* settle: the hold goes and its promise is resolved; the handlers left that had
\* found it find it gone.
Settle(say, left) ==
    /\ hold' = NoHold
    /\ work' = {[t EXCEPT !.seen = FALSE] : t \in left}
    /\ Answer(hold.id, say)

\* A handler ends: it settles the hold it has found, if that is still there.
Ends(t, found, say) ==
    IF found THEN Settle(say, work \ {t})
    ELSE /\ work' = work \ {t}
         /\ UNCHANGED hold
         /\ IF t.for = "deliver" /\ t.by = "ask" THEN Answer(t.id, say)
            ELSE UNCHANGED answered

EndsUnsettled(t) == work' = work \ {t} /\ UNCHANGED <<hold, answered>>
Becomes(t, u)    == work' = (work \ {t}) \cup {u} /\ UNCHANGED answered
Starts(t)        == work' = work \cup {t}

-----------------------------------------------------------------------------
(* The request (processGatewayRequest).                                    *)

\* The gateway presents a request it holds; one under way is joined instead.
Present ==
    /\ bridge = "up" /\ held = "held"
    /\ ask = NoAsk /\ hold = NoHold /\ ~\E t \in work : t.by = "ask"
    /\ ask' = [at |-> "look", current |-> TRUE]
    /\ UNCHANGED <<card, hold, work, bridge, held, clicks, upsets, saidVars>>

\* The rows of the request are read: a decided one is delivered again and is
\* the answer, one without a card or past its deadline expires, any other
\* gets its hold back.
LookUp ==
    /\ ask.at = "look"
    /\ \/ card.st = "none" /\ ask' = [ask EXCEPT !.at = "create"] /\ UNCHANGED work
       \/ Decided /\ ask' = NoAsk /\ Starts(Redelivery("ask"))
       \/ /\ card.st = "pending" /\ (~card.bound \/ card.late)
          /\ ask' = NoAsk /\ Starts(Expiry("ask"))
       \/ /\ card.st = "pending" /\ card.bound /\ ~card.late
          /\ ask' = [ask EXCEPT !.at = "rearm"] /\ UNCHANGED work
    /\ UNCHANGED <<card, hold, bridge, held, clicks, upsets, saidVars>>

\* The row is written before the card is sent, unless the bridge failed since.
CreateRow ==
    /\ ask.at = "create"
    /\ IF ask.current
         THEN /\ card.id < MaxCards
              /\ card' = [id |-> card.id + 1, bound |-> FALSE, late |-> FALSE, st |-> "pending"]
              /\ ask' = [ask EXCEPT !.at = "send"]
         ELSE ask' = NoAsk /\ UNCHANGED card
    /\ UNCHANGED <<hold, work, bridge, held, clicks, upsets, saidVars>>

\* The platform takes the card, names no message for it, or fails.
SendCard ==
    /\ ask.at = "send"
    /\ \/ ask' = [ask EXCEPT !.at = "bind"] /\ UNCHANGED <<work, upsets>>
       \/ Upset /\ ask' = NoAsk /\ (Starts(Expiry("ask")) \/ UNCHANGED work)
    /\ UNCHANGED <<card, hold, bridge, held, clicks, saidVars>>

\* bindPendingApprovalMessage; a row that is gone stays gone.
BindMessage ==
    /\ ask.at = "bind"
    /\ card' = [card EXCEPT !.bound = TRUE]
    /\ ask' = [ask EXCEPT !.at = "arm"]
    /\ UNCHANGED <<hold, work, bridge, held, clicks, upsets, saidVars>>

\* armPending, after a last look at the bridge unless the hold comes back; no
\* look at the row.  Handlers of the card begun before do not see this hold.
ArmPending ==
    /\ ask.at \in {"arm", "rearm"}
    /\ ask' = NoAsk
    /\ IF ask.at = "arm" /\ ~ask.current
         THEN Starts(Expiry("ask")) /\ UNCHANGED hold
         ELSE hold' = [id |-> card.id, timer |-> TRUE] /\ UNCHANGED work
    /\ UNCHANGED <<card, bridge, held, clicks, upsets, saidVars>>

-----------------------------------------------------------------------------
(* The handlers.                                                           *)

\* A click on the card is authorized against the row it finds.
Click(say) ==
    /\ clicks < MaxClicks /\ clicks' = clicks + 1
    /\ card.st # "none"
    /\ Starts(Task("click", "event", say, "claim"))
    /\ UNCHANGED <<card, hold, ask, bridge, held, upsets, saidVars>>

HoldTimerFires ==
    /\ hold.timer /\ card.late
    /\ hold' = [hold EXCEPT !.timer = FALSE]
    /\ Starts(Expiry("event"))
    /\ UNCHANGED <<card, ask, bridge, held, clicks, upsets, saidVars>>

\* Mutant: a decision whose delivery failed is left to the next start.
SweepUndecided ==
    /\ bridge # "starting" /\ ~\E t \in work : t.by = "sweep"
    /\ card.st = "pending" /\ card.late /\ Starts(Expiry("sweep"))
    /\ UNCHANGED <<card, hold, ask, bridge, held, clicks, upsets, saidVars>>

\* sweepOverdueGatewayApprovals, once the startup is over; one at a time.
Sweep ==
    /\ bridge # "starting" /\ ~\E t \in work : t.by = "sweep"
    /\ \/ Decided /\ Starts(Redelivery("sweep"))
       \/ card.st = "pending" /\ card.late /\ Starts(Expiry("sweep"))
    /\ UNCHANGED <<card, hold, ask, bridge, held, clicks, upsets, saidVars>>

\* The bridge reports that the gateway is done with the request.
TerminalEvent ==
    /\ bridge = "up" /\ held # "held" /\ card.st # "none"
    /\ ~\E t \in work : t.for = "resolve"
    /\ Starts(Ending("event"))
    /\ UNCHANGED <<card, hold, ask, bridge, held, clicks, upsets, saidVars>>

\* Mutant: the row is written whatever its status.
UndecidedOrNot(i) == HasRow(i)

\* transitionPendingApprovalStatus, a compare-and-set from pending.
Undecided(i) == HasRow(i) /\ card.st = "pending"
Decide(st)   == card' = [card EXCEPT !.st = st]

\* A click past the deadline expires the card, else it claims the row and stops
\* the timer of the hold it found, or comes too late.
ClickClaims(t) ==
    /\ t.for = "click" /\ t.at = "claim"
    /\ \/ /\ card.late /\ card.id = t.id
          /\ Becomes(t, Expiry("event"))
          /\ UNCHANGED <<card, hold>>
       \/ /\ Undecided(t.id) /\ ~card.late
          /\ Decide(IF t.say = "approve" THEN "approved" ELSE "rejected")
          /\ hold' = IF t.seen THEN [hold EXCEPT !.timer = FALSE] ELSE hold
          /\ Becomes(t, [t EXCEPT !.at = "submit"])
       \/ ~Undecided(t.id) /\ EndsUnsettled(t) /\ UNCHANGED card
    /\ UNCHANGED <<ask, bridge, held, clicks, upsets, submitted>>

\* expireApproval: nothing, not even for the hold, unless the row was undecided.
ExpiryClaims(t) ==
    /\ t.for = "expire" /\ t.at = "claim"
    /\ IF Undecided(t.id)
         THEN Decide("expired") /\ Becomes(t, [t EXCEPT !.at = "submit"]) /\ UNCHANGED hold
         ELSE EndsUnsettled(t) /\ UNCHANGED card
    /\ UNCHANGED <<ask, bridge, held, clicks, upsets, submitted>>

\* resolveGatewayRequest: an undecided row expires; what the row says then is
\* the answer.
ResolveClaims(t) ==
    /\ t.for = "resolve" /\ t.at = "claim"
    /\ IF HasRow(t.id)
         THEN /\ IF Undecided(t.id) THEN Decide("expired") ELSE UNCHANGED card
              /\ Becomes(t, [t EXCEPT !.at = "drop", !.say = Decision(card'.st)])
              /\ UNCHANGED hold
         ELSE EndsUnsettled(t) /\ UNCHANGED card
    /\ UNCHANGED <<ask, bridge, held, clicks, upsets, submitted>>

\* The store throws: a click or an expiry fails closed, the row as it was.
ClaimFails(t) ==
    /\ t.at = "claim" /\ Upset
    /\ IF t.for = "resolve" THEN EndsUnsettled(t) ELSE Ends(t, t.seen, "unavailable")
    /\ UNCHANGED <<card, ask, bridge, held, clicks, submitted>>

\* deliverDurableDecision: the gateway accepts, and the row may go; or it refuses,
\* or the call fails, heard or not, and the row is kept for the sweep.
Submit(t) ==
    /\ t.at = "submit"
    /\ submitted' = [submitted EXCEPT ![t.id] = @ \cup {t.say}]
    /\ \/ /\ held' = IF held = "held" THEN t.say ELSE held
          /\ Becomes(t, [t EXCEPT !.at = "drop"])
          /\ UNCHANGED <<hold, upsets>>
       \/ /\ Upset /\ Ends(t, t.seen, t.say)
          /\ held' \in {held, IF held = "held" THEN t.say ELSE held}
    /\ UNCHANGED <<card, ask, bridge, clicks>>

\* deletePendingApproval by the card's number, then the hold is settled: the one
\* found at the beginning, or for the gateway's own end the one there is now.
DropRow(t) ==
    /\ t.at = "drop"
    /\ card' = IF HasRow(t.id) THEN [card EXCEPT !.st = "none"] ELSE card
    /\ Ends(t, IF t.for = "resolve" THEN hold.id = t.id ELSE t.seen, t.say)
    /\ UNCHANGED <<ask, bridge, held, clicks, upsets, submitted>>

-----------------------------------------------------------------------------
(* The bridge, restarts, time and the gateway.                             *)

\* failSubscription: what is under way is outdated, the hold denied.
FailBridge ==
    /\ bridge = "up" /\ Upset
    /\ bridge' = "down"
    /\ ask' = [ask EXCEPT !.current = ask.at = "no"]
    /\ IF hold = NoHold THEN UNCHANGED <<hold, work, answered>>
       ELSE Settle("unavailable", work)
    /\ UNCHANGED <<card, held, clicks, submitted>>

\* The subscription runs again, at the start after the stale rows are done.
Subscribe ==
    /\ bridge # "up" /\ ~\E t \in work : t.by = "boot"
    /\ bridge' = "up"
    /\ UNCHANGED <<card, hold, ask, work, held, clicks, upsets, saidVars>>

\* The host ends, in good order or not, and starts again: sweepStale ends rows
\* the gateway does not hold any more and delivers decided ones, if the gateway
\* can be asked.
RestartCoordinator ==
    /\ Upset
    /\ hold' = NoHold /\ ask' = NoAsk /\ bridge' = "starting"
    /\ LET fresh(t) == [t EXCEPT !.seen = FALSE]
           stale == IF card.st = "none" THEN {}
                    ELSE IF held # "held" THEN {fresh(Ending("boot"))}
                    ELSE IF Decided THEN {fresh(Redelivery("boot"))} ELSE {}
       IN  work' \in {stale, {}}
    /\ UNCHANGED <<card, held, clicks, saidVars>>

DeadlinePasses ==
    /\ card.id > 0 /\ ~card.late
    /\ card' = [card EXCEPT !.late = TRUE]
    /\ UNCHANGED <<hold, ask, work, bridge, held, clicks, upsets, saidVars>>

\* External: the gateway gives up the request.
GatewayEnds ==
    /\ held = "held" /\ held' = "ended"
    /\ UNCHANGED <<card, hold, ask, work, bridge, clicks, upsets, saidVars>>

AskStep == LookUp \/ CreateRow \/ SendCard \/ BindMessage \/ ArmPending

Handle(t) ==
    \/ ClickClaims(t) \/ ExpiryClaims(t) \/ ResolveClaims(t) \/ ClaimFails(t)
    \/ Submit(t) \/ DropRow(t)

ApprovalsNext ==
    \/ Present \/ AskStep \/ HoldTimerFires \/ Sweep \/ TerminalEvent
    \/ \E say \in Verdicts : Click(say)
    \/ \E t \in work : Handle(t)
    \/ FailBridge \/ Subscribe \/ RestartCoordinator \/ DeadlinePasses \/ GatewayEnds

ApprovalsSpec == ApprovalsInit /\ [][ApprovalsNext]_approvalsVars

-----------------------------------------------------------------------------
(* Properties.                                                             *)

\* One card, one verdict: whatever click, timer, sweep, terminal event and
\* restart do, and however often a decision is delivered again, the gateway
\* hears one decision about a card, from decide and from the promise alike.
OneVerdictPerCard ==
    \A i \in Cards : Cardinality(submitted[i] \cup answered[i]) <= 1

\* Every card ends: an undecided one expires, and a decision, even one whose
\* delivery failed or was lost in a restart, reaches the gateway.
EveryCardEnds == card.st # "none" ~> card.st = "none"

===============================================================================

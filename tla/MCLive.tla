------------------------------- MODULE MCLive --------------------------------
(* Small instances, with the fairness their code justifies, of three         *)
(* components in which whatever begins must come to an end: the audit ledger *)
(* (two appends queued in one process and one in another), the broker        *)
(* without faults, and the agent runner's query over the broker provider.    *)
(* part says which one a behaviour is about; the others stay as they begin.  *)
EXTENDS AuditLedger, AgentTurns, TLC

CONSTANTS p1, p2, w1, w2, w3, Nothing

ThreeTasks == (w1 :> p1) @@ (w2 :> p1) @@ (w3 :> p2)

VARIABLES
    part,
    inbox, responses, private, failed, row, owner, place, batch, current, reply,
    spent, active, reserved, sends, inferred, received

\* One request more than a batch takes, two more than the budget admits.
Requests == {"i1", "i2", "i3"}
Servers  == {"b1", "b2"}

Broker == INSTANCE Broker WITH
    Ids <- Requests, Payloads <- {"good", "bad"}, Malformed <- {"bad"},
    Brokers <- Servers, BatchLimit <- 2, BudgetLimit <- 1,
    Faults <- FALSE, MaxSends <- 1

brokerVars ==
    <<inbox, responses, private, failed, row, owner, place, batch, current, reply,
      spent, active, reserved, sends, inferred, received>>

LiveInit == part \in {"ledger", "broker", "turns"} /\ Init /\ Broker!BrokerInit /\ TurnsInit

LiveNext ==
    /\ UNCHANGED part
    /\ \/ part = "ledger" /\ Next /\ UNCHANGED <<brokerVars, turnVars>>
       \/ part = "broker" /\ Broker!BrokerNext /\ UNCHANGED <<vars, turnVars>>
       \/ part = "turns" /\ TurnsNext /\ UNCHANGED <<vars, brokerVars>>

\* The event loop resumes every pending append; timers and file operations end.
LedgerFairness == \A t \in Tasks : WF_vars(part = "ledger" /\ Step(t))

\* The broker loop polls for ever; clients need not do anything.
BrokerFairness == \A b \in Servers : WF_brokerVars(part = "broker" /\ Broker!BrokerStep(b))

\* A response comes or the provider times out, a dispatch and the scripts of a
\* follow-up come to an end.  Messages and commands need not arrive.
TurnsFairness ==
    /\ WF_turnVars(part = "turns" /\ QueryStep)
    /\ WF_turnVars(part = "turns" /\ PushFollowUp)

LiveSpec ==
    /\ LiveInit /\ [][LiveNext]_<<part, vars, brokerVars, turnVars>>
    /\ LedgerFairness /\ BrokerFairness /\ TurnsFairness

\* Without faults every well-formed request file is answered and every
\* malformed one put aside, however full the inbox and the budget are (the
\* loop of broker/main.py).
EveryRequestEnds == Broker!EveryRequestEnds
==============================================================================

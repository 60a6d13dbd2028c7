------------------------------- MODULE MCHost -------------------------------
(* Small instances of four components of the nanoclaw host that share no     *)
(* state: the reconcile queue with its sweep, the delivery of outbound       *)
(* messages, the inbound mailbox and the gateway approvals.  part says which *)
(* one a behaviour is about; the others stay as they begin, so the states    *)
(* are those of the four explored one after another.                         *)
EXTENDS ReconcileQueue, Delivery, Mailbox, GatewayApprovals

VARIABLE part

vars == <<part, queueVars, deliveryVars, mailboxVars, approvalsVars>>

Init ==
    /\ part \in {"queue", "delivery", "mailbox", "approvals"}
    /\ QueueInit /\ DeliveryInit /\ MailboxInit /\ ApprovalsInit

Next ==
    /\ UNCHANGED part
    /\ \/ part = "queue" /\ QueueNext
          /\ UNCHANGED <<deliveryVars, mailboxVars, approvalsVars>>
       \/ part = "delivery" /\ DeliveryNext
          /\ UNCHANGED <<queueVars, mailboxVars, approvalsVars>>
       \/ part = "mailbox" /\ MailboxNext
          /\ UNCHANGED <<queueVars, deliveryVars, approvalsVars>>
       \/ part = "approvals" /\ ApprovalsNext
          /\ UNCHANGED <<queueVars, deliveryVars, mailboxVars>>

------------------------------------------------------------------------------
(* Fairness: what each component goes on doing while it is the one that      *)
(* moves.                                                                    *)

Of(name, A) == part = name /\ A

\* Each poll loop goes on: every call it awaits answers.
DeliveryFairness ==
    \A p \in Polls : WF_deliveryVars(Of("delivery", DrainStep(p)))

\* The queue reconciles the session again and again and a pass goes on to its
\* end; a container told to stop does; a turn comes to an end; time passes, so that
\* what stays quiet is found too old in the end.
MailboxFairness ==
    /\ WF_mailboxVars(Of("mailbox", Reconcile))
    /\ WF_mailboxVars(Of("mailbox", pass # "idle" /\ HostMoves))
    /\ WF_mailboxVars(Of("mailbox", Finalize))
    /\ SF_mailboxVars(Of("mailbox", KillStuck))
    /\ WF_mailboxVars(Of("mailbox", stopping /\ RunnerEnds))
    /\ WF_mailboxVars(Of("mailbox", Boot))
    /\ WF_mailboxVars(Of("mailbox", ClaimBatch))
    /\ WF_mailboxVars(Of("mailbox", EndQuery))
    /\ WF_mailboxVars(Of("mailbox", follow # {} /\ PushFollowUps))
    /\ WF_mailboxVars(Of("mailbox", GrowSilent))
    /\ \A m \in Msgs : WF_mailboxVars(Of("mailbox", BackoffEnds(m)))

\* Every call awaited answers, timers fire, the sweep comes round, time passes.
ApprovalsFairness ==
    /\ WF_approvalsVars(Of("approvals", AskStep))
    /\ WF_approvalsVars(Of("approvals", Subscribe))
    /\ WF_approvalsVars(Of("approvals", \E t \in work : Handle(t)))
    /\ WF_approvalsVars(Of("approvals", HoldTimerFires))
    /\ SF_approvalsVars(Of("approvals", Sweep))
    /\ WF_approvalsVars(Of("approvals", DeadlinePasses))

Spec ==
    /\ Init /\ [][Next]_vars
    /\ DeliveryFairness /\ MailboxFairness /\ ApprovalsFairness
==============================================================================

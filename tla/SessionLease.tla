----------------------------- MODULE SessionLease -----------------------------
(***************************************************************************)
(* What the claim row promises about one session, whatever the hosts do:   *)
(* an incarnation has one owner, and while that owner's lease has never    *)
(* lapsed nobody else can begin an incarnation.                            *)
(***************************************************************************)
EXTENDS Naturals

CONSTANTS
    Hosts,  \* host instances
    NoHost  \* the owner of a session nobody owns

VARIABLES
    incarnation,  \* number of the current incarnation
    owner,        \* the host that owns it, or NoHost
    lapsed        \* hosts whose lease has ended at some time

vars == <<incarnation, owner, lapsed>>

Init == incarnation = 0 /\ owner = NoHost /\ lapsed = {}

\* A host begins an incarnation of a session that is free, its own, or left
\* behind by an owner whose lease has lapsed.
Begin(h) ==
    /\ owner \in {NoHost, h} \cup lapsed
    /\ incarnation' = incarnation + 1
    /\ owner' = h
    /\ UNCHANGED lapsed

\* The owner of the current incarnation gives it up.
End ==
    /\ owner # NoHost
    /\ owner' = NoHost
    /\ UNCHANGED <<incarnation, lapsed>>

\* Time passes, or a host goes down in good order.
Lapse(h) ==
    /\ lapsed' = lapsed \cup {h}
    /\ UNCHANGED <<incarnation, owner>>

Next == End \/ \E h \in Hosts : Begin(h) \/ Lapse(h)

Spec == Init /\ [][Next]_vars

===============================================================================

------------------------ MODULE ExclusiveRemediation ------------------------
(***************************************************************************)
(* What the trusted router promises about the services it changes, without *)
(* claims, ledgers, processes or crashes: an action gets exclusive hold of *)
(* its target, changes it at most once while it holds it, and lets go only *)
(* when its change is no longer under way.                                 *)
(***************************************************************************)
CONSTANTS ActionIds, Targets, NoTarget

VARIABLES
    phase,   \* "new", "holding", "dispatched" (still holding) or "closed"
    on,      \* the target an action holds or held
    effect   \* its change of the target: "none", "running", "finished"

vars == <<phase, on, effect>>

Init ==
    /\ phase = [a \in ActionIds |-> "new"]
    /\ on = [a \in ActionIds |-> NoTarget]
    /\ effect = [a \in ActionIds |-> "none"]

Holders(t) == {a \in ActionIds : phase[a] \in {"holding", "dispatched"} /\ on[a] = t}

Hold(a, t) ==
    /\ phase[a] = "new"
    /\ Holders(t) = {}
    /\ phase' = [phase EXCEPT ![a] = "holding"]
    /\ on' = [on EXCEPT ![a] = t]
    /\ UNCHANGED effect

Dispatch(a) ==
    /\ phase[a] = "holding"
    /\ phase' = [phase EXCEPT ![a] = "dispatched"]
    /\ effect' = [effect EXCEPT ![a] = "running"]
    /\ UNCHANGED on

Finish(a) ==
    /\ effect[a] = "running"
    /\ effect' = [effect EXCEPT ![a] = "finished"]
    /\ UNCHANGED <<phase, on>>

Close(a) ==
    /\ phase[a] \in {"holding", "dispatched"}
    /\ effect[a] # "running"
    /\ phase' = [phase EXCEPT ![a] = "closed"]
    /\ UNCHANGED <<on, effect>>

Next ==
    \/ \E a \in ActionIds, t \in Targets : Hold(a, t)
    \/ \E a \in ActionIds : Dispatch(a) \/ Finish(a) \/ Close(a)

Spec == Init /\ [][Next]_vars
=============================================================================

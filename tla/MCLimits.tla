------------------------------- MODULE MCLimits -------------------------------
(* Small instances of three components that callers drive in any order and   *)
(* that share no state: the router's action store, its methods called by     *)
(* callers that may hold different ideas of an action's target, the broker's *)
(* model budget, and a scheduled task series under commands and reconciles.  *)
(* part says which one a behaviour is about; the others stay as they begin.  *)
EXTENDS ActionStore, BudgetTracker, TaskSeries, TLC

VARIABLE part

vars == <<part, storeVars, trackerVars, seriesVars>>

Init ==
    /\ part \in {"store", "tracker", "series"}
    /\ StoreInit /\ TrackerInit /\ SeriesInit
    /\ part # "series" => recurs /\ task[1].st = "pending"

Next ==
    /\ UNCHANGED part
    /\ \/ part = "store" /\ StoreNext /\ UNCHANGED <<trackerVars, seriesVars>>
       \/ part = "tracker" /\ TrackerNext /\ UNCHANGED <<storeVars, seriesVars>>
       \/ part = "series" /\ SeriesNext /\ UNCHANGED <<storeVars, trackerVars>>

Spec == Init /\ [][Next]_vars

Symmetry == Permutations(ActionIds) \cup Permutations(Targets)
===============================================================================

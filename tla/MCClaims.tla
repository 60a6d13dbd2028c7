------------------------------- MODULE MCClaims -------------------------------
(* Small instances of two components in which several processes contend for  *)
(* one claim and that share no state: the hosts that may own a session, and  *)
(* the objects of the offline benchmark recovery that may act on a target.   *)
(* part says which one a behaviour is about; the other stays as it begins.   *)
EXTENDS SessionClaims, BenchmarkRecovery, TLC

VARIABLE part

vars == <<part, sessionVars, recoveryVars>>

Init ==
    /\ part \in {"sessions", "recovery"}
    /\ SessionInit /\ RecoveryInit
    /\ part = "sessions" => \A o \in Objects, t \in Targets : fixture[o][t] = "ill"

Next ==
    /\ UNCHANGED part
    /\ \/ part = "sessions" /\ SessionNext /\ UNCHANGED recoveryVars
       \/ part = "recovery" /\ RecoveryNext /\ UNCHANGED sessionVars

Spec == Init /\ [][Next]_vars

Symmetry == Permutations(Hosts) \cup Permutations(Calls)
===============================================================================

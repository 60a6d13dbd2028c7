------------------------------ MODULE MCServices ------------------------------
(* Small instances of two components whose processes die and whose           *)
(* operations fail at any await, and that share no state: the trusted router *)
(* (one call in each of two processes, and an operator) and the inference    *)
(* broker.  part says which one a behaviour is about; the other stays as it  *)
(* begins.                                                                   *)
EXTENDS MCTrustedRouter, Broker

VARIABLE part

ServicesInit == part \in {"router", "broker"} /\ Init /\ BrokerInit

ServicesNext ==
    /\ UNCHANGED part
    /\ \/ part = "router" /\ Next /\ UNCHANGED brokerVars
       \/ part = "broker" /\ BrokerNext /\ UNCHANGED vars

ServicesSpec == ServicesInit /\ [][ServicesNext]_<<part, vars, brokerVars>>
===============================================================================

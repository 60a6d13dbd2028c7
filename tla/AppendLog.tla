------------------------------ MODULE AppendLog ------------------------------
(***************************************************************************)
(* What the audit ledger promises its callers: records are added one at a  *)
(* time at the end and never change, a completion event is recorded once,  *)
(* and a damaged log stays as it is.  It says nothing of what the writer   *)
(* is told: a failed append may have added its record.                     *)
(***************************************************************************)
EXTENDS Sequences

CONSTANTS Events, Completions  \* Completions: the "reconciled" events

VARIABLES log, damaged

vars == <<log, damaged>>

Init == log = <<>> /\ damaged = FALSE

Recorded(e) == \E i \in DOMAIN log : log[i] = e

Add(e) ==
    /\ ~damaged
    /\ e \in Completions => ~Recorded(e)
    /\ log' = Append(log, e)
    /\ UNCHANGED damaged

Damage == ~damaged /\ damaged' = TRUE /\ UNCHANGED log

Next == (\E e \in Events : Add(e)) \/ Damage

Spec == Init /\ [][Next]_vars
=============================================================================

---------------------------- MODULE MCAuditLedger ----------------------------
(* Small instances of the audit ledger: two appends queued in one process   *)
(* and one in another.                                                      *)
EXTENDS AuditLedger, TLC

CONSTANTS p1, p2, w1, w2, w3

ThreeTasks == (w1 :> p1) @@ (w2 :> p1) @@ (w3 :> p2)
=============================================================================

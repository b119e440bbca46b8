---------------------------- MODULE MCAuditStore ----------------------------
EXTENDS AuditStore, TLC

CONSTANTS p1, p2, a1, a2, b1

TwoAndOne == (a1 :> p1) @@ (a2 :> p1) @@ (b1 :> p2)
=============================================================================

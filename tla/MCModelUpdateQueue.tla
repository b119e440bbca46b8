------------------------- MODULE MCModelUpdateQueue -------------------------
EXTENDS ModelUpdateQueue, HeapqLoops

CONSTANTS a1, a2, a3

\* Every action an urgency of its own, and two left at the default; the clients
\* are alike, so that other assignments of the kind are renamings of these.
Urgencies == {(a1 :> 10) @@ (a2 :> 50) @@ (a3 :> 100),
              (a1 :> 50) @@ (a2 :> 100) @@ (a3 :> 100)}
=============================================================================

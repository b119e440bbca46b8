---------------------------- MODULE MCDeltaCache ----------------------------
EXTENDS DeltaCache, TLC
CONSTANTS room, route, t1, t2

ReadsOf == [n \in {room, route} |-> IF n = route THEN {room} ELSE {}]
Symmetric == Permutations(Threads) \union Permutations(Contents)
=============================================================================

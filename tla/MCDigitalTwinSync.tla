-------------------------- MODULE MCDigitalTwinSync --------------------------
(* Two syncs and a client meet on one detector: detectors share nothing but  *)
(* the lock, and a list names one twice where its own entries are to meet.   *)
EXTENDS DigitalTwinSync, TLC

CONSTANTS a, b, d1, r1

Entry1(v, flaw) == [det |-> d1, room |-> r1, verified |-> v, flaw |-> flaw]
Plain == Entry1(TRUE, "none")
Design(ow, items) == [kind |-> "design", overwrite |-> ow, items |-> items]
AsBuilt(items) == [kind |-> "asbuilt", overwrite |-> FALSE, items |-> items]

\* A plain list, a duplicate id, entries that a validation refuses, one that raises.
MeetingInputs ==
    {Design(FALSE, <<Plain, Plain>>), Design(TRUE, <<Plain>>),
     Design(TRUE, <<Plain, Entry1(TRUE, "radius")>>),
     Design(FALSE, <<Entry1(TRUE, "coord")>>),
     AsBuilt(<<Entry1(FALSE, "fields"), Plain>>), AsBuilt(<<Entry1(TRUE, "coord")>>)}

\* The two syncs are alike.
SyncSymmetry == Permutations({a, b})

\* The three logs feed back into nothing the properties of this run read, so
\* states that differ only in them are one state here.
WithoutLogs == <<heap, detectors, roomIds, ops, pc, cur, job>>
=============================================================================

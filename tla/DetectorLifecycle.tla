-------------------------- MODULE DetectorLifecycle --------------------------
(***************************************************************************)
(* What the digital twin promises of one building's detectors, with no     *)
(* threads, no objects and no logs: each detector id is absent or has one  *)
(* of the five statuses of DetectorStatus, and a status changes only along *)
(* LEGAL_STATUS_TRANSITIONS unless a bypass is declared for that change.   *)
(***************************************************************************)
EXTENDS Naturals, DetectorStatus

CONSTANTS
    Detectors,   \* detector ids
    Entry        \* the statuses a caller registers detectors with

Absent == "absent"

VARIABLES
    life,      \* detector id -> status, or Absent
    bypasses   \* how many safety bypasses (force=True) were declared so far

lifeVars == <<life, bypasses>>

LifeInit == /\ life = [d \in Detectors |-> Absent]
            /\ bypasses = 0

Enter(d, s) == /\ life[d] = Absent
               /\ life' = [life EXCEPT ![d] = s]
               /\ UNCHANGED bypasses

Transition(d, s) == /\ life[d] # Absent
                    /\ s \in Legal[life[d]]
                    /\ life' = [life EXCEPT ![d] = s]
                    /\ UNCHANGED bypasses

\* A declared bypass may move the detector anywhere, and is counted.
Bypass(d, s) == /\ life[d] # Absent
                /\ life' = [life EXCEPT ![d] = s]
                /\ bypasses' = bypasses + 1

Leave(d) == /\ life[d] # Absent
            /\ life' = [life EXCEPT ![d] = Absent]
            /\ UNCHANGED bypasses

LifeNext == \E d \in Detectors :
                \/ \E s \in Entry : Enter(d, s)
                \/ \E s \in Status : Transition(d, s) \/ Bypass(d, s)
                \/ Leave(d)

LifeSpec == LifeInit /\ [][LifeNext]_lifeVars
=============================================================================

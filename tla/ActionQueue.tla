----------------------------- MODULE ActionQueue -----------------------------
(***************************************************************************)
(* What ThreadSafeModelUpdateQueue promises the bridge: an action is       *)
(* handed over at most once, and the most urgent of those that wait.  When *)
(* two priorities are equal, the second promise is off, and an action may  *)
(* be lost on its way out of the queue.                                    *)
(***************************************************************************)
EXTENDS Naturals, Functions

CONSTANTS
    Actions,     \* the actions' ids
    Priorities,  \* the assignments of priorities to actions that are considered
    Nothing      \* the bridge holds no action

VARIABLES
    prio,      \* the priority of each action
    given,     \* the actions that were ever put into the queue
    waiting,   \* those in it
    hand,      \* the action the bridge is executing
    done       \* those it has executed

queueVars == <<prio, given, waiting, hand, done>>

Init == /\ prio \in Priorities
        /\ given = {} /\ waiting = {} /\ hand = Nothing /\ done = {}

Distinct == IsInjective(prio)

Give(a) == /\ a \notin given
           /\ given' = given \cup {a} /\ waiting' = waiting \cup {a}
           /\ UNCHANGED <<prio, hand, done>>

Take(a) == /\ hand = Nothing /\ a \in waiting
           /\ Distinct => \A b \in waiting : prio[a] <= prio[b]
           /\ hand' = a /\ waiting' = waiting \ {a}
           /\ UNCHANGED <<prio, given, done>>

Lose(a) == /\ ~Distinct /\ hand = Nothing /\ a \in waiting
           /\ waiting' = waiting \ {a}
           /\ UNCHANGED <<prio, given, hand, done>>

Finish == /\ hand # Nothing
          /\ done' = done \cup {hand} /\ hand' = Nothing
          /\ UNCHANGED <<prio, given, waiting>>

Next == Finish \/ \E a \in Actions : Give(a) \/ Take(a) \/ Lose(a)

Spec == Init /\ [][Next]_queueVars
=============================================================================

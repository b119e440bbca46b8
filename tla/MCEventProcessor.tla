-------------------------- MODULE MCEventProcessor --------------------------
(* The processors of the run and the keys of the events.                    *)
EXTENDS EventProcessor

CONSTANT f

MCKeyOf == [e \in Event |-> CHOOSE k \in Key : TRUE]

Sizes(input, retry, rest) ==
    [q \in QueueName |-> CASE q = "input" -> input [] q = "retry" -> retry
                           [] OTHER -> rest]

\* Queues that overflow, with a caller of flush_queues; queues that hold
\* everything, with stages that raise; and without, so that time does not matter.
MCSetups == {
    [maxSize |-> Sizes(1, 2, 1), flushers |-> {f}, until |-> 2,
     verdicts |-> {"passes", "refuses", "filtered"}],
    [maxSize |-> Sizes(9, 9, 9), flushers |-> {}, until |-> 4,
     verdicts |-> {"passes", "raises"}],
    [maxSize |-> Sizes(4, 4, 2), flushers |-> {}, until |-> 2,
     verdicts |-> {"passes", "refuses"}]}
=============================================================================

---------------------------- MODULE EventProcessor ----------------------------
(***************************************************************************)
(* EventProcessor of the distributed FACP, with the four MessageQueues it  *)
(* owns: worker threads take an event from the input queue, pass it        *)
(* through filters, circuit breaker and stages, and put it into the output *)
(* queue, the retry queue or the dead letter queue; after each event they  *)
(* move one event of the retry queue back to the input queue.              *)
(*                                                                         *)
(* A MessageQueue keeps every message twice, in a main queue and in one of *)
(* its topic, both of the same size.  The processor takes from the main    *)
(* queue alone, so a topic's queue only grows; putting into a full one     *)
(* waits, with the lock of the MessageQueue held, for a place that nobody  *)
(* makes.  Nor does the processor look at what enqueue answers.            *)
(*                                                                         *)
(* The failure counts are a dictionary that threads copy, replace and      *)
(* change without a lock: each of these is a step.                         *)
(***************************************************************************)
EXTENDS Naturals, Sequences, FiniteSets, SequencesExt, FiniteSetsExt

CONSTANTS
    Event,         \* what callers submit, each once
    Urgent,        \* events submitted with HIGH priority
    Key, KeyOf,    \* idempotency keys, and the key of each event
    Worker,        \* threads start() may create
    Flusher,       \* threads that may call flush_queues
    None,
    Spawned,       \* threads one start() creates
    MaxRetries,
    Threshold,     \* failure_threshold
    Window,        \* failure_window, in ticks
    Setups,        \* how a processor may be made and used, see setup
    MaxClock       \* bound: ticks

QueueName == {"input", "output", "retry", "dead"}
Topic == {"events", "retry_events"}
Thread == Worker \cup Flusher
Clock == Window + 1 .. MaxClock     \* last_failure_time is 0, which is long ago
NoFailures == [u \in Clock |-> 0]

ASSUME EventsAssumption == Urgent \subseteq Event /\ KeyOf \in [Event -> Key]
ASSUME ThreadsAssumption == Worker \cap Flusher = {} /\ None \notin Event
ASSUME SizesAssumption ==
    /\ Spawned \in Nat \ {0}
    /\ MaxRetries \in Nat /\ Threshold \in Nat /\ Window \in Nat
    /\ MaxClock \in Nat /\ MaxClock > Window
ASSUME SetupsAssumption ==
    \A s \in Setups :
        /\ s.maxSize \in [QueueName -> Nat \ {0}]
        /\ s.verdicts \subseteq {"passes", "refuses", "raises", "filtered"}
        /\ s.flushers \subseteq Flusher /\ s.until \in 0 .. MaxClock

VARIABLES
    setup,       \* maxSize per queue, of its main queue and of each topic's; verdicts:
                 \* what stages, filters and enrichers do; flushers: who flushes;
                 \* until: bound of the time
    queue,       \* per queue: main queue, messages per topic, lock held for ever
    attempts,    \* per event: message.attempts
    topic,       \* per event: message.topic
    answer,      \* per event: how far its caller is and what it was told
    store,       \* idempotency_store: keys that have a response
    running,
    pc, hand,    \* per thread: where it is and the event it works on
    drains,      \* per flusher: the queue its loop is about
    started,     \* per thread: current_time of its _record_failure
    kept,        \* per thread: the failures it copied
    iterates,    \* per thread: the dictionary it copies from
    failures,    \* failure_counts: tick -> count
    circuit, lastFailure,
    clock,
    \* history:
    dropped,     \* events a filter dropped
    raised,      \* failures that were recorded
    lost         \* per event: where it was let go without a trace

queueVars == <<setup, queue, attempts, topic>>
callVars == <<answer, store>>
breakerVars == <<started, kept, iterates, failures, circuit, lastFailure>>
historyVars == <<dropped, raised, lost>>
vars == <<queueVars, callVars, running, pc, hand, drains, breakerVars, clock,
          historyVars>>

-----------------------------------------------------------------------------
(* MessageQueue                                                              *)

Urgency(e) == IF e \in Urgent \/ topic[e] = "retry_events" THEN 3 ELSE 2

\* The main queue is ordered by priority and, within one, by time: the message
\* comes after those that are as urgent, and is the last of its priority.
Placed(line, e) ==
    LET before == {i \in 1 .. Len(line) : Urgency(line[i]) >= Urgency(e)}
    IN  InsertAt(line, Cardinality(before) + 1, e)

Full(q) == Len(queue[q].line) >= setup.maxSize[q]

\* The topic's queue has no place although the main queue has.
Blocks(q, e) == ~Full(q) /\ queue[q].topics[topic[e]] >= setup.maxSize[q]

Enqueue(q, e) ==
    /\ ~queue[q].held
    /\ queue' =
        IF Full(q) THEN queue
        ELSE [queue EXCEPT
                ![q].line = Placed(@, e),
                ![q].topics[topic[e]] = IF Blocks(q, e) THEN @ ELSE @ + 1,
                ![q].held = Blocks(q, e)]

Dequeue(q, e) ==
    /\ ~queue[q].held
    /\ queue[q].line # <<>>
    /\ e = Head(queue[q].line)
    /\ queue' = [queue EXCEPT ![q].line = Tail(@)]

Finds(q) == queue[q].line # <<>>

-----------------------------------------------------------------------------
(* Callers                                                                   *)

\* submit_facp_request looks the key up before it submits, with no lock over both.
Miss(e) ==
    /\ answer[e] = "none"
    /\ KeyOf[e] \notin store
    /\ answer' = [answer EXCEPT ![e] = "misses"]
    /\ UNCHANGED <<queueVars, store, running, pc, hand, drains, breakerVars, clock,
                   historyVars>>

Submit(e) ==
    /\ answer[e] = "misses"
    /\ Enqueue("input", e)
    /\ answer' = [answer EXCEPT ![e] =
                    IF Full("input") THEN "overflows"
                    ELSE IF Blocks("input", e) THEN "waits" ELSE "accepted"]
    /\ topic' = IF Full("input") THEN [topic EXCEPT ![e] = "retry_events"] ELSE topic
    /\ UNCHANGED <<setup, attempts, store, running, pc, hand, drains, breakerVars, clock,
                   historyVars>>

\* A key with a response is answered from the store.
Hit(e) ==
    /\ answer[e] = "none"
    /\ KeyOf[e] \in store
    /\ answer' = [answer EXCEPT ![e] = "hit"]
    /\ UNCHANGED <<queueVars, store, running, pc, hand, drains, breakerVars, clock,
                   historyVars>>

\* The input queue was full: a message with the same data is put into the retry
\* queue, and the caller is told "queue_full" either way.
Overflow(e) ==
    /\ answer[e] = "overflows"
    /\ Enqueue("retry", e)
    /\ answer' = [answer EXCEPT ![e] =
                    IF Blocks("retry", e) THEN "waits" ELSE "queue_full"]
    /\ UNCHANGED <<setup, attempts, topic, store, running, pc, hand, drains, breakerVars,
                   clock, historyVars>>

\* start, also by resume_processing: threads that have not seen running become
\* FALSE go on beside the new ones.
Start ==
    /\ ~running
    /\ running' = TRUE
    /\ \E new \in kSubset(Spawned, {w \in Worker : pc[w] = "unborn"}) :
            pc' = [t \in Thread |-> IF t \in new THEN "loop" ELSE pc[t]]
    /\ UNCHANGED <<queueVars, callVars, hand, drains, breakerVars, clock, historyVars>>

\* pause_processing, and stop, which gives up its join after two seconds.
Pause ==
    /\ running
    /\ running' = FALSE
    /\ UNCHANGED <<queueVars, callVars, pc, hand, drains, breakerVars, clock,
                   historyVars>>

Flush(f) ==
    /\ f \in setup.flushers
    /\ pc[f] = "unborn"
    /\ pc' = [pc EXCEPT ![f] = "loop"]
    /\ drains' = [drains EXCEPT ![f] = "input"]
    /\ UNCHANGED <<queueVars, callVars, running, hand, breakerVars, clock, historyVars>>

-----------------------------------------------------------------------------
(* The loops of a worker and of flush_queues                                 *)

Goto(t, there) == pc' = [pc EXCEPT ![t] = there]
LetGo(t) == hand' = [hand EXCEPT ![t] = None]

Source(t) == IF t \in Worker THEN "input" ELSE drains[t]
AtDequeue(t) == pc[t] = IF t \in Worker THEN "take" ELSE "loop"

\* The loop's condition.  A pause between it and the dequeue comes too late.
Look(w) ==
    /\ w \in Worker
    /\ pc[w] = "loop" /\ running
    /\ Goto(w, "take")
    /\ UNCHANGED <<queueVars, callVars, running, hand, drains, breakerVars, clock,
                   historyVars>>

\* Mutated form of Take: running is looked at again, after an event was taken.
TakeThenLook(t) ==
    /\ AtDequeue(t)
    /\ LET goes == t \in Flusher \/ running
       IN  /\ \E e \in Event : Dequeue(Source(t), e)
                /\ hand' = [hand EXCEPT ![t] = IF goes THEN e ELSE None]
           /\ Goto(t, IF goes THEN "screen" ELSE "exited")
    /\ UNCHANGED <<setup, attempts, topic, callVars, running, drains, breakerVars, clock,
                   historyVars>>

Take(t) ==
    /\ AtDequeue(t)
    /\ \E e \in Event : Dequeue(Source(t), e) /\ hand' = [hand EXCEPT ![t] = e]
    /\ Goto(t, "screen")
    /\ UNCHANGED <<setup, attempts, topic, callVars, running, drains, breakerVars, clock,
                   historyVars>>

TakeNothing(w) ==
    /\ w \in Worker
    /\ pc[w] = "take"
    /\ ~queue["input"].held /\ ~Finds("input")
    /\ Goto(w, "retry")
    /\ UNCHANGED <<queueVars, callVars, running, hand, drains, breakerVars, clock,
                   historyVars>>

Exit(w) ==
    /\ w \in Worker
    /\ pc[w] = "loop" /\ ~running
    /\ Goto(w, "exited")
    /\ UNCHANGED <<queueVars, callVars, running, hand, drains, breakerVars, clock,
                   historyVars>>

\* The loop of flush_queues over one queue ends.
Drained(f) ==
    /\ f \in Flusher
    /\ pc[f] = "loop" /\ ~Finds(drains[f])
    /\ IF drains[f] = "input"
       THEN drains' = [drains EXCEPT ![f] = "retry"] /\ UNCHANGED pc
       ELSE Goto(f, "exited") /\ UNCHANGED drains
    /\ UNCHANGED <<queueVars, callVars, running, hand, breakerVars, clock, historyVars>>

\* The end of an iteration: a result is put into a queue, by a worker, or thrown
\* away, by flush_queues.  A full queue refuses the event, and nobody asks.
Lose(e, why) == lost' = [lost EXCEPT ![e] = why]

PutInto(t, q) ==
    /\ LetGo(t)
    /\ IF t \in Worker
       THEN /\ Enqueue(q, hand[t])
            /\ IF Full(q) THEN Lose(hand[t], "full") ELSE UNCHANGED lost
            /\ Goto(t, IF Blocks(q, hand[t]) THEN "stuck" ELSE "retry")
       ELSE Lose(hand[t], "flushed") /\ Goto(t, "loop") /\ UNCHANGED queue
    /\ UNCHANGED <<setup, attempts, topic, callVars, running, drains, breakerVars, clock,
                   dropped, raised>>

Succeed(t) == pc[t] = "succeeded" /\ PutInto(t, "output")
PutBack(t) == pc[t] = "put_back" /\ PutInto(t, "retry")
Settle(t) ==
    /\ pc[t] = "failed"
    /\ PutInto(t, IF attempts[hand[t]] >= MaxRetries THEN "dead" ELSE "retry")

\* Mutated form of TakeRetry: only beside an event that waits in the input queue.
TakeRetryBesides(w) ==
    /\ w \in Worker
    /\ pc[w] = "retry"
    /\ IF Finds("retry") /\ Finds("input")
       THEN \E e \in Event :
                /\ Dequeue("retry", e)
                /\ attempts' = [attempts EXCEPT ![e] = @ + 1]
                /\ hand' = [hand EXCEPT ![w] = e]
                /\ Goto(w, "requeue")
       ELSE Goto(w, "loop") /\ UNCHANGED <<queue, attempts, hand>>
    /\ UNCHANGED <<setup, topic, callVars, running, drains, breakerVars, clock, historyVars>>

\* One event of the retry queue is taken, and put into the input queue.
TakeRetry(w) ==
    /\ w \in Worker
    /\ pc[w] = "retry"
    /\ IF Finds("retry")
       THEN \E e \in Event :
                /\ Dequeue("retry", e)
                /\ attempts' = [attempts EXCEPT ![e] = @ + 1]
                /\ hand' = [hand EXCEPT ![w] = e]
                /\ Goto(w, "requeue")
       ELSE Goto(w, "loop") /\ UNCHANGED <<queue, attempts, hand>>
    /\ UNCHANGED <<setup, topic, callVars, running, drains, breakerVars, clock, historyVars>>

Requeue(w) ==
    /\ pc[w] = "requeue"
    /\ Enqueue("input", hand[w])
    /\ IF Full("input") THEN Lose(hand[w], "full") ELSE UNCHANGED lost
    /\ Goto(w, IF Blocks("input", hand[w]) THEN "stuck" ELSE "loop")
    /\ LetGo(w)
    /\ UNCHANGED <<setup, attempts, topic, callVars, running, drains, breakerVars, clock,
                   dropped, raised>>

-----------------------------------------------------------------------------
(* _process_single_event                                                     *)

\* The filters drop the event.
Filter(t) ==
    /\ pc[t] = "screen" /\ "filtered" \in setup.verdicts
    /\ dropped' = dropped \cup {hand[t]}
    /\ LetGo(t)
    /\ Goto(t, IF t \in Worker THEN "retry" ELSE "loop")
    /\ UNCHANGED <<queueVars, callVars, running, drains, breakerVars, clock,
                   raised, lost>>

Quiet == clock > lastFailure + Window

CheckCircuit(t) ==
    /\ pc[t] = "screen"
    /\ Goto(t, IF circuit # "open" THEN "stages"
               ELSE IF Quiet THEN "half_opens" ELSE "put_back")
    /\ UNCHANGED <<queueVars, callVars, running, hand, drains, breakerVars, clock,
                   historyVars>>

HalfOpen(t) ==
    /\ pc[t] = "half_opens"
    /\ circuit' = "half_open"
    /\ Goto(t, "stages")
    /\ UNCHANGED <<queueVars, callVars, running, hand, drains, started, kept, iterates,
                   failures, lastFailure, clock, historyVars>>

\* Every stage passes; the handler's response is stored under the key.
StagesPass(t) ==
    /\ pc[t] = "stages" /\ "passes" \in setup.verdicts
    /\ store' = store \cup {KeyOf[hand[t]]}
    /\ Goto(t, "succeeded")
    /\ UNCHANGED <<queueVars, answer, running, hand, drains, breakerVars, clock,
                   historyVars>>

\* A stage answers False: the breaker does not count it.
StageRefuses(t) ==
    /\ pc[t] = "stages" /\ "refuses" \in setup.verdicts
    /\ Goto(t, "failed")
    /\ UNCHANGED <<queueVars, callVars, running, hand, drains, breakerVars, clock,
                   dropped, raised, lost>>

\* A filter, an enricher or a stage raises: the failure is to be recorded.
Raise(t) ==
    /\ pc[t] \in {"screen", "stages"} /\ "raises" \in setup.verdicts
    /\ started' = [started EXCEPT ![t] = clock]
    /\ Goto(t, "records")
    /\ UNCHANGED <<queueVars, callVars, running, hand, drains, kept, iterates, failures,
                   circuit, lastFailure, clock, dropped, raised, lost>>

-----------------------------------------------------------------------------
(* _record_failure                                                           *)

\* The comprehension begins to iterate over failure_counts.
Copy(t) ==
    /\ pc[t] = "records"
    /\ kept' = [kept EXCEPT ![t] =
                  [u \in Clock |-> IF started[t] < u + Window THEN failures[u] ELSE 0]]
    /\ iterates' = [iterates EXCEPT ![t] = "current"]
    /\ Goto(t, "copies")
    /\ UNCHANGED <<queueVars, callVars, running, hand, drains, started, failures,
                   circuit, lastFailure, clock, historyVars>>

\* Mutated form of Replace: the copy is added to what is there.
ReplaceMerging(t) ==
    /\ pc[t] = "copies"
    /\ failures' = [u \in Clock |-> failures[u] + kept[t][u]]
    /\ kept' = [kept EXCEPT ![t] = NoFailures]
    /\ iterates' = [iterates EXCEPT ![t] = "none"]
    /\ Goto(t, "adds")
    /\ UNCHANGED <<queueVars, callVars, running, hand, drains, started, circuit,
                   lastFailure, clock, historyVars>>

\* The copy replaces failure_counts, which others may have changed since.
Replace(t) ==
    /\ pc[t] = "copies"
    /\ failures' = kept[t]
    /\ kept' = [kept EXCEPT ![t] = NoFailures]
    /\ iterates' = [u \in Thread |-> IF u = t THEN "none"
                                     ELSE IF iterates[u] = "current" THEN "old"
                                     ELSE iterates[u]]
    /\ Goto(t, "adds")
    /\ UNCHANGED <<queueVars, callVars, running, hand, drains, started, circuit,
                   lastFailure, clock, historyVars>>

\* A dictionary that grew while it was iterated over: the RuntimeError leaves
\* _process_single_event, and with it the event is gone.
CopyFails(t) ==
    /\ pc[t] = "copies" /\ iterates[t] = "grown"
    /\ iterates' = [iterates EXCEPT ![t] = "none"]
    /\ kept' = [kept EXCEPT ![t] = NoFailures]
    /\ Lose(hand[t], "failed") /\ LetGo(t)
    /\ Goto(t, IF t \in Worker THEN "loop" ELSE "exited")
    /\ UNCHANGED <<queueVars, callVars, running, drains, started, failures,
                   circuit, lastFailure, clock, dropped, raised>>

Add(t) ==
    /\ pc[t] = "adds"
    /\ failures' = [failures EXCEPT ![started[t]] = @ + 1]
    /\ raised' = raised + 1
    /\ iterates' = [u \in Thread |-> IF iterates[u] = "current" THEN "grown"
                                     ELSE iterates[u]]
    /\ Goto(t, "tallies")
    /\ UNCHANGED <<queueVars, callVars, running, hand, drains, started, kept, circuit,
                   lastFailure, clock, dropped, lost>>

\* sum(self.failure_counts.values()), counted in failures.
Total(counts) == Cardinality(UNION {{u} \X (1 .. counts[u]) : u \in Clock})

Tally(t) ==
    /\ pc[t] = "tallies"
    /\ IF Total(failures) >= Threshold
       THEN circuit' = "open" /\ Goto(t, "stamps")
       ELSE Goto(t, "failed") /\ UNCHANGED circuit
    /\ UNCHANGED <<queueVars, callVars, running, hand, drains, started, kept, iterates,
                   failures, lastFailure, clock, historyVars>>

Stamp(t) ==
    /\ pc[t] = "stamps"
    /\ lastFailure' = started[t]
    /\ Goto(t, "failed")
    /\ UNCHANGED <<queueVars, callVars, running, hand, drains, started, kept, iterates,
                   failures, circuit, clock, historyVars>>

Tick ==
    /\ clock < setup.until
    /\ clock' = clock + 1
    /\ UNCHANGED <<queueVars, callVars, running, pc, hand, drains, breakerVars,
                   historyVars>>

-----------------------------------------------------------------------------
Init ==
    /\ setup \in Setups
    /\ queue = [q \in QueueName |->
                  [line |-> <<>>, topics |-> [x \in Topic |-> 0], held |-> FALSE]]
    /\ attempts = [e \in Event |-> 0]
    /\ topic = [e \in Event |-> "events"]
    /\ answer = [e \in Event |-> "none"]
    /\ store = {}
    /\ running = FALSE
    /\ pc = [t \in Thread |-> "unborn"]
    /\ hand = [t \in Thread |-> None]
    /\ drains = [f \in Flusher |-> "input"]
    /\ started = [t \in Thread |-> Window + 1]
    /\ kept = [t \in Thread |-> NoFailures]
    /\ iterates = [t \in Thread |-> "none"]
    /\ failures = NoFailures
    /\ circuit = "closed"
    /\ lastFailure = 0
    /\ clock = Window + 1
    /\ dropped = {}
    /\ raised = 0
    /\ lost = [e \in Event |-> "no"]

Records(t) == Copy(t) \/ Replace(t) \/ CopyFails(t) \/ Add(t) \/ Tally(t) \/ Stamp(t)

Processes(t) ==
    \/ Filter(t) \/ CheckCircuit(t) \/ HalfOpen(t)
    \/ StagesPass(t) \/ StageRefuses(t) \/ Raise(t) \/ Records(t)

Works(w) ==
    \/ Look(w) \/ Take(w) \/ TakeNothing(w) \/ Exit(w) \/ Processes(w)
    \/ Succeed(w) \/ PutBack(w) \/ Settle(w) \/ TakeRetry(w) \/ Requeue(w)

Flushes(f) ==
    \/ Take(f) \/ Drained(f) \/ Processes(f) \/ Succeed(f) \/ PutBack(f) \/ Settle(f)

Calls == \E e \in Event : Miss(e) \/ Submit(e) \/ Hit(e) \/ Overflow(e)

Next ==
    \/ Calls \/ Start \/ Pause \/ Tick
    \/ \E f \in Flusher : Flush(f) \/ Flushes(f)
    \/ \E w \in Worker : Works(w)

ProcessorSpec == Init /\ [][Next]_vars /\ \A w \in Worker : WF_vars(Works(w))

-----------------------------------------------------------------------------
(* Properties                                                                *)

Queued(q, e) == {i \in 1 .. Len(queue[q].line) : queue[q].line[i] = e}

InQueues(e) == UNION {{q} \X Queued(q, e) : q \in QueueName}
InHands(e) == {"hand"} \X {t \in Thread : hand[t] = e}
Positions(e) == InQueues(e) \cup InHands(e)

\* However workers, flush_queues and overflowing callers interleave, an event is
\* in one place at most: no two threads ever work on it, and it never stands in
\* two queues, as when it was put back and written out as well.  One that was
\* accepted is in one place, unless a filter dropped it or it was let go where the
\* code does so: at a full queue, in flush_queues, at a copy that raised.
OneFateEach ==
    \A e \in Event :
        /\ Cardinality(Positions(e)) <= 1
        /\ answer[e] = "accepted" =>
            (Positions(e) = {}) <=> (e \in dropped \/ lost[e] # "no")

\* The breaker leaves "closed" only when as many failures as it asks for were
\* recorded, however many threads record at once.
OpensWithReason == circuit # "closed" => raised >= Threshold

Underway(e) ==
    \/ \E w \in Worker : hand[w] = e
    \/ e \in ToSet(queue["input"].line) \cup ToSet(queue["retry"].line)

\* While the processor is not paused for good, and enqueue does not wait for ever
\* at a topic's full queue, no event stays in the input queue, in the retry queue
\* or in a worker's hands for ever.
EveryEventEnds ==
    <>[](running /\ \A q \in QueueName : ~queue[q].held)
        => \A e \in Event : Underway(e) ~> ~Underway(e)
=============================================================================

-------------------------- MODULE ModelUpdateQueue --------------------------
(***************************************************************************)
(* ThreadSafeModelUpdateQueue of fireai/mcp_server/thread_safe_queue.py:   *)
(* clients on any thread enqueue updates of the Revit model and wait for   *)
(* their results, one bridge on the Revit UI thread dequeues and reports,  *)
(* and results are cleaned up by age.                                      *)
(*                                                                         *)
(* Every action has a client of its own, which submits it once.  An entry  *)
(* of _results and the Event of _results_events come and go together, so   *)
(* that results tells whether there is one.  The bridge is not part of the *)
(* source: it is modelled as the docstrings of dequeue and report_result   *)
(* ask it to behave.                                                       *)
(***************************************************************************)
EXTENDS Heapq, FiniteSets, SequencesExt

CONSTANTS
    Actions,     \* the actions' ids, each also standing for its client
    Priorities,  \* the assignments of priorities to actions that are considered
    Outcomes,    \* the statuses the bridge reports
    MaxSize,     \* max_size of the queue
    Nothing,     \* the bridge holds no action
    MaxWaits     \* bound: calls of wait_for_result per client

ASSUME MaxSizeAssumption == MaxSize \in Nat \ {0}   \* 0 would mean unbounded
ASSUME PrioritiesAssumption == Priorities \subseteq [Actions -> Nat]
ASSUME OutcomesAssumption == Outcomes \subseteq {"completed", "failed", "rejected"}
ASSUME NothingAssumption == Nothing \notin Actions

VARIABLES
    prio,      \* the priority of each action
    heap,      \* _queue, the list of the PriorityQueue
    results,   \* _results: the status of each action, or "absent"
    event,     \* whether the Event of each action has been set
    logged,    \* the actions of _action_log; their order is left out
    stats,     \* _stats
    stage,     \* where each client is
    told,      \* what its last call told each client
    waits,     \* calls of wait_for_result each client has made
    hand,      \* the action the bridge is executing
    reported   \* the reports made, in order

vars == <<prio, heap, results, event, logged, stats, stage, told, waits, hand, reported>>
bridge == <<hand, reported>>
books == <<logged, stats>>

Init == /\ prio \in Priorities
        /\ heap = <<>>
        /\ results = [a \in Actions |-> "absent"]
        /\ event = [a \in Actions |-> FALSE]
        /\ logged = {}
        /\ stats = [c \in Outcomes \cup {"enqueued"} |-> 0]
        /\ stage = [a \in Actions |-> "new"]
        /\ told = [a \in Actions |-> "none"]
        /\ waits = [a \in Actions |-> 0]
        /\ hand = Nothing
        /\ reported = <<>>

Goto(a, s) == stage' = [stage EXCEPT ![a] = s]
Tell(a, s) == told' = [told EXCEPT ![a] = s]

-----------------------------------------------------------------------------
(* enqueue                                                                 *)

\* The placeholder and its Event, before there is room in the queue.  A call with a
\* field missing has left with ValueError by now, and changed nothing.
Place(a) ==
    /\ stage[a] = "new"
    /\ results' = [results EXCEPT ![a] = "pending"]
    /\ Goto(a, "put")
    /\ UNCHANGED <<prio, heap, event, books, told, waits, bridge>>

\* Mutated form of Put: insertion order.
PutLast(a) ==
    /\ stage[a] = "put"
    /\ Len(heap) < MaxSize
    /\ heap' = Append(heap, a)
    /\ Goto(a, "log")
    /\ UNCHANGED <<prio, results, event, books, told, waits, bridge>>

\* Mutated form of Put: a full queue is overwritten.
PutOver(a) ==
    /\ stage[a] = "put"
    /\ heap' = IF Len(heap) < MaxSize THEN Push(prio, heap, a).heap
               ELSE Rise(prio, [heap EXCEPT ![Len(heap)] = a], Len(heap)).heap
    /\ Goto(a, "log")
    /\ UNCHANGED <<prio, results, event, books, told, waits, bridge>>

\* _queue.put with block=True: waits for room, then pushes.  A TypeError of the
\* comparison leaves enqueue, with the action in the list.
Put(a) ==
    LET push == Push(prio, heap, a) IN
    /\ stage[a] = "put"
    /\ Len(heap) < MaxSize
    /\ heap' = push.heap
    /\ IF push.raised THEN Goto(a, "refused") /\ Tell(a, "raised")
       ELSE Goto(a, "log") /\ UNCHANGED told
    /\ UNCHANGED <<prio, results, event, books, waits, bridge>>

\* queue.Full after five seconds without room; the placeholder stays.
PutTimeout(a) ==
    /\ stage[a] = "put"
    /\ Len(heap) = MaxSize
    /\ Goto(a, "refused")
    /\ Tell(a, "full")
    /\ UNCHANGED <<prio, heap, results, event, books, waits, bridge>>

LogAction(a) ==
    /\ stage[a] = "log"
    /\ logged' = logged \cup {a}
    /\ Goto(a, "count")
    /\ UNCHANGED <<prio, heap, results, event, stats, told, waits, bridge>>

Count(a) ==
    /\ stage[a] = "count"
    /\ stats' = [stats EXCEPT !["enqueued"] = @ + 1]
    /\ Goto(a, "idle")
    /\ Tell(a, "queued")
    /\ UNCHANGED <<prio, heap, results, event, logged, waits, bridge>>

-----------------------------------------------------------------------------
(* wait_for_result                                                         *)

\* The Event is looked up under the lock; without one the id is unknown.
Wait(a) ==
    /\ stage[a] = "idle"
    /\ waits[a] < MaxWaits
    /\ waits' = [waits EXCEPT ![a] = @ + 1]
    /\ IF results[a] = "absent" THEN Tell(a, "unknown") /\ UNCHANGED stage
       ELSE Goto(a, "wait") /\ UNCHANGED told
    /\ UNCHANGED <<prio, heap, results, event, books, bridge>>

\* event.wait returns because the Event is set ...
Wake(a) ==
    /\ stage[a] = "wait"
    /\ event[a]
    /\ Goto(a, "fetch")
    /\ UNCHANGED <<prio, heap, results, event, books, told, waits, bridge>>

\* ... or because the timeout has passed: the caller is told FAILED, the action
\* stays where it is.
WaitTimeout(a) ==
    /\ stage[a] = "wait"
    /\ ~event[a]
    /\ Goto(a, "idle")
    /\ Tell(a, "timeout")
    /\ UNCHANGED <<prio, heap, results, event, books, waits, bridge>>

\* The result is fetched in a lock section of its own; a result that was cleaned
\* up since is reported as FAILED too.
Fetch(a) ==
    /\ stage[a] = "fetch"
    /\ Goto(a, "idle")
    /\ Tell(a, IF results[a] = "absent" THEN "missing" ELSE results[a])
    /\ UNCHANGED <<prio, heap, results, event, books, waits, bridge>>

-----------------------------------------------------------------------------
(* The bridge on the Revit UI thread, and the cleanup.                     *)

\* _queue.get: a TypeError of the comparison leaves dequeue and the action that
\* was to be returned is in nobody's hands.
Dequeue ==
    LET pop == Pop(prio, heap) IN
    /\ hand = Nothing
    /\ heap # <<>>
    /\ heap' = pop.heap
    /\ hand' = IF pop.raised THEN Nothing ELSE heap[1]
    /\ UNCHANGED <<prio, results, event, books, stage, told, waits, reported>>

\* report_result; the counters follow in a lock section of their own, but only
\* the bridge writes them.
Report(s) ==
    /\ hand # Nothing
    /\ results' = [results EXCEPT ![hand] = s]
    /\ event' = [event EXCEPT ![hand] = TRUE]
    /\ stats' = [stats EXCEPT ![s] = @ + 1]
    /\ reported' = Append(reported, [action |-> hand, status |-> s])
    /\ hand' = Nothing
    /\ UNCHANGED <<prio, heap, logged, stage, told, waits>>

\* The results completed before the cutoff: the first n reports.
Old(n) == {reported[i].action : i \in 1 .. n}

\* Mutated form of Cleanup: what is not terminal is removed with the rest.
CleanupAll(n) ==
    /\ results' = [a \in Actions |-> IF a \in Old(n) \/ results[a] = "pending"
                                     THEN "absent" ELSE results[a]]
    /\ UNCHANGED <<prio, heap, event, books, stage, told, waits, bridge>>

\* cleanup_old_results, with any cutoff.
Cleanup(n) ==
    /\ \E a \in Old(n) : results[a] # "absent"
    /\ results' = [a \in Actions |-> IF a \in Old(n) THEN "absent" ELSE results[a]]
    /\ UNCHANGED <<prio, heap, event, books, stage, told, waits, bridge>>

-----------------------------------------------------------------------------
Call(a) == \/ Put(a) \/ PutTimeout(a) \/ LogAction(a) \/ Count(a)
           \/ Wake(a) \/ WaitTimeout(a) \/ Fetch(a)

Next == \/ \E a \in Actions : Place(a) \/ Wait(a) \/ Call(a)
        \/ Dequeue
        \/ \E s \in Outcomes : Report(s)
        \/ \E n \in 1 .. Len(reported) : Cleanup(n)

Spec == Init /\ [][Next]_vars

-----------------------------------------------------------------------------
(* Properties.                                                             *)

Accepted(a) == stage[a] \in {"log", "count", "idle", "wait", "fetch"}
IsReported(a) == \E i \in 1 .. Len(reported) : reported[i].action = a
Distinct == IsInjective(prio)

\* What a client is told is so: a status is the one the bridge reported for its
\* action, "unknown" and "missing" are only said of an action that was executed
\* and whose result was cleaned up, "full" only of one that never ran.  (After a
\* timeout anything may be true.)
AnswerIsTrue ==
    \A a \in Actions :
        /\ told[a] \in Outcomes => [action |-> a, status |-> told[a]] \in ToSet(reported)
        /\ told[a] \in {"unknown", "missing"} => IsReported(a)
        /\ told[a] = "full" => ~IsReported(a) /\ a \notin ToSet(heap) /\ a # hand

\* An action is at no time in two of the places, waiting, being executed and
\* reported, nor in one of them twice, whatever comparisons raise; and while no two
\* priorities are equal, an action that was accepted is in one of them, through
\* timeouts, full queues and cleanups.
Places(a) ==
    Cardinality({i \in 1 .. Len(heap) : heap[i] = a})
        + Cardinality({i \in 1 .. Len(reported) : reported[i].action = a})
        + (IF hand = a THEN 1 ELSE 0)

NothingLost ==
    \A a \in Actions : Places(a) <= 1 /\ (Distinct /\ Accepted(a) => Places(a) = 1)

\* The bridge is handed each action at most once, and never one while a more urgent
\* one waits: the list of heapq, the clients' timeouts and the cleanups are a
\* realisation of ActionQueue.
Queue == INSTANCE ActionQueue WITH
             given <- {a \in Actions : stage[a] \notin {"new", "put"} /\ told[a] # "full"},
             waiting <- ToSet(heap),
             done <- {reported[i].action : i \in 1 .. Len(reported)}

RefinesActionQueue == Queue!Spec
=============================================================================

----------------------------- MODULE DigitalTwin -----------------------------
(***************************************************************************)
(* fireai/core/digital_twin.py, class DigitalTwin, called by several       *)
(* threads.  A mutating call changes the detector map in one section under *)
(* self._lock; it then appends to the twin's own event log in a second     *)
(* section, publishes on the EventBus with no lock held, and last writes   *)
(* the audit store, whose failures are swallowed.  Between these four      *)
(* steps the other threads run.                                            *)
(*                                                                         *)
(* DetectorState objects are modelled with their identity (an index into   *)
(* heap): get_detector and the report functions hand the live object out,  *)
(* so who holds which object matters to the modules that extend this one.  *)
(***************************************************************************)
EXTENDS Naturals, Sequences, FiniteSets, DetectorStatus

CONSTANTS
    Threads,     \* the threads that call the twin
    Detectors,   \* detector ids
    Rooms,       \* room ids
    Entry,       \* statuses passed to register_detector
    Forces,      \* values of force the clients pass to update_detector_status
    Verifieds,   \* whether they pass a non-empty verified_by
    LogCap,      \* maxlen of the _events deque (10 000 in the code)
    MaxOps       \* bound: mutating calls in one behaviour

ASSUME LogCapAssumption == LogCap \in Nat \ {0}
ASSUME FlagsAssumption == Forces \subseteq BOOLEAN /\ Verifieds \subseteq BOOLEAN
ASSUME MaxOpsAssumption == MaxOps \in Nat

ASSUME EntryAssumption == Entry \subseteq Status

NoObject == 0   \* a detector id that is not a key of _detectors

VARIABLES
    heap,        \* every DetectorState ever created, in creation order
    detectors,   \* _detectors: detector id -> index into heap, or NoObject
    roomIds,     \* _room_ids
    ops,         \* history: the mutations in the order the lock serialised them
    events,      \* _events: indices into ops; 0 in a log stands for a report's entry
    bus,         \* indices into ops in the order they reached EventBus.publish
    audit,       \* indices into ops in the order they reached the audit store
    pc,          \* where each thread is in its call
    cur          \* the op whose emission the thread is busy with, 0 if none

store == <<heap, detectors, roomIds, ops>>
sinks == <<events, bus, audit>>
twinVars == <<heap, detectors, roomIds, ops, events, bus, audit, pc, cur>>

Object == [det : Detectors, room : Rooms, status : Status,
           installed : BOOLEAN,   \* installed_at is set
           verified : BOOLEAN]    \* last_verified_at is set

Op == [thread : Threads, kind : {"registered", "status_changed", "removed"},
       obj : Nat \ {0}, old : Status, new : Status, forced : BOOLEAN]

TwinInit ==
    /\ heap = <<>>
    /\ detectors = [d \in Detectors |-> NoObject]
    /\ roomIds = {}
    /\ ops = <<>>
    /\ events = <<>>
    /\ bus = <<>>
    /\ audit = <<>>
    /\ pc = [t \in Threads |-> "idle"]
    /\ cur = [t \in Threads |-> 0]

-----------------------------------------------------------------------------
(* The lock sections of the three mutating calls.                          *)

\* Leave the lock section having made the change op; its emission comes next.
Commit(t, op) ==
    /\ pc[t] = "idle"
    /\ Len(ops) < MaxOps
    /\ ops' = Append(ops, op)
    /\ cur' = [cur EXCEPT ![t] = Len(ops) + 1]
    /\ pc' = [pc EXCEPT ![t] = "record"]
    /\ UNCHANGED sinks

\* Mutated form of Register: a known id is silently replaced.
RegisterReplaces(t, d, r, s) ==
    /\ heap' = Append(heap, [det |-> d, room |-> r, status |-> s,
                             installed |-> FALSE, verified |-> FALSE])
    /\ detectors' = [detectors EXCEPT ![d] = Len(heap) + 1]
    /\ roomIds' = roomIds \cup {r}
    /\ Commit(t, [thread |-> t, kind |-> "registered", obj |-> Len(heap) + 1,
                  old |-> s, new |-> s, forced |-> FALSE])

\* register_detector; "already registered" raises and changes nothing.
Register(t, d, r, s) ==
    /\ detectors[d] = NoObject
    /\ heap' = Append(heap, [det |-> d, room |-> r, status |-> s,
                             installed |-> FALSE, verified |-> FALSE])
    /\ detectors' = [detectors EXCEPT ![d] = Len(heap) + 1]
    /\ roomIds' = roomIds \cup {r}
    /\ Commit(t, [thread |-> t, kind |-> "registered", obj |-> Len(heap) + 1,
                  old |-> s, new |-> s, forced |-> FALSE])

\* validate_status_transition, skipped under force
Allowed(old, new, force) == force \/ new \in Legal[old]

\* The assignments update_detector_status makes to the object.
Updated(obj, s, verified) ==
    [det |-> obj.det, room |-> obj.room, status |-> s,
     installed |-> (obj.installed \/ s = "ok"), verified |-> (obj.verified \/ verified)]

\* Mutated form of UpdateStatus: old_status is read after the assignment.
UpdateReadsLate(t, d, s, verified, force) ==
    LET o == detectors[d] IN
    /\ o # NoObject
    /\ Allowed(heap[o].status, s, force)
    /\ heap' = [heap EXCEPT ![o] = Updated(@, s, verified)]
    /\ Commit(t, [thread |-> t, kind |-> "status_changed", obj |-> o,
                  old |-> s, new |-> s, forced |-> force])
    /\ UNCHANGED <<detectors, roomIds>>

\* update_detector_status; verified stands for a non-empty verified_by.
UpdateStatus(t, d, s, verified, force) ==
    LET o == detectors[d] IN
    /\ o # NoObject
    /\ Allowed(heap[o].status, s, force)
    /\ heap' = [heap EXCEPT ![o] = Updated(@, s, verified)]
    /\ Commit(t, [thread |-> t, kind |-> "status_changed", obj |-> o,
                  old |-> heap[o].status, new |-> s, forced |-> force])
    /\ UNCHANGED <<detectors, roomIds>>

\* remove_detector: the object leaves the map, its room stays in _room_ids.
Remove(t, d) ==
    LET o == detectors[d] IN
    /\ o # NoObject
    /\ detectors' = [detectors EXCEPT ![d] = NoObject]
    /\ Commit(t, [thread |-> t, kind |-> "removed", obj |-> o,
                  old |-> heap[o].status, new |-> heap[o].status,
                  forced |-> FALSE])
    /\ UNCHANGED <<heap, roomIds>>

-----------------------------------------------------------------------------
(* What every mutating call does after it released the lock.               *)

\* Mutated form of Push: entries go in at the old end, and a full log takes no more.
PushLeft(log, e) == IF Len(log) < LogCap THEN <<e>> \o log ELSE log

\* collections.deque(maxlen=LogCap).append
Push(log, e) == IF Len(log) < LogCap THEN Append(log, e)
                                     ELSE Append(Tail(log), e)

\* Mutated form of Record: the publication is skipped.
RecordOnly(t) ==
    /\ pc[t] = "record"
    /\ events' = Push(events, cur[t])
    /\ pc' = [pc EXCEPT ![t] = "audit"]
    /\ UNCHANGED <<store, bus, audit, cur>>

\* _record_event: a lock section of its own
Record(t) ==
    /\ pc[t] = "record"
    /\ events' = Push(events, cur[t])
    /\ pc' = [pc EXCEPT ![t] = "publish"]
    /\ UNCHANGED <<store, bus, audit, cur>>

Publish(t) ==
    /\ pc[t] = "publish"
    /\ bus' = Append(bus, cur[t])
    /\ pc' = [pc EXCEPT ![t] = "audit"]
    /\ UNCHANGED <<store, events, audit, cur>>

\* _audit_log: an exception of the audit store is caught and forgotten.
Audit(t) ==
    /\ pc[t] = "audit"
    /\ audit' \in {audit, Append(audit, cur[t])}
    /\ pc' = [pc EXCEPT ![t] = "idle"]
    /\ cur' = [cur EXCEPT ![t] = 0]
    /\ UNCHANGED <<store, events, bus>>

Emit(t) == Record(t) \/ Publish(t) \/ Audit(t)

\* A call made directly by a client of the twin.
ClientCall(t) ==
    \E d \in Detectors :
        \/ \E r \in Rooms, s \in Entry : Register(t, d, r, s)
        \/ \E s \in Status, v \in Verifieds, f \in Forces : UpdateStatus(t, d, s, v, f)
        \/ Remove(t, d)

TwinNext == \E t \in Threads : ClientCall(t) \/ Emit(t)

TwinSpec == /\ TwinInit
            /\ [][TwinNext]_twinVars
            /\ \A t \in Threads : WF_twinVars(Emit(t))

-----------------------------------------------------------------------------
(* Properties.                                                             *)

\* Every variable keeps its shape; a log only names calls that were made.
TypeOK ==
    /\ heap \in Seq(Object)
    /\ detectors \in [Detectors -> 0 .. Len(heap)]
    /\ roomIds \in SUBSET Rooms
    /\ ops \in Seq(Op)
    /\ events \in Seq(0 .. Len(ops))
    /\ bus \in Seq(0 .. Len(ops))
    /\ audit \in Seq(0 .. Len(ops))
    /\ pc \in [Threads -> {"idle", "record", "publish", "audit"}]
    /\ cur \in [Threads -> 0 .. Len(ops)]

\* The ops on one object form an unbroken chain: each change was decided on
\* exactly the status the previous change left, and the object holds the status
\* the last one left.  The read of old_status, the legality check and the
\* assignment of update_detector_status are one lock section; with the check
\* outside it two threads could both act on the same old status.
LastOf(log, o, n) == {i \in 1 .. n : /\ log[i].obj = o
                                     /\ \A j \in i + 1 .. n : log[j].obj # o}
LastOpOn(o, n) == LastOf(ops, o, n)

NoLostUpdate ==
    /\ \A n \in 1 .. Len(ops) :
          ops[n].kind # "registered" =>
              \E i \in LastOpOn(ops[n].obj, n - 1) : /\ ops[i].new = ops[n].old
                                                    /\ ops[i].kind # "removed"
    /\ \A o \in 1 .. Len(heap) :
          \E i \in LastOpOn(o, Len(ops)) : heap[o].status = ops[i].new

\* Dead is dead: the object of a decommissioned detector never takes another
\* status, unless a caller forced it in that very step.
DeadIsDead ==
    [][\A o \in 1 .. Len(heap) :
          heap[o].status = "decommissioned" =>
              \/ heap'[o].status = "decommissioned"
              \/ /\ Len(ops') > Len(ops)
                 /\ ops'[Len(ops')].obj = o
                 /\ ops'[Len(ops')].forced]_twinVars

\* An object that left the map is frozen: no thread that looked the detector up
\* before the removal can still change the object a reader holds.
RemovedIsFrozen ==
    [][\A o \in 1 .. Len(heap) :
          (\A d \in Detectors : detectors[d] # o) =>
              heap'[o] = heap[o] /\ \A d \in Detectors : detectors'[d] # o]_twinVars

Count(log, i) == Cardinality({k \in 1 .. Len(log) : log[k] = i})

\* Each log has the ops of one thread in the order the lock serialised them;
\* only the ops of different threads may be swapped.
InThreadOrder ==
    \A log \in {events, bus, audit} : \A j \in 1 .. Len(log), k \in 1 .. Len(log) :
        (j < k /\ log[j] # 0 /\ log[k] # 0
               /\ ops[log[j]].thread = ops[log[k]].thread) => log[j] < log[k]

OpsOf(d) == {i \in 1 .. Len(ops) : heap[ops[i].obj].det = d}

Current(d) == IF detectors[d] = NoObject THEN "absent" ELSE heap[detectors[d]].status

\* Every mutation is announced in the end, whatever the other threads do.
EveryOpAnnounced ==
    \A i \in 1 .. MaxOps : (Len(ops) >= i) ~> (Count(bus, i) = 1)

\* The twin implements the abstract lifecycle: seen through the map, a status
\* changes only by entry, a legal transition, a declared bypass or removal.
Lifecycle == INSTANCE DetectorLifecycle WITH
    life <- [d \in Detectors |-> Current(d)],
    bypasses <- Cardinality({i \in 1 .. Len(ops) : ops[i].forced})

ImplementsLifecycle == Lifecycle!LifeSpec
=============================================================================

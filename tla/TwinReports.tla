----------------------------- MODULE TwinReports -----------------------------
(***************************************************************************)
(* The calls that read the whole twin while other threads change it:       *)
(* health_report and detect_drift and capture_snapshot of DigitalTwin, and *)
(* validate_coverage of DigitalTwinSync.  Each copies the detector map     *)
(* under the lock, which copies references: the statuses are then read     *)
(* from the live DetectorState objects, one at a time, without the lock.   *)
(***************************************************************************)
EXTENDS DigitalTwin

CONSTANTS
    Reporters,   \* the threads that produce reports, each one report
    Calls        \* the reports they may ask for

ASSUME ReportersAssumption == Reporters \cap Threads = {}
ASSUME CallsAssumption == Calls \subseteq {"health", "coverage", "drift", "snapshot"}

VARIABLES
    rep,      \* the report each reporter is producing
    drifts    \* _drift_records: the objects the records are about

reportVars == <<twinVars, rep, drifts>>

\* The passes health_report makes over the copied objects, in program order: one
\* count per status, then the rooms that have an OK detector.
HealthPasses == <<"ok", "planned", "fault", "offline", "decommissioned", "rooms">>

\* What is left of a call once its result is computed, in program order.
Rest == [health   |-> <<"record", "audit", "done">>,
         coverage |-> <<"publish", "audit", "done">>,
         drift    |-> <<"publish", "audit", "done">>,
         snapshot |-> <<"record", "publish", "audit", "done">>]

NoReport == [call |-> "none", stage |-> "none", step |-> 1,
             start |-> 0, stop |-> 0,          \* history: ops before and after
             objs |-> {}, rooms |-> {},        \* the copies
             left |-> {}, scan |-> {},         \* objects still to be read
             tally |-> [s \in Status |-> 0],
             okRooms |-> {}, plannedRooms |-> {},
             found |-> <<>>, unresolved |-> 0, counted |-> 0]

ReportInit == /\ TwinInit
              /\ rep = [t \in Reporters |-> NoReport]
              /\ drifts = <<>>

InMap == {o \in 1 .. Len(heap) : \E d \in Detectors : detectors[d] = o}
Having(S, s) == {o \in S : heap[o].status = s}

\* dict order is insertion order, hence ascending in heap
First(S) == CHOOSE o \in S : \A p \in S : o <= p

\* Reporter t is reading for this call.
Reading(t, call) == rep[t].call = call /\ rep[t].stage = "read"

ReadOnly == UNCHANGED <<twinVars, drifts>>

\* Mutated form of Begin: removed detectors are reported on as well.
BeginWithRemoved(t, call) ==
    /\ rep[t].stage = "none"
    /\ rep' = [rep EXCEPT ![t] =
                 [@ EXCEPT !.call = call, !.stage = "read", !.start = Len(ops),
                           !.objs = 1 .. Len(heap), !.left = 1 .. Len(heap),
                           !.rooms = IF call = "coverage" THEN roomIds ELSE {},
                           !.unresolved = Len(drifts)]]
    /\ ReadOnly

\* The copies made in the first lock section.  compute_checksum reads the
\* statuses in that section, the other calls read them later.
Begin(t, call) ==
    /\ rep[t].stage = "none"
    /\ rep' = [rep EXCEPT ![t] =
                 [@ EXCEPT !.call = call, !.stage = "read", !.start = Len(ops),
                           !.objs = InMap, !.left = InMap,
                           !.rooms = IF call = "coverage" THEN roomIds ELSE {},
                           !.unresolved = Len(drifts)]]
    /\ ReadOnly

\* The result is computed: the rest of the call announces it.
Finish(t, changed) ==
    rep' = [rep EXCEPT ![t] = [changed EXCEPT !.stage = Rest[changed.call][1],
                                              !.stop = Len(ops)]]

-----------------------------------------------------------------------------
(* health_report                                                           *)

\* One d.status read of one pass.
HealthRead(t) ==
    /\ Reading(t, "health") /\ rep[t].left # {}
    /\ LET o == First(rep[t].left)
           p == HealthPasses[rep[t].step]
       IN  rep' = [rep EXCEPT
             ![t].left = @ \ {o},
             ![t].tally = [s \in Status |-> IF p = s /\ heap[o].status = s
                                            THEN @[s] + 1 ELSE @[s]],
             ![t].okRooms = IF p = "rooms" /\ heap[o].status = "ok"
                            THEN @ \cup {heap[o].room} ELSE @]
    /\ ReadOnly

\* The next pass; before the last one _room_ids is copied under the lock.
HealthPass(t) ==
    /\ Reading(t, "health") /\ rep[t].left = {} /\ rep[t].step < Len(HealthPasses)
    /\ rep' = [rep EXCEPT
                 ![t].step = @ + 1,
                 ![t].left = rep[t].objs,
                 ![t].rooms = IF HealthPasses[rep[t].step + 1] = "rooms" THEN roomIds ELSE @]
    /\ ReadOnly

HealthDone(t) ==
    /\ Reading(t, "health") /\ rep[t].left = {} /\ rep[t].step = Len(HealthPasses)
    /\ Finish(t, [rep[t] EXCEPT !.step = 1])
    /\ ReadOnly

-----------------------------------------------------------------------------
(* validate_coverage                                                       *)

Room(t) == heap[First(rep[t].left)].room
RoomDets(t) == {o \in rep[t].left : heap[o].room = Room(t)}

\* Mutated form of CoverageRead: a PLANNED detector counts as coverage.
CoverageReadPlanned(t) ==
    /\ Reading(t, "coverage") /\ rep[t].scan # {}
    /\ LET o == First(rep[t].scan)
           hit == heap[o].status \in {"ok", "planned"}
       IN  rep' = [rep EXCEPT
             ![t].scan = IF hit THEN {} ELSE @ \ {o},
             ![t].okRooms = IF hit /\ rep[t].step = 2 THEN @ \cup {Room(t)} ELSE @]
    /\ ReadOnly

\* any(d.status == OK for d in dets), or any(... PLANNED ...): step 1 starts the
\* scan of a room, 2 looks for OK, 3 for PLANNED; a scan stops at its first hit.
CoverageRead(t) ==
    /\ Reading(t, "coverage") /\ rep[t].scan # {}
    /\ LET o == First(rep[t].scan)
           hit == heap[o].status = (IF rep[t].step = 2 THEN "ok" ELSE "planned")
       IN  rep' = [rep EXCEPT
             ![t].scan = IF hit THEN {} ELSE @ \ {o},
             ![t].okRooms = IF hit /\ rep[t].step = 2 THEN @ \cup {Room(t)} ELSE @,
             ![t].plannedRooms = IF hit /\ rep[t].step = 3 /\ Room(t) \notin rep[t].okRooms
                                 THEN @ \cup {Room(t)} ELSE @]
    /\ ReadOnly

CoverageScan(t) ==
    /\ Reading(t, "coverage") /\ rep[t].scan = {} /\ rep[t].left # {}
    /\ rep' = [rep EXCEPT
                 ![t].step = IF rep[t].step = 3 THEN 1 ELSE @ + 1,
                 ![t].scan = IF rep[t].step = 3 THEN {} ELSE RoomDets(t),
                 ![t].left = IF rep[t].step = 3 THEN @ \ RoomDets(t) ELSE @]
    /\ ReadOnly

CoverageDone(t) ==
    /\ Reading(t, "coverage") /\ rep[t].left = {}
    /\ Finish(t, rep[t])
    /\ ReadOnly

\* rooms_without_coverage (rooms_without_ok in health_report) and is_valid
Gaps(r) == r.rooms \ r.okRooms

-----------------------------------------------------------------------------
(* detect_drift and capture_snapshot                                       *)

\* Mutated form of DriftRead: whatever is not OK counts as never installed.
DriftReadNotOk(t) ==
    /\ Reading(t, "drift") /\ rep[t].left # {}
    /\ LET o == First(rep[t].left) IN
       rep' = [rep EXCEPT
                 ![t].left = @ \ {o},
                 ![t].found = IF heap[o].status # "ok" THEN Append(@, o) ELSE @]
    /\ ReadOnly

\* TwinDriftAnalyzer.analyze reads each status; a position never drifts here,
\* because no call of the twin assigns x, y or z.
DriftRead(t) ==
    /\ Reading(t, "drift") /\ rep[t].left # {}
    /\ LET o == First(rep[t].left) IN
       rep' = [rep EXCEPT
                 ![t].left = @ \ {o},
                 ![t].found = IF heap[o].status = "planned" THEN Append(@, o) ELSE @]
    /\ ReadOnly

\* Without a drift the call is over; with one the records are kept for good.
DriftDone(t) ==
    /\ Reading(t, "drift") /\ rep[t].left = {}
    /\ IF rep[t].found = <<>>
       THEN rep' = [rep EXCEPT ![t].stage = "done", ![t].stop = Len(ops)]
       ELSE Finish(t, rep[t])
    /\ drifts' = drifts \o rep[t].found
    /\ UNCHANGED twinVars

\* The event's detector_count and active_count are read after the checksum, the
\* first without the lock, the second in a lock section of its own.
SnapshotCount(t) ==
    /\ Reading(t, "snapshot") /\ rep[t].step = 1
    /\ rep' = [rep EXCEPT ![t].step = 2, ![t].counted = Cardinality(InMap)]
    /\ ReadOnly

SnapshotDone(t) ==
    /\ Reading(t, "snapshot") /\ rep[t].step = 2
    /\ Finish(t, [rep[t] EXCEPT !.step = 1,
                                !.tally["ok"] = Cardinality(Having(InMap, "ok"))])
    /\ ReadOnly

-----------------------------------------------------------------------------
(* The end of every report.                                                *)

NextStage(t) ==
    rep' = [rep EXCEPT ![t].step = @ + 1, ![t].stage = Rest[rep[t].call][rep[t].step + 1]]

ReportRecord(t) == /\ rep[t].stage = "record"
                   /\ events' = Push(events, 0)
                   /\ NextStage(t)
                   /\ UNCHANGED <<store, bus, audit, pc, cur, drifts>>

ReportPublish(t) == /\ rep[t].stage = "publish"
                    /\ bus' = Append(bus, 0)
                    /\ NextStage(t)
                    /\ UNCHANGED <<store, events, audit, pc, cur, drifts>>

ReportAudit(t) == /\ rep[t].stage = "audit"
                  /\ audit' \in {audit, Append(audit, 0)}
                  /\ NextStage(t)
                  /\ UNCHANGED <<store, events, bus, pc, cur, drifts>>

Report(t) == \/ HealthRead(t) \/ HealthPass(t) \/ HealthDone(t)
             \/ CoverageRead(t) \/ CoverageScan(t) \/ CoverageDone(t)
             \/ DriftRead(t) \/ DriftDone(t)
             \/ SnapshotCount(t) \/ SnapshotDone(t)
             \/ ReportRecord(t) \/ ReportPublish(t) \/ ReportAudit(t)

ReportNext == \/ TwinNext /\ UNCHANGED <<rep, drifts>>
              \/ \E t \in Reporters : (\E call \in Calls : Begin(t, call)) \/ Report(t)

ReportSpec == ReportInit /\ [][ReportNext]_reportVars

-----------------------------------------------------------------------------
(* Properties.  The history ops tells what every object was at any instant: *)
(* instant n is the time from the n-th mutation to the next.               *)

StatusAt(o, n) == {ops[i].new : i \in LastOpOn(o, n)}
LiveAt(o, n) == \E i \in LastOpOn(o, n) : ops[i].kind # "removed"
KnownAt(r, n) == \E i \in 1 .. n : heap[ops[i].obj].room = r
CoveredAt(r, n) == \E o \in 1 .. Len(heap) :
                      heap[o].room = r /\ LiveAt(o, n) /\ StatusAt(o, n) = {"ok"}

Computed(t) == rep[t].stage \in {"record", "publish", "audit", "done"}
During(t) == rep[t].start .. rep[t].stop
RoomReport(t) == Computed(t) /\ rep[t].call \in {"health", "coverage"}

\* A room that was in the twin when the call began and had no OK detector at any
\* instant of the call is listed as a gap, whatever the other threads did: a
\* PLANNED detector is never taken for coverage, nor is an emptied room forgotten.
NoSilentGap ==
    \A t \in Reporters : RoomReport(t) =>
        \A r \in Rooms :
            /\ KnownAt(r, rep[t].start)
            /\ \A n \in During(t) : ~CoveredAt(r, n)
            => r \in Gaps(rep[t])

\* Nothing is invented: every status a report counts or lists was the status of
\* one of the copied objects at some instant of the call.
ReportsWhatWas ==
    \A t \in Reporters : Computed(t) =>
        LET was(s) == {o \in rep[t].objs : \E n \in During(t) : StatusAt(o, n) = {s}} IN
        /\ rep[t].okRooms \subseteq {heap[o].room : o \in was("ok")}
        /\ rep[t].plannedRooms \subseteq {heap[o].room : o \in was("planned")}
        /\ {rep[t].found[k] : k \in 1 .. Len(rep[t].found)} \subseteq was("planned")
        /\ rep[t].call = "health" =>
              \A s \in Status : rep[t].tally[s] <= Cardinality(was(s))

\* A report during which the twin did not change is exact.
UndisturbedIsExact ==
    \A t \in Reporters : (Computed(t) /\ rep[t].start = rep[t].stop) =>
        LET live == {o \in 1 .. Len(heap) : LiveAt(o, rep[t].start)}
            are(s) == {o \in live : StatusAt(o, rep[t].start) = {s}}
            roomsOf(S) == {heap[o].room : o \in S}
        IN
        /\ rep[t].call = "health" =>
              \A s \in Status : rep[t].tally[s] = Cardinality(are(s))
        /\ RoomReport(t) => rep[t].okRooms = roomsOf(are("ok"))
        /\ rep[t].call = "coverage" =>
              rep[t].plannedRooms = roomsOf(are("planned")) \ roomsOf(are("ok"))
        /\ rep[t].call = "drift" => Len(rep[t].found) = Cardinality(are("planned"))
        /\ rep[t].call = "snapshot" =>
              /\ rep[t].counted = Cardinality(live)
              /\ rep[t].tally["ok"] = Cardinality(are("ok"))

=============================================================================

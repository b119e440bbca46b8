--------------------------- MODULE DigitalTwinSync ---------------------------
(***************************************************************************)
(* fireai/core/digital_twin_sync.py: sync_design_to_twin pushes the design *)
(* model into the twin as PLANNED detectors, sync_as_built_to_twin pushes  *)
(* commissioned detectors as OK.  A sync walks its input with one or more  *)
(* separate twin calls per detector and holds no lock between them, so two *)
(* syncs and direct clients of the twin interleave anywhere.               *)
(***************************************************************************)
EXTENDS DigitalTwin

CONSTANTS
    Syncers,     \* threads that run one sync each
    Inputs,      \* the jobs a syncer may be given, a set of Job
    MaxClientOps \* bound: mutating calls of the other threads

ASSUME SyncersAssumption == Syncers \subseteq Threads

\* One entry of the input list.  flaw "fields" is what the sync's own validation
\* refuses (no id; from a design also no room, unknown type, negative radius),
\* "radius" a radius of 0, which only register_detector refuses, "coord" a
\* coordinate that float() rejects.
Item == [det : Detectors, room : Rooms, verified : BOOLEAN,
         flaw : {"none", "fields", "radius", "coord"}]

Job == [kind : {"design", "asbuilt"}, overwrite : BOOLEAN, items : Seq(Item)]

ASSUME InputsAssumption == Inputs \subseteq Job
ASSUME ClientOpsAssumption == MaxClientOps \in Nat

VARIABLE
    job   \* per syncer: its input, where it is in it, and its SyncResult so far

syncVars == <<twinVars, job>>

NoJob == [kind |-> "none", overwrite |-> FALSE, items |-> <<>>,
          stage |-> "none", seen |-> NoObject,
          synced |-> 0, skipped |-> 0, errors |-> 0,
          start |-> 0,   \* history: ops before the sync began
          input |-> <<>>]   \* history: the whole input list

SyncInit == TwinInit /\ job = [t \in Syncers |-> NoJob]

\* Syncer t is about to execute this stage; a twin call in progress comes first.
At(t, stage) == job[t].stage = stage /\ pc[t] = "idle"

It(t) == Head(job[t].items)

\* The loop body is left with one more outcome: count the entry and take the next.
Outcome(t, count) ==
    job' = [job EXCEPT ![t] =
              [job[t] EXCEPT !.items = Tail(@), !.stage = "next",
                             !.synced = IF count = "synced" THEN @ + 1 ELSE @,
                             !.skipped = IF count = "skipped" THEN @ + 1 ELSE @,
                             !.errors = IF count = "errors" THEN @ + 1 ELSE @]]

Goto(t, stage) == job' = [job EXCEPT ![t].stage = stage]

\* float() is called outside any try: the exception leaves the whole sync.
Abort(t) == Goto(t, "aborted")

StartSync(t) ==
    /\ job[t].stage = "none" /\ pc[t] = "idle"
    /\ \E input \in Inputs :
          job' = [job EXCEPT ![t] =
                    [@ EXCEPT !.kind = input.kind, !.overwrite = input.overwrite,
                              !.items = input.items, !.stage = "next",
                              !.input = input.items, !.start = Len(ops)]]
    /\ UNCHANGED twinVars

\* The SyncResult is built, published and audited under the sync's own names.
EndSync(t) ==
    /\ At(t, "next") /\ job[t].items = <<>>
    /\ Goto(t, "done")
    /\ bus' = Append(bus, 0)
    /\ audit' \in {audit, Append(audit, 0)}
    /\ UNCHANGED <<store, events, pc, cur>>

\* The checks at the head of both loops, up to the look-up get_detector.
Lookup(t) ==
    /\ At(t, "next") /\ job[t].items # <<>>
    /\ CASE It(t).flaw = "fields" -> Outcome(t, "errors")
         [] It(t).flaw = "coord" /\ job[t].kind = "design" -> Abort(t)
         [] OTHER -> job' = [job EXCEPT ![t] = [@ EXCEPT !.seen = detectors[It(t).det],
                                                         !.stage = job[t].kind]]
    /\ UNCHANGED twinVars

-----------------------------------------------------------------------------
(* sync_design_to_twin, after the look-up                                  *)

\* Mutated form of DesignDecide: overwrite=False is not looked at.
DesignDecideOverwrites(t) ==
    /\ At(t, "design")
    /\ IF job[t].seen = NoObject THEN Goto(t, "register") ELSE Goto(t, "remove")
    /\ UNCHANGED twinVars

DesignDecide(t) ==
    /\ At(t, "design")
    /\ CASE job[t].seen = NoObject -> Goto(t, "register")
         [] job[t].seen # NoObject /\ job[t].overwrite -> Goto(t, "remove")
         [] OTHER -> Outcome(t, "skipped")
    /\ UNCHANGED twinVars

DesignRemove(t) ==
    /\ At(t, "remove")
    /\ \/ /\ Remove(t, It(t).det)
          /\ Goto(t, "register")
       \/ /\ detectors[It(t).det] = NoObject      \* KeyError
          /\ Outcome(t, "errors")
          /\ UNCHANGED twinVars

\* The status register_detector is given: always PLANNED from a design sync, OK
\* for a detector the as-built data knows and the twin does not.
EntryStatus(kind) == IF kind = "design" THEN "planned" ELSE "ok"

\* Mutated form of SyncRegister: a refused registration counts as synced.
SyncRegisterCountsAll(t) ==
    /\ At(t, "register")
    /\ \/ /\ It(t).flaw # "radius"
          /\ Register(t, It(t).det, It(t).room, EntryStatus(job[t].kind))
          /\ Outcome(t, "synced")
       \/ /\ It(t).flaw = "radius" \/ detectors[It(t).det] # NoObject
          /\ Outcome(t, "synced")
          /\ UNCHANGED twinVars

\* register_detector in both syncs; an exception becomes an error entry.
SyncRegister(t) ==
    /\ At(t, "register")
    /\ \/ /\ It(t).flaw # "radius"
          /\ Register(t, It(t).det, It(t).room, EntryStatus(job[t].kind))
          /\ Outcome(t, "synced")
       \/ /\ It(t).flaw = "radius" \/ detectors[It(t).det] # NoObject
          /\ Outcome(t, "errors")
          /\ UNCHANGED twinVars

-----------------------------------------------------------------------------
(* sync_as_built_to_twin, after the look-up                                *)

\* Mutated form of AsBuiltIsOk: any installed detector is taken for commissioned.
AsBuiltIsInstalled(t) ==
    /\ At(t, "asbuilt")
    /\ CASE job[t].seen = NoObject -> IF It(t).flaw = "coord" THEN Abort(t)
                                                              ELSE Goto(t, "register")
         [] job[t].seen # NoObject /\ heap[job[t].seen].status # "planned" -> Outcome(t, "skipped")
         [] OTHER -> Goto(t, "isdead")
    /\ UNCHANGED twinVars

\* existing.status is read twice from the live object, without the lock.
AsBuiltIsOk(t) ==
    /\ At(t, "asbuilt")
    /\ CASE job[t].seen = NoObject -> IF It(t).flaw = "coord" THEN Abort(t)
                                                              ELSE Goto(t, "register")
         [] job[t].seen # NoObject /\ heap[job[t].seen].status = "ok" -> Outcome(t, "skipped")
         [] OTHER -> Goto(t, "isdead")
    /\ UNCHANGED twinVars

AsBuiltIsDead(t) ==
    /\ At(t, "isdead")
    /\ IF heap[job[t].seen].status = "decommissioned" THEN Outcome(t, "errors")
                                                      ELSE Goto(t, "commission")
    /\ UNCHANGED twinVars

\* update_detector_status to OK; its KeyError and ValueError become errors.
AsBuiltCommission(t) ==
    LET o == detectors[It(t).det] IN
    /\ At(t, "commission")
    /\ \/ /\ UpdateStatus(t, It(t).det, "ok", It(t).verified, FALSE)
          /\ Outcome(t, "synced")
       \/ /\ o = NoObject \/ (o # NoObject /\ ~Allowed(heap[o].status, "ok", FALSE))
          /\ Outcome(t, "errors")
          /\ UNCHANGED twinVars

SyncStep(t) == \/ Lookup(t) \/ DesignDecide(t) \/ DesignRemove(t) \/ SyncRegister(t)
               \/ AsBuiltIsOk(t) \/ AsBuiltIsDead(t) \/ AsBuiltCommission(t)
               \/ EndSync(t)

\* A direct client of the twin.
BoundedCall(t) ==
    /\ Cardinality({i \in 1 .. Len(ops) : ops[i].thread \notin Syncers}) < MaxClientOps
    /\ ClientCall(t)

SyncNext == \/ \E t \in Syncers : StartSync(t) \/ SyncStep(t)
            \/ \E t \in Threads \ Syncers : BoundedCall(t) /\ UNCHANGED job
            \/ \E t \in Threads : Emit(t) /\ UNCHANGED job

SyncSpec == SyncInit /\ [][SyncNext]_syncVars

-----------------------------------------------------------------------------
(* Properties.                                                             *)

Ended(t) == job[t].stage = "done"

\* The SyncResult tells the truth: each input entry is counted once, and
\* synced_count is the number of registrations and status changes this sync
\* really made, whatever the other threads did to the same detectors meanwhile.
ResultIsTrue ==
    \A t \in Syncers :
        /\ job[t].synced = Cardinality({i \in job[t].start + 1 .. Len(ops) :
                              ops[i].thread = t /\ ops[i].kind # "removed"})
        /\ job[t].synced + job[t].skipped + job[t].errors + Len(job[t].items)
              = Len(job[t].input)

\* A commissioning reported by an as-built sync survives the other sync, unless
\* that one overwrites; clients may of course change the detector again.
Overwriting == {t \in Syncers : job[t].overwrite}

CommissionSurvives ==
    \A i \in 1 .. Len(ops) :
        (ops[i].thread \in Syncers /\ ops[i].new = "ok" /\ ops[i].kind # "removed") =>
            LET d == heap[ops[i].obj].det IN
            \/ Current(d) = "ok"
            \/ \E j \in OpsOf(d) : j > i /\ ops[j].thread \notin Syncers \ Overwriting

\* What an overwriting sync registered is gone when a later entry of its list
\* removes it and is then refused for its radius.
Withdrawn(t, k) ==
    /\ job[t].overwrite
    /\ \E m \in k + 1 .. Len(job[t].input) :
          job[t].input[m].det = job[t].input[k].det /\ job[t].input[m].flaw = "radius"

\* The k-th entry of t's list is served: the detector is in the twin after a
\* design sync, and OK, or known to be dead, after an as-built one.
Served(t, k) ==
    LET d == job[t].input[k].det IN
    job[t].input[k].flaw = "none" =>
        IF job[t].kind = "design" THEN detectors[d] # NoObject \/ Withdrawn(t, k)
                                  ELSE Current(d) \in {"ok", "decommissioned"}

Undisturbed(t) == \A i \in job[t].start + 1 .. Len(ops) : ops[i].thread = t

\* A sync that no other thread disturbed leaves every well-formed entry in the
\* twin, unless its own list withdraws it.
UndisturbedSyncIsComplete ==
    \A t \in Syncers :
        (Ended(t) /\ Undisturbed(t)) => \A k \in 1 .. Len(job[t].input) : Served(t, k)
=============================================================================

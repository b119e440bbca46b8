# TLA+ models of the fire-alarm design platform (BazSpark / FireAI)

This directory holds TLA+ modules of the parts of the repository whose
correctness depends on *order*: threads over shared objects, processes over one
file, a workflow over crashes, a queue between two worlds. Next to the modules
are TLC configurations that explore small instances, and proof modules whose
theorems hold for every value of the constants. `PROJECT.json` maps every
definition to the lines it models. Paths below are relative to `src/`.

## 1. The system

The platform takes a building drawing to an NFPA 72 fire-alarm design, has it
reviewed, keeps a "digital twin" of the installed detectors, and records what
was decided. It is Python (a FastAPI backend and the `fireai` package), with a
React frontend, and C# add-ins in Revit that draw the result.

### 1.1 Components with state and concurrency

**Digital twin** — `fireai/core/digital_twin.py`. State: a map of
`DetectorState` objects, the set of known rooms, an event deque with a maximal
length, drift records, `_lock` (an RLock). Operations: `register_detector`,
`update_detector_status`, `remove_detector`; the reports `health_report`,
`detect_drift`, `capture_snapshot`. Interactions: publishes on the EventBus and
writes the audit store, both outside its lock; hands live objects out to its
callers. Hard: a call is four separate steps (change, own event, bus, audit)
with other threads between them; a report copies the map under the lock and
then reads shared objects without it. Correct when: every change is decided on
the status it replaces, a status moves only along `LEGAL_STATUS_TRANSITIONS`
unless a bypass is declared, each change is announced once, and a report
invents nothing.

**Twin synchronisation** — `fireai/core/digital_twin_sync.py`. State: only the
`SyncResult` under construction. Operations: `sync_design_to_twin`,
`sync_as_built_to_twin`, `validate_coverage`, drift and compliance. It makes
several calls of the twin per entry, each atomic, none together. Hard: a
look-up that is stale at the removal or the registration it decided, an entry
that raises in the middle. Correct when: its result is what it did, an
overwrite leaves no hole, what was commissioned stays so.

**Hash-chained audit store** — `fireai/core/audit_store.py`. State: a SQLite
table behind triggers that refuse UPDATE and DELETE; per process a
`_chain_lock`, a development HMAC key and an ECDSA signer. Operations:
`add_event`, `verify_chain`, the queries. Hard: several worker processes over
one file, lazy key loading with double-checked flags, restarts. Correct when:
each record links to the one before it, none goes unsigned but by a failure of
the signer itself, verification raises no alarm about what the same process
wrote.

**MCP server and its update queue** — `fireai/mcp_server/*.py`. State: a heap
of prioritised updates, a result and an Event per action, a log, counters.
Operations: `enqueue`, `wait_for_result`, `dequeue`, `report_result`, cleanup.
Interactions: the MCP server's handlers produce, Revit's UI thread consumes
(through `named_pipe_client.py` and the C# add-in in `templates/revit_addin`).
Hard: time-outs racing answers, a full queue, cleanup of a result somebody
waits for, heap comparisons. Correct when: what was accepted is executed once,
in order of urgency, and what a caller is told is true.

**Room lifecycle** — `fireai/core/room_lifecycle.py`. State: per room a state
and its history under a lock; a manager's map under another. Operations:
`transition_to`, `register_room`, `reset_room`, the building-wide questions
(`all_certified`, `any_failed`, `any_warnings`, `building_status`). Hard: the
questions read the rooms one by one while they move; reset replaces an object
others still hold. Correct when: the history is a chain of legal moves,
CERTIFIED was reached through VERIFIED, and a building said to be certified is.

**Analysis workflow** — `backend/services/workflow_service.py` with
`backend/routers/workflow.py`. State: a `PipelineState` per workflow, in memory
and in LangGraph's SQLite checkpoints. Operations: `start_workflow` over nine
nodes, `approve_workflow`, `reject_workflow`, `resume_from_checkpoint`. Hard:
conditional edges, an exception in a node, a crash between a node and its
checkpoint, recovery over newer state. Correct when: validation is never
skipped, what is unprotected is never reported as complete, a dangerous design
is reviewed, and every state is explained by its log.

**Delta cache** — `fireai/core/delta_cache.py`. State: an LRU of results by
node and content hash, a dependency graph, results of an earlier session by
room id, a SQLite table. Operations: `get_or_compute`, `invalidate` with its
cascade, `remove_node`, `invalidate_all`, `process_incremental`, `persist` and
loading. The LRU and the graph have a lock each; a result is computed outside
both. Hard: an invalidation that overtakes a result, restarts with a newer
algorithm, what was loaded and never invalidated. Correct when: an answer is
about the content asked for, and what is stale was overtaken and not forgotten.

**Webhooks** — `fireai/infrastructure/webhook_service.py`. State: the
subscriptions, a dead-letter queue of limited length, a delivery history.
Operations: `subscribe`, `unsubscribe`, `publish_event` through a pool of
threads with retries, a common time limit and a synchronous fallback,
`replay_dead_letter`, `clear_dead_letter_queue`. Hard: the time limit racing
deliveries, the fallback beside a pool that half worked, replays that take an
entry out and put it back among others. Correct when: each subscriber an event
was for is served or recorded as not, and no entry is in two places.

**Revit bridge** — `fireai/mcp_server/named_pipe_client.py`, the handlers of
`revit_mcp_server.py`, and `templates/revit_addin/*.cs`. State: the add-in's
action queue, a listener with one pipe instance at a time, Revit's
ExternalEvent. Operations: `send_command`, `ListenLoop`, `EnqueueAction`,
`Execute`, `OnStartup`, `OnShutdown`. Hard: three threads in two processes, a
pipe that breaks anywhere, an event that absorbs a second Raise, Revit closed
or crashed meanwhile. Correct when: what is accepted is begun once and in
order, the client is told what happened, and nothing waits without a reason.

**Retries and self-healing** — `fireai/core/qomn_self_healing_engine.py` and
`core/retry.py`. State: a circuit breaker all threads share: its state, the
time it opened, weighted failures in a sliding window, successes while
half-open. Operations: the check, `record_success`, `record_probe_failure`,
`register_healing_event`, `reset`, the health questions, in the decorator
`self_healing` and the kernel's wrapper. Hard: each is a section of its own, on
a state that was read at the beginning of the call. Correct when: it opens by
its threshold, rests for its cooldown, closes by success, and does close.

**FACP event processor** — `facp_distributed/event_bus/event_processor.py` with
four queues of `message_queue.py`. State: the queues (input, output, retry, dead
letter), each a main queue and one per topic, a circuit breaker with failures by
time stamp, an idempotency store. Operations: `submit_event` and
`submit_facp_request`, worker threads, `flush_queues`, start, pause, resume,
stop. Hard: several workers, those a resume left among them, over the same
queues; bounded queues whose answers nobody reads; a breaker without a lock.
Correct when: an event is in one place, is let go only where the code does so,
and does not go round for ever.

**Distributed FACP**, the rest of `facp_distributed/`: a task scheduler, an
agent registry, a cluster communicator. **Event buses**; **session, cache
and job stores** (the FDS jobs sent to Modal among them); **secret rotation and
websockets**: small shared structures under a lock or over Redis.

### 1.2 Components without

Calculators (`nfpa72_*`, voltage drop, hydraulics, conduit, marine, FACP
sizing), building pipelines that compose them sequentially, parsers (DXF, DWG,
IFC, PDF), the CRUD parts of the backend, the React frontend, the CAD plug-ins.
They compute floating-point geometry or text from their arguments; nothing
interleaves in them, and real arithmetic is nothing a model checker decides.

`PROJECT.json` lists all twenty components with their status, and under
`hazards` what in this code is hard to test, each at its line.

## 2. The plan

| Stage | Modules | Question |
|-------|---------|----------|
| 1 (done) | DetectorStatus, DetectorLifecycle, DigitalTwin | concurrent changes and their announcements; refinement of the lifecycle |
| 1 (done) | TwinReports, DigitalTwinSync (compose DigitalTwin) | reports and syncs over a twin that changes |
| 1 (done) | AuditStore; Heapq, ModelUpdateQueue; RoomLifecycle; AnalysisWorkflow | as above |
| 1 (done) | DigitalTwinProofs, AuditStoreProofs, WorkflowProofs (rooms and workflows) | safety for all constants |
| 2 (done) | DeltaCache, DeltaCacheProofs | is a changed, invalidated or removed node ever answered for from the cache without an explanation |
| 2 (done) | WebhookDelivery, WebhookDeliveryProofs | is every event delivered, dead-lettered or visibly dropped, and not again once it was answered |
| 2 (done) | RevitBridge, ModelUpdateProofs (the bridge) | is every accepted action executed although ExternalEvents coalesce and pipes break |
| 2 (done) | SelfHealing, SelfHealingProofs | does the shared breaker open, rest and close as it says |
| 2 (done) | EventProcessor | where does an event go among bounded queues, retries and an open breaker |
| 2 (done) | more of DigitalTwinProofs and AuditStoreProofs | the refinement, the order of the announcements, the alarms |
| 3 (done) | DigitalTwinProofs (syncs, reports), SelfHealingProofs (the window), EventProcessorProofs | the safety of the reports, of the syncs, of the breakers and of the bounded queues for all constants |
| 3 (done) | ActionQueue, Heapq without recursion, HeapqLoops, ModelUpdateProofs (heapq and the queue) | does the queue hand each action over at most once, the most urgent first, whatever the heap's size |
| 3 | ModelUpdateQueue composed with RevitBridge | a server whose queue is dequeued, should the code come to do that |
| 3 | session and job stores | a status with two writers, should the webhook move to another process than the submission |

The abstract specifications worth stating are the detector lifecycle (stated),
the queue that hands each action over once and the most urgent first (stated),
and a cache that answers as if it recomputed. Runs that showed a single
disagreement each have been given up for those of the modules above; what they
showed is kept as a note in section 4.

## 3. The modules and the code

### DetectorStatus, DetectorLifecycle
The five statuses with `LEGAL_STATUS_TRANSITIONS`, and the abstract
specification: each detector id is absent or has a status that moves along that
table, except when a bypass is declared and counted.

### DigitalTwin
`heap` is every `DetectorState` ever made (identity matters: objects are handed
out), `detectors` the map from ids to them, `roomIds` and `events` the fields
of the same names; `bus` and `audit` are what reached the EventBus and the
audit store. `ops` is a history of the changes in the order the lock gave them.
A mutating call is one action for its lock section (`Register`, `UpdateStatus`,
`Remove`: guards are the refusals of the code), followed by `Record`, `Publish`
and `Audit`; the last may fail, as the code swallows its failures. A call that
is refused changes nothing and is a stutter. Abstracted: positions, metadata
and serialisation. Bounds: `MaxOps` changes; `LogCap` is the deque's length,
small so that it overflows.

### TwinReports (extends DigitalTwin)
Reporters run `health`, `coverage` (`validate_coverage`), `drift` and
`snapshot`. `Begin` copies the map under the lock; from then on each *read* of
an object's status is an action of its own (`HealthRead` and the passes over
the copies, `CoverageRead`, `CoverageScan`, `DriftRead`, `SnapshotCount`),
because the code reads shared, mutable objects without the lock. `rep` holds a
report's progress with the positions in `ops` at which it began and ended; the
properties use them to say what was true *during* the call.

### DigitalTwinSync (extends DigitalTwin)
`job` is a sync under way. Each call of the twin is a step: `Lookup`,
`DesignDecide`, `DesignRemove`, `SyncRegister`, `AsBuiltIsOk`, `AsBuiltIsDead`,
`AsBuiltCommission`. An entry of the input has a flaw: none, `fields` (refused
by the sync's own check), `radius` (refused by `register_detector`), `coord`
(`float()` raises outside any try, which aborts the sync). The guards of the
removal and the registration are the twin's own.

### AuditStore
`log` is the table; per process a lock, a key and a signer. `add_event` is
`CallAdd`, `Acquire`, `ReadLast`, `Hash`, `SignHmac`, `SignEcdsa`/`LoadEcdsa`,
`Insert`, `Leave`; `Raise` is any of these steps failing (a locked or missing
file, details that are not JSON, a refused key, in `verify_chain` after it has
given the lock back). The failures that are swallowed are not among them: a key
that cannot be read (`parses` is FALSE; the signer is then "broken" for good) and
a `sign` that raises (`Sign`'s second disjunct, noted in `refused`) leave a record
without a signature. `verify_chain` is
`CallVerify`, `Acquire`, `Scan`, `Judge`. `Stop` ends a worker anywhere and
replaces it by one without a development key. A hash is a number not used
before; a signature is the fact of being there. SQLite and the `cryptography`
library are modelled from their use.

### ActionQueue, ModelUpdateQueue, Heapq, HeapqLoops
`ActionQueue` is the abstract queue: an action is given to it once, taken once
(`Take`, the most urgent), and finished; `Lose` is the one way out of it when
two priorities are equal. `Heapq` is `heapq`'s sift (the library is external),
with the comparison of two equal priorities raising TypeError, as
`ModelUpdateAction` has no order, and the list left as it is at that moment. A
sift moves one element along a path of the tree: `Upward` and `Downward` are
the paths, as least sets closed under the step of the loop, `Summit` and
`Bottom` are where it stops, `Rise` and `Sunk` the list that results.
`HeapqLoops` has the loops themselves, one exchange after another, and the
assumption LoopsAgree that both come to the same, which TLC evaluates for all
lists of up to six elements and all their priorities of three values (a push
then works on seven places, a whole tree of three levels); the loops are
recursive operators, of which nothing can be proved, so the queue and the
proofs use `Heapq`. `ModelUpdateQueue` has `enqueue` as `Place` (the
placeholder), `Put`/`PutTimeout`, `LogAction`, `Count`, its lock sections in
the order of the code; `wait_for_result` as `Wait`, `Wake`/`WaitTimeout`,
`Fetch`; the bridge as `Dequeue`, `Report`; and `Cleanup`, by age.

### RoomLifecycle
`state` and `trail` of every object, `rooms` the manager's map. `TransitionTo`
is the lock section, `Publish` the announcement after it. A question is `Ask`
(takes the manager's lock), one `ReadRoom` per room, `Answer`; `Decides` is its
early exit. `ResetRoom` and `RegisterRoom` put a new object into the map; old
ones are still reached by those who hold them.

### AnalysisWorkflow
`st[w]` is the state a run carries, `saved` what SQLite has, `stored` what the
service's dictionary has. `RunNode` applies the node's function (`Parsed`,
`Validated`, `Analysed`, `Conflicted`, `Reported`, ...) and takes its `Edge`;
`Validated` folds gates 1 and 2 into the verdict, as the code does;
`Checkpoint` may happen at any later time, as LangGraph writes behind;
`Finish`, `Raise`, `Approve`, `Reject`, `Resume` are the service's operations
and `Crash` loses memory. A drawing is the set of the kinds of its rooms:
sound, malformed (it fails gate 1 or 2), duplicate (it fails gate 5, which nothing
asks about), unknown, failing.

### DeltaCache
`world` is what the callers read, outside the cache; a result is what it was
computed from: own content, contents read, version. `cache` and `older` are the
LRU and its order, `graph`, `loaded`, `db` the dependency graph,
`_loaded_results` and the table. `get_or_compute` is `CallGetOrCompute`, `Link`
per dependency, `LookUp`, `Compute` or `ComputeFails`, `Store`, `Answer`;
`invalidate` is `Collect` under the graph's lock and a `Drop` per node under the
LRU's; `remove_node` drops and then takes the node out of the graph in
`Unlink`; `process_incremental` asks per room in `CheckCache` and `CheckLoaded`
and takes in `Fetch`, `Take` or `TakeFails`, as the code looks twice.
`Persist` writes one row per node, the entry used last; `Restart` loads the
rows of the new session's version into `_loaded_results` and the LRU.

### WebhookDelivery
`subs` and `dlq` are the fields, `pub` a `publish_event` under way, `task` a
delivery with its attempts, `replay` a replay. `Publish` matches the
subscriptions, `Submit`, `AllDone`, `TimeOut`, `Cancel` are the pool and
`as_completed` with its limit, `SubmitFails` and `FallBackTo` the synchronous
way; `Take`, `Delivered`, `AnswerLost`, `AttemptFails`, `DeadLetter` one delivery
with its SSRF check before each attempt. `AnswerLost` is an attempt that the
endpoint accepted although the service never learns it, and tries again (`Retry`).
A delivery may also raise before its first attempt (`Raises`: the payload or the
signature cannot be made); the pool's is only logged (`AllDone`), the fallback's
leaves the call and the subscribers to come (`FallBackRaises`). `ReplayTake`,
`ReplayLook`, `ReplaySucceeds`, `ReplayAnswerLost`, `ReplayFails`, `PutBack` are a
replay. `accepted` and `lost` are histories of what the endpoints took, and of how
much of it was never answered.

### RevitBridge
`client` is a server's or a script's `send_command`, `local` the number of
actions in a server's own queue, `listener` the stage of `ListenLoop`, `queue`,
`raised` and `executing` the add-in and the ExternalEvent. A command is
`Update` (or one of the ways it ends before the pipe: `UpdateRefused`,
`UpdateRaises`, a comparison or the `float()` of a value raising after the action
was enqueued, `Classify`) or `SendDirectly`, then `Connect`, `Write`,
`ReadAnswer`; the add-in does `Listen`, `Read`, `EnqueueAction`, `Raise`,
`Respond`; Revit's thread `Execute` or `ExecuteDiscards`, `ExecuteEnds`.
`RevitEnds` is a close or a crash, anywhere, and takes queue and event along.
The pipe and the ExternalEvent are external.

### SelfHealing
`state`, `openAge`, `events`, `halfOpen` are the breaker's; times are kept as
ages, which stop to grow where they stop to matter. A decorated call is `Enter`
(the check, which also moves OPEN to HALF_OPEN), `Succeed`, `Fail` (records a
failed probe), `RegisterFailure` (the event, in a later section);
`KernelFails` is the kernel's wrapper, which asks nothing before. `Reset`,
`Health`, `Tick` are the operator, the monitor and the time.

### EventProcessor
`queue` is per MessageQueue its main queue, ordered by priority, the length of
each topic's queue (which nothing takes from, so that it only grows), and
whether somebody waits in `put` with the lock. A caller looks its key up in `Miss` or `Hit`
and, with no lock over both, puts its event in in `Submit` or, when the input
queue was full, in `Overflow`; a worker's iteration is `Look` (at `running`),
`Take` (which a pause may come before), the
screens `Filter`, `CheckCircuit`, `HalfOpen`, one of `StagesPass`,
`StageRefuses`, `Raise`, then `Succeed`, `PutBack` or `Settle`, then `TakeRetry`
and `Requeue`. `_record_failure` is `Copy`, `Replace` (or `CopyFails`, when the
dictionary grew under the comprehension), `Add`, `Tally`, `Stamp`, as no lock
joins them. `Flush` starts a caller of `flush_queues`, which does the same with
the queue its loop is about and throws the result away. `Pause` is also `stop`,
`Start` also resume. `setup` is what a processor is made with and used on: the
queues' sizes, what filters and stages do, and whether somebody flushes; time is
a clock. `lost` is a history of the places where an event is let go without a
trace: at a full queue, in `flush_queues`, at a copy that raised.

Operators that begin with "Mutated form of" in their comment are plausible bugs
of a definition. They are used by nothing but a check that each property
notices its mutant: they show that the property says something about the code.

## 4. The runs

Deadlock checking is off (`CHECK_DEADLOCK FALSE`) in all runs: each behaviour
ends when the bounds are used up and all calls have returned. Where something
must not get stuck, a liveness property says so.

| Run | Instance | Distinct states |
|-----|----------|--------|
| twin_threads | 2 threads, 2 detectors, 3 changes, a log of 2 entries, forced or not | 226,209 |
| reports | 1 writer, 1 reporter, all four reports, 2 detectors, 2 rooms, 3 changes | 1,512,380 |
| sync | 2 syncs over six kinds of input, 1 client with 2 changes, 1 detector, 5 changes | 1,561,710 |
| audit | 2 processes with 2 and 1 threads, development keys, an ECDSA key that parses or not and signatures that fail, 4 hashes and keys, 1 stop | 397,511 |
| model_queue | 3 clients, room for 2, one wait each, distinct or partly equal priorities | 364,121 |
| rooms | 2 threads, 2 rooms, 2 objects, 7 moves of an object | 1,983,677 |
| workflow | 1 workflow, every drawing, 2 crashes | 33,659 |
| delta_cache | 2 threads, a room and a route that reads it, 2 contents, 2 versions, 4 calls, 1 change, 1 restart | 1,425,192 |
| webhooks | 1 event, 2 subscribers, a pool of 1, 2 attempts, room for 1 dead letter, 2 replayers, 3 changes of subscriptions, 1 failing pool, 2 lost answers of an endpoint | 671,980 |
| bridge | a server, a script, 3 updates, 1 session of Revit | 190,564 |
| self_healing | 2 threads, 3 errors, up to 4 events, a window of 2 ticks, a cooldown of 1 | 89,634 |
| processor | 2 events with one key, 2 workers, a threshold of 3, a window of 1 tick, three setups: queues of 1 and 2 places with a flush; ample queues with stages that raise; ample queues with stages that refuse | 513,640 |

**twin_threads** shows that each change is decided on what the previous one
left (NoLostUpdate), that the logs keep each thread's order (InThreadOrder),
that each change is announced in the end (EveryOpAnnounced), and that the whole
implements `DetectorLifecycle` (ImplementsLifecycle), with `life` mapped to the
status behind each id and `bypasses` to the forced operations. Two threads
interleave all four steps; three changes are enough to register, change and
remove, or to re-register, an id, and to overflow the log. Verified updates
change only a time stamp and are left to the sync run.

**reports**: a room without a working detector throughout the call is always
listed (NoSilentGap); nothing is invented (ReportsWhatWas); without a change
meanwhile a report is exact (UndisturbedIsExact). Three changes are what a
report can be torn by: a registration before it and two changes while it runs.

**sync**: ResultIsTrue, CommissionSurvives and UndisturbedSyncIsComplete. One
detector suffices as detectors share nothing but the lock; where entries of one
list are to meet, the list names the detector twice.

**audit**: within a process the chain never forks (ForksOnlyAcrossProcesses),
with a key that parses a record goes unsigned only if signing this very record
failed, never because another thread was loading the signer or an earlier
signature failed (UnsignedOnlyByFailure),
`verify_chain` reports as tampered only what another process' key signed
(NoFalseAlarm), and the lock is always given back (LockReturns). Four fresh
values are two keys and two records, or one key and three records; one stop is
enough to lose a lock holder and to change a key.

**model_queue**: what a client is told is so (AnswerIsTrue); no action is in two
places, and an accepted one is in one (NothingLost); the whole hands each action
over at most once and the most urgent first, as `ActionQueue` says
(RefinesActionQueue). Room for two with three clients makes the queue full. The
second half of NothingLost and the urgency in `ActionQueue` are stated for
distinct priorities; disagreement 4 says why, and `ActionQueue!Lose` what happens
without. The module also evaluates LoopsAgree.

**rooms**: the history explains the state (HistoryExplains), certificates were
earned (CertifiedWasVerified), and when `all_certified` says yes and no room
was rejected meanwhile, all are certified at that moment (GateHolds). Seven
moves reach a certificate, its rejection and the return to PENDING; FAILED
multiplies the states and is left out of the run's goals, and with it the
question any_failed, which then reads what building_status reads; the proofs
leave out neither.

**workflow**: rooms are analysed only after a validation of these very rooms that
gates 1 and 2 passed (NeverSkipsValidation; disagreement 16 says what gate 5
does not do), UnprotectedNeverCompletes and TrailExplains,
for the state of a run, its checkpoint and its stored copy alike. Two crashes:
one in the run, one after recovery. Workflows share nothing, so one is enough.

**delta_cache**: an answer is of this session's algorithm and of the content
asked for, unless it was borrowed from an earlier session (AnswerIsOwn); what
was borrowed answers once (BorrowedOnce); a cached result that read what is no
longer so is explained (StaleIsExplained): nobody has invalidated its
dependency since, its own removal is next, it was on its way when it was
invalidated, or `remove_node` took the edge away. Four calls are, for instance,
a computation that is overtaken by an invalidation of the other thread, a
persist and an incremental run after the restart; one change suffices to make
something stale. An entry never expires in this run (`Ttl = FALSE`): expiry
only removes entries, and the proofs cover both.

**webhooks**: a failed delivery is in one place (OnePlaceEach); a subscriber an
event was for has a delivery under way, delivered or dead-lettered, unless the
time limit cancelled it untried, or it raised, or another one raised in the
fallback (NobodyForgotten); an endpoint accepts an event again only while none of
the times before was answered, and once more when the fallback delivered beside
the pool (AcceptedAgainOnlyUnanswered); and all of it ends (CallsReturn). That
the queue exceeds its length by at most one per replayer (ExcessBounded) is
proved only. So an event may well be accepted twice, and dead-lettered though it
was accepted, which the service leaves to its receivers to notice
(`webhook_service.py:43`): what the property excludes is another delivery after an
answer. A pool of one makes the second delivery wait, and be cancelled; room for one makes
every second dead letter evict another; two replayers put back into a queue that
moved. One subscriber is out of reach (a local server, which development mode
accepts), so that dead letters need no failures of the other. Two lost answers
are both attempts of a delivery, or one of two of the pool, the fallback and a
replay. More events multiply states and share only the queue, which two
subscribers and the fallback fill already.

**bridge**: what the add-in accepts is begun once and in order, or still queued
(NothingLostOrTwice); what a client is told is so (AnswersAreTrue); exactly as
many actions wait without an event as Raise calls were absorbed, and no event
finds the queue empty (StrandedIsExplained); and without an absorbed Raise
every accepted action is executed or discarded while Revit is up
(AcceptedIsExecuted). Three updates: one that executes, one that is enqueued
meanwhile, one whose Raise is absorbed. Two sessions have 662,000 states and
are too slow for the liveness property; they pass the invariants, and the
proofs are for any number.

**self_healing**: a closed breaker has no more than its threshold in the window
(ClosedIsWithinThreshold), it closes in a call only after as many nominal calls as it asks for
(RecoveryIsEarned), and once nothing fails any more it does close (Recovers).
That an open one rests for its cooldown (CooldownIsKept) is proved only.
The three errors are one of each way a failure is handled and of each severity
that matters for a threshold of 10; four events exceed it in every combination;
a window of two ticks lets an event expire while the next is still counted.

**processor**: an event is in one place at most, and one that was accepted is
in one unless it was dropped or let go where the code does so (OneFateEach);
lost updates of the failure counts only ever make the breaker open late, never
early (OpensWithReason); no event stays in a worker's hands, in the input queue
or in the retry queue for ever (EveryEventEnds). The three setups are three
instances in one run: queues so small that every place an event can be refused
at is reached, with a caller of `flush_queues`; ample queues with stages that
raise, over four ticks; ample queues with stages that refuse. A queue per topic
fills up even so and then holds its lock for ever: that is what EveryEventEnds
excepts (disagreement 10). Two workers suffice for every race of
`_record_failure`, as each step touches the dictionary once; a threshold of 3
needs more failures than one worker has under way. One worker is running at a
time unless a resume leaves an old one beside the new (`Spawned = 1`), which
happens, as `pause` and `start` are always enabled.

**VIEW and SYMMETRY.** Runs with a liveness property use neither. `sync` uses a
VIEW without the three logs of the twin: its properties read none of them, and
no guard that matters to them does, as announcements only advance `pc`, which
is in the view. `reports`, `sync`, `rooms` and `delta_cache` use the symmetry of
interchangeable threads, rooms, detectors or contents; no definition orders or
names them.

### Disagreements between the code and what it says
They were met while modelling, and are what the properties above except or
explain; none has a run of its own.

1. A design with a critical conflict is not reviewed: the edge to the gate
   (`workflow_service.py:1308`) asks for a flag only the gate sets. The theorem
   ReviewGateIsUnreachable proves that no run ever gets there.
2. `digital_twin_sync.py:1096` promises that every room of a valid twin has a
   detector with status OK; rooms that were never covered at the same time are
   reported valid, because the statuses are read one by one.
3. Each `previous_hash` "must match the prior event's current_hash"
   (`tests/test_audit_store_v2.py:199`); two processes link to the same record,
   since the lock around read and insert is a thread lock. `verify_chain` does
   not notice, as it checks each record by itself.
4. Two waiting actions of equal priority make `heappop` raise TypeError after
   it took the first action out; that action is lost. The server gives all its
   actions priority 100 and dequeues none, so that the second command of its
   life raises, uncaught, before it reaches the pipe.
5. A drawing that failed to parse or to validate is reported as COMPLETED,
   against "failures stop the pipeline" (`workflow_service.py:25`).
6. "Changed rooms are ALWAYS re-analyzed" (`delta_cache.py:41`), but
   `has_valid_entry` (line 533) accepts what an earlier session left by the
   room's id alone.
7. The webhook service never has an event bus: it asks for a `get_instance`
   that the bus does not have, and swallows the failure (lines 319-332); its
   audit entries are lost the same way, as `add_event` is called on the class
   (719-747). A `dlq_max_size` of 0 is no limit, as `[-0:]` is everything
   (710). Development mode accepts a loopback endpoint (433) which every
   attempt then refuses to reach.
8. A `tools/call` over JSON-RPC only sanitises an update and answers that it
   succeeded; a room classification is never forwarded; `is_available` uses up
   the one listening instance of the pipe. `NamedPipeServer.cs:124` passes an
   anonymous object where a string is declared: the model reads it as the
   refusal it is meant to be.
9. "Limited probe requests" (`qomn_self_healing_engine.py:748`): HALF_OPEN
   admits any number, as `try_cooldown` and `is_half_open_and_available` have
   no caller. The "consecutive successes" (827) need not be consecutive calls.
   A CATASTROPHIC failure weighs 10, which does not exceed the threshold of 10.
   The kernel's wrapper asks the breaker only after failing.
10. `enqueue` tests its main queue and promises "return False  # Queue is full",
   then puts into the topic's queue, which is as large and is never emptied:
   once as many messages as it holds have passed, it waits for ever with the
   lock held. An event behind an open breaker passes the retry queue once per
   iteration, and so uses up such places.
11. These rounds count as `attempts`, and "Add to dead letter queue after max
   retries" then dead-letters an event at its first failure.
12. "Check if enough time has passed to go to half-open" is checked before
   another worker opens the breaker anew, and the first then half-opens it at
   once.
13. `flush_queues` has to "Process all remaining events in queues"; while the
   breaker is open it takes them out and throws them away (`lost` is
   "flushed").
14. A key is looked up at submission and stored after handling; two requests
   with one key submitted before that are both handled, against
   "unique-key-for-retry-protection".
15. "When enabled via AUDIT_ECDSA_KEY_PEM [...] each audit record is signed with a
   private key" (`audit_store.py:33-35`); a key that cannot be read (402-404) and a
   `sign` that raises (425-427) are warnings in the log, and the records go
   unsigned, all of them in the first case. A reader of the table cannot tell
   them from those of a process without a key.
16. Gate 5 finds duplicate room names, and "duplicates ARE defects"
   (`workflow_service.py:473`), but `gate5_passed` never reaches
   `validation_passed` (486-490): the drawing counts as validated and is
   analysed, against "MUST NEVER skip validation steps" (22).
17. "After max retries, the event is stored" as a dead letter
   (`webhook_service.py:42`); a delivery that raises before its first attempt
   (634-643) is stored nowhere and only logged (554-557), and in the fallback it
   ends `publish_event` with an exception (583-592), so that the subscribers
   after it are forgotten as well.

### Fairness
All of it is weak fairness of a thread's own next step in a call it has begun:
`Emit(t)` of the twin, `Step(t)` of an audit call (LockReturns is about the
holder, who waits for nobody; that every waiter gets the lock is not claimed,
as Python's locks promise no order),
`Sending(c)` of the bridge's. The operating system runs a runnable thread.
Nothing is assumed of who begins a call, of crashes or of failures, with these
exceptions, each stated at its `Spec`:
- webhooks: one of all that publish, one of all that deliver and one of all
  that replay goes on. A post is answered or times out (`timeout_seconds`), and
  `as_completed` has its limit; this is less than the scheduler gives.
- bridge: the listener's thread goes on, and Revit calls Execute for a pending
  event while it is up and idle, which is what an ExternalEvent promises.
- processor: each worker goes on (`Works(w)`), as a thread that polls. An
  event ends only while the processor is not paused for good, which is the
  premise of EveryEventEnds; a worker that waits in `put` is not excused.
- self_healing: time passes, and decorated functions go on being called. The
  breaker moves only when it is asked, so without calls it stays OPEN.

`TwinReports`, `DigitalTwinSync`, `ModelUpdateQueue`, `RoomLifecycle`,
`AnalysisWorkflow` and `DeltaCache` claim safety only, and assume none.

## 5. What is proved

All theorems are of the form `Spec => []P` or `Spec => [][A]_vars`, or say that a
specification implements another (RefinesLifecycle, ImplementsActionQueue), for every
value of the constants under the ASSUMEs of the modules (bounds are naturals,
flags Booleans, `LogCap` at least 1, every thread has a process, nobody is
called like the marker of a free lock).

- **DigitalTwinProofs** — TypeCorrect; ChainUnbroken (NoLostUpdate), for any
  number of threads; RefinesLifecycle; AnnouncedInOrder (InThreadOrder); Frozen;
  DeadStaysDead. NoLostUpdate is about pairs of changes in the history and says
  nothing of the state, hence is not inductive: the invariant adds that the last
  change of each object is what the object's status says, and that the map holds
  exactly the objects whose last change is no removal (ChainInv,
  MapMatchesHeap, HistoryMatchesMap). The same invariant carries the refinement:
  a change of one object moves one detector of the abstract machine, as no two
  ids share an object, and adds one to its counter exactly if it was forced.
  For the order of the announcements the invariant (`OrderInv`) says that the
  logs a thread has not come to yet have only ops of its earlier calls.
  **The syncs** — SyncResultIsTrue, CommissioningSurvives, UndisturbedCompletes,
  one for each property of the run. First every step of `SyncNext` is shown to
  be one of a few shapes (a job starts, stays or passes an entry; the twin is
  left alone or changed by one op), so that an invariant has to be shown for the
  shapes alone. ResultIsTrue is inductive once jobs are typed. Of a
  commissioning, the invariant (`Survives`) says of each as-built change that its
  object is OK still, unless something that may has changed it since. For
  UndisturbedSyncIsComplete it says that the entries to come are the end of the
  list (`WalksInput`), what the sync knows of the entry it is at (`Knows`: the
  object it looked up is the one in the map, or the detector has just been
  removed), and that all entries it has passed are served, or about to be again
  when an overwritten one is registered (`Progress`).
  **The reports** — GapsAreReported, ReportsAreTrue, UndisturbedReportsAreExact.
  The properties are about a report that was computed; `ReportInv` says of one
  that is being computed what each half-read collection holds: everything
  copied had a status at some instant since the call began (`Fresh`), what was
  counted or listed had that status at an instant of the call (`Covered`,
  `Honest`), a room is listed from the moment rooms are read (`Listed`),
  validate_coverage takes the objects of a room together (`WholeRooms`), and,
  while nothing has changed, the collections are exactly those of the twin as far
  as they were read (`Exact`). The history of changes makes "at an instant"
  something the invariant can speak of; it rests on an object out of the map
  having been removed last (`GoneIsRemoved`).
- **AuditStoreProofs** — AuditTypeCorrect, NoForkWithinAProcess,
  NoneUnsignedByTheRace (UnsignedOnlyByFailure), AlarmsAreExplained (NoFalseAlarm).
  The invariant: whoever is between acquire and release holds its process' lock
  (`Held`); no record is inserted before it was hashed (`Hashed`); the hash a
  holder has read is of a record after which its own process inserted nothing
  (`LinkInv`); with a key that parses, a thread about to insert has a signature, or
  failed to get this one (`SignInv`), which needs that the one who announced the
  signer still holds the lock while it loads the key (`LoadingHeld`), and that the
  signer is never given up then (`BrokenInv`). For the alarms, a process keeps
  the key it drew until it is stopped, and until a first stop all its records
  bear that key (`KeyInv`); no call judges again after an alarm (`AlarmInv`).
- **WorkflowProofs** — *Rooms*: six theorems: types, one for each property of the
  run, and two more: each move is announced once (AlwaysAnnouncedOnce), and a
  question reads states the rooms had during the call (ReadsAreOfTheCall).
  GateHolds rests on the latter and on CERTIFIED being left only by a
  rejection. *Workflows*: six theorems. `WorkflowInv` says of each of the
  three copies of a state that it is sound and explained by its log, and of the
  one the run carries, how far it must be at each node; every node function is
  shown to carry this from node to node by a lemma of its own, and one lemma
  (`OneWorkflow`) lifts a step of one workflow to all. The last theorem proves
  that the gate is unreachable, disagreement 1 for every instance.
- **DeltaCacheProofs** — CacheTyped, AnswersAreOwn, BorrowedAtMostOnce,
  StaleEntriesAreExplained. The LRU's operations are lemmas (KeepType, HitType,
  PutType): whatever they evict, what stays is what it was. `StagedCall` says
  what a call holds at each stage. For BorrowedOnce the invariant adds that a
  loaded result is nobody's, and that who takes one takes it from there; for
  StaleIsExplained that a dependency a cached result read is an edge of the
  graph, unless it was cut, so that the cascade finds it: the set `Dependents`
  is defined as a least fixed point and used through its closure.
- **ModelUpdateProofs** — *heapq*: a push adds its element and a pop takes the
  first, whether or not a comparison raises (PushAdds, PopRemoves); when no two
  priorities are equal none does, and a list with each parent before its children
  stays one (PushKeepsHeap, PopKeepsHeap). Where a loop stops is a least element
  (LeastOf, from the well-foundedness of the naturals), and that a path is a chain
  with each place but the last above the next follows from its being the least
  closed set. *The queue*: AnswersTold (AnswerIsTrue), from what is true of an
  action's placeholder, result and place at each stage of its client
  (`QueueInv`); NothingIsLost, from the list being without repetition and no
  action in two places, which a sift that raises halfway keeps too (`OnceInv`),
  and, when priorities differ, from the list being a heap and what was accepted
  still being somewhere (`NoTieInv`); ImplementsActionQueue from all three: a
  `Put` is a `Give`, a `Dequeue` takes the least element of the heap, or is a
  `Lose` when a comparison raised, a `Report` is a `Finish`, and no other step
  changes what is mapped.
  *The bridge*: BridgeTyped, AcceptedInOrder, AnswersAlwaysTrue,
  StrandedAlwaysExplained. The invariant relates the client's stage to what was
  reached (`CallsInv`), the listener's to its client (`ListenerInv`), and says
  that nothing is left of a session that is over (`DownInv`). Two lemmas about
  sequences (MoveHead, AppendToQueue) carry `accepted = begun \o queue`.
- **SelfHealingProofs** — CooldownAlwaysKept and RecoveryAlwaysEarned: the
  breaker's own age and count never run ahead of the history's, in whichever
  order late successes and failures arrive. ClosedAlwaysWithinThreshold: the
  weight of the window is the size of a set, of one unit for each unit of weight
  of an event, so that dropping events from the front is an injection into what
  there was (SuffixWeighsLess) and needs no induction over the sequence; the
  loop that drops expired events stops at the first that is not (PruneStops).
  The invariant (`WindowInv`) is the property with the types.
- **EventProcessorProofs** — AlwaysOpensWithReason: what `failure_counts` adds up
  to is never more than what was recorded, and neither is what any thread has
  copied of it (`CountInv`): a copy put back may lose counts and never invents
  one. The sum is again the size of a set of units. OneFateAlways: `PlaceInv`
  says that a thread has an event in hand exactly at the stages at which it
  works on one (`HandsFull`); that no queue holds an event twice, no two queues
  and no two hands the same, and no hand one that is queued (`Apart`); and of
  each event that it is not both somewhere and gone, that only what was submitted
  is either, and that what was accepted is one of them (`Fated`). Every step is
  one of four: it takes an event out of a queue, puts one down, lets one go, or
  moves none (PicksUp, PutsDown, Submits, NothingMoves). That the place a
  priority gives in a queue loses and doubles nothing is a lemma about the
  insertion (PlacedProperties). The queues' locks held for ever are no
  exception: who waits in `put` has put its message into the main queue.

- **WebhookDeliveryProofs** — EachInOnePlace, NoneForgotten (NobodyForgotten),
  AgainOnlyInTheDark (AcceptedAgainOnlyUnanswered), ExcessIsBounded. The invariant
  says what has become of an event's deliveries at each stage of its
  `publish_event` (`CallFits`), that the delivery a fallback is at is one of its
  event's (`DoingInv`: so that it knows whose exception ends the call), and that
  each dead letter is in one place (`PlacesInv`); what an endpoint accepted is
  then what it accepted unheard, and one for each of its deliveries that was
  answered or replayed (`SpentInv`): a delivery still tried, or still replayed,
  has not been answered (Unanswered). A step of one call
  leaves every other event as it is (OneCallGoesOn), and deliveries that go on
  by themselves leave every call as it is (DeliveriesGoOn). Taking an entry out
  of the queue, putting one in at an old index and cutting the queue to its
  size are lemmas about sequences without repetition.

**Model-checked only.** Liveness (EveryOpAnnounced, LockReturns, CallsReturn,
AcceptedIsExecuted, Recovers, EveryEventEnds) and anything about ENABLED are
beyond the prover. So is that the loops of `HeapqLoops` come to what `Heapq` says
for lists of any length (LoopsAgree), which would be an induction over data on
recursive operators. Every safety property and action property of the runs is
proved.

## 6. What is not modelled
Most of the repository. By lines it is calculators, parsers, CRUD, user
interface and reports (section 1.2), whose hard part is real arithmetic or
text; the modules stand for nearly all of the code that shares state between
threads, processes or restarts, which is a small share of the lines. To map
more of it would be to transliterate straight-line functions, about which a
model checker has nothing to say. Of what does share state:

- *Event processor*: `clear_queues`, the forced states of the breaker,
  acknowledgement and expiry of messages, which the processor never uses, and
  forwarding to other nodes, which no node ever knows of (next point).
- *Distributed FACP*: `FACPResponse.__init__` asks its status for `.value`
  while every caller passes a string, so no request ever gets a response;
  `complete_task` (`task_scheduler.py:258`) and `cleanup_stale_agents` take a
  lock that they hold and that is not reentrant; the message `join_cluster`
  sends lacks the `sender_node_id` its receiver looks for. There is no behaviour
  beyond the first step.
- *Job stores*: the FDS submission and its webhook run on one event loop, and
  their writes do not interleave. Jobs are in memory and lost with the process;
  a webhook post that fails is swallowed (`fds_worker.py:147`); the status of a
  failed job is answered with 404 (`fds_webhook.py:90`). All plain from the
  code.
- *Multi-floor orchestrator* (`fireai/core/multi_floor_orchestrator.py`): one
  thread, floor by floor. Plain from the code: a building is "compliant ONLY if
  ALL subsystems pass" (718), but a subsystem that raised leaves no result and
  `_evaluate_compliance` looks at results alone; detectors of rooms that pass
  are counted at 796 and at 803.
- *Session store, event buses, secret rotation, websockets*: a dictionary under
  a lock, or a timer around one. `replay_dlq` of the infrastructure's bus
  (`fireai/infrastructure/event_bus.py:404`) dispatches an event once per
  record to all its handlers and marks the first record with that event's id:
  where two handlers failed, the second record is replayed again each time.
- `core/retry.py`: a loop without shared state. The engine's asynchronous audit
  logger, its LRU and the language model's breaker: the logger keeps its last
  hash in memory, and its chain starts anew at each rotation and restart.
- The `StuckDetector`, whose module is not in the repository; the scores sent
  to Langfuse and Mem0.
- Delta cache: counters, the hashing of floats, the decorator. Webhooks:
  payloads, signatures, the history. Bridge: what an action does to the Revit
  model.
- SQLite's own locking errors other than as a call that raises; time, except that a
  time-out may fire and an age may grow; weak memory, as CPython's lock makes
  each attribute access atomic. Process-private `:memory:` databases cannot
  fork.

## 7. Running
In this directory: `tlc -config <cfg> <module>` for each run of `PROJECT.json`,
`tlapm <Module>Proofs.tla` for the proofs.

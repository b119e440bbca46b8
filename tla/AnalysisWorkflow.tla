-------------------------- MODULE AnalysisWorkflow --------------------------
(***************************************************************************)
(* backend/services/workflow_service.py: the analysis workflow that takes  *)
(* an uploaded drawing to an NFPA 72 design report.  LangGraph executes    *)
(* one node after another (an action RunNode), each a function from a      *)
(* PipelineState to the next, and writes checkpoints to SQLite behind it;  *)
(* the service keeps the states of the calls that have returned in memory. *)
(*                                                                         *)
(* A room is abstracted to its kind, and a drawing to the kinds of its     *)
(* rooms.  The scores sent to Langfuse and Mem0 change no state, and       *)
(* neither does the StuckDetector, whose module is not in the repository.  *)
(***************************************************************************)
EXTENDS Naturals, Sequences

CONSTANTS
    Workflows,    \* the workflow ids, one for each call of start_workflow
    Unreviewed,   \* those started with skip_human_review, for development only
    MaxCrashes    \* bound: crashes of the process in one behaviour

ASSUME UnreviewedAssumption == Unreviewed \subseteq Workflows
ASSUME CrashesAssumption == MaxCrashes \in Nat

\* sound     gets its detectors
\* malformed fails gate 1 or gate 2: an area that is not finite, is too large, is zero
\* duplicate has the name of another room and fails gate 5; it gets its detectors
\* unknown   has no occupancy type, which gate 3 notes; it gets no detector
\* failing   raises in the analysis, hence gets no detector
RoomKind == {"sound", "malformed", "duplicate", "unknown", "failing"}

Node == {"initialize", "parse", "validate", "environmental_context", "memory_enrich",
         "nfpa_analysis", "conflict_detection", "human_review_gate", "generate_report"}

\* WorkflowStatus; ERROR and STUCK are set by nothing that is in the repository.
Status == {"PENDING", "RUNNING", "AWAITING_REVIEW", "APPROVED", "REJECTED",
           "COMPLETED", "FAILED"}

PipelineState ==
    [drawing : BOOLEAN,                \* file_type is one the parsers read
     rooms : SUBSET RoomKind, parsed : BOOLEAN, valid : BOOLEAN,
     results : SUBSET RoomKind,        \* nfpa_results
     critical : BOOLEAN,               \* has_critical_conflicts
     review : BOOLEAN,                 \* review_required
     decision : {"none", "approved", "rejected"},
     report : BOOLEAN, status : Status,
     log : Seq(Node \cup {"approved", "rejected", "resumed"})]   \* transition_log

\* initial_state of start_workflow
Blank == [drawing |-> FALSE, rooms |-> {}, parsed |-> FALSE, valid |-> FALSE,
          results |-> {}, critical |-> FALSE, review |-> FALSE, decision |-> "none",
          report |-> FALSE, status |-> "PENDING", log |-> <<>>]

VARIABLES
    at,        \* the node each workflow's run is at, or how far its call is
    st,        \* the state of the run
    caller,    \* the call the run is made in, start or approve
    kept,      \* the workflows that have a checkpoint in SQLite
    saved,     \* and the state in it
    known,     \* the keys of _workflows
    stored,    \* and the states
    verdict,   \* what the reviewer's last call was answered
    crashes

vars == <<at, st, caller, kept, saved, known, stored, verdict, crashes>>
memory == <<known, stored>>
disk == <<kept, saved>>

Init == /\ at = [w \in Workflows |-> "idle"]
        /\ st = [w \in Workflows |-> Blank]
        /\ caller = [w \in Workflows |-> "start"]
        /\ kept = {}
        /\ saved = [w \in Workflows |-> Blank]
        /\ known = {}
        /\ stored = [w \in Workflows |-> Blank]
        /\ verdict = [w \in Workflows |-> "none"]
        /\ crashes = 0

-----------------------------------------------------------------------------
(* The nodes: the states each may return.                                  *)

\* _log_transition
Logged(s, n) == [s EXCEPT !.log = Append(s.log, n)]

\* The file is missing or outside the allowed directories, and the state goes on to
\* the next node as FAILED and without an entry in the log; or the log starts anew.
Initialized(s) ==
    {[s EXCEPT !.status = "FAILED"]}
    \cup {[s EXCEPT !.drawing = d, !.status = "RUNNING", !.log = <<"initialize">>] :
             d \in BOOLEAN}

\* An exception of the parser leaves no rooms; without rooms the parse has failed.
Parsed(s) ==
    {[s EXCEPT !.rooms = R, !.parsed = (R # {}),
               !.status = IF R = {} THEN "FAILED" ELSE s.status,
               !.log = Append(s.log, "parse")] :
       R \in IF s.drawing THEN SUBSET RoomKind ELSE {{}}}

\* Only gates 1 and 2 are folded into validation_passed.  Gate 3 cannot fail, there is
\* no gate 4, and what gate 5 finds stays in the evidence.
Validated(s) ==
    Logged([s EXCEPT !.valid = s.rooms # {} /\ "malformed" \notin s.rooms], "validate")

Analysed(s) == Logged([s EXCEPT !.results = s.rooms], "nfpa_analysis")

\* Rooms without a detector: a CRITICAL conflict (MISSING_DETECTION).
Unprotected == {"unknown", "failing"}

Conflicted(s) ==
    Logged([s EXCEPT !.critical = s.results \cap Unprotected # {}], "conflict_detection")

Gated(s) ==
    LET required == s.critical \/ "unknown" \in s.results IN
    Logged([s EXCEPT !.review = required,
                     !.status = IF required THEN "AWAITING_REVIEW" ELSE s.status],
           "human_review_gate")

\* Mutated form of Reported: only unknown rooms keep a design from being COMPLETED.
ReportedKnown(s) ==
    Logged([s EXCEPT !.report = TRUE,
                     !.status = IF "unknown" \in s.results THEN "FAILED" ELSE "COMPLETED"],
           "generate_report")

Reported(s) ==
    Logged([s EXCEPT !.report = TRUE,
                     !.status = IF "unknown" \in s.results THEN "FAILED"
                                ELSE IF s.critical THEN "REJECTED" ELSE "COMPLETED"],
           "generate_report")

\* The states node n may return.
After(n, s) ==
    IF n = "initialize" THEN Initialized(s)
    ELSE IF n = "parse" THEN Parsed(s)
    ELSE IF n = "validate" THEN {Validated(s)}
    ELSE IF n = "nfpa_analysis" THEN {Analysed(s)}
    ELSE IF n = "conflict_detection" THEN {Conflicted(s)}
    ELSE IF n = "human_review_gate" THEN {Gated(s)}
    ELSE IF n = "generate_report" THEN {Reported(s)}
    ELSE {Logged(s, n)}          \* environmental_context and memory_enrich

-----------------------------------------------------------------------------
(* The edges, the conditional ones decided on the state the node returned. *)

Unconditional ==
    [initialize |-> "parse", environmental_context |-> "memory_enrich",
     memory_enrich |-> "nfpa_analysis", nfpa_analysis |-> "conflict_detection",
     generate_report |-> "end"]

\* Mutated form of Edge: validate moved behind the environmental context.
EdgeReordered(n, s) ==
    IF n \in DOMAIN Unconditional THEN Unconditional[n]
    ELSE IF n = "parse" THEN IF s.parsed THEN "environmental_context" ELSE "generate_report"
    ELSE IF n = "validate" THEN IF s.valid THEN "nfpa_analysis" ELSE "generate_report"
    ELSE IF n = "conflict_detection"
         THEN IF s.review THEN "human_review_gate" ELSE "generate_report"
    ELSE IF s.decision = "approved" THEN "generate_report" ELSE "end"

Edge(n, s) ==
    IF n \in DOMAIN Unconditional THEN Unconditional[n]
    ELSE IF n = "parse" THEN IF s.parsed THEN "validate" ELSE "generate_report"
    ELSE IF n = "validate" THEN IF s.valid THEN "environmental_context" ELSE "generate_report"
    ELSE IF n = "conflict_detection"
         THEN IF s.review THEN "human_review_gate" ELSE "generate_report"
    ELSE IF s.decision = "approved" THEN "generate_report" ELSE "end"

\* interrupt_before: the run ends in front of the gate, unless it may skip it.
Interrupted(w, n) == IF n = "human_review_gate" /\ w \notin Unreviewed THEN "end" ELSE n

-----------------------------------------------------------------------------
(* A run of the graph.                                                     *)

\* start_workflow and _run_graph
Start(w) ==
    /\ at[w] = "idle"
    /\ at' = [at EXCEPT ![w] = "initialize"]
    /\ UNCHANGED <<st, caller, disk, memory, verdict, crashes>>

\* A node is executed, and the edge out of it is taken.
RunNode(w) ==
    /\ at[w] \in Node
    /\ \E s \in After(at[w], st[w]) :
          /\ st' = [st EXCEPT ![w] = s]
          /\ at' = [at EXCEPT ![w] = Interrupted(w, Edge(at[w], s))]
    /\ UNCHANGED <<caller, disk, memory, verdict, crashes>>

\* External: LangGraph writes the checkpoints in the background, behind the nodes, so
\* that a crash may lose the latest.
Checkpoint(w) ==
    /\ at[w] \in Node \cup {"end"}
    /\ w \notin kept \/ saved[w] # st[w]
    /\ kept' = kept \cup {w}
    /\ saved' = [saved EXCEPT ![w] = st[w]]
    /\ UNCHANGED <<at, st, caller, memory, verdict, crashes>>

\* The graph returns once its last checkpoint is written, and the call stores the
\* state it returns.
Finish(w) ==
    /\ at[w] = "end"
    /\ w \in kept /\ saved[w] = st[w]
    /\ at' = [at EXCEPT ![w] = "done"]
    /\ known' = known \cup {w}
    /\ stored' = [stored EXCEPT ![w] = st[w]]
    /\ UNCHANGED <<st, caller, disk, verdict, crashes>>

\* A node or the checkpointer raises.  start_workflow stores the initial state as
\* FAILED, whatever had been computed; approve_workflow leaves what it had stored.
Raise(w) ==
    /\ at[w] \in Node \cup {"end"}
    /\ at' = [at EXCEPT ![w] = "done"]
    /\ IF caller[w] = "start"
       THEN /\ known' = known \cup {w}
            /\ stored' = [stored EXCEPT ![w] = [Blank EXCEPT !.status = "FAILED"]]
       ELSE UNCHANGED memory
    /\ UNCHANGED <<st, caller, disk, verdict, crashes>>

-----------------------------------------------------------------------------
(* The reviewer.  No workflow gets to AWAITING_REVIEW: only the gate's node *)
(* sets review_required, which the edge to that node asks for.  Every call  *)
(* is refused; what the code would do is modelled all the same.             *)

\* approve_workflow: the approved state is given to the graph as a new input, which
\* LangGraph starts on from the entry point.
Approve(w) ==
    /\ at[w] \in {"done", "lost"}
    /\ w \in known
    /\ IF stored[w].status = "AWAITING_REVIEW"
       THEN LET s == [stored[w] EXCEPT !.decision = "approved", !.status = "APPROVED"] IN
            /\ stored' = [stored EXCEPT ![w] = s]
            /\ st' = [st EXCEPT ![w] = Logged(s, "approved")]
            /\ at' = [at EXCEPT ![w] = "initialize"]
            /\ caller' = [caller EXCEPT ![w] = "approve"]
            /\ verdict' = [verdict EXCEPT ![w] = "approved"]
       ELSE /\ verdict' = [verdict EXCEPT ![w] = "refused"]
            /\ UNCHANGED <<at, st, caller, stored>>
    /\ UNCHANGED <<disk, known, crashes>>

\* reject_workflow
Reject(w) ==
    /\ at[w] \in {"done", "lost"}
    /\ w \in known
    /\ IF stored[w].status = "AWAITING_REVIEW"
       THEN /\ stored' = [stored EXCEPT ![w] =
                   Logged([@ EXCEPT !.decision = "rejected", !.status = "REJECTED"],
                          "rejected")]
            /\ verdict' = [verdict EXCEPT ![w] = "rejected"]
       ELSE /\ verdict' = [verdict EXCEPT ![w] = "refused"]
            /\ UNCHANGED stored
    /\ UNCHANGED <<at, st, caller, disk, known, crashes>>

-----------------------------------------------------------------------------
(* A crash, and what is left after it.                                     *)

\* The process dies and is started again: only the checkpoints are left.
Crash ==
    /\ crashes < MaxCrashes
    /\ crashes' = crashes + 1
    /\ at' = [w \in Workflows |-> IF at[w] \in Node \cup {"end"} THEN "lost" ELSE at[w]]
    /\ known' = {}
    /\ stored' = [w \in Workflows |-> Blank]
    /\ UNCHANGED <<st, caller, disk, verdict>>

\* Mutated form of Resume: the recovered state's log starts anew.
ResumeAnew(w) ==
    /\ w \in kept
    /\ known' = known \cup {w}
    /\ stored' = [stored EXCEPT ![w] = Logged([saved[w] EXCEPT !.log = <<>>], "resumed")]
    /\ UNCHANGED <<at, st, caller, disk, verdict, crashes>>

\* resume_from_checkpoint: the checkpoint becomes the stored state, over whatever
\* was stored; nothing is run.  Without a checkpoint nothing changes.
Resume(w) ==
    /\ w \in kept
    /\ known' = known \cup {w}
    /\ stored' = [stored EXCEPT ![w] = Logged(saved[w], "resumed")]
    /\ UNCHANGED <<at, st, caller, disk, verdict, crashes>>

Run(w) == RunNode(w) \/ Checkpoint(w) \/ Finish(w)

Next == \/ \E w \in Workflows : Start(w) \/ Run(w) \/ Raise(w)
        \/ \E w \in Workflows : Approve(w) \/ Reject(w) \/ Resume(w)
        \/ Crash

Spec == Init /\ [][Next]_vars

-----------------------------------------------------------------------------
(* Properties.                                                             *)

TypeOK ==
    /\ at \in [Workflows -> Node \cup {"idle", "end", "done", "lost"}]
    /\ st \in [Workflows -> PipelineState]
    /\ caller \in [Workflows -> {"start", "approve"}]
    /\ kept \subseteq Workflows
    /\ saved \in [Workflows -> PipelineState]
    /\ known \subseteq Workflows
    /\ stored \in [Workflows -> PipelineState]
    /\ verdict \in [Workflows -> {"none", "approved", "rejected", "refused"}]
    /\ crashes \in 0 .. MaxCrashes

\* Every state of a workflow there is: the run's, the checkpoint, the stored one.
States(w) == {st[w], saved[w], stored[w]}

\* "The workflow MUST NEVER skip validation steps" (workflow_service.py:22), as far as
\* the code keeps it: rooms are analysed only when a validation has passed, gates 1 and
\* 2 for each of these very rooms, in the state of a run, in a checkpoint, and in what
\* is recovered from one.  A room that fails gate 5 is analysed all the same.
NeverSkipsValidation ==
    \A w \in Workflows : \A s \in States(w) :
        s.results # {} => s.valid /\ s.results = s.rooms /\ "malformed" \notin s.rooms

\* A design whose analysis left a room without a detector is never COMPLETED, the
\* status it is recovered with after a crash included.
UnprotectedNeverCompletes ==
    \A w \in Workflows : \A s \in States(w) :
        s.status = "COMPLETED" => s.results \cap Unprotected = {}

\* A status that says the workflow is over comes with its report: no crash between
\* the two leaves a COMPLETED workflow without one.
CompletedHasReport ==
    \A w \in Workflows : \A s \in States(w) : s.status = "COMPLETED" => s.report

Entries(s) == {s.log[i] : i \in 1 .. Len(s.log)}

\* "Every transition MUST produce evidence (audit trail)" (workflow_service.py:24):
\* whatever a state holds, its transition_log has the entry of the node that
\* computed it, also after a recovery.
TrailExplains ==
    \A w \in Workflows : \A s \in States(w) :
        /\ s.rooms # {} => "parse" \in Entries(s)
        /\ s.valid => "validate" \in Entries(s)
        /\ s.results # {} => {"validate", "nfpa_analysis"} \subseteq Entries(s)
        /\ s.critical => "conflict_detection" \in Entries(s)
        /\ s.report => "generate_report" \in Entries(s)

=============================================================================

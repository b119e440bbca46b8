--------------------------- MODULE WorkflowProofs ---------------------------
(***************************************************************************)
(* Theorems about the two workflows a design goes through: its analysis    *)
(* (AnalysisWorkflow) and the approval of its rooms (RoomLifecycle).       *)
(***************************************************************************)
EXTENDS AnalysisWorkflow, RoomLifecycle, TLAPS

-----------------------------------------------------------------------------
(* AnalysisWorkflow keeps its types and its safety properties for any      *)
(* number of workflows and crashes.  The invariant follows a run from node *)
(* to node (Progress); what it says of a state by itself (Sound) then      *)
(* holds of the checkpoints and the stored states, which are copies.       *)


\* A state has an entry in its log for what it holds.
Explained(s) ==
    /\ s.rooms # {} => "parse" \in Entries(s)
    /\ s.valid => "validate" \in Entries(s)
    /\ s.results # {} => {"validate", "nfpa_analysis"} \subseteq Entries(s)
    /\ s.critical => "conflict_detection" \in Entries(s)
    /\ s.report => "generate_report" \in Entries(s)

\* No review was asked for, and none was decided.
Unseen(s) == ~s.review /\ s.decision = "none" /\ s.status \notin {"AWAITING_REVIEW", "APPROVED"}

Sound(s) ==
    /\ Unseen(s)
    /\ s.results # {} => s.valid /\ s.results = s.rooms /\ "malformed" \notin s.rooms
    /\ s.status = "COMPLETED" => s.report /\ s.results \cap Unprotected = {}

\* What holds of the state of a run that is at node n.
Progress(n, s) ==
    /\ n # "human_review_gate"
    /\ n \in Node \cup {"idle"} => s.status # "COMPLETED" /\ ~s.report
    /\ n \in {"idle", "initialize", "parse"} =>
          s.rooms = {} /\ ~s.valid /\ s.results = {} /\ ~s.critical
    /\ n \in {"validate", "environmental_context", "memory_enrich", "nfpa_analysis"} =>
          s.results = {} /\ ~s.critical
    /\ n \in {"environmental_context", "memory_enrich", "nfpa_analysis"} =>
          s.valid /\ "malformed" \notin s.rooms
    /\ n = "generate_report" => (s.critical <=> s.results \cap Unprotected # {})

-----------------------------------------------------------------------------
(* Logs.                                                                   *)

LEMMA LogType ==
    ASSUME NEW s \in PipelineState, NEW n \in Node \cup {"approved", "rejected", "resumed"}
    PROVE  Append(s.log, n) \in Seq(Node \cup {"approved", "rejected", "resumed"})
  BY DEF PipelineState

\* A longer log has the entries it had, and the new one.
LEMMA AppendEntries ==
    ASSUME NEW s \in PipelineState, NEW t \in PipelineState, NEW n, t.log = Append(s.log, n)
    PROVE  Entries(s) \subseteq Entries(t) /\ n \in Entries(t)
  <1>1. /\ Len(t.log) = Len(s.log) + 1 /\ Len(s.log) \in Nat
        /\ \A i \in 1 .. Len(s.log) : t.log[i] = s.log[i]
        /\ t.log[Len(s.log) + 1] = n
    BY DEF PipelineState
  <1>2. Entries(s) \subseteq Entries(t)
    BY <1>1 DEF Entries
  <1>3. n \in Entries(t)
    BY <1>1 DEF Entries
  <1> QED
    BY <1>2, <1>3

LEMMA LoggedType ==
    ASSUME NEW s \in PipelineState, NEW n \in Node \cup {"approved", "rejected", "resumed"}
    PROVE  Logged(s, n) \in PipelineState
  BY LogType DEF Logged, PipelineState

\* An entry changes nothing but the log.
LEMMA LoggedOnly ==
    ASSUME NEW s \in PipelineState, NEW n
    PROVE  /\ Logged(s, n).rooms = s.rooms /\ Logged(s, n).valid = s.valid
           /\ Logged(s, n).results = s.results /\ Logged(s, n).critical = s.critical
           /\ Logged(s, n).review = s.review /\ Logged(s, n).decision = s.decision
           /\ Logged(s, n).report = s.report /\ Logged(s, n).status = s.status
           /\ Logged(s, n).parsed = s.parsed
           /\ Logged(s, n).log = Append(s.log, n)
  BY DEF Logged, PipelineState

LEMMA LoggedSound ==
    ASSUME NEW s \in PipelineState, NEW n \in Node \cup {"resumed"}
    PROVE  /\ Sound(s) => Sound(Logged(s, n))
           /\ Explained(s) => Explained(Logged(s, n))
  <1>1. Sound(s) => Sound(Logged(s, n))
    BY LoggedOnly DEF Sound, Unseen
  <1>2. Entries(s) \subseteq Entries(Logged(s, n))
    <2>1. Logged(s, n) \in PipelineState
      BY LoggedType
    <2>2. Logged(s, n).log = Append(s.log, n)
      BY LoggedOnly
    <2> QED
      BY <2>1, <2>2, AppendEntries
  <1>3. Explained(s) => Explained(Logged(s, n))
    BY <1>2, LoggedOnly DEF Explained
  <1> QED
    BY <1>1, <1>3

LEMMA BlankIsSound ==
    \A x \in {"PENDING", "FAILED"} :
        LET b == [Blank EXCEPT !.status = x] IN
        b \in PipelineState /\ Sound(b) /\ Explained(b)
  <1> SUFFICES ASSUME NEW x \in {"PENDING", "FAILED"}
               PROVE  LET b == [Blank EXCEPT !.status = x] IN
                      b \in PipelineState /\ Sound(b) /\ Explained(b)
    OBVIOUS
  <1> DEFINE b == [Blank EXCEPT !.status = x]
  <1>1. /\ b.rooms = {} /\ ~b.valid /\ b.results = {} /\ ~b.critical /\ ~b.review
        /\ b.decision = "none" /\ ~b.report /\ b.status = x
    BY DEF Blank
  <1>2. b \in PipelineState
    <2>1. <<>> \in Seq(Node \cup {"approved", "rejected", "resumed"})
      OBVIOUS
    <2>2. Blank \in PipelineState
      BY <2>1 DEF Blank, PipelineState, Status
    <2>3. x \in Status
      BY DEF Status
    <2> QED
      BY <2>2, <2>3 DEF PipelineState
  <1>3. Sound(b) /\ Explained(b)
    BY <1>1 DEF Sound, Unseen, Explained
  <1> QED
    BY <1>2, <1>3

-----------------------------------------------------------------------------
(* The nodes.                                                              *)

\* What a lemma about a node says of the state t it returns for the state s.
Carried(n, s, t) ==
    /\ t \in PipelineState
    /\ Sound(t)
    /\ Progress(Edge(n, t), t)
    /\ Explained(s) => Explained(t)

LEMMA InitializeCarries ==
    ASSUME NEW s \in PipelineState, Sound(s), Progress("initialize", s), NEW t \in Initialized(s)
    PROVE  Carried("initialize", s, t)
  <1> DEFINE Started ==
               /\ t \in PipelineState
               /\ t.rooms = s.rooms /\ t.valid = s.valid /\ t.results = s.results
               /\ t.critical = s.critical /\ t.review = s.review /\ t.decision = s.decision
               /\ t.report = s.report /\ t.status \in {"FAILED", "RUNNING"}
  <1>1. Started
    <2>1. CASE t = [s EXCEPT !.status = "FAILED"]
      BY <2>1 DEF PipelineState, Status
    <2>2. ASSUME NEW d \in BOOLEAN,
                 t = [s EXCEPT !.drawing = d, !.status = "RUNNING", !.log = <<"initialize">>]
          PROVE  Started
      <3>1. <<"initialize">> \in Seq(Node \cup {"approved", "rejected", "resumed"})
        BY DEF Node
      <3> QED
        BY <2>2, <3>1 DEF PipelineState, Status
    <2> QED
      BY <2>1, <2>2 DEF Initialized
  <1>2. /\ s.rooms = {} /\ ~s.valid /\ s.results = {} /\ ~s.critical /\ ~s.report
    BY DEF Progress, Node
  <1>3. Sound(t) /\ Explained(t)
    BY <1>1, <1>2 DEF Sound, Unseen, Explained
  <1>4. Progress(Edge("initialize", t), t)
    BY <1>1, <1>2 DEF Edge, Unconditional, Progress, Node
  <1> QED
    BY <1>1, <1>3, <1>4 DEF Carried

LEMMA ParseCarries ==
    ASSUME NEW s \in PipelineState, Sound(s), Progress("parse", s), NEW t \in Parsed(s)
    PROVE  Carried("parse", s, t)
  <1>1. PICK R \in SUBSET RoomKind :
           t = [s EXCEPT !.rooms = R, !.parsed = (R # {}),
                         !.status = IF R = {} THEN "FAILED" ELSE s.status,
                         !.log = Append(s.log, "parse")]
    BY DEF Parsed
  <1>2. Append(s.log, "parse") \in Seq(Node \cup {"approved", "rejected", "resumed"})
    BY LogType DEF Node
  <1>3. /\ t \in PipelineState
        /\ t.rooms = R /\ t.parsed = (R # {}) /\ t.log = Append(s.log, "parse")
        /\ t.valid = s.valid /\ t.results = s.results
        /\ t.critical = s.critical /\ t.review = s.review /\ t.decision = s.decision
        /\ t.report = s.report /\ t.status \in {"FAILED", s.status}
    BY <1>1, <1>2 DEF PipelineState, Status
  <1>4. /\ ~s.valid /\ s.results = {} /\ ~s.critical /\ ~s.report /\ s.status # "COMPLETED"
    BY DEF Progress, Node
  <1>5. "parse" \in Entries(t)
    BY <1>3, AppendEntries
  <1>6. Sound(t) /\ Explained(t)
    BY <1>3, <1>4, <1>5 DEF Sound, Unseen, Explained
  <1>7. Progress(Edge("parse", t), t)
    BY <1>3, <1>4 DEF Edge, Unconditional, Progress, Node
  <1> QED
    BY <1>3, <1>6, <1>7 DEF Carried

LEMMA ValidateCarries ==
    ASSUME NEW s \in PipelineState, Sound(s), Progress("validate", s)
    PROVE  Carried("validate", s, Validated(s))
  <1> DEFINE u == [s EXCEPT !.valid = s.rooms # {} /\ "malformed" \notin s.rooms]
             t == Logged(u, "validate")
  <1>1. /\ u \in PipelineState
        /\ u.valid = (s.rooms # {} /\ "malformed" \notin s.rooms) /\ u.log = s.log
        /\ u.rooms = s.rooms /\ u.results = s.results
        /\ u.critical = s.critical /\ u.review = s.review /\ u.decision = s.decision
        /\ u.report = s.report /\ u.status = s.status
    BY DEF PipelineState
  <1> HIDE DEF u
  <1>2. t \in PipelineState
    BY <1>1, LoggedType DEF Node
  <1>3. /\ t.rooms = u.rooms /\ t.valid = u.valid /\ t.results = u.results
        /\ t.critical = u.critical /\ t.review = u.review /\ t.decision = u.decision
        /\ t.report = u.report /\ t.status = u.status /\ t.log = Append(s.log, "validate")
    BY <1>1, LoggedOnly
  <1> HIDE DEF t
  <1>4. /\ s.results = {} /\ ~s.critical /\ ~s.report /\ s.status # "COMPLETED"
    BY DEF Progress, Node
  <1>5. "validate" \in Entries(t) /\ Entries(s) \subseteq Entries(t)
    BY <1>2, <1>3, AppendEntries
  <1>6. Sound(t) /\ (Explained(s) => Explained(t))
    BY <1>1, <1>3, <1>4, <1>5 DEF Sound, Unseen, Explained
  <1>7. Progress(Edge("validate", t), t)
    BY <1>1, <1>3, <1>4 DEF Edge, Unconditional, Progress, Node
  <1>8. Carried("validate", s, t)
    BY <1>2, <1>6, <1>7 DEF Carried
  <1> QED
    BY <1>8 DEF t, u, Validated

\* environmental_context and memory_enrich
LEMMA ContextCarries ==
    ASSUME NEW s \in PipelineState, Sound(s),
           NEW n \in {"environmental_context", "memory_enrich"}, Progress(n, s)
    PROVE  Carried(n, s, Logged(s, n))
  <1> DEFINE t == Logged(s, n)
  <1>1. t \in PipelineState
    BY LoggedType DEF Node
  <1>2. Sound(t) /\ (Explained(s) => Explained(t))
    BY LoggedSound DEF Node
  <1>3. /\ t.rooms = s.rooms /\ t.valid = s.valid /\ t.results = s.results
        /\ t.critical = s.critical /\ t.report = s.report /\ t.status = s.status
    BY LoggedOnly
  <1> HIDE DEF t
  <1>4. Progress(Edge(n, t), t)
    BY <1>3 DEF Edge, Unconditional, Progress, Node
  <1>5. Carried(n, s, t)
    BY <1>1, <1>2, <1>4 DEF Carried
  <1> QED
    BY <1>5 DEF t

LEMMA AnalysisCarries ==
    ASSUME NEW s \in PipelineState, Sound(s), Progress("nfpa_analysis", s)
    PROVE  Carried("nfpa_analysis", s, Analysed(s))
  <1> DEFINE u == [s EXCEPT !.results = s.rooms]
             t == Logged(u, "nfpa_analysis")
  <1>1. /\ u \in PipelineState
        /\ u.results = s.rooms /\ u.log = s.log /\ u.rooms = s.rooms /\ u.valid = s.valid
        /\ u.critical = s.critical /\ u.review = s.review /\ u.decision = s.decision
        /\ u.report = s.report /\ u.status = s.status
    BY DEF PipelineState
  <1> HIDE DEF u
  <1>2. t \in PipelineState
    BY <1>1, LoggedType DEF Node
  <1>3. /\ t.rooms = u.rooms /\ t.valid = u.valid /\ t.results = u.results
        /\ t.critical = u.critical /\ t.review = u.review /\ t.decision = u.decision
        /\ t.report = u.report /\ t.status = u.status
        /\ t.log = Append(s.log, "nfpa_analysis")
    BY <1>1, LoggedOnly
  <1> HIDE DEF t
  <1>4. /\ s.valid /\ "malformed" \notin s.rooms /\ ~s.critical /\ ~s.report
        /\ s.status # "COMPLETED"
    BY DEF Progress, Node
  <1>5. "nfpa_analysis" \in Entries(t) /\ Entries(s) \subseteq Entries(t)
    BY <1>2, <1>3, AppendEntries
  <1>6. Sound(t)
    BY <1>1, <1>3, <1>4 DEF Sound, Unseen
  <1>7. Explained(s) => Explained(t)
    BY <1>1, <1>3, <1>4, <1>5 DEF Explained
  <1>8. Progress(Edge("nfpa_analysis", t), t)
    BY <1>1, <1>3, <1>4 DEF Edge, Unconditional, Progress, Node
  <1>9. Carried("nfpa_analysis", s, t)
    BY <1>2, <1>6, <1>7, <1>8 DEF Carried
  <1> QED
    BY <1>9 DEF t, u, Analysed

\* Nothing asks for a review, so the edge never leads to the gate.
LEMMA ConflictsCarry ==
    ASSUME NEW s \in PipelineState, Sound(s), Progress("conflict_detection", s)
    PROVE  Carried("conflict_detection", s, Conflicted(s))
  <1> DEFINE u == [s EXCEPT !.critical = s.results \cap Unprotected # {}]
             t == Logged(u, "conflict_detection")
  <1>1. /\ u \in PipelineState
        /\ u.critical = (s.results \cap Unprotected # {}) /\ u.log = s.log
        /\ u.rooms = s.rooms /\ u.valid = s.valid /\ u.results = s.results
        /\ u.review = s.review /\ u.decision = s.decision
        /\ u.report = s.report /\ u.status = s.status
    BY DEF PipelineState
  <1> HIDE DEF u
  <1>2. t \in PipelineState
    BY <1>1, LoggedType DEF Node
  <1>3. /\ t.rooms = u.rooms /\ t.valid = u.valid /\ t.results = u.results
        /\ t.critical = u.critical /\ t.review = u.review /\ t.decision = u.decision
        /\ t.report = u.report /\ t.status = u.status
        /\ t.log = Append(s.log, "conflict_detection")
    BY <1>1, LoggedOnly
  <1> HIDE DEF t
  <1>4. ~s.report /\ s.status # "COMPLETED" /\ ~s.review
    BY DEF Progress, Node, Sound, Unseen
  <1>5. "conflict_detection" \in Entries(t) /\ Entries(s) \subseteq Entries(t)
    BY <1>2, <1>3, AppendEntries
  <1>6. Sound(t)
    BY <1>1, <1>3, <1>4 DEF Sound, Unseen
  <1>7. Explained(s) => Explained(t)
    BY <1>1, <1>3, <1>4, <1>5 DEF Explained
  <1>8. Progress(Edge("conflict_detection", t), t)
    BY <1>1, <1>3, <1>4 DEF Edge, Unconditional, Progress, Node
  <1>9. Carried("conflict_detection", s, t)
    BY <1>2, <1>6, <1>7, <1>8 DEF Carried
  <1> QED
    BY <1>9 DEF t, u, Conflicted

LEMMA ReportCarries ==
    ASSUME NEW s \in PipelineState, Sound(s), Progress("generate_report", s)
    PROVE  Carried("generate_report", s, Reported(s))
  <1> DEFINE x == IF "unknown" \in s.results THEN "FAILED"
                  ELSE IF s.critical THEN "REJECTED" ELSE "COMPLETED"
             u == [s EXCEPT !.report = TRUE, !.status = x]
             t == Logged(u, "generate_report")
  <1>0. x \in Status /\ x \notin {"AWAITING_REVIEW", "APPROVED"}
    BY DEF Status
  <1>a. x = "COMPLETED" => ~s.critical
    OBVIOUS
  <1> HIDE DEF x
  <1>1. /\ u \in PipelineState
        /\ u.report = TRUE /\ u.status = x /\ u.log = s.log
        /\ u.rooms = s.rooms /\ u.valid = s.valid /\ u.results = s.results
        /\ u.critical = s.critical /\ u.review = s.review /\ u.decision = s.decision
    BY <1>0 DEF PipelineState
  <1> HIDE DEF u
  <1>2. t \in PipelineState
    BY <1>1, LoggedType DEF Node
  <1>3. /\ t.rooms = u.rooms /\ t.valid = u.valid /\ t.results = u.results
        /\ t.critical = u.critical /\ t.review = u.review /\ t.decision = u.decision
        /\ t.report = u.report /\ t.status = u.status
        /\ t.log = Append(s.log, "generate_report")
    BY <1>1, LoggedOnly
  <1> HIDE DEF t
  <1>4. s.critical <=> s.results \cap Unprotected # {}
    BY DEF Progress
  <1>5. "generate_report" \in Entries(t) /\ Entries(s) \subseteq Entries(t)
    BY <1>2, <1>3, AppendEntries
  <1>6. Sound(t)
    BY <1>0, <1>a, <1>1, <1>3, <1>4 DEF Sound, Unseen
  <1>7. Explained(s) => Explained(t)
    BY <1>1, <1>3, <1>5 DEF Explained
  <1>8. Progress(Edge("generate_report", t), t)
    BY DEF Edge, Unconditional, Progress, Node
  <1>9. Carried("generate_report", s, t)
    BY <1>2, <1>6, <1>7, <1>8 DEF Carried
  <1> QED
    BY <1>9 DEF t, u, x, Reported

\* Every node, for a run that is at it, carries the invariant to where it leads.
LEMMA NodeCarries ==
    ASSUME NEW n \in Node, NEW s \in PipelineState, Sound(s), Progress(n, s),
           NEW t \in After(n, s)
    PROVE  Carried(n, s, t)
  <1>1. CASE n = "initialize"
    BY <1>1, InitializeCarries DEF After
  <1>2. CASE n = "parse"
    BY <1>2, ParseCarries DEF After
  <1>3. CASE n = "validate"
    BY <1>3, ValidateCarries DEF After
  <1>4. CASE n \in {"environmental_context", "memory_enrich"}
    BY <1>4, ContextCarries DEF After
  <1>5. CASE n = "nfpa_analysis"
    BY <1>5, AnalysisCarries DEF After
  <1>6. CASE n = "conflict_detection"
    BY <1>6, ConflictsCarry DEF After
  <1>7. CASE n = "generate_report"
    BY <1>7, ReportCarries DEF After
  <1>8. n # "human_review_gate"
    BY DEF Progress
  <1> QED
    BY <1>1, <1>2, <1>3, <1>4, <1>5, <1>6, <1>7, <1>8 DEF Node

-----------------------------------------------------------------------------
(* The invariant: types, soundness and the trail, for every workflow.      *)

\* What is invariant of one workflow.
Holds(a, s, c, d, m, v) ==
    /\ a \in Node \cup {"idle", "end", "done", "lost"}
    /\ s \in PipelineState /\ d \in PipelineState /\ m \in PipelineState
    /\ Sound(s) /\ Sound(d) /\ Sound(m)
    /\ Explained(s) /\ Explained(d) /\ Explained(m)
    /\ Progress(a, s)
    /\ c = "start"
    /\ v \in {"none", "refused"}

Shape ==
    /\ at = [w \in Workflows |-> at[w]] /\ st = [w \in Workflows |-> st[w]]
    /\ caller = [w \in Workflows |-> caller[w]] /\ saved = [w \in Workflows |-> saved[w]]
    /\ stored = [w \in Workflows |-> stored[w]] /\ verdict = [w \in Workflows |-> verdict[w]]
    /\ kept \subseteq Workflows /\ known \subseteq Workflows
    /\ crashes \in 0 .. MaxCrashes

WorkflowInv ==
    /\ Shape
    /\ \A w \in Workflows : Holds(at[w], st[w], caller[w], saved[w], stored[w], verdict[w])

LEMMA InitHolds == Init => WorkflowInv
  <1> SUFFICES ASSUME Init PROVE WorkflowInv
    OBVIOUS
  <1>1. Blank \in PipelineState /\ Sound(Blank) /\ Explained(Blank)
    <2>1. Blank = [Blank EXCEPT !.status = "PENDING"]
      BY DEF Blank
    <2> QED
      BY <2>1, BlankIsSound
  <1>2. Progress("idle", Blank)
    BY DEF Progress, Blank, Node
  <1>3. Shape
    BY CrashesAssumption DEF Init, Shape
  <1>4. ASSUME NEW w \in Workflows
        PROVE  Holds(at[w], st[w], caller[w], saved[w], stored[w], verdict[w])
    BY <1>1, <1>2 DEF Init, Holds
  <1> QED
    BY <1>3, <1>4 DEF WorkflowInv

\* A step that leaves workflow w as given, and the others as they are.
Becomes(w, a, s, d, m, v) ==
    /\ at' = [at EXCEPT ![w] = a] /\ st' = [st EXCEPT ![w] = s] /\ caller' = caller
    /\ saved' = [saved EXCEPT ![w] = d] /\ stored' = [stored EXCEPT ![w] = m]
    /\ verdict' = [verdict EXCEPT ![w] = v]
    /\ kept' \in {kept, kept \cup {w}} /\ known' \in {known, known \cup {w}}
    /\ crashes' = crashes

\* A step that touches one workflow need only be followed there.
LEMMA OneWorkflow ==
    ASSUME WorkflowInv, NEW w \in Workflows,
           NEW a, NEW s, NEW d, NEW m, NEW v,
           Holds(a, s, caller[w], d, m, v), Becomes(w, a, s, d, m, v)
    PROVE  WorkflowInv'
  <1>1. Shape'
    BY DEF WorkflowInv, Shape, Becomes
  <1>2. ASSUME NEW x \in Workflows
        PROVE  Holds(at'[x], st'[x], caller'[x], saved'[x], stored'[x], verdict'[x])
    <2>1. CASE x = w
      <3>1. at'[x] = a /\ st'[x] = s /\ saved'[x] = d /\ stored'[x] = m /\ verdict'[x] = v
            /\ caller'[x] = caller[w]
        BY <2>1 DEF WorkflowInv, Shape, Becomes
      <3> QED
        BY <3>1
    <2>2. CASE x # w
      <3>1. at'[x] = at[x] /\ st'[x] = st[x] /\ saved'[x] = saved[x]
            /\ stored'[x] = stored[x] /\ verdict'[x] = verdict[x] /\ caller'[x] = caller[x]
        BY <2>2 DEF WorkflowInv, Shape, Becomes
      <3> QED
        BY <3>1 DEF WorkflowInv
    <2> QED
      BY <2>1, <2>2
  <1> QED
    BY <1>1, <1>2 DEF WorkflowInv

LEMMA NextHolds == WorkflowInv /\ [Next]_vars => WorkflowInv'
  <1> SUFFICES ASSUME WorkflowInv, [Next]_vars PROVE WorkflowInv'
    OBVIOUS
  <1>0. ASSUME NEW w \in Workflows
        PROVE  /\ Holds(at[w], st[w], caller[w], saved[w], stored[w], verdict[w])
               /\ at = [at EXCEPT ![w] = at[w]] /\ st = [st EXCEPT ![w] = st[w]]
               /\ saved = [saved EXCEPT ![w] = saved[w]]
               /\ stored = [stored EXCEPT ![w] = stored[w]]
               /\ verdict = [verdict EXCEPT ![w] = verdict[w]]
    BY DEF WorkflowInv, Shape
  <1>1. ASSUME NEW w \in Workflows, Start(w) PROVE WorkflowInv'
    <2>1. Holds("initialize", st[w], caller[w], saved[w], stored[w], verdict[w])
      <3>1. at[w] = "idle"
        BY <1>1 DEF Start
      <3>2. Progress("initialize", st[w])
        BY <1>0, <3>1 DEF Holds, Progress, Node
      <3> QED
        BY <1>0, <3>2 DEF Holds, Node
    <2>2. Becomes(w, "initialize", st[w], saved[w], stored[w], verdict[w])
      BY <1>0, <1>1 DEF Start, disk, memory, Becomes
    <2> QED
      BY <2>1, <2>2, OneWorkflow
  <1>2. ASSUME NEW w \in Workflows, RunNode(w) PROVE WorkflowInv'
    <2>1. PICK s \in After(at[w], st[w]) :
             /\ st' = [st EXCEPT ![w] = s]
             /\ at' = [at EXCEPT ![w] = Interrupted(w, Edge(at[w], s))]
      BY <1>2 DEF RunNode
    <2>2. at[w] \in Node /\ UNCHANGED <<caller, disk, memory, verdict, crashes>>
      BY <1>2 DEF RunNode
    <2>3. Carried(at[w], st[w], s)
      BY <1>0, <2>2, NodeCarries DEF Holds
    <2>4. PICK e : e = Edge(at[w], s)
      OBVIOUS
    <2>5. e \in Node \cup {"end"}
      BY <2>2, <2>4 DEF Edge, Unconditional, Node
    <2>6. Interrupted(w, e) = e
      BY <2>3, <2>4 DEF Carried, Progress, Interrupted
    <2>7. Holds(e, s, caller[w], saved[w], stored[w], verdict[w])
      BY <1>0, <2>3, <2>4, <2>5 DEF Carried, Holds
    <2>8. Becomes(w, e, s, saved[w], stored[w], verdict[w])
      BY <1>0, <2>1, <2>2, <2>4, <2>6 DEF disk, memory, Becomes
    <2> QED
      BY <2>7, <2>8, OneWorkflow
  <1>3. ASSUME NEW w \in Workflows, Checkpoint(w) PROVE WorkflowInv'
    <2>1. Holds(at[w], st[w], caller[w], st[w], stored[w], verdict[w])
      BY <1>0 DEF Holds
    <2>2. Becomes(w, at[w], st[w], st[w], stored[w], verdict[w])
      BY <1>0, <1>3 DEF Checkpoint, memory, Becomes
    <2> QED
      BY <2>1, <2>2, OneWorkflow
  <1>4. ASSUME NEW w \in Workflows, Finish(w) PROVE WorkflowInv'
    <2>1. Holds("done", st[w], caller[w], saved[w], st[w], verdict[w])
      <3>1. Progress("done", st[w])
        BY DEF Progress, Node
      <3> QED
        BY <1>0, <3>1 DEF Holds
    <2>2. Becomes(w, "done", st[w], saved[w], st[w], verdict[w])
      BY <1>0, <1>4 DEF Finish, disk, Becomes
    <2> QED
      BY <2>1, <2>2, OneWorkflow
  <1>5. ASSUME NEW w \in Workflows, Raise(w) PROVE WorkflowInv'
    <2> DEFINE failed == [Blank EXCEPT !.status = "FAILED"]
    <2>1. failed \in PipelineState /\ Sound(failed) /\ Explained(failed)
      BY BlankIsSound
    <2>2. /\ at' = [at EXCEPT ![w] = "done"]
          /\ known' = known \cup {w} /\ stored' = [stored EXCEPT ![w] = failed]
          /\ UNCHANGED <<st, caller, disk, verdict, crashes>>
      BY <1>0, <1>5 DEF Raise, Holds
    <2> HIDE DEF failed
    <2>3. Holds("done", st[w], caller[w], saved[w], failed, verdict[w])
      <3>1. Progress("done", st[w])
        BY DEF Progress, Node
      <3> QED
        BY <1>0, <2>1, <3>1 DEF Holds
    <2>4. Becomes(w, "done", st[w], saved[w], failed, verdict[w])
      BY <1>0, <2>2 DEF disk, Becomes
    <2> QED
      BY <2>3, <2>4, OneWorkflow
  <1>6. ASSUME NEW w \in Workflows, Approve(w) \/ Reject(w) PROVE WorkflowInv'
    <2>1. stored[w].status # "AWAITING_REVIEW"
      BY <1>0 DEF Holds, Sound, Unseen
    <2>2. /\ verdict' = [verdict EXCEPT ![w] = "refused"]
          /\ UNCHANGED <<at, st, caller, stored, disk, known, crashes>>
      BY <1>6, <2>1 DEF Approve, Reject
    <2>3. Holds(at[w], st[w], caller[w], saved[w], stored[w], "refused")
      BY <1>0 DEF Holds
    <2>4. Becomes(w, at[w], st[w], saved[w], stored[w], "refused")
      BY <1>0, <2>2 DEF disk, Becomes
    <2> QED
      BY <2>3, <2>4, OneWorkflow
  <1>7. ASSUME NEW w \in Workflows, Resume(w) PROVE WorkflowInv'
    <2> DEFINE m == Logged(saved[w], "resumed")
    <2>1. m \in PipelineState /\ Sound(m) /\ Explained(m)
      BY <1>0, LoggedType, LoggedSound DEF Holds
    <2>2. /\ known' = known \cup {w} /\ stored' = [stored EXCEPT ![w] = m]
          /\ UNCHANGED <<at, st, caller, disk, verdict, crashes>>
      BY <1>7 DEF Resume
    <2> HIDE DEF m
    <2>3. Holds(at[w], st[w], caller[w], saved[w], m, verdict[w])
      BY <1>0, <2>1 DEF Holds
    <2>4. Becomes(w, at[w], st[w], saved[w], m, verdict[w])
      BY <1>0, <2>2 DEF disk, Becomes
    <2> QED
      BY <2>3, <2>4, OneWorkflow
  <1>8. CASE Crash
    <2>1. Blank \in PipelineState /\ Sound(Blank) /\ Explained(Blank)
      <3>1. Blank = [Blank EXCEPT !.status = "PENDING"]
        BY DEF Blank
      <3> QED
        BY <3>1, BlankIsSound
    <2>2. /\ crashes < MaxCrashes /\ crashes' = crashes + 1
          /\ at' = [w \in Workflows |-> IF at[w] \in Node \cup {"end"} THEN "lost" ELSE at[w]]
          /\ known' = {} /\ stored' = [w \in Workflows |-> Blank]
          /\ UNCHANGED <<st, caller, disk, verdict>>
      BY <1>8 DEF Crash
    <2>3. Shape'
      BY <2>2, CrashesAssumption DEF WorkflowInv, Shape, disk
    <2>4. ASSUME NEW w \in Workflows
          PROVE  Holds(at'[w], st'[w], caller'[w], saved'[w], stored'[w], verdict'[w])
      <3>1. at'[w] \in {"lost", at[w]} /\ stored'[w] = Blank /\ st'[w] = st[w]
            /\ caller'[w] = caller[w] /\ saved'[w] = saved[w] /\ verdict'[w] = verdict[w]
        BY <2>2 DEF disk
      <3>2. Progress("lost", st[w])
        BY DEF Progress, Node
      <3>3. Progress(at'[w], st[w])
        BY <1>0, <3>1, <3>2 DEF Holds
      <3> QED
        BY <1>0, <2>1, <3>1, <3>3 DEF Holds
    <2> QED
      BY <2>3, <2>4 DEF WorkflowInv
  <1>9. CASE UNCHANGED vars
    BY <1>9 DEF vars, WorkflowInv, Shape, Holds
  <1> QED
    BY <1>1, <1>2, <1>3, <1>4, <1>5, <1>6, <1>7, <1>8, <1>9 DEF Next, Run

LEMMA InvAlways == Spec => []WorkflowInv
  <1>1. Init => WorkflowInv
    BY InitHolds
  <1>2. WorkflowInv /\ [Next]_vars => WorkflowInv'
    BY NextHolds
  <1> QED
    BY <1>1, <1>2, PTL DEF Spec

-----------------------------------------------------------------------------
(* The properties.                                                         *)

\* Every reachable state is well typed.
THEOREM WorkflowTypeCorrect == Spec => []TypeOK
  <1>1. WorkflowInv => TypeOK
    BY DEF WorkflowInv, Shape, Holds, TypeOK
  <1> QED
    BY <1>1, InvAlways, PTL

\* What the invariant says of any of a workflow's three states.
LEMMA StatesAreSound ==
    ASSUME WorkflowInv, NEW w \in Workflows, NEW s \in States(w)
    PROVE  Sound(s) /\ Explained(s)
  BY DEF WorkflowInv, Holds, States

\* Rooms are analysed only when each of them has passed gates 1 and 2, the gates that
\* validation_passed is made of: in every run, checkpoint and recovered state.
THEOREM ValidationIsNeverSkipped == Spec => []NeverSkipsValidation
  <1>1. WorkflowInv => NeverSkipsValidation
    BY StatesAreSound DEF NeverSkipsValidation, Sound
  <1> QED
    BY <1>1, InvAlways, PTL

\* No design with an unprotected room is ever COMPLETED.
THEOREM UnprotectedNeverIsCompleted == Spec => []UnprotectedNeverCompletes
  <1>1. WorkflowInv => UnprotectedNeverCompletes
    BY StatesAreSound DEF UnprotectedNeverCompletes, Sound
  <1> QED
    BY <1>1, InvAlways, PTL

\* A COMPLETED workflow has its report.
THEOREM CompletedAlwaysHasReport == Spec => []CompletedHasReport
  <1>1. WorkflowInv => CompletedHasReport
    BY StatesAreSound DEF CompletedHasReport, Sound
  <1> QED
    BY <1>1, InvAlways, PTL

\* Whatever a state holds, its log has the entry of the node that computed it.
THEOREM TrailAlwaysExplains == Spec => []TrailExplains
  <1>1. WorkflowInv => TrailExplains
    BY StatesAreSound DEF TrailExplains, Explained
  <1> QED
    BY <1>1, InvAlways, PTL

\* No run is ever at the human review gate, and no reviewer's call is accepted.
GateUnreachable ==
    \A w \in Workflows : at[w] # "human_review_gate" /\ verdict[w] \in {"none", "refused"}

\* The review gate (workflow_service.py:1057) is dead code: no drawing, crash or
\* recovery leads a workflow there, and approve and reject refuse every call.
THEOREM ReviewGateIsUnreachable == Spec => []GateUnreachable
  <1>1. WorkflowInv => GateUnreachable
    BY DEF WorkflowInv, Holds, Progress, GateUnreachable
  <1> QED
    BY <1>1, InvAlways, PTL

-----------------------------------------------------------------------------
(* RoomLifecycle, for every number of threads and rooms and every bound.   *)
(* The chain is: the types; the history explains the state; from the shape *)
(* of the transition table, a certified room was verified; and, from the   *)
(* history and from what the reads of a building-wide question returned,   *)
(* the gate of all_certified.                                              *)


USE GoalsAssumption, RoomBounds

-----------------------------------------------------------------------------
(* The transition table.                                                   *)

\* The table only names states of the workflow.
LEMMA LegalClosed == \A s \in RoomState : Legal[s] \subseteq RoomState
  BY DEF Legal, RoomState

\* The sealed states are entered through VERIFIED alone.
LEMMA SealedEntry ==
    \A s \in RoomState : \A new \in Legal[s] :
        new \in Sealed => new = "VERIFIED" \/ s \in Sealed
  BY DEF Legal, RoomState, Sealed

\* A certificate is left by a rejection alone.
LEMMA CertifiedExit == Legal["CERTIFIED"] = {"REJECTED"}
  BY DEF Legal, RoomState

-----------------------------------------------------------------------------
\* Every reachable state is well typed, whatever the threads, rooms and bounds.
THEOREM RoomTypeCorrect == RoomSpec => []RoomTypeOK
<1>1. RoomInit => RoomTypeOK
  BY DEF RoomInit, RoomTypeOK, Objects, NoObject, RoomState, Unread, Questions
<1>2. RoomTypeOK /\ [RoomNext]_roomVars => RoomTypeOK'
  <2> SUFFICES ASSUME RoomTypeOK, [RoomNext]_roomVars PROVE RoomTypeOK'
    OBVIOUS
  <2>1. ASSUME NEW t \in Threads, NEW r \in Rooms, Enter(t, r) PROVE RoomTypeOK'
    <3>1. created \in 0 .. MaxObjects /\ created' = created + 1 /\ created < MaxObjects
      BY <2>1 DEF Enter, RoomTypeOK
    <3>2. 0 .. created \subseteq 0 .. created' /\ created + 1 \in 0 .. created'
      BY <3>1
    <3>3. rooms' \in [Rooms -> 0 .. created']
      BY <2>1, <3>2 DEF Enter, RoomTypeOK
    <3> QED
      BY <2>1, <3>1, <3>3 DEF Enter, RoomTypeOK, asking
  <2>2. ASSUME NEW t \in Threads, NEW o \in Objects, NEW g \in Goals, TransitionTo(t, o, g)
        PROVE  RoomTypeOK'
    <3>1. g \in RoomState /\ state[o] \in RoomState
      BY DEF RoomTypeOK
    <3>2. trail' \in [Objects -> Seq(RoomState \X RoomState)]
      BY <2>2, <3>1 DEF TransitionTo, RoomTypeOK
    <3>3. <<o, Len(trail[o]) + 1>> \in (0 .. MaxObjects) \X Nat
      BY DEF RoomTypeOK, Objects
    <3>4. due' \in [Threads -> (0 .. MaxObjects) \X Nat]
      BY <2>2, <3>3 DEF TransitionTo, RoomTypeOK
    <3> QED
      BY <2>2, <3>1, <3>2, <3>4 DEF TransitionTo, RoomTypeOK, asking
  <2>3. ASSUME NEW t \in Threads, Publish(t) PROVE RoomTypeOK'
    <3>1. due[t] \in (0 .. MaxObjects) \X Nat
      BY DEF RoomTypeOK
    <3>2. announced' \in [Objects -> SUBSET Nat]
      BY <2>3, <3>1 DEF Publish, RoomTypeOK
    <3>3. due' \in [Threads -> (0 .. MaxObjects) \X Nat]
      BY <2>3 DEF Publish, RoomTypeOK, NoObject
    <3> QED
      BY <2>3, <3>2, <3>3 DEF Publish, RoomTypeOK, asking
  <2>4. ASSUME NEW t \in Threads, NEW q \in Asks, Ask(t, q) PROVE RoomTypeOK'
    BY <2>4, AsksAssumption DEF Ask, RoomTypeOK
  <2>5. ASSUME NEW t \in Threads, NEW r \in Rooms, ReadRoom(t, r) PROVE RoomTypeOK'
    <3>1. rooms[r] \in Objects
      BY <2>5 DEF ReadRoom, RoomTypeOK, Registered, NoObject, Objects
    <3> QED
      BY <2>5, <3>1 DEF ReadRoom, RoomTypeOK
  <2>6. ASSUME NEW t \in Threads, Answer(t) PROVE RoomTypeOK'
    BY <2>6 DEF Answer, RoomTypeOK
  <2>7. CASE UNCHANGED roomVars
    BY <2>7 DEF roomVars, RoomTypeOK
  <2> QED
    BY <2>1, <2>2, <2>3, <2>4, <2>5, <2>6, <2>7 DEF RoomNext, RegisterRoom, ResetRoom
<1> QED
  BY <1>1, <1>2, PTL DEF RoomSpec

-----------------------------------------------------------------------------
(* One step on the histories.                                              *)

\* A step keeps every entry of every trail: trails only grow.
LEMMA TrailsGrow ==
    ASSUME RoomTypeOK, [RoomNext]_roomVars, NEW o \in Objects
    PROVE  /\ Len(trail[o]) \in Nat
           /\ Len(trail'[o]) \in Nat
           /\ Len(trail[o]) <= Len(trail'[o])
           /\ \A n \in 1 .. Len(trail[o]) : trail'[o][n] = trail[o][n]
<1>1. trail[o] \in Seq(RoomState \X RoomState)
  BY DEF RoomTypeOK
<1>2. CASE trail' = trail
  BY <1>1, <1>2
<1>3. ASSUME NEW t \in Threads, NEW p \in Objects, NEW g \in Goals, TransitionTo(t, p, g)
      PROVE  /\ Len(trail'[o]) \in Nat
             /\ Len(trail[o]) <= Len(trail'[o])
             /\ \A n \in 1 .. Len(trail[o]) : trail'[o][n] = trail[o][n]
  <2>1. trail' = [trail EXCEPT ![p] = Append(trail[p], <<state[p], g>>)]
    BY <1>3 DEF TransitionTo
  <2>2. <<state[p], g>> \in RoomState \X RoomState
    BY DEF RoomTypeOK
  <2>3. trail'[o] = trail[o] \/ trail'[o] = Append(trail[o], <<state[p], g>>)
    BY <2>1 DEF RoomTypeOK
  <2> QED
    BY <1>1, <2>2, <2>3
<1>4. trail' = trail \/ \E t \in Threads, p \in Objects, g \in Goals : TransitionTo(t, p, g)
  BY DEF RoomNext, roomVars, RegisterRoom, ResetRoom, Enter, Publish, Ask, ReadRoom, Answer
<1> QED
  BY <1>1, <1>2, <1>3, <1>4

\* What a transition leaves in the history of the object it moves: one more
\* entry, from the old state to the new one.
LEMMA TrailAfter ==
    ASSUME RoomTypeOK, NEW t \in Threads, NEW o \in Objects, NEW g \in Goals,
           TransitionTo(t, o, g)
    PROVE  /\ Len(trail[o]) \in Nat
           /\ Len(trail'[o]) = Len(trail[o]) + 1
           /\ trail'[o][Len(trail[o]) + 1] = <<state[o], g>>
           /\ \A n \in 1 .. Len(trail[o]) : trail'[o][n] = trail[o][n]
           /\ g \in Legal[state[o]] /\ state'[o] = g
           /\ \A p \in Objects \ {o} : trail'[p] = trail[p] /\ state'[p] = state[p]
<1>1. trail[o] \in Seq(RoomState \X RoomState) /\ <<state[o], g>> \in RoomState \X RoomState
  BY DEF RoomTypeOK
<1>2. trail'[o] = Append(trail[o], <<state[o], g>>)
  BY DEF RoomTypeOK, TransitionTo
<1>3. /\ g \in Legal[state[o]] /\ state'[o] = g
      /\ \A p \in Objects \ {o} : trail'[p] = trail[p] /\ state'[p] = state[p]
  BY DEF RoomTypeOK, TransitionTo
<1> QED
  BY <1>1, <1>2, <1>3

\* Only a transition touches a state or a trail.
LEMMA OthersKeepHistories ==
    ASSUME [RoomNext]_roomVars,
           ~ \E t \in Threads, o \in Objects, g \in Goals : TransitionTo(t, o, g)
    PROVE  state' = state /\ trail' = trail
  BY DEF RoomNext, roomVars, RegisterRoom, ResetRoom, Enter, Publish, Ask, ReadRoom, Answer

-----------------------------------------------------------------------------
\* A transition extends the chain, every other step leaves it as it is.
LEMMA HistoryStep == RoomTypeOK /\ HistoryExplains /\ [RoomNext]_roomVars => HistoryExplains'
<1> SUFFICES ASSUME RoomTypeOK, HistoryExplains, [RoomNext]_roomVars PROVE HistoryExplains'
  OBVIOUS
<1>1. ASSUME NEW t \in Threads, NEW o \in Objects, NEW g \in Goals, TransitionTo(t, o, g)
      PROVE  HistoryExplains'
  <2> SUFFICES ASSUME NEW p \in Objects
               PROVE  /\ state'[p] = StateAt(p, Len(trail[p]))'
                      /\ \A n \in 1 .. Len(trail'[p]) :
                            /\ trail'[p][n][1] = StateAt(p, n - 1)'
                            /\ trail'[p][n][2] \in Legal[trail'[p][n][1]]
    BY DEF HistoryExplains
  <2>1. CASE p = o
    <3>0. PICK k \in Nat : k = Len(trail[o])
      BY <1>1, TrailAfter
    <3>1. /\ k \in Nat /\ Len(trail'[o]) = k + 1
          /\ trail'[o][k + 1] = <<state[o], g>>
          /\ \A n \in 1 .. k : trail'[o][n] = trail[o][n]
          /\ g \in Legal[state[o]] /\ state'[o] = g
      BY <1>1, <3>0, TrailAfter
    <3>2. state'[o] = StateAt(o, Len(trail[o]))'
      BY <3>1 DEF StateAt
    <3>3. state[o] = StateAt(o, k) /\ StateAt(o, k) = StateAt(o, k)'
      BY <3>0, <3>1 DEF HistoryExplains, StateAt
    <3>4. ASSUME NEW n \in 1 .. Len(trail'[o])
          PROVE  trail'[o][n][1] = StateAt(o, n - 1)' /\ trail'[o][n][2] \in Legal[trail'[o][n][1]]
      <4>1. CASE n = k + 1
        <5>1. n - 1 = k /\ trail'[o][n] = <<state[o], g>>
          BY <3>1, <4>1
        <5> QED
          BY <3>1, <3>3, <5>1
      <4>2. CASE n \in 1 .. k
        <5>1. trail[o][n][1] = StateAt(o, n - 1) /\ trail[o][n][2] \in Legal[trail[o][n][1]]
          BY <3>0, <4>2 DEF HistoryExplains
        <5>2. StateAt(o, n - 1) = StateAt(o, n - 1)'
          BY <3>1, <4>2 DEF StateAt
        <5> QED
          BY <3>1, <4>2, <5>1, <5>2
      <4> QED
        BY <3>1, <4>1, <4>2
    <3> QED
      BY <2>1, <3>2, <3>4
  <2>2. CASE p # o
    <3>1. trail'[p] = trail[p] /\ state'[p] = state[p]
      BY <1>1, <2>2, TrailAfter
    <3> QED
      BY <3>1 DEF HistoryExplains, StateAt
  <2> QED
    BY <2>1, <2>2
<1>2. CASE ~ \E t \in Threads, o \in Objects, g \in Goals : TransitionTo(t, o, g)
  <2>1. state' = state /\ trail' = trail
    BY <1>2, OthersKeepHistories
  <2> QED
    BY <2>1 DEF HistoryExplains, StateAt
<1> QED
  BY <1>1, <1>2

\* The recorded history of a room is a chain of legal transitions from PENDING
\* to its state, for every interleaving of the callers.
THEOREM HistoryAlwaysExplains == RoomSpec => []HistoryExplains
<1>1. RoomInit => HistoryExplains
  BY DEF RoomInit, HistoryExplains, StateAt
<1> QED
  BY <1>1, HistoryStep, RoomTypeCorrect, PTL DEF RoomSpec

-----------------------------------------------------------------------------
\* A transition into a sealed state either is the verification or extends the
\* run of sealed entries that began with one.
LEMMA SealedStep ==
    RoomTypeOK /\ HistoryExplains /\ CertifiedWasVerified /\ [RoomNext]_roomVars
        => CertifiedWasVerified'
<1> SUFFICES ASSUME RoomTypeOK, HistoryExplains, CertifiedWasVerified, [RoomNext]_roomVars
             PROVE  CertifiedWasVerified'
  OBVIOUS
<1>1. ASSUME NEW t \in Threads, NEW o \in Objects, NEW g \in Goals, TransitionTo(t, o, g)
      PROVE  CertifiedWasVerified'
  <2> SUFFICES ASSUME NEW p \in Objects, state'[p] \in Sealed
               PROVE  \E n \in 1 .. Len(trail'[p]) :
                          /\ trail'[p][n][2] = "VERIFIED"
                          /\ \A m \in n .. Len(trail'[p]) : trail'[p][m][2] \in Sealed
    BY DEF CertifiedWasVerified, Sealed
  <2>1. CASE p = o
    <3>0. PICK k \in Nat : k = Len(trail[o])
      BY <1>1, TrailAfter
    <3>1. /\ k \in Nat /\ Len(trail'[o]) = k + 1
          /\ trail'[o][k + 1] = <<state[o], g>>
          /\ \A n \in 1 .. k : trail'[o][n] = trail[o][n]
          /\ g \in Legal[state[o]] /\ state'[o] = g
      BY <1>1, <3>0, TrailAfter
    <3>2. trail'[o][k + 1][2] = g /\ g \in Sealed
      BY <2>1, <3>1
    <3>3. CASE g = "VERIFIED"
      <4>1. k + 1 \in 1 .. Len(trail'[o]) /\ (k + 1) .. Len(trail'[o]) = {k + 1}
        BY <3>1
      <4> QED
        BY <2>1, <3>2, <3>3, <4>1
    <3>4. CASE g # "VERIFIED"
      <4>1. state[o] \in Sealed
        BY <3>1, <3>2, <3>4, SealedEntry DEF RoomTypeOK
      <4>2. PICK n \in 1 .. k :
                /\ trail[o][n][2] = "VERIFIED"
                /\ \A m \in n .. k : trail[o][m][2] \in Sealed
        BY <3>0, <4>1 DEF CertifiedWasVerified
      <4>3. trail'[o][n][2] = "VERIFIED" /\ n \in 1 .. Len(trail'[o])
        BY <3>1, <4>2
      <4>4. ASSUME NEW m \in n .. Len(trail'[o]) PROVE trail'[o][m][2] \in Sealed
        <5>1. m = k + 1 \/ m \in n .. k
          BY <3>1, <4>2
        <5> QED
          BY <3>1, <3>2, <4>2, <5>1
      <4> QED
        BY <2>1, <4>3, <4>4
    <3> QED
      BY <3>3, <3>4
  <2>2. CASE p # o
    <3>1. trail'[p] = trail[p] /\ state'[p] = state[p]
      BY <1>1, <2>2, TrailAfter
    <3> QED
      BY <3>1 DEF CertifiedWasVerified
  <2> QED
    BY <2>1, <2>2
<1>2. CASE ~ \E t \in Threads, o \in Objects, g \in Goals : TransitionTo(t, o, g)
  <2>1. state' = state /\ trail' = trail
    BY <1>2, OthersKeepHistories
  <2> QED
    BY <2>1 DEF CertifiedWasVerified
<1> QED
  BY <1>1, <1>2

\* No room is certified, or on its way there, that was not verified since it
\* last was pending, failed or rejected.
THEOREM CertifiedAlwaysWasVerified == RoomSpec => []CertifiedWasVerified
<1>1. RoomInit => CertifiedWasVerified
  BY DEF RoomInit, CertifiedWasVerified, Sealed
<1> QED
  BY <1>1, SealedStep, RoomTypeCorrect, HistoryAlwaysExplains, PTL DEF RoomSpec

-----------------------------------------------------------------------------
(* The building-wide questions.                                            *)

\* The marks of a question are places in the trails, and a question is only
\* in hand while a thread is asking.
MarksFit ==
    /\ \A o \in Objects : mark[o] <= Len(trail[o])
    /\ asked # "nothing" => ~ManagerFree

LEMMA MarksStep == RoomTypeOK /\ MarksFit /\ [RoomNext]_roomVars => MarksFit'
<1> SUFFICES ASSUME RoomTypeOK, MarksFit, [RoomNext]_roomVars PROVE MarksFit'
  OBVIOUS
<1> DEFINE Fit == \A o \in Objects : mark'[o] <= Len(trail'[o])
           Held == asked' # "nothing" => ~ManagerFree'
<1>a. \A o \in Objects : mark[o] \in Nat
  BY DEF RoomTypeOK
<1>b. ASSUME mark' = mark PROVE Fit
  BY <1>a, <1>b, TrailsGrow DEF MarksFit
<1>1. ASSUME NEW t \in Threads, NEW r \in Rooms, Enter(t, r) PROVE Fit /\ Held
  BY <1>1, <1>b DEF Enter, asking, MarksFit, ManagerFree
<1>2. ASSUME NEW t \in Threads, NEW o \in Objects, NEW g \in Goals, TransitionTo(t, o, g)
      PROVE  Fit /\ Held
  BY <1>2, <1>b DEF TransitionTo, asking, MarksFit, ManagerFree, RoomTypeOK
<1>3. ASSUME NEW t \in Threads, Publish(t) PROVE Fit /\ Held
  BY <1>3, <1>b DEF Publish, asking, MarksFit, ManagerFree, RoomTypeOK
<1>4. ASSUME NEW t \in Threads, NEW q \in Asks, Ask(t, q) PROVE Fit /\ Held
  <2>1. \A o \in Objects : mark'[o] = Len(trail[o]) /\ Len(trail[o]) \in Nat
    BY <1>4, TrailsGrow DEF Ask
  <2>2. pc'[t] = "asking"
    BY <1>4 DEF Ask, RoomTypeOK
  <2> QED
    BY <2>1, <2>2, TrailsGrow DEF ManagerFree
<1>5. ASSUME NEW t \in Threads, NEW r \in Rooms, ReadRoom(t, r) PROVE Fit /\ Held
  BY <1>5, <1>b DEF ReadRoom, MarksFit, ManagerFree
<1>6. ASSUME NEW t \in Threads, Answer(t) PROVE Fit /\ Held
  <2>1. \A o \in Objects : mark'[o] = 0 /\ Len(trail'[o]) \in Nat
    BY <1>6, TrailsGrow DEF Answer
  <2> QED
    BY <1>6, <2>1 DEF Answer
<1>7. CASE UNCHANGED roomVars
  BY <1>7, <1>b DEF roomVars, MarksFit, ManagerFree
<1> QED
  BY <1>1, <1>2, <1>3, <1>4, <1>5, <1>6, <1>7 DEF RoomNext, RegisterRoom, ResetRoom, MarksFit

\* A state that an object was in after n transitions stays that state.
LEMMA PastStays ==
    ASSUME RoomTypeOK, [RoomNext]_roomVars, NEW o \in Objects, NEW n \in 0 .. Len(trail[o])
    PROVE  n \in 0 .. Len(trail'[o]) /\ StateAt(o, n)' = StateAt(o, n)
  BY TrailsGrow DEF StateAt

\* What a question has read stays explained while the rooms move on.
LEMMA ReadStep ==
    RoomTypeOK /\ HistoryExplains /\ MarksFit /\ ReadWhatWas /\ [RoomNext]_roomVars => ReadWhatWas'
<1> SUFFICES ASSUME RoomTypeOK, HistoryExplains, MarksFit, ReadWhatWas, [RoomNext]_roomVars
             PROVE  ReadWhatWas'
  OBVIOUS
<1> DEFINE Was(r, o) == \E n \in mark[o] .. Len(trail[o]) : read[r] = StateAt(o, n)
<1>0. \A o \in Objects : mark[o] \in Nat /\ Len(trail[o]) \in Nat
  BY TrailsGrow DEF RoomTypeOK
<1>a. ASSUME NEW r \in Rooms, NEW o \in Objects, read'[r] = read[r], mark' = mark, Was(r, o)
      PROVE  Was(r, o)'
  <2>1. PICK n \in mark[o] .. Len(trail[o]) : read[r] = StateAt(o, n)
    BY <1>a
  <2>2. n \in 0 .. Len(trail[o])
    BY <1>0, <2>1
  <2>3. n \in mark'[o] .. Len(trail'[o]) /\ StateAt(o, n)' = StateAt(o, n)
    BY <1>0, <1>a, <2>1, <2>2, PastStays, TrailsGrow
  <2> QED
    BY <1>a, <2>1, <2>3
<1>b. \A r \in Registered : r \in Rooms /\ rooms[r] \in Objects
  BY DEF Registered, RoomTypeOK, NoObject, Objects
<1>c. ASSUME UNCHANGED <<rooms, read, mark>>, ~ManagerFree PROVE ReadWhatWas'
  <2> SUFFICES ASSUME NEW r \in Registered', read'[r] # Unread PROVE Was(r, rooms[r])'
    BY DEF ReadWhatWas
  <2>1. r \in Registered /\ Was(r, rooms[r]) /\ rooms'[r] = rooms[r]
    BY <1>c DEF ReadWhatWas, Registered
  <2>2. Was(r, rooms[r])' <=> \E n \in mark'[rooms[r]] .. Len(trail'[rooms[r]]) :
                                  read'[r] = StateAt(rooms[r], n)'
    BY <2>1
  <2> QED
    BY <1>a, <1>b, <1>c, <2>1, <2>2
<1>1. ASSUME NEW t \in Threads, NEW r \in Rooms, Enter(t, r) PROVE ReadWhatWas'
  BY <1>1 DEF Enter, ReadWhatWas, ManagerFree
<1>2. ASSUME NEW t \in Threads, NEW o \in Objects, NEW g \in Goals, TransitionTo(t, o, g)
      PROVE  ReadWhatWas'
  <2>1. CASE ManagerFree
    BY <1>2, <2>1 DEF TransitionTo, ReadWhatWas, ManagerFree, RoomTypeOK
  <2>2. CASE ~ManagerFree
    BY <1>2, <1>c, <2>2 DEF TransitionTo, asking
  <2> QED
    BY <2>1, <2>2
<1>3. ASSUME NEW t \in Threads, Publish(t) PROVE ReadWhatWas'
  <2>1. CASE ManagerFree
    BY <1>3, <2>1 DEF Publish, ReadWhatWas, ManagerFree, RoomTypeOK
  <2>2. CASE ~ManagerFree
    BY <1>3, <1>c, <2>2 DEF Publish, asking
  <2> QED
    BY <2>1, <2>2
<1>4. ASSUME NEW t \in Threads, NEW q \in Asks, Ask(t, q) PROVE ReadWhatWas'
  BY <1>4 DEF Ask, ReadWhatWas, Registered
<1>5. ASSUME NEW t \in Threads, NEW r \in Rooms, ReadRoom(t, r) PROVE ReadWhatWas'
  <2> SUFFICES ASSUME NEW q \in Registered', read'[q] # Unread
               PROVE  \E n \in mark'[rooms'[q]] .. Len(trail'[rooms'[q]]) :
                          read'[q] = StateAt(rooms[q], n)'
    BY DEF ReadWhatWas
  <2>1. /\ rooms' = rooms /\ trail' = trail /\ mark' = mark /\ q \in Registered
        /\ read' = [read EXCEPT ![r] = state[rooms[r]]] /\ ~ManagerFree
    BY <1>5 DEF ReadRoom, Registered, ManagerFree
  <2>2. \A n : StateAt(rooms[q], n)' = StateAt(rooms[q], n)
    BY <2>1 DEF StateAt
  <2>3. CASE q = r
    <3>1. read'[q] = StateAt(rooms[q], Len(trail[rooms[q]]))
      BY <1>b, <2>1, <2>3 DEF HistoryExplains, RoomTypeOK
    <3>2. Len(trail[rooms[q]]) \in mark[rooms[q]] .. Len(trail[rooms[q]])
      BY <1>0, <1>b, <2>1 DEF MarksFit
    <3> QED
      BY <2>1, <2>2, <3>1, <3>2
  <2>4. CASE q # r
    <3>1. read'[q] = read[q]
      BY <1>b, <2>1, <2>4 DEF RoomTypeOK
    <3>2. PICK n \in mark[rooms[q]] .. Len(trail[rooms[q]]) : read[q] = StateAt(rooms[q], n)
      BY <2>1, <3>1 DEF ReadWhatWas
    <3> QED
      BY <2>1, <2>2, <3>1, <3>2
  <2> QED
    BY <2>3, <2>4
<1>6. ASSUME NEW t \in Threads, Answer(t) PROVE ReadWhatWas'
  BY <1>6 DEF Answer, ReadWhatWas, Registered
<1>7. CASE UNCHANGED roomVars
  <2>1. CASE ManagerFree
    BY <1>7, <2>1 DEF roomVars, ReadWhatWas, ManagerFree
  <2>2. CASE ~ManagerFree
    BY <1>7, <1>c, <2>2 DEF roomVars
  <2> QED
    BY <2>1, <2>2
<1> QED
  BY <1>1, <1>2, <1>3, <1>4, <1>5, <1>6, <1>7 DEF RoomNext, RegisterRoom, ResetRoom

\* Whatever a building-wide question reads, the room was in that state at some
\* moment of the call.
THEOREM ReadsAreOfTheCall == RoomSpec => []ReadWhatWas
<1>1. RoomInit => ReadWhatWas /\ MarksFit
  BY DEF RoomInit, ReadWhatWas, MarksFit, ManagerFree, Objects
<1> QED
  BY <1>1, ReadStep, MarksStep, RoomTypeCorrect, HistoryAlwaysExplains, PTL DEF RoomSpec

\* The gate of all_certified: a certified room that was not rejected during the
\* call is certified at the answer, because a certificate is left by a
\* rejection alone.
LEMMA GateFollows ==
    RoomTypeOK /\ HistoryExplains /\ MarksFit /\ ReadWhatWas => GateHolds
<1> SUFFICES ASSUME RoomTypeOK, HistoryExplains, MarksFit, ReadWhatWas,
                    asked = "all_certified", AnswersCertified,
                    NEW r \in Registered,
                    \A n \in mark[rooms[r]] + 1 .. Len(trail[rooms[r]]) :
                        trail[rooms[r]][n][2] # "REJECTED"
             PROVE  state[rooms[r]] = "CERTIFIED"
  BY DEF GateHolds
<1> DEFINE o == rooms[r]
<1>1. o \in Objects /\ r \in Rooms
  BY DEF Registered, RoomTypeOK, NoObject, Objects
<1>2. mark[o] \in Nat /\ trail[o] \in Seq(RoomState \X RoomState) /\ Len(trail[o]) \in Nat
  BY <1>1 DEF RoomTypeOK
<1>3. PICK n \in mark[o] .. Len(trail[o]) : StateAt(o, n) = "CERTIFIED"
  BY DEF AnswersCertified, ReadWhatWas, MarksFit, Unread
<1>4. CASE n = Len(trail[o])
  BY <1>1, <1>3, <1>4 DEF HistoryExplains
<1>5. CASE n # Len(trail[o])
  <2>1. n + 1 \in 1 .. Len(trail[o]) /\ n + 1 \in mark[o] + 1 .. Len(trail[o]) /\ n + 1 - 1 = n
    BY <1>2, <1>3, <1>5
  <2>2. trail[o][n + 1][1] = "CERTIFIED" /\ trail[o][n + 1][2] \in Legal[trail[o][n + 1][1]]
    BY <1>1, <1>3, <2>1 DEF HistoryExplains
  <2>3. trail[o][n + 1][2] = "REJECTED"
    BY <2>2, CertifiedExit
  <2> QED
    BY <2>1, <2>3
<1> QED
  BY <1>4, <1>5

\* When all_certified answers True and nothing was rejected meanwhile, every
\* registered room is certified, however many rooms and callers there are.
THEOREM GateAlwaysHolds == RoomSpec => []GateHolds
<1>1. RoomInit => MarksFit
  BY DEF RoomInit, MarksFit, ManagerFree, Objects
<1> QED
  BY <1>1, GateFollows, MarksStep, ReadsAreOfTheCall, RoomTypeCorrect,
     HistoryAlwaysExplains, PTL DEF RoomSpec

-----------------------------------------------------------------------------
(* The announcements.                                                      *)

\* A thread about to publish has an object's entry in hand.
DueFits == \A t \in Threads : pc[t] = "publish" => due[t][1] \in Objects

\* A transition hands its thread an entry nobody had; a publication moves the
\* thread's entry to the announced ones; no other step touches either.
LEMMA AnnounceStep ==
    RoomTypeOK /\ DueFits /\ AnnouncedOnce /\ [RoomNext]_roomVars => DueFits' /\ AnnouncedOnce'
<1> SUFFICES ASSUME RoomTypeOK, DueFits, AnnouncedOnce, [RoomNext]_roomVars
             PROVE  DueFits' /\ AnnouncedOnce'
  OBVIOUS
<1> DEFINE Once(p) ==
        /\ 1 .. Len(trail[p]) = announced[p] \cup {due[u][2] : u \in Announcing(p)}
        /\ \A u \in Announcing(p) : due[u][2] \notin announced[p]
        /\ \A u, v \in Announcing(p) : due[u][2] = due[v][2] => u = v
<1>1. ASSUME NEW t \in Threads, NEW o \in Objects, NEW g \in Goals, TransitionTo(t, o, g)
      PROVE  DueFits' /\ AnnouncedOnce'
  <2>0. PICK k \in Nat : k = Len(trail[o])
    BY <1>1, TrailAfter
  <2>1. /\ Len(trail'[o]) = k + 1 /\ announced' = announced
        /\ pc[t] = "idle" /\ pc' = [pc EXCEPT ![t] = "publish"]
        /\ due' = [due EXCEPT ![t] = <<o, k + 1>>]
        /\ \A p \in Objects \ {o} : trail'[p] = trail[p]
    <3>1. Len(trail'[o]) = k + 1 /\ \A p \in Objects \ {o} : trail'[p] = trail[p]
      BY <1>1, <2>0, TrailAfter
    <3> QED
      BY <1>1, <2>0, <3>1 DEF TransitionTo
  <2>2. /\ due'[t] = <<o, k + 1>> /\ pc'[t] = "publish"
        /\ \A u \in Threads \ {t} : due'[u] = due[u] /\ pc'[u] = pc[u]
    BY <2>1 DEF RoomTypeOK
  <2>3. /\ Announcing(o)' = Announcing(o) \cup {t} /\ t \notin Announcing(o)
        /\ \A p \in Objects \ {o} : Announcing(p)' = Announcing(p) /\ t \notin Announcing(p)
    BY <2>1, <2>2 DEF Announcing
  <2>4. Once(o)'
    <3>1. Once(o)
      BY DEF AnnouncedOnce
    <3>2. {due'[u][2] : u \in Announcing(o)'} = {due[u][2] : u \in Announcing(o)} \cup {k + 1}
      BY <2>2, <2>3 DEF Announcing
    <3>3. \A u \in Announcing(o) : due[u][2] \in 1 .. k /\ due'[u] = due[u]
      BY <2>0, <2>2, <2>3, <3>1 DEF Announcing
    <3>4. announced[o] \subseteq 1 .. k
      BY <2>0, <3>1
    <3>5. 1 .. Len(trail'[o]) = announced'[o] \cup {due'[u][2] : u \in Announcing(o)'}
      <4>1. 1 .. (k + 1) = 1 .. k \cup {k + 1}
        OBVIOUS
      <4> QED
        BY <2>0, <2>1, <3>1, <3>2, <4>1
    <3>6. \A u \in Announcing(o)' : due'[u][2] \notin announced'[o]
      BY <2>1, <2>2, <2>3, <3>1, <3>3, <3>4
    <3>7. \A u, v \in Announcing(o)' : due'[u][2] = due'[v][2] => u = v
      BY <2>2, <2>3, <3>1, <3>3
    <3> QED
      BY <3>5, <3>6, <3>7
  <2>5. ASSUME NEW p \in Objects \ {o} PROVE Once(p)'
    <3>1. Once(p) /\ \A u \in Announcing(p) : due'[u] = due[u]
      BY <2>2, <2>3 DEF AnnouncedOnce, Announcing
    <3>2. {due'[u][2] : u \in Announcing(p)} = {due[u][2] : u \in Announcing(p)}
      BY <3>1
    <3> QED
      BY <2>1, <2>3, <3>1, <3>2
  <2>6. DueFits'
    BY <2>2 DEF DueFits
  <2> QED
    BY <2>4, <2>5, <2>6 DEF AnnouncedOnce
<1>2. ASSUME NEW t \in Threads, Publish(t) PROVE DueFits' /\ AnnouncedOnce'
  <2>0. PICK o \in Objects, n \in Nat : due[t][1] = o /\ due[t][2] = n
    BY <1>2 DEF Publish, DueFits, RoomTypeOK
  <2>1. /\ pc[t] = "publish" /\ pc' = [pc EXCEPT ![t] = "idle"] /\ trail' = trail
        /\ announced' = [announced EXCEPT ![o] = announced[o] \cup {n}]
        /\ due' = [due EXCEPT ![t] = <<NoObject, 0>>]
    BY <1>2, <2>0 DEF Publish
  <2>2. /\ pc'[t] = "idle" /\ announced'[o] = announced[o] \cup {n}
        /\ \A p \in Objects \ {o} : announced'[p] = announced[p]
        /\ \A u \in Threads \ {t} : due'[u] = due[u] /\ pc'[u] = pc[u]
    BY <2>1 DEF RoomTypeOK
  <2>3. /\ Announcing(o)' = Announcing(o) \ {t} /\ t \in Announcing(o)
        /\ \A p \in Objects \ {o} : Announcing(p)' = Announcing(p) /\ t \notin Announcing(p)
    BY <2>0, <2>1, <2>2 DEF Announcing
  <2>4. Once(o)'
    <3>1. Once(o)
      BY DEF AnnouncedOnce
    <3>2. \A u \in Announcing(o)' : u \in Announcing(o) /\ due'[u] = due[u] /\ due[u][2] # n
      BY <2>0, <2>2, <2>3, <3>1 DEF Announcing
    <3>3. {due[u][2] : u \in Announcing(o)} = {due'[u][2] : u \in Announcing(o)'} \cup {n}
      BY <2>0, <2>3, <3>2
    <3>4. 1 .. Len(trail'[o]) = announced'[o] \cup {due'[u][2] : u \in Announcing(o)'}
      BY <2>1, <2>2, <3>1, <3>3
    <3>5. \A u \in Announcing(o)' : due'[u][2] \notin announced'[o]
      BY <2>2, <3>1, <3>2
    <3>6. \A u, v \in Announcing(o)' : due'[u][2] = due'[v][2] => u = v
      BY <3>1, <3>2
    <3> QED
      BY <3>4, <3>5, <3>6
  <2>5. ASSUME NEW p \in Objects \ {o} PROVE Once(p)'
    <3>1. Once(p) /\ \A u \in Announcing(p) : due'[u] = due[u]
      BY <2>2, <2>3 DEF AnnouncedOnce, Announcing
    <3>2. {due'[u][2] : u \in Announcing(p)} = {due[u][2] : u \in Announcing(p)}
      BY <3>1
    <3> QED
      BY <2>1, <2>2, <2>3, <3>1, <3>2
  <2>6. DueFits'
    BY <2>2 DEF DueFits
  <2> QED
    BY <2>4, <2>5, <2>6 DEF AnnouncedOnce
<1>3. ASSUME UNCHANGED <<trail, announced, due>>,
             \A t \in Threads : pc'[t] = "publish" <=> pc[t] = "publish"
      PROVE  DueFits' /\ AnnouncedOnce'
  <2>1. \A p : Announcing(p)' = Announcing(p)
    BY <1>3 DEF Announcing
  <2> QED
    BY <1>3, <2>1 DEF DueFits, AnnouncedOnce
<1>4. ASSUME NEW t \in Threads, NEW r \in Rooms, Enter(t, r) PROVE DueFits' /\ AnnouncedOnce'
  BY <1>3, <1>4 DEF Enter
<1>5. ASSUME NEW t \in Threads, NEW q \in Asks, Ask(t, q) PROVE DueFits' /\ AnnouncedOnce'
  BY <1>3, <1>5 DEF Ask, RoomTypeOK
<1>6. ASSUME NEW t \in Threads, NEW r \in Rooms, ReadRoom(t, r)
      PROVE  DueFits' /\ AnnouncedOnce'
  BY <1>3, <1>6 DEF ReadRoom
<1>7. ASSUME NEW t \in Threads, Answer(t) PROVE DueFits' /\ AnnouncedOnce'
  BY <1>3, <1>7 DEF Answer, RoomTypeOK
<1>8. CASE UNCHANGED roomVars
  BY <1>3, <1>8 DEF roomVars
<1> QED
  BY <1>1, <1>2, <1>4, <1>5, <1>6, <1>7, <1>8 DEF RoomNext, RegisterRoom, ResetRoom

\* Every recorded transition is announced once or is with exactly one thread
\* that is about to announce it, and nothing else is announced.
THEOREM AlwaysAnnouncedOnce == RoomSpec => []AnnouncedOnce
<1>1. RoomInit => DueFits /\ AnnouncedOnce
  BY DEF RoomInit, DueFits, AnnouncedOnce, Announcing
<1> QED
  BY <1>1, AnnounceStep, RoomTypeCorrect, PTL DEF RoomSpec
=============================================================================

----------------------------- MODULE RevitBridge -----------------------------
(***************************************************************************)
(* A model update on its way into Revit: RevitMCPServer puts it into its   *)
(* own queue and sends it with RevitNamedPipeClient over a named pipe, the *)
(* add-in's NamedPipeServer puts it into ThreadSafeQueueHandler's queue    *)
(* and raises Revit's ExternalEvent, and Revit calls Execute on its user   *)
(* interface thread.  One instance of the pipe listens at a time; an       *)
(* answer may be lost; Revit may be closed or crash at any moment, and     *)
(* what the add-in holds is in its memory only.                            *)
(*                                                                         *)
(* External to the repository, modelled from how it is used: a pipe's      *)
(* connection, and the ExternalEvent, of which at most one is pending      *)
(* however often it is raised.                                             *)
(***************************************************************************)
EXTENDS Naturals, Sequences, FiniteSets, SequencesExt

CONSTANTS
    Servers,      \* processes with a RevitMCPServer
    Direct,       \* processes that use RevitNamedPipeClient themselves
    LocalCap,     \* max_size of a server's ThreadSafeModelUpdateQueue
    MaxUpdates,   \* bound: updates asked for
    MaxSessions   \* bound: sessions of Revit

ASSUME ClientsAssumption == Servers \cap Direct = {} /\ "nobody" \notin Servers \cup Direct
ASSUME LocalCapAssumption == LocalCap \in Nat \ {0}
ASSUME MaxUpdatesAssumption == MaxUpdates \in Nat
ASSUME MaxSessionsAssumption == MaxSessions \in Nat \ {0}

Clients == Servers \cup Direct
Updates == 1 .. MaxUpdates

\* What BuildAction makes of a command: an action; or null, which is answered as
\* an error, or an exception of another kind than JsonException, which is not.
Flaws == {"none", "bad"}

VARIABLES
    client,     \* per client: stage of its call, its update, what it has read
    local,      \* actions in each server's queue, which nobody dequeues
    asked,      \* how many updates were asked for
    flaw,       \* per update: what is wrong with it
    answer,     \* per update: what its caller was told
    phase,      \* of Revit: "up", "stopping" (OnShutdown is waiting), "down"
    session,    \* sessions begun
    listener,   \* ListenLoop: its stage, and the client it is connected to
    queue,      \* _actionQueue
    raised,     \* the ExternalEvent is pending
    executing,  \* the update Execute is running, or 0
    outcome,    \* per update: how its transaction ended
    \* history, of this session where it says so:
    absorbed,   \* Raise calls that found the event pending (session)
    accepted,   \* updates put into _actionQueue, in order (session)
    begun,      \* updates taken out of it, in order (session)
    reached     \* updates that were ever put into it

addinVars == <<phase, session, listener, queue, raised, executing, outcome,
               absorbed, accepted, begun, reached>>
bridgeVars == <<client, local, asked, flaw, answer, addinVars>>

Idle == [stage |-> "idle", update |-> 0, read |-> "nothing"]
Between == [stage |-> "between", peer |-> "nobody"]

BridgeInit ==
    /\ client = [c \in Clients |-> Idle]
    /\ local = [c \in Servers |-> 0]
    /\ asked = 0
    /\ flaw = [u \in Updates |-> "none"]
    /\ answer = [u \in Updates |-> "none"]
    /\ phase = "down" /\ session = 0
    /\ listener = Between
    /\ queue = <<>> /\ raised = FALSE /\ executing = 0
    /\ outcome = [u \in Updates |-> "none"]
    /\ absorbed = 0 /\ accepted = <<>> /\ begun = <<>> /\ reached = {}

-----------------------------------------------------------------------------
(* RevitMCPServer.process_request and RevitNamedPipeClient.send_command.   *)

Asks(c, f) == /\ client[c].stage = "idle" /\ asked < MaxUpdates
              /\ asked' = asked + 1
              /\ flaw' = [flaw EXCEPT ![asked + 1] = f]

Answered(u, what) == answer' = [answer EXCEPT ![u] = what]

\* The client is about to open the pipe.
Forwards(c) ==
    client' = [client EXCEPT ![c] = [stage |-> "forward", update |-> asked', read |-> "nothing"]]

\* enqueue raises ValueError for an update it finds invalid, or Full after its timeout:
\* the request is refused.
UpdateRefused(c) ==
    /\ Asks(c, "none") /\ Answered(asked', "refused")
    /\ UNCHANGED <<client, local, addinVars>>

\* Every action has priority 100, so that the second one is compared with the
\* first: TypeError, which _handle_update_bim_parameter does not catch, after
\* heappush has appended the action.  Of the first one, float() may refuse the
\* value: outside any try, and after the action was enqueued.
UpdateRaises(c) ==
    /\ local[c] < LocalCap
    /\ local' = [local EXCEPT ![c] = @ + 1]
    /\ Asks(c, "none") /\ Answered(asked', "raised")
    /\ UNCHANGED <<client, addinVars>>

\* _handle_room_classification: the action is only put into the server's queue.
Classify(c) ==
    /\ local[c] = 0
    /\ local' = [local EXCEPT ![c] = 1]
    /\ Asks(c, "none") /\ Answered(asked', "queued")
    /\ UNCHANGED <<client, addinVars>>

\* _handle_update_bim_parameter: into the server's queue, then to the pipe.
Update(c) ==
    /\ local[c] = 0
    /\ local' = [local EXCEPT ![c] = 1]
    /\ Asks(c, "none")
    /\ Forwards(c)
    /\ UNCHANGED <<answer, addinVars>>

\* The server's process is started anew, with an empty queue.
NewServer(c) ==
    /\ client[c].stage = "idle" /\ local[c] > 0
    /\ local' = [local EXCEPT ![c] = 0]
    /\ UNCHANGED <<client, asked, flaw, answer, addinVars>>

\* A script sends a command with the client of its own.
SendDirectly(c, f) ==
    /\ Asks(c, f)
    /\ Forwards(c)
    /\ UNCHANGED <<local, answer, addinVars>>

\* CreateFile succeeds on the instance that is listening, and fails when there
\* is none: Revit is down, or the listener is busy with another client.
Connect(c) ==
    /\ client[c].stage = "forward" /\ listener.stage = "listening"
    /\ client' = [client EXCEPT ![c].stage = "connected"]
    /\ listener' = [stage |-> "connected", peer |-> c]
    /\ UNCHANGED <<local, asked, flaw, answer, phase, session, queue, raised,
                   executing, outcome, absorbed, accepted, begun, reached>>

ConnectFails(c) ==
    /\ client[c].stage = "forward" /\ listener.stage # "listening"
    /\ client' = [client EXCEPT ![c] = Idle]
    /\ Answered(client[c].update, "error")
    /\ UNCHANGED <<local, asked, flaw, addinVars>>

Write(c) ==
    /\ client[c].stage = "connected" /\ client[c].read = "nothing"
    /\ client' = [client EXCEPT ![c].stage = "written"]
    /\ UNCHANGED <<local, asked, flaw, answer, addinVars>>

\* The pipe broke before the write: WriteFile raises, out of send_command.
WriteFails(c) ==
    /\ client[c].stage = "connected" /\ client[c].read = "broken"
    /\ client' = [client EXCEPT ![c] = Idle]
    /\ Answered(client[c].update, "error")
    /\ UNCHANGED <<local, asked, flaw, addinVars>>

\* Mutated form of ReadAnswer: only an error that was read counts as one.
ReadAnswerTrusting(c) ==
    /\ client[c].stage = "written" /\ client[c].read # "nothing"
    /\ client' = [client EXCEPT ![c] = Idle]
    /\ Answered(client[c].update,
                IF client[c].read = "error" THEN "error" ELSE "forwarded")
    /\ UNCHANGED <<local, asked, flaw, addinVars>>

\* ReadFile returns the answer; of a broken pipe it makes "Empty response".
ReadAnswer(c) ==
    /\ client[c].stage = "written" /\ client[c].read # "nothing"
    /\ client' = [client EXCEPT ![c] = Idle]
    /\ Answered(client[c].update,
                IF client[c].read = "queued" THEN "forwarded" ELSE "error")
    /\ UNCHANGED <<local, asked, flaw, addinVars>>

-----------------------------------------------------------------------------
(* NamedPipeServer.ListenLoop, on its background thread.                   *)

clientSide == <<local, asked, flaw, answer>>
sessionVars == <<phase, session>>
historyVars == <<absorbed, accepted, begun, reached>>

\* The loop begins anew unless it was cancelled.
Listen ==
    /\ phase = "up" /\ listener.stage = "between"
    /\ listener' = [listener EXCEPT !.stage = "listening"]
    /\ UNCHANGED <<client, clientSide, sessionVars, queue, raised, executing,
                   outcome, historyVars>>

\* is_available connects and closes: the listener reads nothing, and begins anew.
Probe ==
    /\ listener.stage = "listening"
    /\ listener' = Between
    /\ UNCHANGED <<client, clientSide, sessionVars, queue, raised, executing,
                   outcome, historyVars>>

\* The pipe is disposed: whoever is connected reads this, or finds it broken.
Hangs(what) ==
    /\ listener' = Between
    /\ client' = [client EXCEPT ![listener.peer].read = what]

Handled == client[listener.peer].update

\* The command is read, and BuildAction finds what is wrong with it.
Read ==
    /\ listener.stage = "connected" /\ client[listener.peer].stage = "written"
    /\ \/ /\ flaw[Handled] = "none"
          /\ listener' = [listener EXCEPT !.stage = "built"]
          /\ UNCHANGED client
       \/ flaw[Handled] = "bad" /\ \E what \in {"error", "broken"} : Hangs(what)
    /\ UNCHANGED <<clientSide, sessionVars, queue, raised, executing, outcome,
                   historyVars>>

\* Mutated form of EnqueueAction: the newest action is put in front.
EnqueueInFront ==
    /\ listener.stage = "built"
    /\ listener' = [listener EXCEPT !.stage = "enqueued"]
    /\ queue' = <<Handled>> \o queue
    /\ accepted' = Append(accepted, Handled)
    /\ reached' = reached \cup {Handled}
    /\ UNCHANGED <<client, clientSide, sessionVars, raised, executing, outcome,
                   absorbed, begun>>

\* EnqueueAction, under the lock of the queue.
EnqueueAction ==
    /\ listener.stage = "built"
    /\ listener' = [listener EXCEPT !.stage = "enqueued"]
    /\ queue' = Append(queue, Handled)
    /\ accepted' = Append(accepted, Handled)
    /\ reached' = reached \cup {Handled}
    /\ UNCHANGED <<client, clientSide, sessionVars, raised, executing, outcome,
                   absorbed, begun>>

\* Mutated form of Raise: Revit is only called for the first of the queue.
RaiseForFirst ==
    /\ listener.stage = "enqueued"
    /\ listener' = [listener EXCEPT !.stage = "answer"]
    /\ raised' = (raised \/ Len(queue) = 1)
    /\ absorbed' = IF raised THEN absorbed + 1 ELSE absorbed
    /\ UNCHANGED <<client, clientSide, sessionVars, queue, executing, outcome,
                   accepted, begun, reached>>

\* Raise: one pending event stands for any number of calls.
Raise ==
    /\ listener.stage = "enqueued"
    /\ listener' = [listener EXCEPT !.stage = "answer"]
    /\ raised' = TRUE
    /\ absorbed' = IF raised THEN absorbed + 1 ELSE absorbed
    /\ UNCHANGED <<client, clientSide, sessionVars, queue, executing, outcome,
                   accepted, begun, reached>>

\* OnShutdown has disposed of the event: Raise throws, and there is no answer.
RaiseFails ==
    /\ listener.stage = "enqueued" /\ phase = "stopping"
    /\ Hangs("broken")
    /\ UNCHANGED <<clientSide, sessionVars, queue, raised, executing, outcome,
                   historyVars>>

\* SendResponse, whose failure is swallowed; the pipe is then disposed of.
Respond ==
    /\ listener.stage = "answer"
    /\ \E what \in {"queued", "broken"} : Hangs(what)
    /\ UNCHANGED <<clientSide, sessionVars, queue, raised, executing, outcome,
                   historyVars>>

\* Stop cancels the loop, which then ends where it waits or has just connected.
Cancelled ==
    /\ phase = "stopping"
    /\ \/ /\ listener.stage = "listening"
          /\ listener' = Between
          /\ UNCHANGED client
       \/ listener.stage = "connected" /\ Hangs("broken")
    /\ UNCHANGED <<clientSide, sessionVars, queue, raised, executing, outcome,
                   historyVars>>

-----------------------------------------------------------------------------
(* ThreadSafeQueueHandler.Execute, on Revit's user interface thread.       *)

Ended(u, how) == outcome' = [outcome EXCEPT ![u] = how]

\* Revit calls Execute once for the pending event.
Called == phase = "up" /\ raised /\ executing = 0 /\ raised' = FALSE

\* One action is dequeued, under the lock of the queue, which is never empty then
\* (StrandedIsExplained): the early return for an empty one is not taken.
Dequeues == /\ queue # <<>>
            /\ queue' = Tail(queue)
            /\ begun' = Append(begun, Head(queue))
            /\ UNCHANGED <<client, clientSide, sessionVars, listener, absorbed,
                           accepted, reached>>

\* No document is open: "Action discarded".
ExecuteDiscards ==
    /\ Called /\ Dequeues
    /\ Ended(Head(queue), "discarded")
    /\ UNCHANGED executing

Execute == /\ Called /\ Dequeues
           /\ executing' = Head(queue)
           /\ UNCHANGED outcome

\* Mutated form of ExecuteEnds: it returns once nothing else is waiting.
ExecuteEndsWhenQuiet ==
    /\ executing # 0 /\ queue = <<>>
    /\ Ended(executing, "executed")
    /\ executing' = 0
    /\ UNCHANGED <<client, clientSide, sessionVars, listener, queue, raised,
                   historyVars>>

\* The transaction commits, or an exception of the action rolls it back: which
\* of the two is told to nobody.
ExecuteEnds ==
    /\ executing # 0
    /\ Ended(executing, "executed")
    /\ executing' = 0
    /\ UNCHANGED <<client, clientSide, sessionVars, listener, queue, raised,
                   historyVars>>

-----------------------------------------------------------------------------
(* FireAIApplication, and the fate of the process it lives in.             *)

\* OnShutdown runs on the user interface thread: no Execute during or after it.
OnShutdown ==
    /\ phase = "up" /\ executing = 0
    /\ phase' = "stopping"
    /\ UNCHANGED <<client, clientSide, session, listener, queue, raised,
                   executing, outcome, historyVars>>

\* Revit ends, closed or crashed: the queue and the pipe go with it.
RevitEnds ==
    /\ phase # "down"
    /\ phase' = "down"
    /\ listener' = Between
    /\ client' = IF listener.peer \in Clients
                 THEN [client EXCEPT ![listener.peer].read = "broken"] ELSE client
    /\ queue' = <<>> /\ raised' = FALSE /\ executing' = 0
    /\ absorbed' = 0 /\ accepted' = <<>> /\ begun' = <<>>
    /\ UNCHANGED <<clientSide, session, outcome, reached>>

OnStartup ==
    /\ phase = "down" /\ session < MaxSessions
    /\ phase' = "up" /\ session' = session + 1
    /\ UNCHANGED <<client, clientSide, listener, queue, raised, executing,
                   outcome, historyVars>>

-----------------------------------------------------------------------------
Asking == \/ \E c \in Servers : \/ UpdateRefused(c) \/ UpdateRaises(c)
                                \/ Classify(c) \/ Update(c) \/ NewServer(c)
          \/ \E c \in Direct, f \in Flaws : SendDirectly(c, f)

Sending(c) == \/ Connect(c) \/ ConnectFails(c)
              \/ Write(c) \/ WriteFails(c) \/ ReadAnswer(c)

Listening == \/ Listen \/ Read \/ EnqueueAction \/ Raise \/ RaiseFails
             \/ Respond \/ Cancelled

Executing == ExecuteDiscards \/ Execute \/ ExecuteEnds

Environment == Probe \/ OnShutdown \/ RevitEnds \/ OnStartup

BridgeNext == \/ Asking \/ Listening \/ Executing \/ Environment
              \/ \E c \in Clients : Sending(c)

\* The clients' calls and the listener's thread go on, and Revit calls Execute
\* for a pending event as long as it is up and idle.
BridgeSpec == /\ BridgeInit /\ [][BridgeNext]_bridgeVars
              /\ \A c \in Clients : WF_bridgeVars(Sending(c))
              /\ WF_bridgeVars(Listening) /\ WF_bridgeVars(Executing)

-----------------------------------------------------------------------------
TypeOK ==
    /\ client \in [Clients -> [stage : {"idle", "forward", "connected", "written"},
                               update : 0 .. MaxUpdates,
                               read : {"nothing", "queued", "error", "broken"}]]
    /\ local \in [Servers -> 0 .. LocalCap]
    /\ asked \in 0 .. MaxUpdates /\ flaw \in [Updates -> Flaws]
    /\ answer \in [Updates -> {"none", "refused", "raised", "queued", "forwarded", "error"}]
    /\ phase \in {"up", "stopping", "down"} /\ session \in 0 .. MaxSessions
    /\ listener \in [stage : {"between", "listening", "connected", "built",
                              "enqueued", "answer"},
                     peer : Clients \cup {"nobody"}]
    /\ queue \in Seq(Updates) /\ accepted \in Seq(Updates) /\ begun \in Seq(Updates)
    /\ raised \in BOOLEAN /\ absorbed \in Nat
    /\ executing \in 0 .. MaxUpdates /\ reached \subseteq Updates
    /\ outcome \in [Updates -> {"none", "discarded", "executed"}]

\* Within a session of Revit the actions begin in the order in which they were
\* accepted, each once, and none is lost between the listener's thread and
\* Revit's (_actionQueue under _lockObj, in two threads).
NothingLostOrTwice == accepted = begun \o queue

\* What is said to be forwarded was put into the add-in's queue, whatever
\* happened to the pipe; what was refused, or raised, in the server's own queue
\* never was.
AnswersAreTrue ==
    \A u \in Updates : /\ answer[u] = "forwarded" => u \in reached
                       /\ answer[u] \in {"refused", "raised", "queued"} => u \notin reached

\* Each Execute takes one action, and Revit absorbs a Raise while another is
\* pending: exactly as many actions wait for no event as calls were absorbed,
\* and no event finds the queue empty (ThreadSafeQueueHandler.cs:101).
StrandedIsExplained ==
    phase = "up" =>
        Len(queue) = absorbed + (IF raised THEN 1 ELSE 0)
                              + (IF listener.stage = "enqueued" THEN 1 ELSE 0)

\* An accepted action is executed or discarded, unless the session ends or a
\* Raise is absorbed, after which one may wait for ever.
AcceptedIsExecuted ==
    \A u \in Updates :
        u \in ToSet(accepted) ~> (outcome[u] # "none" \/ phase # "up" \/ absorbed > 0)

=============================================================================

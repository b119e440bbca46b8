---------------------------- MODULE RoomLifecycle ----------------------------
(***************************************************************************)
(* fireai/core/room_lifecycle.py: the approval workflow of every room      *)
(* (RoomLifecycle) and the registry over them (RoomLifecycleManager).      *)
(*                                                                         *)
(* transition_to changes a room under that room's own lock and publishes   *)
(* afterwards with no lock held.  The building-wide questions hold the     *)
(* manager's lock for the whole call but read the rooms one by one, so     *)
(* rooms move between two reads.  reset_room puts a new object in the map; *)
(* the handles given out earlier still reach the old one.                  *)
(***************************************************************************)
EXTENDS Naturals, Sequences, FiniteSets

CONSTANTS
    Threads,     \* threads that use the manager and the rooms
    Rooms,       \* room ids
    Goals,       \* bound: the states the clients ask for
    Asks,        \* bound: the building-wide questions they ask
    MaxObjects,  \* bound: RoomLifecycle objects created in one behaviour
    MaxMoves     \* bound: transitions of one object

ASSUME RoomBounds == MaxObjects \in Nat /\ MaxMoves \in Nat

RoomState == {"PENDING", "ANALYZING", "OPTIMIZED", "VERIFYING", "VERIFIED",
              "WARNING", "CERTIFYING", "CERTIFIED", "FAILED", "REJECTED"}

Questions == {"all_certified", "any_failed", "any_warnings", "building_status"}

ASSUME GoalsAssumption == Goals \subseteq RoomState
ASSUME AsksAssumption == Asks \subseteq Questions

\* Mutated form of Legal: a warned room goes straight to its certificate.
LegalSkipsOverride == [
    PENDING    |-> {"ANALYZING", "FAILED"},
    ANALYZING  |-> {"OPTIMIZED", "FAILED"},
    OPTIMIZED  |-> {"VERIFYING", "FAILED"},
    VERIFYING  |-> {"VERIFIED", "WARNING", "FAILED"},
    WARNING    |-> {"VERIFYING", "CERTIFYING", "FAILED"},
    VERIFIED   |-> {"CERTIFYING", "FAILED"},
    CERTIFYING |-> {"CERTIFIED", "FAILED"},
    CERTIFIED  |-> {"REJECTED"},
    FAILED     |-> {"PENDING"},
    REJECTED   |-> {"PENDING"}]

\* LEGAL_TRANSITIONS
Legal == [
    PENDING    |-> {"ANALYZING", "FAILED"},
    ANALYZING  |-> {"OPTIMIZED", "FAILED"},
    OPTIMIZED  |-> {"VERIFYING", "FAILED"},
    VERIFYING  |-> {"VERIFIED", "WARNING", "FAILED"},
    WARNING    |-> {"VERIFYING", "VERIFIED", "FAILED"},
    VERIFIED   |-> {"CERTIFYING", "FAILED"},
    CERTIFYING |-> {"CERTIFIED", "FAILED"},
    CERTIFIED  |-> {"REJECTED"},
    FAILED     |-> {"PENDING"},
    REJECTED   |-> {"PENDING"}]

VARIABLES
    created,    \* RoomLifecycle objects created so far; they are numbered from 1
    state,      \* _state of each object
    trail,      \* _transitions of each object: <<from_state, to_state>> pairs
    rooms,      \* _rooms of the manager: room id -> object, or NoObject
    announced,  \* the entries of each object's trail that EventBus.publish got
    pc,         \* idle, about to publish, or inside a building-wide question
    due,        \* the transition a thread is about to publish: <<object, entry>>
    asked,      \* the question being answered under the manager's lock
    read,       \* the room states it has read so far
    mark        \* history: how long each trail was when the question was asked

roomVars == <<created, state, trail, rooms, announced, pc, due, asked, read, mark>>
asking == <<asked, read, mark>>

Objects == 1 .. MaxObjects
NoObject == 0
Unread == "unread"

RoomInit ==
    /\ created = 0
    /\ state = [o \in Objects |-> "PENDING"]
    /\ trail = [o \in Objects |-> <<>>]
    /\ rooms = [r \in Rooms |-> NoObject]
    /\ announced = [o \in Objects |-> {}]
    /\ pc = [t \in Threads |-> "idle"]
    /\ due = [t \in Threads |-> <<NoObject, 0>>]
    /\ asked = "nothing"
    /\ read = [r \in Rooms |-> Unread]
    /\ mark = [o \in Objects |-> 0]

\* No thread is inside a call that keeps the manager's lock between its steps.
ManagerFree == \A t \in Threads : pc[t] # "asking"

Registered == {r \in Rooms : rooms[r] # NoObject}

-----------------------------------------------------------------------------
(* The registry.                                                           *)

\* Mutated form of Enter: the map is changed without the manager's lock.
EnterUnlocked(t, r) ==
    /\ pc[t] = "idle"
    /\ created < MaxObjects
    /\ created' = created + 1
    /\ rooms' = [rooms EXCEPT ![r] = created + 1]
    /\ UNCHANGED <<state, trail, announced, pc, due, asking>>

\* A new RoomLifecycle, PENDING and without history, becomes the room's.
Enter(t, r) ==
    /\ pc[t] = "idle"
    /\ ManagerFree
    /\ created < MaxObjects
    /\ created' = created + 1
    /\ rooms' = [rooms EXCEPT ![r] = created + 1]
    /\ UNCHANGED <<state, trail, announced, pc, due, asking>>

\* register_room; a known room is returned as it is and nothing changes.
RegisterRoom(t, r) == rooms[r] = NoObject /\ Enter(t, r)

\* reset_room; KeyError for an unknown room.  The state of the old object is
\* not looked at, and no transition is recorded or published.
ResetRoom(t, r) == rooms[r] # NoObject /\ Enter(t, r)

-----------------------------------------------------------------------------
(* A transition, by any thread that holds the object's handle.             *)

\* Mutated form of TransitionTo: from_state is read after the assignment.
TransitionReadsLate(t, o, new) ==
    /\ pc[t] = "idle"
    /\ o <= created
    /\ Len(trail[o]) < MaxMoves
    /\ new \in Legal[state[o]]
    /\ state' = [state EXCEPT ![o] = new]
    /\ trail' = [trail EXCEPT ![o] = Append(trail[o], <<new, new>>)]
    /\ due' = [due EXCEPT ![t] = <<o, Len(trail[o]) + 1>>]
    /\ pc' = [pc EXCEPT ![t] = "publish"]
    /\ UNCHANGED <<created, rooms, announced, asking>>

\* transition_to's lock section; an illegal transition raises and changes
\* nothing.
TransitionTo(t, o, new) ==
    /\ pc[t] = "idle"
    /\ o <= created
    /\ Len(trail[o]) < MaxMoves
    /\ new \in Legal[state[o]]
    /\ state' = [state EXCEPT ![o] = new]
    /\ trail' = [trail EXCEPT ![o] = Append(trail[o], <<state[o], new>>)]
    /\ due' = [due EXCEPT ![t] = <<o, Len(trail[o]) + 1>>]
    /\ pc' = [pc EXCEPT ![t] = "publish"]
    /\ UNCHANGED <<created, rooms, announced, asking>>

\* _publish_transition_event, with no lock held; what a handler raises is
\* swallowed by the bus and, again, here.
Publish(t) ==
    LET o == due[t][1]
        n == due[t][2]
    IN  /\ pc[t] = "publish"
        /\ announced' = [announced EXCEPT ![o] = announced[o] \cup {n}]
        /\ due' = [due EXCEPT ![t] = <<NoObject, 0>>]
        /\ pc' = [pc EXCEPT ![t] = "idle"]
        /\ UNCHANGED <<created, state, trail, rooms, asking>>

-----------------------------------------------------------------------------
(* The building-wide questions.                                            *)

\* The call takes the manager's lock.
Ask(t, q) ==
    /\ pc[t] = "idle"
    /\ ManagerFree
    /\ pc' = [pc EXCEPT ![t] = "asking"]
    /\ asked' = q
    /\ read' = [r \in Rooms |-> Unread]
    /\ mark' = [o \in Objects |-> Len(trail[o])]
    /\ UNCHANGED <<created, state, trail, rooms, announced, due>>

\* A read state that makes all() or any() stop; a count never stops.
Decides(q, s) ==
    \/ q = "all_certified" /\ s \notin {"CERTIFIED", Unread}
    \/ q = "any_failed" /\ s = "FAILED"
    \/ q = "any_warnings" /\ s = "WARNING"

Decided == \E r \in Rooms : Decides(asked, read[r])

\* lifecycle.state of the next room, under that room's lock.  The code takes
\* the rooms in the order they were registered, the model in any order.
ReadRoom(t, r) ==
    /\ pc[t] = "asking"
    /\ ~Decided
    /\ r \in Registered
    /\ read[r] = Unread
    /\ read' = [read EXCEPT ![r] = state[rooms[r]]]
    /\ UNCHANGED <<created, state, trail, rooms, announced, pc, due, asked, mark>>

\* The question is answered from what was read.
Complete == Decided \/ \A r \in Registered : read[r] # Unread

\* The call returns its answer and releases the lock.
Answer(t) ==
    /\ pc[t] = "asking"
    /\ Complete
    /\ pc' = [pc EXCEPT ![t] = "idle"]
    /\ asked' = "nothing"
    /\ read' = [r \in Rooms |-> Unread]
    /\ mark' = [o \in Objects |-> 0]
    /\ UNCHANGED <<created, state, trail, rooms, announced, due>>

\* What all_certified answers when the question is complete.
AnswersCertified == Registered # {} /\ \A r \in Registered : read[r] = "CERTIFIED"

-----------------------------------------------------------------------------
RoomNext ==
    \E t \in Threads :
        \/ \E r \in Rooms : RegisterRoom(t, r) \/ ResetRoom(t, r) \/ ReadRoom(t, r)
        \/ \E o \in Objects, g \in Goals : TransitionTo(t, o, g)
        \/ \E q \in Asks : Ask(t, q)
        \/ Publish(t)
        \/ Answer(t)

RoomSpec == RoomInit /\ [][RoomNext]_roomVars

-----------------------------------------------------------------------------
(* Properties.                                                             *)

RoomTypeOK ==
    /\ created \in 0 .. MaxObjects
    /\ state \in [Objects -> RoomState]
    /\ trail \in [Objects -> Seq(RoomState \X RoomState)]
    /\ rooms \in [Rooms -> 0 .. created]
    /\ announced \in [Objects -> SUBSET Nat]
    /\ pc \in [Threads -> {"idle", "publish", "asking"}]
    /\ due \in [Threads -> (0 .. MaxObjects) \X Nat]
    /\ asked \in Questions \cup {"nothing"}
    /\ read \in [Rooms -> RoomState \cup {Unread}]
    /\ mark \in [Objects -> Nat]

\* The state of o after its first n transitions.
StateAt(o, n) == IF n = 0 THEN "PENDING" ELSE trail[o][n][2]

\* The recorded history of a room (room_lifecycle.py:298-313) explains its
\* state: every entry is a legal transition out of the state the entry before
\* it led to, the first one leaves PENDING, and the last one leads to _state.
HistoryExplains ==
    \A o \in Objects :
        /\ state[o] = StateAt(o, Len(trail[o]))
        /\ \A n \in 1 .. Len(trail[o]) :
              /\ trail[o][n][1] = StateAt(o, n - 1)
              /\ trail[o][n][2] \in Legal[trail[o][n][1]]

Sealed == {"VERIFIED", "CERTIFYING", "CERTIFIED"}

\* A room that is certified, or on its way there, was VERIFIED after it last
\* was PENDING, FAILED or REJECTED, and nothing disturbed it since: no path
\* through the table (room_lifecycle.py:103-114) certifies an unverified room.
CertifiedWasVerified ==
    \A o \in Objects :
        state[o] \in Sealed =>
            \E n \in 1 .. Len(trail[o]) :
                /\ trail[o][n][2] = "VERIFIED"
                /\ \A m \in n .. Len(trail[o]) : trail[o][m][2] \in Sealed

\* The threads that are about to publish a transition of o.
Announcing(o) == {t \in Threads : pc[t] = "publish" /\ due[t][1] = o}

\* Every recorded transition is published once and none is invented: the
\* entries of an object's trail are those already announced and those some
\* thread is about to announce, and no entry is with two threads
\* (room_lifecycle.py:316-318).
AnnouncedOnce ==
    \A o \in Objects :
        /\ 1 .. Len(trail[o]) = announced[o] \cup {due[t][2] : t \in Announcing(o)}
        /\ \A t \in Announcing(o) : due[t][2] \notin announced[o]
        /\ \A t, u \in Announcing(o) : due[t][2] = due[u][2] => t = u

\* Each state a building-wide question reads is one the room that is registered
\* now was in at some moment of the call, although rooms move meanwhile
\* (room_lifecycle.py:611-619, 634-638).
ReadWhatWas ==
    ~ManagerFree =>
        \A r \in Registered :
            read[r] # Unread =>
                \E n \in mark[rooms[r]] .. Len(trail[rooms[r]]) : read[r] = StateAt(rooms[r], n)

\* The hard gate for submission (room_lifecycle.py:625-632): when all_certified
\* answers True and no room was rejected while it ran, every registered room
\* is CERTIFIED at the instant of the answer, although it read them one by one.
GateHolds ==
    (asked = "all_certified" /\ Complete /\ AnswersCertified) =>
        \A r \in Registered :
            LET o == rooms[r]
            IN  (\A n \in mark[o] + 1 .. Len(trail[o]) : trail[o][n][2] # "REJECTED")
                    => state[o] = "CERTIFIED"
=============================================================================
